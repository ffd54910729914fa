-------------------------------- MODULE Sitze --------------------------------
(***************************************************************************)
(* The seats of one organisation (db-gateway, lib/sitze.ts): bought, given *)
(* to members, taken back, cut down, and the plan changes noted for the    *)
(* end of the cycle, which the hourly cron carries out.  Every request     *)
(* runs in a Postgres transaction of its own at READ COMMITTED: a          *)
(* statement sees what is committed and what its own transaction wrote,    *)
(* an UPDATE waits for the row's lock.  Nothing in the schema keeps a      *)
(* member from holding two seats.  The rows of a member's account and      *)
(* periods are locked too; only transactions for one member meet there.    *)
(*                                                                         *)
(* A seat's plan never changes, so PlanVon is a constant: the id a         *)
(* purchase takes fixes the plan.  An open PlanZeitraum is named by its    *)
(* seat (Niemand: the free plan).  The check of the free places may refuse *)
(* at any time (Abgelehnt): how many are left is left open.                *)
(***************************************************************************)
EXTENDS Integers, FiniteSets

CONSTANTS
    Mitglied,        \* people who are or were members of the organisation
    Sitz,            \* ids of seats
    Plan,            \* the paid plans
    PlanVon,         \* the plan of a seat
    Rang,            \* planRang
    Lauf,            \* transactions of requests
    Cron,            \* the transaction of the hourly cron
    Niemand,         \* no member, no seat, no transaction
    Doppelt,         \* whether two transactions for one member may overlap
    Hand,            \* bound: seats that are bought or cut down on their own
    MaxWechsel,      \* bound: how often somebody leaves
    MaxStoerungen    \* bound: transactions that fail for a reason of their own

Ziel   == Plan \cup {"free"}
Offen  == Ziel \cup {"kein"}
Laeufe == Lauf \cup {Cron}

ASSUME SitzAnnahme ==
    /\ PlanVon \in [Sitz -> Plan]
    /\ "free" \notin Plan /\ "kein" \notin Plan
    /\ Rang \in [Ziel -> Nat]
    /\ Niemand \notin Mitglied \cup Sitz \cup Laeufe
    /\ Cron \notin Lauf
    /\ Doppelt \in BOOLEAN
    /\ Hand \subseteq Sitz
    /\ MaxWechsel \in Nat /\ MaxStoerungen \in Nat

VARIABLES
    inhaber,      \* Sitz.actorId, committed
    laeuft,       \* rows of Sitz without endetAm
    reduziert,    \* rows with reduziertZum
    konto,        \* tier of the member's own TenantBilling row
    zeitraum,     \* the seats of the member's open PlanZeitraum rows
    geplant,      \* sitzeGeplant.wechsel of the organisation
    mitglieder,   \* TenantMember
    sperre,       \* who has locked the row of a seat
    neu,          \* its holder in the transaction that has locked it
    org,          \* who has locked the organisation's TenantBilling row
    schritt,      \* where a transaction stands
    art,          \* what it was started for
    auftrag,      \* the plan it is to give to whom
    rest,         \* members it has still to look at
    wer,          \* the member it is at
    liste,        \* the list of changes as it has read it
    bisher,       \* the seat of the member as it has read it
    wahl,         \* the seat it has chosen
    fertig,       \* members it has changed
    alt,          \* the open periods it has closed
    bewegt, gestoert

daten == <<inhaber, laeuft, reduziert, konto, zeitraum, geplant, mitglieder>>
locks == <<sperre, neu, org>>
zeiger == <<bisher, wahl, fertig, alt>>
zaehler == <<bewegt, gestoert>>
vars == <<daten, locks, schritt, art, auftrag, rest, wer, liste, zeiger, zaehler>>

Keiner == [m \in Mitglied |-> "kein"]
Schritte == {"ruht", "liste", "schreiben", "sitz", "waehlen", "freigeben", "naechster"}
Arten == {"sofort", "vormerken", "austritt", "cron"}

Init ==
    /\ inhaber = [s \in Sitz |-> Niemand]
    /\ laeuft = {} /\ reduziert = {}
    /\ konto = [m \in Mitglied |-> "free"]
    /\ zeitraum = [m \in Mitglied |-> {}]
    /\ geplant = Keiner
    /\ mitglieder = Mitglied
    /\ sperre = [s \in Sitz |-> Niemand]
    /\ neu = [s \in Sitz |-> Niemand]
    /\ org = Niemand
    /\ schritt = [l \in Laeufe |-> "ruht"]
    /\ art = [l \in Laeufe |-> "sofort"]
    /\ auftrag = [l \in Laeufe |-> Keiner]
    /\ rest = [l \in Laeufe |-> {}]
    /\ wer = [l \in Laeufe |-> Niemand]
    /\ liste = [l \in Laeufe |-> Keiner]
    /\ bisher = [l \in Laeufe |-> Niemand]
    /\ wahl = [l \in Laeufe |-> Niemand]
    /\ fertig = [l \in Laeufe |-> {}]
    /\ alt = [l \in Laeufe |-> [m \in Mitglied |-> {}]]
    /\ bewegt = 0 /\ gestoert = 0

\* What transaction l sees: its own writes, and otherwise what is committed.
Inhaber(l, s) == IF sperre[s] = l THEN neu[s] ELSE inhaber[s]
Vorhanden(l)  == laeuft \cup {s \in Sitz : sperre[s] = l}
SitzeVon(l, m) == {s \in Vorhanden(l) : Inhaber(l, s) = m}
Meine(l) == {s \in Sitz : sperre[s] = l}
Betroffen(l) == {m \in Mitglied : auftrag[l][m] # "kein"}

\* An id a new row can take: nothing names it any more.
Unbenutzt(s) ==
    /\ s \notin laeuft /\ sperre[s] = Niemand
    /\ \A m \in Mitglied : s \notin zeitraum[m]
    /\ \A l \in Laeufe : bisher[l] # s /\ \A m \in Mitglied : s \notin alt[l][m]

-----------------------------------------------------------------------------
(* A transaction begins.  The route reads the member's seat first, to see   *)
(* whether the new plan is lower (routes/v1/sitze.ts:145).                  *)

Beginnt(l, a, was, zuerst, welche) ==
    /\ schritt[l] = "ruht"
    /\ schritt' = [schritt EXCEPT ![l] = zuerst]
    /\ art' = [art EXCEPT ![l] = a]
    /\ auftrag' = [auftrag EXCEPT ![l] = was]
    /\ rest' = [rest EXCEPT ![l] = welche]
    /\ Doppelt \/ \A k \in Laeufe, m \in Mitglied : was[m] = "kein" \/ auftrag[k][m] = "kein"
    /\ UNCHANGED <<daten, locks, wer, zeiger>>

\* PUT mitglieder/{actorId}/sitz that takes effect at once, and DELETE
\* .../sitz/wechsel, which is a PUT of the plan m already has.  Only a seat
\* asks whether m is a member.
Sofort(l, m, p) ==
    /\ Beginnt(l, "sofort", [Keiner EXCEPT ![m] = p], "liste", {m})
    /\ UNCHANGED <<liste, zaehler>>

\* PUT mitglieder/{actorId}/sitz to a lower plan: from the end of the cycle.
Vormerken(l, m, p) ==
    /\ \E s \in laeuft : inhaber[s] = m /\ Rang[p] < Rang[PlanVon[s]]
    /\ Beginnt(l, "vormerken", [Keiner EXCEPT ![m] = p], "liste", {})
    /\ UNCHANGED <<liste, zaehler>>

\* removeMember: the member goes, the seat becomes free.
Austritt(l, m) ==
    /\ m \in mitglieder /\ bewegt < MaxWechsel
    /\ bewegt' = bewegt + 1
    /\ Beginnt(l, "austritt", [Keiner EXCEPT ![m] = "free"], "naechster", {m})
    /\ UNCHANGED <<liste, gestoert>>

\* faelligePlanWechselAusfuehren: the list is read before BEGIN, and the
\* changes that are due (ihre) are carried out in one transaction.  The read
\* counts as its first step: what ~Doppelt keeps apart from the transaction is
\* kept apart from the time between the read and BEGIN too.
CronBeginnt(ihre) ==
    /\ ihre # {} /\ \A m \in ihre : geplant[m] # "kein"
    /\ liste' = [liste EXCEPT ![Cron] = geplant]
    /\ Beginnt(Cron, "cron", [m \in Mitglied |-> IF m \in ihre THEN geplant[m] ELSE "kein"],
               "naechster", ihre)
    /\ UNCHANGED zaehler

-----------------------------------------------------------------------------
(* planWechselWiderrufen and planWechselVormerken: read the list, change it *)
(* in memory, write it back whole.                                          *)

ListeLesen(l) ==
    /\ schritt[l] = "liste"
    /\ liste' = [liste EXCEPT ![l] = geplant]
    /\ schritt' = [schritt EXCEPT ![l] =
         IF art[l] = "vormerken" \/ \E m \in Betroffen(l) : geplant[m] # "kein"
         THEN "schreiben" ELSE "naechster"]
    /\ UNCHANGED <<daten, locks, art, auftrag, rest, wer, zeiger, zaehler>>

OrgFrei(l) == org \in {Niemand, l}

ListeSchreiben(l) ==
    /\ schritt[l] = "schreiben" /\ OrgFrei(l)
    /\ org' = l
    /\ schritt' = [schritt EXCEPT ![l] = "naechster"]
    /\ UNCHANGED <<daten, sperre, neu, art, auftrag, rest, wer, liste, zeiger, zaehler>>

\* The list a transaction leaves behind: what it has read, with its change.
NeueListe(l) ==
    [m \in Mitglied |-> IF auftrag[l][m] = "kein" THEN liste[l][m]
                        ELSE IF art[l] = "vormerken" THEN auftrag[l][m] ELSE "kein"]

\* Mutant: the cron leaves the list as it is.
Schreibt_OhneCron(l) ==
    \/ art[l] = "vormerken"
    \/ art[l] = "sofort" /\ \E m \in Betroffen(l) : liste[l][m] # "kein"

Schreibt(l) ==
    \/ art[l] \in {"vormerken", "cron"}
    \/ art[l] = "sofort" /\ \E m \in Betroffen(l) : liste[l][m] # "kein"

-----------------------------------------------------------------------------
(* sitzZuweisen and sitzEntziehen, one statement that can wait or be        *)
(* overtaken at a time.                                                     *)

Naechster(l, m) ==
    /\ schritt[l] = "naechster" /\ m \in rest[l]
    /\ schritt' = [schritt EXCEPT ![l] = "sitz"]
    /\ wer' = [wer EXCEPT ![l] = m]
    /\ rest' = [rest EXCEPT ![l] = @ \ {m}]
    /\ UNCHANGED <<daten, locks, art, auftrag, liste, zeiger, zaehler>>

ZielVon(l) == auftrag[l][wer[l]]

\* Mutant: sitzZuweisen does not ask for the TenantMember row.
Darf_Jeder(l) == TRUE

Darf(l) == ZielVon(l) = "free" \/ wer[l] \in mitglieder

\* The look for the TenantMember row with sitzVon, and whether anything is to
\* be done.
SitzLesen(l) ==
    /\ schritt[l] = "sitz" /\ Darf(l)
    /\ \E b \in (IF SitzeVon(l, wer[l]) = {} THEN {Niemand} ELSE SitzeVon(l, wer[l])) :
         LET schon == IF b = Niemand THEN ZielVon(l) = "free" ELSE PlanVon[b] = ZielVon(l)
         IN /\ bisher' = [bisher EXCEPT ![l] = b]
            /\ schritt' = [schritt EXCEPT ![l] =
                 IF schon THEN "naechster"
                 ELSE IF ZielVon(l) = "free" THEN "freigeben" ELSE "waehlen"]
    /\ UNCHANGED <<daten, locks, art, auftrag, rest, wer, liste, wahl, fertig, alt, zaehler>>

\* Mutants: a plain SELECT; and one without "actorId" IS NULL.
Waehlbar_OhneSperre(l) ==
    {s \in Vorhanden(l) \ reduziert : PlanVon[s] = ZielVon(l) /\ Inhaber(l, s) = Niemand}
Waehlbar_Vergebene(l) ==
    {s \in Vorhanden(l) \ reduziert : PlanVon[s] = ZielVon(l) /\ sperre[s] \in {Niemand, l}}

\* Free seats of the plan, FOR UPDATE SKIP LOCKED.
Waehlbar(l) ==
    {s \in Vorhanden(l) \ reduziert : /\ PlanVon[s] = ZielVon(l)
                                      /\ Inhaber(l, s) = Niemand
                                      /\ sperre[s] \in {Niemand, l}}

Gewaehlt(l, s) ==
    /\ sperre' = [sperre EXCEPT ![s] = l]
    /\ neu' = [neu EXCEPT ![s] = Niemand]
    /\ wahl' = [wahl EXCEPT ![l] = s]
    /\ schritt' = [schritt EXCEPT ![l] = "freigeben"]
    /\ UNCHANGED <<daten, art, auftrag, rest, wer, liste, bisher, fertig, alt, zaehler>>

FreienWaehlen(l) ==
    /\ schritt[l] = "waehlen"
    /\ \E s \in Waehlbar(l) : Gewaehlt(l, s)
    /\ UNCHANGED org

\* sitzeKaufen within the transaction: a new row, and the organisation's row.
Kaeuflich(l) == {s \in Sitz : Unbenutzt(s) /\ PlanVon[s] = ZielVon(l)}

Dazukaufen(l) ==
    /\ schritt[l] = "waehlen" /\ Waehlbar(l) = {} /\ OrgFrei(l)
    /\ org' = l
    /\ \E s \in Kaeuflich(l) : Gewaehlt(l, s)

\* The old seat becomes free, whoever holds it by now; the new one is given,
\* the open periods are closed and a new one is opened, the account follows.
Freigeben(l) ==
    LET b == bisher[l]
        w == wahl[l]
    IN /\ schritt[l] = "freigeben"
       /\ b \in laeuft => sperre[b] \in {Niemand, l}
       /\ sperre' = [s \in Sitz |-> IF s = b /\ b \in laeuft THEN l ELSE sperre[s]]
       /\ neu' = [s \in Sitz |-> IF s = w THEN wer[l]
                                 ELSE IF s = b /\ b \in laeuft \cup Meine(l) THEN Niemand ELSE neu[s]]
       /\ fertig' = [fertig EXCEPT ![l] = @ \cup {wer[l]}]
       /\ alt' = [alt EXCEPT ![l][wer[l]] = zeitraum[wer[l]]]
       /\ bisher' = [bisher EXCEPT ![l] = Niemand]
       /\ wahl' = [wahl EXCEPT ![l] = Niemand]
       /\ schritt' = [schritt EXCEPT ![l] = "naechster"]
       /\ UNCHANGED <<daten, org, art, auftrag, rest, wer, liste, zaehler>>

-----------------------------------------------------------------------------
(* How a transaction ends.                                                  *)

\* Mutant: a failed request gives its connection back without ROLLBACK.
Ruhe_OhneRollback(l) ==
    /\ schritt' = [schritt EXCEPT ![l] = "ruht"]
    /\ art' = [art EXCEPT ![l] = "sofort"]
    /\ auftrag' = [auftrag EXCEPT ![l] = Keiner]
    /\ rest' = [rest EXCEPT ![l] = {}]
    /\ wer' = [wer EXCEPT ![l] = Niemand]
    /\ liste' = [liste EXCEPT ![l] = Keiner]
    /\ UNCHANGED <<zeiger, locks>>

\* Back to rest: every lock is given up, nothing of the request is kept.
Ruhe(l) ==
    /\ schritt' = [schritt EXCEPT ![l] = "ruht"]
    /\ art' = [art EXCEPT ![l] = "sofort"]
    /\ auftrag' = [auftrag EXCEPT ![l] = Keiner]
    /\ rest' = [rest EXCEPT ![l] = {}]
    /\ wer' = [wer EXCEPT ![l] = Niemand]
    /\ liste' = [liste EXCEPT ![l] = Keiner]
    /\ bisher' = [bisher EXCEPT ![l] = Niemand]
    /\ wahl' = [wahl EXCEPT ![l] = Niemand]
    /\ fertig' = [fertig EXCEPT ![l] = {}]
    /\ alt' = [alt EXCEPT ![l] = [m \in Mitglied |-> {}]]
    /\ sperre' = [s \in Sitz |-> IF sperre[s] = l THEN Niemand ELSE sperre[s]]
    /\ neu' = [s \in Sitz |-> IF sperre[s] = l THEN Niemand ELSE neu[s]]
    /\ org' = IF org = l THEN Niemand ELSE org

\* The period a transaction opens for a member it has changed.
Neuer(l, m) == LET s == {t \in Meine(l) : neu[t] = m} IN IF s = {} THEN {Niemand} ELSE s

\* COMMIT; the cron writes its list just before.
Commit(l) ==
    /\ schritt[l] = "naechster" /\ rest[l] = {}
    /\ art[l] = "cron" => OrgFrei(l)
    /\ inhaber' = [s \in Sitz |-> Inhaber(l, s)]
    /\ laeuft' = Vorhanden(l)
    /\ konto' = [m \in Mitglied |-> IF m \in fertig[l] THEN auftrag[l][m] ELSE konto[m]]
    /\ zeitraum' = [m \in Mitglied |-> IF m \in fertig[l]
                                       THEN (zeitraum[m] \ alt[l][m]) \cup Neuer(l, m)
                                       ELSE zeitraum[m]]
    /\ geplant' = IF Schreibt(l) THEN NeueListe(l) ELSE geplant
    /\ mitglieder' = IF art[l] = "austritt" THEN mitglieder \ Betroffen(l) ELSE mitglieder
    /\ Ruhe(l)
    /\ UNCHANGED <<reduziert, zaehler>>

Rollback_Vergessen(l) == Ruhe_OhneRollback(l) /\ UNCHANGED daten

Rollback(l) == Ruhe(l) /\ UNCHANGED daten

\* sitzZuweisen for somebody who is no member (404).
KeinMitglied(l) ==
    /\ schritt[l] = "sitz" /\ ~Darf(l)
    /\ Rollback(l) /\ UNCHANGED zaehler

\* 409: no seat is free, and the request does not say that one is to be bought
\* (or the bound on ids is reached).
KeinFreier(l) ==
    /\ schritt[l] = "waehlen" /\ Waehlbar(l) = {}
    /\ art[l] = "sofort" \/ Kaeuflich(l) = {}
    /\ Rollback(l) /\ UNCHANGED zaehler

\* 409: the free places are taken.
Abgelehnt(l) ==
    /\ art[l] = "sofort" /\ schritt[l] = "freigeben" /\ ZielVon(l) = "free"
    /\ Rollback(l) /\ UNCHANGED zaehler

\* The transaction fails for a reason of its own (connection, restart).
Stoerung(l) ==
    /\ schritt[l] # "ruht" /\ gestoert < MaxStoerungen
    /\ gestoert' = gestoert + 1
    /\ Rollback(l) /\ UNCHANGED bewegt

\* Whom a transaction waits for, and Postgres's answer to a circle of them.
WartetAuf(l) ==
    IF schritt[l] = "schreiben" \/ (schritt[l] = "waehlen" /\ Waehlbar(l) = {})
       \/ (schritt[l] = "naechster" /\ rest[l] = {} /\ art[l] = "cron")
    THEN IF OrgFrei(l) THEN Niemand ELSE org
    ELSE IF schritt[l] = "freigeben" /\ bisher[l] \in laeuft /\ sperre[bisher[l]] # l
    THEN sperre[bisher[l]] ELSE Niemand

ImKreis(l) == \E K \in SUBSET Laeufe : l \in K /\ {WartetAuf(k) : k \in K} = K

Opfer(l) == ImKreis(l) /\ Rollback(l) /\ UNCHANGED zaehler

-----------------------------------------------------------------------------
(* One statement each, or a transaction nothing can be seen of.             *)

RestGleich == UNCHANGED <<locks, schritt, art, auftrag, rest, wer, liste, zeiger>>

\* The join of a member without a seat (tenants.ts): who has left comes back.
Beitritt(m) ==
    /\ m \notin mitglieder
    /\ mitglieder' = mitglieder \cup {m}
    /\ UNCHANGED <<inhaber, laeuft, reduziert, konto, zeitraum, geplant, zaehler>>
    /\ RestGleich

Kaufen(s) ==
    /\ Unbenutzt(s) /\ org = Niemand
    /\ laeuft' = laeuft \cup {s}
    /\ UNCHANGED <<inhaber, reduziert, konto, zeitraum, geplant, mitglieder, zaehler>>
    /\ RestGleich

\* Mutants: without "endetAm" IS NULL; and without FOR UPDATE.
Reduzierbar_Beendet(s)    == s \notin reduziert /\ inhaber[s] = Niemand /\ sperre[s] = Niemand
Reduzierbar_OhneSperre(s) == s \in laeuft \ reduziert /\ inhaber[s] = Niemand

\* Only a free seat, FOR UPDATE.
Reduzierbar(s) == s \in laeuft \ reduziert /\ inhaber[s] = Niemand /\ sperre[s] = Niemand

\* A request for several seats is one step for each.
Reduzieren(s) ==
    /\ Reduzierbar(s)
    /\ reduziert' = reduziert \cup {s}
    /\ UNCHANGED <<inhaber, laeuft, konto, zeitraum, geplant, mitglieder, zaehler>>
    /\ RestGleich

ReduktionWiderrufen(p) ==
    LET ihre == {s \in reduziert : PlanVon[s] = p}
    IN /\ ihre # {} /\ \A s \in ihre : sperre[s] = Niemand
       /\ reduziert' = reduziert \ ihre
       /\ UNCHANGED <<inhaber, laeuft, konto, zeitraum, geplant, mitglieder, zaehler>>
       /\ RestGleich

\* The cron ends the reduced seats at the end of the cycle.
ReduktionFaellig(s) ==
    /\ s \in reduziert /\ inhaber[s] = Niemand /\ sperre[s] = Niemand
    /\ laeuft' = laeuft \ {s} /\ reduziert' = reduziert \ {s}
    /\ UNCHANGED <<inhaber, konto, zeitraum, geplant, mitglieder, zaehler>>
    /\ RestGleich

Schritt(l) ==
    \/ ListeLesen(l) \/ ListeSchreiben(l)
    \/ \E m \in Mitglied : Naechster(l, m)
    \/ SitzLesen(l) \/ FreienWaehlen(l) \/ Dazukaufen(l) \/ Freigeben(l)
    \/ KeinMitglied(l) \/ KeinFreier(l) \/ Commit(l) \/ Opfer(l)

Next ==
    \/ \E l \in Lauf, m \in Mitglied :
          \/ \E p \in Ziel : Sofort(l, m, p) \/ Vormerken(l, m, p)
          \/ Austritt(l, m)
    \/ \E ihre \in SUBSET Mitglied : CronBeginnt(ihre)
    \/ \E l \in Laeufe : Schritt(l) \/ Abgelehnt(l) \/ Stoerung(l)
    \/ \E m \in Mitglied : Beitritt(m)
    \/ \E s \in Hand : Kaufen(s) \/ Reduzieren(s) \/ ReduktionFaellig(s)
    \/ \E p \in Plan : ReduktionWiderrufen(p)

Spec == Init /\ [][Next]_vars

\* A transaction goes on; Postgres grants a lock in the order of the queue, so
\* a step that waits for one is not overtaken for ever; the cron comes every
\* hour, and a change that is due stays due.
Fairness ==
    /\ \A l \in Laeufe : SF_vars(Schritt(l))
    /\ \A s \in Hand : SF_vars(ReduktionFaellig(s))
    /\ \A m \in Mitglied : SF_vars(\E ihre \in SUBSET Mitglied : m \in ihre /\ CronBeginnt(ihre))

FairSpec == Spec /\ Fairness

-----------------------------------------------------------------------------
(* Properties.                                                              *)

\* The values of the tables and of the transactions; only running seats are
\* marked to end.
TypeInv ==
    /\ inhaber \in [Sitz -> Mitglied \cup {Niemand}]
    /\ laeuft \subseteq Sitz /\ reduziert \subseteq laeuft
    /\ konto \in [Mitglied -> Ziel]
    /\ zeitraum \in [Mitglied -> SUBSET (Sitz \cup {Niemand})]
    /\ geplant \in [Mitglied -> Offen]
    /\ mitglieder \subseteq Mitglied
    /\ sperre \in [Sitz -> Laeufe \cup {Niemand}]
    /\ neu \in [Sitz -> Mitglied \cup {Niemand}]
    /\ org \in Laeufe \cup {Niemand}
    /\ schritt \in [Laeufe -> Schritte]
    /\ art \in [Laeufe -> Arten]
    /\ auftrag \in [Laeufe -> [Mitglied -> Offen]]
    /\ rest \in [Laeufe -> SUBSET Mitglied]
    /\ wer \in [Laeufe -> Mitglied \cup {Niemand}]
    /\ liste \in [Laeufe -> [Mitglied -> Offen]]
    /\ bisher \in [Laeufe -> Sitz \cup {Niemand}]
    /\ wahl \in [Laeufe -> Sitz \cup {Niemand}]
    /\ fertig \in [Laeufe -> SUBSET Mitglied]
    /\ alt \in [Laeufe -> [Mitglied -> SUBSET (Sitz \cup {Niemand})]]
    /\ bewegt \in 0..MaxWechsel /\ gestoert \in 0..MaxStoerungen

\* A seat somebody has neither ends nor is marked to end, although the cut
\* (sitzeReduzieren, the cron) and the giving of seats look at it at
\* different times, and the end of a seat does not look at the transactions
\* that have just chosen it.
BelegtLaeuft == \A s \in Sitz : inhaber[s] # Niemand => s \in laeuft \ reduziert

HatSitz(m) == {s \in Sitz : inhaber[s] = m}

\* Three tables that nothing but the order of the statements keeps together:
\* as long as no two transactions for one member overlap, a member has one
\* seat at most, the tier of the account is that seat's plan, and exactly the
\* period of that seat is open - the month's quota is computed from it.
GetrenntStimmt ==
    ~Doppelt => \A m \in Mitglied :
        \/ HatSitz(m) = {} /\ konto[m] = "free" /\ zeitraum[m] \subseteq {Niemand}
        \/ \E s \in Sitz : HatSitz(m) = {s} /\ konto[m] = PlanVon[s] /\ zeitraum[m] = {s}

\* Under the same condition no transaction that gives or takes a seat waits for
\* the lock of one, which could close a circle with the organisation's row:
\* SKIP LOCKED for the new seat, and the old one is nobody else's business.
KeinWarten ==
    ~Doppelt => \A l \in Laeufe : schritt[l] = "freigeben" /\ bisher[l] # Niemand
                                      => sperre[bisher[l]] \in {Niemand, l}

\* And a member loses a seat only by a transaction about this member, although
\* sitzZuweisen and sitzEntziehen free the old seat by its id alone.
NurDieEigenen ==
    [][~Doppelt => \A s \in Sitz : inhaber[s] # Niemand /\ inhaber'[s] # inhaber[s]
                       => \E l \in Laeufe : inhaber[s] \in fertig[l]]_vars

\* Under that condition requests have an effect as if each were carried out in
\* one step, at its COMMIT: the members it names have then the plan it asks
\* for, whatever the statements in between have seen, nobody else loses or
\* gets anything, a seat is given only to a member of the organisation, and
\* bought only to be given.
SitzDes(m) == IF HatSitz(m) = {} THEN Niemand ELSE CHOOSE s \in Sitz : inhaber[s] = m

Buch == INSTANCE Sitzbuch WITH sitz <- [m \in Mitglied |-> SitzDes(m)]

FuehrtSitzbuch == Buch!Init /\ [][~Doppelt => Buch!Next]_(Buch!buch)

\* No request and no tick of the cron hangs in the locks for ever, not even
\* if two transactions for one member do overlap.
TransaktionEndet == \A l \in Laeufe : schritt[l] # "ruht" ~> schritt[l] = "ruht"

\* A change that is noted comes about and is off the list then, unless a request
\* about this member withdraws or replaces it, or the code is known to lose it
\* (below): somebody with a change to a paid plan has left, which blocks the cron,
\* or a transaction about others is to write back a list without it.  Only changes
\* to a lower plan are noted.
Niedriger == {p \in Ziel : \E q \in Plan : Rang[p] < Rang[q]}

Gegangen == \E m \in Mitglied \ mitglieder : geplant[m] \in Plan

Veraltet(m) == \E l \in Laeufe : /\ schritt[l] \notin {"ruht", "liste"} /\ Schreibt(l)
                                 /\ auftrag[l][m] = "kein" /\ liste[l][m] # geplant[m]

WechselWirkt ==
    \A m \in Mitglied, p \in Niedriger :
        geplant[m] = p ~> \/ geplant[m] = "kein" /\ konto[m] = p
                          \/ \E l \in Lauf : auftrag[l][m] # "kein"
                          \/ Gegangen \/ Veraltet(m)

-----------------------------------------------------------------------------
(* What the code does not keep (README, known divergences).                 *)

\* "Aktiver Sitz eines Nutzers (hoechstens einer)" (sitze.ts:86): two requests
\* for one member that overlap give two seats.
HoechstensEinSitz == \A m \in Mitglied : Cardinality(HatSitz(m)) <= 1

\* "Der Cron fuehrt faellige Wechsel aus" (sitze.ts:276): a member who leaves
\* with a change to a paid plan makes every tick fail, for everybody.
WechselEndet == \A m \in Mitglied : geplant[m] # "kein" ~> geplant[m] = "kein"

\* A noted change is touched only by transactions about this member: the list
\* is written back whole, as it has been read.
VormerkungBleibt ==
    [][\A m \in Mitglied : geplant'[m] # geplant[m] => \E l \in Laeufe : auftrag[l][m] # "kein"]_vars
=============================================================================
