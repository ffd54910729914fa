------------------------------- MODULE Sitzbuch -------------------------------
(***************************************************************************)
(* What the seats of an organisation promise, without statements, locks    *)
(* and tables that are kept twice: a book of who has which seat.  Requests *)
(* are handed in and then either dropped or carried out in one step; that  *)
(* step gives every member the request names the plan it asks for, leaves  *)
(* all others alone, gives a plan only to members of the organisation, and *)
(* buys no seat it does not give away.  The plan changes noted for later   *)
(* are not in the book: it sees them when the cron hands them in.          *)
(***************************************************************************)
EXTENDS Naturals

CONSTANTS Mitglied, Sitz, Plan, PlanVon, Laeufe, Niemand

VARIABLES
    sitz,         \* the seat of a member, or Niemand
    laeuft,       \* seats that are paid for
    reduziert,    \* those that end with the cycle
    mitglieder,
    art,          \* the kind of a request
    auftrag       \* the plan it asks for, for whom

buch == <<sitz, laeuft, reduziert, mitglieder, art, auftrag>>

Ziel   == Plan \cup {"free"}
Offen  == Ziel \cup {"kein"}
Arten  == {"sofort", "vormerken", "austritt", "cron"}
Keiner == [m \in Mitglied |-> "kein"]

Init ==
    /\ sitz = [m \in Mitglied |-> Niemand]
    /\ laeuft = {} /\ reduziert = {}
    /\ mitglieder = Mitglied
    /\ art = [l \in Laeufe |-> "sofort"]
    /\ auftrag = [l \in Laeufe |-> Keiner]

PlanDer(s) == IF s = Niemand THEN "free" ELSE PlanVon[s]
Frei(s) == \A m \in Mitglied : sitz[m] # s
Betroffen(l) == {m \in Mitglied : auftrag[l][m] # "kein"}

\* Requests for one member come one after the other.
Stellen(l, a, was) ==
    /\ auftrag[l] = Keiner
    /\ \A k \in Laeufe, m \in Mitglied : was[m] = "kein" \/ auftrag[k][m] = "kein"
    /\ a = "austritt" => \A m \in Mitglied : was[m] \in {"kein", "free"}
    /\ art' = [art EXCEPT ![l] = a]
    /\ auftrag' = [auftrag EXCEPT ![l] = was]
    /\ UNCHANGED <<sitz, laeuft, reduziert, mitglieder>>

Erledigt(l) ==
    /\ art' = [art EXCEPT ![l] = "sofort"]
    /\ auftrag' = [auftrag EXCEPT ![l] = Keiner]

\* Refused, failed, or only noted for the end of the cycle.
Verwerfen(l) == Erledigt(l) /\ UNCHANGED <<sitz, laeuft, reduziert, mitglieder>>

\* Whom a request changes, and the seats they can be given: of those that
\* go on, or are bought, the ones nobody else has.
Geaendert(l) == {m \in Betroffen(l) : auftrag[l][m] # PlanDer(sitz[m])}
Moeglich(l) == {s \in Sitz \ reduziert : \A m \in Mitglied \ Geaendert(l) : sitz[m] # s}

Ausfuehren(l, wen) ==
    /\ art[l] # "vormerken"
    /\ wen \in [Geaendert(l) -> Moeglich(l) \cup {Niemand}]
    /\ \A m \in Geaendert(l) :
          /\ PlanDer(wen[m]) = auftrag[l][m]
          /\ wen[m] # Niemand => m \in mitglieder /\ \A n \in Geaendert(l) \ {m} : wen[n] # wen[m]
    /\ sitz' = [m \in Mitglied |-> IF m \in Geaendert(l) THEN wen[m] ELSE sitz[m]]
    /\ laeuft' = laeuft \cup {s \in Sitz : \E m \in Geaendert(l) : wen[m] = s}
    /\ mitglieder' = IF art[l] = "austritt" THEN mitglieder \ Betroffen(l) ELSE mitglieder
    /\ Erledigt(l)
    /\ UNCHANGED reduziert

Beitreten(m) ==
    /\ mitglieder' = mitglieder \cup {m}
    /\ UNCHANGED <<sitz, laeuft, reduziert, art, auftrag>>

Kaufen(s) ==
    /\ s \notin laeuft
    /\ laeuft' = laeuft \cup {s}
    /\ UNCHANGED <<sitz, reduziert, mitglieder, art, auftrag>>

Kuerzen(s) ==
    /\ s \in laeuft /\ Frei(s)
    /\ reduziert' = reduziert \cup {s}
    /\ UNCHANGED <<sitz, laeuft, mitglieder, art, auftrag>>

Widerrufen(p) ==
    /\ reduziert' = {s \in reduziert : PlanVon[s] # p}
    /\ UNCHANGED <<sitz, laeuft, mitglieder, art, auftrag>>

Beenden(s) ==
    /\ s \in reduziert /\ Frei(s)
    /\ laeuft' = laeuft \ {s} /\ reduziert' = reduziert \ {s}
    /\ UNCHANGED <<sitz, mitglieder, art, auftrag>>

Next ==
    \/ \E l \in Laeufe :
          \/ \E a \in Arten, was \in [Mitglied -> Offen] : Stellen(l, a, was)
          \/ Verwerfen(l)
          \/ \E wen \in [Geaendert(l) -> Moeglich(l) \cup {Niemand}] : Ausfuehren(l, wen)
    \/ \E m \in Mitglied : Beitreten(m)
    \/ \E s \in Sitz : Kaufen(s) \/ Kuerzen(s) \/ Beenden(s)
    \/ \E p \in Plan : Widerrufen(p)

Spec == Init /\ [][Next]_buch

\* Nobody shares a seat; what somebody has goes on, and only members of the
\* organisation have one.
Ordnung ==
    \A m \in Mitglied : sitz[m] # Niemand =>
        /\ m \in mitglieder
        /\ sitz[m] \in laeuft \ reduziert
        /\ \A n \in Mitglied \ {m} : sitz[n] # sitz[m]
=============================================================================
