-------------------------------- MODULE A2aTasks --------------------------------
(***************************************************************************)
(* One task of a foreign agent (Agent2Agent): lib/a2a-tasks.ts and the     *)
(* JSON-RPC methods of routes/a2a.ts in services/db-gateway.  The task     *)
(* stands for a transaction; requests and the minute's "Takt" read its     *)
(* row, await the transaction's steps or a webhook, and write the row      *)
(* without looking at it again.  Laeufer are the handlers that can be      *)
(* under way at the same time, in one gateway or several: the Takt does    *)
(* not wait for the one before it.  The row's text, artefacts and history  *)
(* are left out.                                                           *)
(***************************************************************************)
EXTENDS Naturals, FiniteSets

CONSTANTS
    Laeufer,         \* handlers and Takte
    Firma,           \* companies of the transaction
    ABSTAENDE,       \* length of PUSH_ABSTAENDE_MIN
    MaxAdressen,     \* bound: webhook addresses that are set one after the other
    MaxAbstuerze,    \* bound: restarts of the gateway
    MaxOeffnungen    \* bound: steps that are tried anew when they have ended

ASSUME ZahlenAssumption ==
    ABSTAENDE \in Nat /\ MaxAdressen \in Nat /\ MaxAbstuerze \in Nat /\ MaxOeffnungen \in Nat

VARIABLES
    zustand, vorgang,                   \* zustand, transactionId IS NOT NULL
    url, versuche, naechster, erledigt, \* pushUrl (0: none), pushVersuche, pushNaechster, pushErledigt
    alt,                                \* createdAt is more than VERFALL_MS ago
    schritt,                            \* EntityProgress of the transaction
    arbeit,                             \* what a Laeufer does, with what it has read
    abstuerze, oeffnungen

zeile == <<zustand, vorgang, url, versuche, naechster, erledigt>>
vars == <<zeile, alt, schritt, arbeit, abstuerze, oeffnungen>>

TERMINAL == {"completed", "canceled", "failed", "rejected"}
TaskZustand == {"keiner", "submitted", "working"} \cup TERMINAL
Producer == {"website", "profile"}
\* "laeuft" stands for the producer's own states, "ohne" for failed and skipped.
Schritt == {"fehlt", "pending", "laeuft", "beendet", "ohne"}

Ruht == [art |-> "frei", zustand |-> "keiner", url |-> 0, versuche |-> 0]
Setzt(z) == [art |-> "setzen", zustand |-> z, url |-> 0, versuche |-> 0]
Prueft(z) == [art |-> "pruefen", zustand |-> z, url |-> 0, versuche |-> 0]

Init ==
    /\ zustand = "keiner" /\ vorgang = FALSE
    /\ url = 0 /\ versuche = 0 /\ naechster = "nie" /\ erledigt = FALSE
    /\ alt = FALSE
    /\ schritt = [f \in Firma |-> [p \in Producer |-> "fehlt"]]
    /\ arbeit = [l \in Laeufer |-> Ruht]
    /\ abstuerze = 0 /\ oeffnungen = 0

Frei(l) == arbeit[l].art = "frei"
Tut(l, a) == arbeit' = [arbeit EXCEPT ![l] = a]
Terminal == zustand \in TERMINAL

PushGeplant(z) == z \in TERMINAL /\ url # 0 /\ ~erledigt

\* taskZustand: one UPDATE, whatever the row says by now.
Zustand(z, v) ==
    /\ zustand' = z /\ vorgang' = (vorgang \/ v)
    /\ naechster' = IF PushGeplant(z) THEN "jetzt" ELSE naechster
    /\ UNCHANGED <<url, versuche, erledigt>>

-----------------------------------------------------------------------------
(* message/send *)

TaskAnlegen(l) ==
    /\ zustand = "keiner" /\ Frei(l)
    /\ zustand' = "submitted" /\ url' \in 0..(IF MaxAdressen > 0 THEN 1 ELSE 0)
    /\ Tut(l, [Ruht EXCEPT !.art = "ausfuehren"])
    /\ UNCHANGED <<vorgang, versuche, naechster, erledigt, alt, schritt, abstuerze, oeffnungen>>

\* taskAusfuehren without a transaction: nothing to do, an error, or done.
AusfuehrenEndet(l) ==
    /\ arbeit[l].art = "ausfuehren"
    /\ \E z \in {"rejected", "failed", "completed"} : Zustand(z, FALSE)
    /\ Tut(l, Ruht)
    /\ UNCHANGED <<alt, schritt, abstuerze, oeffnungen>>

\* taskAusfuehren with one: the task works, and is checked at once.
AusfuehrenAuftrag(l) ==
    /\ arbeit[l].art = "ausfuehren"
    /\ Zustand("working", TRUE)
    /\ Tut(l, Prueft("working"))
    /\ UNCHANGED <<alt, schritt, abstuerze, oeffnungen>>

-----------------------------------------------------------------------------
(* taskPruefen: of tasks/get, tasks/resubscribe and the Takt. *)

\* Mutant of Pruefbar: a task that has ended is checked like any other.
Pruefbar_Immer == zustand # "keiner" /\ vorgang

Pruefbar == zustand # "keiner" /\ ~Terminal /\ vorgang

PruefenLesen(l) ==
    /\ Frei(l) /\ Pruefbar
    /\ Tut(l, Prueft(zustand))
    /\ UNCHANGED <<zeile, alt, schritt, abstuerze, oeffnungen>>

\* transaktionsStand: profile and contact wait for nothing where there is no website.
Uebersprungen(f, p) == p = "profile" /\ schritt[f][p] = "pending" /\ schritt[f]["website"] = "ohne"
Offen == {f \in Firma : \E p \in Producer : schritt[f][p] \in {"pending", "laeuft"} /\ ~Uebersprungen(f, p)}
Firmen == {f \in Firma : \E p \in Producer : schritt[f][p] # "fehlt"}

\* Mutant of Befund: nothing expires.
Befund_OhneVerfall(z) ==
    IF Firmen # {} /\ Offen = {} THEN "completed"
    ELSE IF z = "submitted" /\ Firmen # {} THEN "working" ELSE "keiner"

\* The state that is to be set, "keiner" where none is.
Befund(z) ==
    IF Firmen # {} /\ Offen = {} THEN "completed"
    ELSE IF alt THEN "failed"
    ELSE IF z = "submitted" /\ Firmen # {} THEN "working" ELSE "keiner"

StandLesen(l) ==
    /\ arbeit[l].art = "pruefen"
    /\ LET b == Befund(arbeit[l].zustand) IN Tut(l, IF b = "keiner" THEN Ruht ELSE Setzt(b))
    /\ UNCHANGED <<zeile, alt, schritt, abstuerze, oeffnungen>>

\* tasks/cancel
AbbrechenLesen(l) ==
    /\ Frei(l) /\ zustand # "keiner" /\ ~Terminal
    /\ Tut(l, Setzt("canceled"))
    /\ UNCHANGED <<zeile, alt, schritt, abstuerze, oeffnungen>>

Setzen(l) ==
    /\ arbeit[l].art = "setzen"
    /\ Zustand(arbeit[l].zustand, FALSE)
    /\ Tut(l, Ruht)
    /\ UNCHANGED <<alt, schritt, abstuerze, oeffnungen>>

-----------------------------------------------------------------------------
(* Push *)

\* Mutant of KonfigSetzen: the attempts at the former address count on.
KonfigSetzen_ZaehltWeiter ==
    /\ zustand # "keiner" /\ url < MaxAdressen
    /\ url' = url + 1 /\ versuche' = versuche /\ erledigt' = FALSE
    /\ naechster' = IF Terminal THEN "jetzt" ELSE "nie"
    /\ UNCHANGED <<zustand, vorgang, alt, schritt, arbeit, abstuerze, oeffnungen>>

\* Mutant of KonfigSetzen: the push is planned by the end of the task only.
KonfigSetzen_PlantNicht ==
    /\ zustand # "keiner" /\ url < MaxAdressen
    /\ url' = url + 1 /\ versuche' = 0 /\ erledigt' = FALSE
    /\ naechster' = "nie"
    /\ UNCHANGED <<zustand, vorgang, alt, schritt, arbeit, abstuerze, oeffnungen>>

\* pushKonfigSetzen, one UPDATE; every call is one more address here.
KonfigSetzen ==
    /\ zustand # "keiner" /\ url < MaxAdressen
    /\ url' = url + 1 /\ versuche' = 0 /\ erledigt' = FALSE
    /\ naechster' = IF Terminal THEN "jetzt" ELSE "nie"
    /\ UNCHANGED <<zustand, vorgang, alt, schritt, arbeit, abstuerze, oeffnungen>>

PushLesen(l) ==
    /\ Frei(l) /\ ~erledigt /\ url # 0 /\ naechster = "jetzt"
    /\ Tut(l, [art |-> "push", zustand |-> zustand, url |-> url, versuche |-> versuche])
    /\ UNCHANGED <<zeile, alt, schritt, abstuerze, oeffnungen>>

\* Accepted, or no distance left in the table.
Schluss(ok, versuch) == ok \/ versuch > ABSTAENDE

\* Mutant of Gezaehlt: only an attempt that is answered counts.
Gezaehlt_NurErfolg(ok, gelesen) == IF ok THEN gelesen + 1 ELSE gelesen

Gezaehlt(ok, gelesen) == gelesen + 1

\* pushSenden after its fetch: the attempt counts from what was read before it.
PushAntwort(l) ==
    /\ arbeit[l].art = "push"
    /\ \E ok \in BOOLEAN :
          /\ versuche' = Gezaehlt(ok, arbeit[l].versuche)
          /\ erledigt' = Schluss(ok, versuche')
          /\ naechster' = IF erledigt' THEN "nie" ELSE "spaeter"
    /\ Tut(l, Ruht)
    /\ UNCHANGED <<zustand, vorgang, url, alt, schritt, abstuerze, oeffnungen>>

-----------------------------------------------------------------------------
(* Time, the transaction's steps, restarts. *)

PushFaellig ==
    /\ naechster = "spaeter"
    /\ naechster' = "jetzt"
    /\ UNCHANGED <<zustand, vorgang, url, versuche, erledigt, alt, schritt, arbeit, abstuerze, oeffnungen>>

Verfaellt ==
    /\ zustand # "keiner" /\ ~alt
    /\ alt' = TRUE
    /\ UNCHANGED <<zeile, schritt, arbeit, abstuerze, oeffnungen>>

\* Rows are created, go on, end, and are set to in_progress again by a retry.
SchrittGeht(f, p, s) ==
    /\ zustand # "keiner"
    /\ <<schritt[f][p], s>> \in {<<"fehlt", "pending">>, <<"pending", "laeuft">>, <<"pending", "beendet">>,
                                <<"pending", "ohne">>, <<"laeuft", "beendet">>, <<"laeuft", "ohne">>,
                                <<"beendet", "laeuft">>, <<"ohne", "laeuft">>}
    /\ IF schritt[f][p] \in {"beendet", "ohne"}
       THEN oeffnungen < MaxOeffnungen /\ oeffnungen' = oeffnungen + 1
       ELSE UNCHANGED oeffnungen
    /\ schritt' = [schritt EXCEPT ![f][p] = s]
    /\ UNCHANGED <<zeile, alt, arbeit, abstuerze>>

GatewayNeustart ==
    /\ abstuerze < MaxAbstuerze
    /\ abstuerze' = abstuerze + 1
    /\ arbeit' = [l \in Laeufer |-> Ruht]
    /\ UNCHANGED <<zeile, alt, schritt, oeffnungen>>

Next ==
    \/ \E l \in Laeufer :
          \/ TaskAnlegen(l) \/ AusfuehrenEndet(l) \/ AusfuehrenAuftrag(l)
          \/ PruefenLesen(l) \/ StandLesen(l) \/ AbbrechenLesen(l) \/ Setzen(l)
          \/ PushLesen(l) \/ PushAntwort(l)
    \/ KonfigSetzen \/ PushFaellig \/ Verfaellt \/ GatewayNeustart
    \/ \E f \in Firma, p \in Producer, s \in Schritt : SchrittGeht(f, p, s)

Spec == Init /\ [][Next]_vars

\* A handler ends; time goes by; every Takt comes to its checks and to its pushes.
Fairness ==
    /\ \A l \in Laeufer :
          /\ WF_vars(AusfuehrenEndet(l) \/ AusfuehrenAuftrag(l)) /\ WF_vars(StandLesen(l))
          /\ WF_vars(Setzen(l)) /\ WF_vars(PushAntwort(l))
    /\ WF_vars(PushFaellig) /\ WF_vars(Verfaellt)
    /\ SF_vars(\E l \in Laeufer : PruefenLesen(l))
    /\ SF_vars(\E l \in Laeufer : PushLesen(l))

FairSpec == Spec /\ Fairness

-----------------------------------------------------------------------------
(* Properties. *)

Versuche == 0..ABSTAENDE + 1
ArbeitTyp == [art : {"frei", "ausfuehren", "pruefen", "setzen", "push"}, zustand : TaskZustand,
              url : 0..MaxAdressen, versuche : 0..ABSTAENDE]

\* No more attempts are counted than the table has distances, and one, although
\* every Takt counts from what it has read before its fetch (a2a-tasks.ts:266).
TypeInv ==
    /\ zustand \in TaskZustand /\ vorgang \in BOOLEAN /\ alt \in BOOLEAN
    /\ url \in 0..MaxAdressen /\ versuche \in Versuche
    /\ naechster \in {"nie", "spaeter", "jetzt"} /\ erledigt \in BOOLEAN
    /\ schritt \in [Firma -> [Producer -> Schritt]]
    /\ arbeit \in [Laeufer -> ArbeitTyp]
    /\ abstuerze \in 0..MaxAbstuerze /\ oeffnungen \in 0..MaxOeffnungen

\* a2a-tasks.ts:307.  A push that is owed has a time, whatever order the end of
\* the task, a new address and the answers of old pushes come in: without one no
\* Takt would ever look at it again.
FaelligBleibt == Terminal /\ url # 0 /\ ~erledigt => naechster # "nie"

\* a2a.ts:417.  Whoever reads a task that has ended leaves it so: an ended task
\* can change only by a handler that had begun when it ended.
EndgueltigOhneWettlauf ==
    [][Terminal /\ (\A l \in Laeufer : arbeit[l].art \in {"frei", "push"})
          => zustand' = zustand /\ \A l \in Laeufer : arbeit'[l].art \in {"frei", "push"}]_vars

\* PLAN_MCP_OEFFNUNG.md:380.  A task that works ends, even when its transaction's
\* steps never do and the gateway restarts within a check.
TaskEndet == zustand = "working" ~> Terminal

\* PLAN_MCP_OEFFNUNG.md:387.  The push of a task that has ended comes to an end:
\* delivered or given up, as far as the row says (the answer of a former address
\* closes it as well, a2a-tasks.ts:290).
PushEndet == Terminal /\ url # 0 ~> erledigt

\* a2a.ts:417 "Task ist bereits abgeschlossen.": a state that ends a task is its
\* last.
EndzustandBleibt == [][Terminal => zustand' = zustand]_vars

\* PLAN_MCP_OEFFNUNG.md:380 "`failed` (7 Tage nicht verarbeitet)": so does a task
\* that has only been submitted.
AngenommenEndet == zustand = "submitted" ~> zustand # "submitted"
=============================================================================
