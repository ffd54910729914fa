----------------------------- MODULE Auftragsbuch -----------------------------
(***************************************************************************)
(* What the register-delta queue promises, without leases, workers and     *)
(* requests: a ledger of jobs.  A job is handed out at most MaxVersuche    *)
(* times between two renewals, it is closed only when its result has been  *)
(* entered (the register sheets and what follows from them; what a close   *)
(* may do without is no entry of this ledger), a result once entered       *)
(* stays, and a job is given up only when its attempts are used up.  A     *)
(* late report may take up a closed or replaced job again; it never        *)
(* touches one that was renewed.                                           *)
(***************************************************************************)
EXTENDS Naturals

CONSTANTS Jobs, MaxVersuche

VARIABLES
    stand,      \* where each job stands
    versuche,   \* how often it was handed out since it was entered or renewed
    ergebnis    \* the jobs whose result has been entered

buch == <<stand, versuche, ergebnis>>

Stand == {"keiner", "offen", "laeuft", "erledigt", "fehlgeschlagen", "ueberholt"}

Init ==
    /\ stand = [j \in Jobs |-> "keiner"]
    /\ versuche = [j \in Jobs |-> 0]
    /\ ergebnis = {}

\* A report can only follow a handing out.
Unterwegs(j) == versuche[j] > 0

Anlegen(j) ==
    /\ stand[j] = "keiner"
    /\ stand' = [stand EXCEPT ![j] = "offen"]
    /\ UNCHANGED <<versuche, ergebnis>>

Vergeben(j) ==
    /\ stand[j] \in {"offen", "laeuft"} /\ versuche[j] < MaxVersuche
    /\ stand' = [stand EXCEPT ![j] = "laeuft"]
    /\ versuche' = [versuche EXCEPT ![j] = @ + 1]
    /\ UNCHANGED ergebnis

Eintragen(j) ==
    /\ Unterwegs(j)
    /\ ergebnis' = ergebnis \cup {j}
    /\ UNCHANGED <<stand, versuche>>

Abschliessen(j) ==
    /\ Unterwegs(j) /\ j \in ergebnis
    /\ stand' = [stand EXCEPT ![j] = "erledigt"]
    /\ UNCHANGED <<versuche, ergebnis>>

Zuruecklegen(j) ==
    /\ Unterwegs(j)
    /\ stand' = [stand EXCEPT ![j] = "offen"]
    /\ UNCHANGED <<versuche, ergebnis>>

Aufgeben(M) ==
    /\ \A j \in M : Unterwegs(j) /\ versuche[j] = MaxVersuche
    /\ stand' = [j \in Jobs |-> IF j \in M THEN "fehlgeschlagen" ELSE stand[j]]
    /\ UNCHANGED <<versuche, ergebnis>>

Ersetzen(M) ==
    /\ \A j \in M : stand[j] = "offen"
    /\ stand' = [j \in Jobs |-> IF j \in M THEN "ueberholt" ELSE stand[j]]
    /\ UNCHANGED <<versuche, ergebnis>>

Erneuern(M) ==
    /\ \A j \in M : stand[j] = "fehlgeschlagen"
    /\ stand' = [j \in Jobs |-> IF j \in M THEN "offen" ELSE stand[j]]
    /\ versuche' = [j \in Jobs |-> IF j \in M THEN 0 ELSE versuche[j]]
    /\ UNCHANGED ergebnis

Next ==
    \/ \E j \in Jobs : \/ Anlegen(j) \/ Vergeben(j) \/ Eintragen(j)
                       \/ Abschliessen(j) \/ Zuruecklegen(j)
    \/ \E M \in SUBSET Jobs : Aufgeben(M) \/ Ersetzen(M) \/ Erneuern(M)

Spec == Init /\ [][Next]_buch
=============================================================================
