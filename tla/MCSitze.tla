------------------------------- MODULE MCSitze -------------------------------
(* Sitze for TLC: two paid plans, two seats of the lower and one of the      *)
(* higher plan.  That one can be bought and cut down on its own in the run   *)
(* with one member; with two, every seat is bought by a request that gives   *)
(* it to somebody.                                                           *)
EXTENDS Sitze

CONSTANTS m1, m2, a1, a2, b1, l1

MCEin      == {m1}
MCMitglied == {m1, m2}
MCSitz     == {a1, a2, b1}
MCHand     == {b1}
MCKeine    == {}
MCPlan     == {"pro", "max"}
MCPlanVon  == [s \in MCSitz |-> IF s = b1 THEN "max" ELSE "pro"]
MCRang     == [p \in {"free", "pro", "max"} |->
                  CASE p = "free" -> 0 [] p = "pro" -> 1 [] p = "max" -> 2]
MCLauf     == {l1}
=============================================================================
