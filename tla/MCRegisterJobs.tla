--------------------------- MODULE MCRegisterJobs ---------------------------
(* RegisterJobs for TLC: worker ids are model values, the rows of the small    *)
(* instances have numbers.                                                    *)
EXTENDS RegisterJobs, TLC

CONSTANTS w1, w2

MCJobs2   == {1, 2}
MCJobs1   == {1}
MCFront1  == {2}
MCKeine   == {}
MCWorker2 == {w1, w2}
MCWorker1 == {w1}
MCKannAlles  == [w \in Worker |-> Jobs]

Symmetrie == Permutations(Worker)
=============================================================================
