----------------------------- MODULE MCFortschritt -----------------------------
(* Fortschritt for TLC: progress events, persist events and requests are model *)
(* values; the progress events of the safety run are interchangeable.          *)
EXTENDS Fortschritt, TLC

CONSTANTS m1, m2, p1, a1

MCSendung1 == {m1}
MCSendung2 == {m1, m2}
MCPlatz1   == {p1}
MCAnfrage1 == {a1}

Symm == Permutations(MCSendung2)
=============================================================================
