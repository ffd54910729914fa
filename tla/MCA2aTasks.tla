------------------------------ MODULE MCA2aTasks ------------------------------
(* A2aTasks for TLC: handlers and companies are model values. *)
EXTENDS A2aTasks

CONSTANTS l1, l2, f1

MCLaeufer2 == {l1, l2}
MCFirma1   == {f1}
=============================================================================
