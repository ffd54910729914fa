---------------------------- MODULE MCKopfRelais ----------------------------
(* KopfRelais for TLC: instances, connections and calls are model values. *)
EXTENDS KopfRelais, TLC

CONSTANTS i1, i2, k1, k2, k3, c1

MCEine     == {i1}
MCZwei     == {i1, i2}
MCOhne     == {}
MCVerb2    == {k1, k2}
MCVerb3    == {k1, k2, k3}
MCAufruf   == {c1}
Symmetrie  == Permutations(Verb)
=============================================================================
