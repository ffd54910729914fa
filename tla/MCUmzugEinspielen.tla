------------------------- MODULE MCUmzugEinspielen -------------------------
(* UmzugEinspielen for TLC: names are model values. *)
EXTENDS UmzugEinspielen, TLC

CONSTANTS agent, radar, profil

MCName3    == {agent, radar, profil}
MCGebunden == {agent}
Symmetrie  == Permutations(Name \ Gebunden)
=============================================================================
