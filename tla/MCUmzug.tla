------------------------------- MODULE MCUmzug -------------------------------
(* Umzug for TLC: instances are model values. *)
EXTENDS Umzug

CONSTANTS desktop, server

MCInstanz2 == {desktop, server}
=============================================================================
