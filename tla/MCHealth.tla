------------------------------- MODULE MCHealth -------------------------------
(* Health: two calls beside each other, a key the API takes and one it does   *)
(* not, and time for a second check.                                          *)
EXTENDS Health, TLC

CONSTANTS s1, s2
MCCalls == {s1, s2}
Perms == Permutations(MCCalls)
==============================================================================
