---------------------------- MODULE MCLimitedWrite ----------------------------
(* Connection with one write and the program's own bounds: three attempts,    *)
(* a breaker after three 429s.                                                *)
EXTENDS Connection

CONSTANT c1

MCCalls == {c1}
MCAsks == c1 :> {"PUT", "DELETE", "POST"}
==============================================================================
