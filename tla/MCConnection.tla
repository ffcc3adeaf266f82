---------------------------- MODULE MCConnection -----------------------------
(* Connection with two calls of different kinds, two attempts each, a       *)
(* breaker after two 429s and one change of the record by somebody else.    *)
EXTENDS Connection

CONSTANTS c1, c2

MCCalls == {c1, c2}
MCAsks == (c1 :> {"DELETE", "POST", "PROBE"}) @@ (c2 :> {"PUT", "GET"})
==============================================================================
