---------------------------- MODULE MCTokenBucket ----------------------------
(* A small bucket for TLC: two callers are enough for one to hold the lock  *)
(* asleep while another queues, and the horizon leaves room for a burst, a  *)
(* cooldown and the refill after it.                                        *)
EXTENDS TokenBucket

CONSTANTS c1, c2

MCCallers == {c1, c2}
==============================================================================
