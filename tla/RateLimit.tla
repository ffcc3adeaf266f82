------------------------------ MODULE RateLimit ------------------------------
(***************************************************************************)
(* What a rate limit of one request every Interval ticks with a burst of   *)
(* Capacity promises, whoever enforces it: in any stretch of time the      *)
(* requests that start are at most a full bucket plus what the bucket      *)
(* gained meanwhile.  SPECS.md section 10.1 states it for Lexware's side   *)
(* (which drops what does not conform) and for this server's (which        *)
(* delays it).  TokenBucket implements it.                                 *)
(***************************************************************************)
EXTENDS Integers, Sequences

CONSTANTS Capacity,   \* the bucket's size b, in requests
          Interval    \* the ticks in which one token is gained, 1/r

VARIABLES now,        \* the monotonic clock
          grants      \* the times at which requests were let through, in order

\* The requests i..j of s, both included, fit a bucket that was full before i.
FitsBetween(s, i, j) == (j - i + 1) * Interval <= Capacity * Interval + (s[j] - s[i])

Conforms(s) == \A i \in 1..Len(s) : \A j \in i..Len(s) : FitsBetween(s, i, j)

Init == /\ now = 0
        /\ grants = << >>

Tick == /\ now' = now + 1
        /\ UNCHANGED grants

\* A request may start only while the stream it joins stays conformant.
Start == /\ Conforms(Append(grants, now))
         /\ grants' = Append(grants, now)
         /\ UNCHANGED now

Next == Tick \/ Start

Spec == Init /\ [][Next]_<<now, grants>>
==============================================================================
