----------------------------- MODULE TokenBucket -----------------------------
(***************************************************************************)
(* api/ratelimit.py: the one token bucket every request to Lexware passes. *)
(*                                                                         *)
(* Time is counted in ticks and the bucket's content in ticks of refill:   *)
(* at a rate of one token every Interval ticks, a credit of Interval is    *)
(* one token and a full bucket is Capacity * Interval.  Every fraction of  *)
(* a token is a number of ticks, so no rounding is lost.                   *)
(*                                                                         *)
(* The asyncio lock serves its waiters in arrival order and is held while  *)
(* its holder sleeps, so the callers form a queue whose head is the        *)
(* holder.  drain takes no lock: it may run while the holder sleeps on an  *)
(* estimate made before it.  A caller may be cancelled wherever it waits   *)
(* (Connection.probe gives up after a second).  acquire is called with     *)
(* tokens = 1 throughout src/, so its two ValueErrors cannot happen.       *)
(***************************************************************************)
EXTENDS Integers, SequencesExt

CONSTANTS Callers,    \* the tasks that may call acquire
          Capacity,   \* LXO_MCP_BURST
          Interval,   \* the ticks of one token, 1 / LXO_MCP_RATE
          Cooldown,   \* BREAKER_COOLDOWN in ticks
          Horizon,    \* bound: the last tick of the clock
          MaxDrains   \* bound: how often drain is called

ASSUME BucketAssumption == /\ Capacity \in Nat \ {0}
                           /\ Interval \in Nat \ {0}
                           /\ Cooldown \in Nat
                           /\ Horizon \in Nat
                           /\ MaxDrains \in Nat

VARIABLES now,          \* the monotonic clock
          credit,       \* _tokens, in ticks of refill
          updated,      \* _updated
          blockedUntil, \* _blocked_until
          queue,        \* who holds _lock (the head) and who waits for it
          wake,         \* when the holder's sleep ends
          grants,       \* history: when each token was spent
          drains        \* history: when drain was called, after how many grants

vars == <<now, credit, updated, blockedUntil, queue, wake, grants, drains>>

Full == Capacity * Interval

Lesser(a, b) == IF a <= b THEN a ELSE b

Greater(a, b) == IF a >= b THEN a ELSE b

------------------------------------------------------------------------------
Init == /\ now = 0
        /\ credit = Full
        /\ updated = 0
        /\ blockedUntil = 0
        /\ queue = << >>
        /\ wake = 0
        /\ grants = << >>
        /\ drains = << >>

Tick == /\ now < Horizon
        /\ now' = now + 1
        /\ UNCHANGED <<credit, updated, blockedUntil, queue, wake, grants, drains>>

\* acquire is called: the caller takes the lock at once or queues for it.
Acquire(c) ==
    /\ ~Contains(queue, c)
    /\ queue' = Append(queue, c)
    /\ wake' = IF queue = << >> THEN now ELSE wake
    /\ UNCHANGED <<now, credit, updated, blockedUntil, grants, drains>>

\* What _refill finds in the bucket now.
Refilled_Uncapped == credit + (now - updated)
Refilled == Lesser(Full, credit + (now - updated))

\* The holder's turn of the loop in acquire: it took the lock or its sleep ended.
HoldersTurn == queue # << >> /\ now >= wake

\* The bucket is held shut: sleep until it opens, then look again.
HoldWhileShut ==
    /\ HoldersTurn
    /\ now < blockedUntil
    /\ credit' = Refilled
    /\ updated' = now
    /\ wake' = blockedUntil
    /\ UNCHANGED <<now, blockedUntil, queue, grants, drains>>

\* A token is there: spend it and hand the lock to the next in the queue.
Spend_EvenIfShut ==
    /\ HoldersTurn
    /\ Refilled >= Interval
    /\ credit' = Refilled - Interval
    /\ updated' = now
    /\ queue' = Tail(queue)
    /\ wake' = now
    /\ grants' = Append(grants, now)
    /\ UNCHANGED <<now, blockedUntil, drains>>
Spend_LoopsOn ==
    /\ HoldersTurn
    /\ now >= blockedUntil
    /\ Refilled >= Interval
    /\ credit' = Refilled - Interval
    /\ updated' = now
    /\ wake' = now
    /\ grants' = Append(grants, now)
    /\ UNCHANGED <<now, blockedUntil, queue, drains>>
Spend ==
    /\ HoldersTurn
    /\ now >= blockedUntil
    /\ Refilled >= Interval
    /\ credit' = Refilled - Interval
    /\ updated' = now
    /\ queue' = Tail(queue)
    /\ wake' = now
    /\ grants' = Append(grants, now)
    /\ UNCHANGED <<now, blockedUntil, drains>>

\* Too little is there: sleep for as long as the missing part takes to refill.
SleepForCredit_WholeToken ==
    /\ HoldersTurn
    /\ now >= blockedUntil
    /\ Refilled < Interval
    /\ credit' = Refilled
    /\ updated' = now
    /\ wake' = now + Interval
    /\ UNCHANGED <<now, blockedUntil, queue, grants, drains>>
SleepForCredit ==
    /\ HoldersTurn
    /\ now >= blockedUntil
    /\ Refilled < Interval
    /\ credit' = Refilled
    /\ updated' = now
    /\ wake' = now + (Interval - Refilled)
    /\ UNCHANGED <<now, blockedUntil, queue, grants, drains>>

\* The caller at place i is cancelled. The lock passes on if it was the holder.
Cancel(i) ==
    /\ queue' = RemoveAt(queue, i)
    /\ wake' = IF i = 1 THEN now ELSE wake
    /\ UNCHANGED <<now, credit, updated, blockedUntil, grants, drains>>

\* The breaker trips: empty the bucket and hold it shut. No lock is taken.
Drain_KeepsTokens ==
    /\ Len(drains) < MaxDrains
    /\ credit' = Refilled
    /\ updated' = now
    /\ blockedUntil' = now + Cooldown
    /\ drains' = Append(drains, [at |-> now, after |-> Len(grants)])
    /\ UNCHANGED <<now, queue, wake, grants>>
Drain ==
    /\ Len(drains) < MaxDrains
    /\ credit' = 0
    /\ updated' = now
    /\ blockedUntil' = now + Cooldown
    /\ drains' = Append(drains, [at |-> now, after |-> Len(grants)])
    /\ UNCHANGED <<now, queue, wake, grants>>

HolderStep == HoldWhileShut \/ Spend \/ SleepForCredit

Next == \/ Tick
        \/ \E c \in Callers : Acquire(c)
        \/ HolderStep
        \/ \E i \in 1..Len(queue) : Cancel(i)
        \/ Drain

Spec == Init /\ [][Next]_vars

\* The event loop runs a task whose timer is due, and the clock goes on.
FairSpec == Spec /\ WF_vars(Tick) /\ WF_vars(HolderStep)

------------------------------------------------------------------------------
\* The types, and that the bucket is never overdrawn nor overfull.
TypeOK ==
    /\ now \in 0..Horizon
    /\ credit \in 0..Full
    /\ updated \in 0..now
    /\ blockedUntil \in Nat
    /\ queue \in Seq(Callers)
    /\ wake \in Nat
    /\ grants \in Seq(Nat)
    /\ drains \in Seq([at : Nat, after : Nat])

Limit == INSTANCE RateLimit

(***************************************************************************)
(* SPECS.md 10.1: "the local bucket has to be at least as strict as the    *)
(* remote one".  Whatever the callers, their cancellations and the breaker *)
(* do, any stretch of granted requests fits a bucket of Capacity and rate  *)
(* 1/Interval.                                                             *)
(***************************************************************************)
Conformant == Limit!Conforms(grants)

\* The same promise as a refinement: the bucket implements RateLimit.
ImplementsRateLimit == Limit!Spec

(***************************************************************************)
(* The breaker (drain): after every drain no request starts before its     *)
(* cooldown is over, not even that of a caller who was asleep inside       *)
(* acquire when it happened, and not because a later drain re-armed it.    *)
(***************************************************************************)
BreakerHolds ==
    \A k \in 1..Len(drains) : \A i \in drains[k].after + 1 .. Len(grants) :
        grants[i] >= drains[k].at + Cooldown

(***************************************************************************)
(* drain also takes the tokens: what starts after it is paid from what the *)
(* bucket gained since, so a burst saved up before a drain is not let      *)
(* loose once the cooldown ends.                                           *)
(***************************************************************************)
DrainEmpties ==
    \A k \in 1..Len(drains) :
        (Len(grants) - drains[k].after) * Interval <= now - drains[k].at

(***************************************************************************)
(* A sleeping holder never sleeps past the moment it could be served: the  *)
(* estimate it sleeps on is no later than what the bucket, as changed by   *)
(* whoever called drain meanwhile, would tell it now.                      *)
(***************************************************************************)
NeverOversleeps ==
    (queue # << >> /\ wake > now)
        => wake <= Greater(blockedUntil, updated + (Interval - credit))

(***************************************************************************)
(* Nobody starves: a caller that waits, with time enough left before the   *)
(* bound for the queue ahead of it and with no further drain to come, is   *)
(* served or gives up.                                                     *)
(***************************************************************************)
TimeEnough == now + Cooldown + Len(queue) * Interval <= Horizon
EveryWaiterServed ==
    \A c \in Callers :
        (Contains(queue, c) /\ Len(drains) = MaxDrains /\ TimeEnough)
            ~> ~Contains(queue, c)
==============================================================================
