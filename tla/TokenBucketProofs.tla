------------------------- MODULE TokenBucketProofs --------------------------
(***************************************************************************)
(* TokenBucket, for every number of callers, capacity, rate, cooldown and  *)
(* horizon: it is typed, it implements RateLimit, the breaker holds, drain *)
(* empties and no sleep is too long.                                       *)
(***************************************************************************)
EXTENDS TokenBucket, TLAPS, SequenceTheorems

LEMMA FullIsNat == Full \in Nat /\ Interval <= Full /\ Interval \in Nat \ {0}
  <1>1. Capacity \in Nat \ {0} /\ Interval \in Nat \ {0}
    BY BucketAssumption
  <1>2. Capacity * Interval \in Nat /\ Interval <= Capacity * Interval
    BY <1>1, SMT
  <1> QED BY <1>1, <1>2 DEF Full

\* Removing one place from a sequence leaves a sequence over the same set.
LEMMA RemoveAtTyped ==
    ASSUME NEW S, NEW s \in Seq(S), NEW i \in 1..Len(s)
    PROVE  RemoveAt(s, i) \in Seq(S)
  <1>1. SubSeq(s, 1, i - 1) \in Seq(S)
    BY SubSeqProperties
  <1>2. SubSeq(s, i + 1, Len(s)) \in Seq(S)
    BY SubSeqProperties
  <1> QED BY <1>1, <1>2, ConcatProperties DEF RemoveAt

\* What _refill leaves is a possible content of the bucket, and no more than
\* the time since the last refill explains.
LEMMA RefilledBounds ==
    ASSUME TypeOK
    PROVE  /\ Refilled \in 0..Full
           /\ Refilled <= credit + (now - updated)
  BY FullIsNat, BucketAssumption DEF TypeOK, Refilled, Lesser

------------------------------------------------------------------------------
LEMMA TypeInit == Init => TypeOK
  BY FullIsNat, BucketAssumption DEF Init, TypeOK

LEMMA TypeStep == TypeOK /\ [Next]_vars => TypeOK'
  <1> SUFFICES ASSUME TypeOK, [Next]_vars PROVE TypeOK'
    OBVIOUS
  <1> USE FullIsNat, BucketAssumption DEF TypeOK
  <1>1. CASE Tick
    BY <1>1 DEF Tick
  <1>2. ASSUME NEW c \in Callers, Acquire(c) PROVE TypeOK'
    BY <1>2, AppendProperties DEF Acquire
  <1>3. CASE HoldWhileShut
    BY <1>3, RefilledBounds DEF HoldWhileShut
  <1>4. CASE Spend
    BY <1>4, RefilledBounds, HeadTailProperties, AppendProperties DEF Spend, HoldersTurn
  <1>5. CASE SleepForCredit
    BY <1>5, RefilledBounds DEF SleepForCredit
  <1>6. ASSUME NEW i \in 1..Len(queue), Cancel(i) PROVE TypeOK'
    BY <1>6, RemoveAtTyped DEF Cancel
  <1>7. CASE Drain
    BY <1>7, AppendProperties DEF Drain
  <1>8. CASE UNCHANGED vars
    BY <1>8 DEF vars
  <1> QED
    BY <1>1, <1>2, <1>3, <1>4, <1>5, <1>6, <1>7, <1>8 DEF Next, HolderStep

\* The clock, the credit, the queue and the histories keep their types, and the
\* bucket is never overdrawn nor overfull (TokenBucket._tokens in 0..capacity).
THEOREM TokenBucketTyped == Spec => []TypeOK
  <1>1. QED BY TypeInit, TypeStep, PTL DEF Spec

------------------------------------------------------------------------------
(***************************************************************************)
(* The strengthening.  Every earlier request and drain is accounted for by *)
(* the time that passed since: what was spent from it on plus what is left *)
(* is at most what the bucket held plus what it gained.                    *)
(***************************************************************************)
Cost(n) == n * Interval

PaidFromGrant ==
    \A i \in 1..Len(grants) :
        /\ grants[i] <= updated
        /\ Cost(Len(grants) - i + 1) + credit <= Full + (updated - grants[i])

PaidFromDrain ==
    \A k \in 1..Len(drains) :
        /\ drains[k].after <= Len(grants)
        /\ drains[k].at <= updated
        /\ Cost(Len(grants) - drains[k].after) + credit <= updated - drains[k].at

\* The latest drain holds the bucket shut at least as long as any before it.
ShutLongEnough ==
    /\ \A k \in 1..Len(drains) : drains[k].at + Cooldown <= blockedUntil
    /\ blockedUntil <= now + Cooldown

Inv == /\ TypeOK
       /\ Conformant
       /\ BreakerHolds
       /\ NeverOversleeps
       /\ PaidFromGrant
       /\ PaidFromDrain
       /\ ShutLongEnough

\* One more token costs one Interval more, and none costs nothing.
LEMMA CostOfOneMore ==
    ASSUME NEW n \in Int
    PROVE  Cost(n) \in Int /\ Cost(n + 1) = Cost(n) + Interval /\ Cost(0) = 0
  BY BucketAssumption, SMT DEF Cost

\* The types the arithmetic below rests on.
LEMMA Typed ==
    ASSUME TypeOK
    PROVE  /\ now \in Int /\ credit \in Int /\ updated \in Int /\ Full \in Int
           /\ blockedUntil \in Int /\ wake \in Int
           /\ Interval \in Int /\ Cooldown \in Int
           /\ Len(grants) \in Nat /\ Len(drains) \in Nat
           /\ \A i \in 1..Len(grants) : grants[i] \in Int
           /\ \A k \in 1..Len(drains) : drains[k].at \in Int /\ drains[k].after \in Nat
           /\ 0 <= credit /\ credit <= Full /\ 0 <= updated /\ updated <= now
  <1> USE DEF TypeOK
  <1>1. /\ now \in Int /\ credit \in Int /\ updated \in Int /\ Full \in Int
        /\ blockedUntil \in Int /\ wake \in Int
        /\ Interval \in Int /\ Cooldown \in Int
        /\ 0 <= credit /\ credit <= Full /\ 0 <= updated /\ updated <= now
    BY FullIsNat, BucketAssumption
  <1>2. Len(grants) \in Nat /\ \A i \in 1..Len(grants) : grants[i] \in Int
    <2>1. ASSUME NEW i \in 1..Len(grants) PROVE grants[i] \in Int
      <3>1. grants[i] \in Nat
        BY ElementOfSeq
      <3> QED BY <3>1
    <2> QED BY <2>1, LenProperties
  <1>3. /\ Len(drains) \in Nat
        /\ \A k \in 1..Len(drains) : drains[k].at \in Int /\ drains[k].after \in Nat
    <2>1. ASSUME NEW k \in 1..Len(drains)
          PROVE  drains[k].at \in Int /\ drains[k].after \in Nat
      <3>1. drains[k] \in [at : Nat, after : Nat]
        BY ElementOfSeq
      <3> QED BY <3>1
    <2> QED BY <2>1, LenProperties
  <1> QED BY <1>1, <1>2, <1>3

\* What a refill finds is explained by the account it had and the time since.
LEMMA CarriedOver ==
    ASSUME NEW c \in Int, NEW before \in Int, NEW found \in Int, NEW since \in Int,
           NEW then \in Int, NEW here \in Int,
           c + before <= then - since, found <= before + (here - then)
    PROVE  c + found <= here - since
  OBVIOUS

LEMMA InvInit == Init => Inv
  BY TypeInit, BucketAssumption
  DEF Init, Inv, Conformant, Limit!Conforms, BreakerHolds, NeverOversleeps,
      PaidFromGrant, PaidFromDrain, ShutLongEnough

\* Steps that move neither history keep what is said of the histories alone.
LEMMA HistoriesKept ==
    ASSUME Inv, UNCHANGED <<grants, drains>>
    PROVE  Conformant' /\ BreakerHolds'
  BY DEF Inv, Conformant, Limit!Conforms, Limit!FitsBetween, BreakerHolds

\* Bringing the bucket up to date leaves every account paid, as long as it
\* keeps no more credit than the time since the last refill explains.
LEMMA AccountsAfterRefill ==
    ASSUME Inv, TypeOK', UNCHANGED <<grants, drains, now>>,
           updated' = now, credit' <= credit + (now - updated)
    PROVE  PaidFromGrant' /\ PaidFromDrain'
  <1>0. credit' \in Int
    BY FullIsNat DEF TypeOK
  <1>t. TypeOK
    BY DEF Inv
  <1>1. ASSUME NEW i \in 1..Len(grants)
        PROVE  /\ grants[i] <= now
               /\ Cost(Len(grants) - i + 1) + credit' <= Full + (now - grants[i])
    <2>1. /\ grants[i] <= updated
          /\ Cost(Len(grants) - i + 1) + credit <= Full + (updated - grants[i])
      BY DEF Inv, PaidFromGrant
    <2>2. Len(grants) - i + 1 \in Int
      BY <1>t, Typed
    <2>3. Cost(Len(grants) - i + 1) \in Int
      BY <2>2, CostOfOneMore
    <2>4. grants[i] \in Int /\ now \in Int /\ credit \in Int /\ updated \in Int /\ Full \in Int
          /\ updated <= now
      BY <1>t, Typed
    <2> QED BY <1>0, <2>1, <2>3, <2>4
  <1>2. ASSUME NEW k \in 1..Len(drains)
        PROVE  /\ drains[k].after <= Len(grants)
               /\ drains[k].at <= now
               /\ Cost(Len(grants) - drains[k].after) + credit' <= now - drains[k].at
    <2>1. /\ drains[k].after <= Len(grants)
          /\ drains[k].at <= updated
          /\ Cost(Len(grants) - drains[k].after) + credit <= updated - drains[k].at
      BY DEF Inv, PaidFromDrain
    <2>2. Len(grants) - drains[k].after \in Int
      BY <1>t, Typed
    <2>3. Cost(Len(grants) - drains[k].after) \in Int
      BY <2>2, CostOfOneMore
    <2>4. /\ drains[k].at \in Int /\ now \in Int /\ credit \in Int /\ updated \in Int
          /\ updated <= now
      BY <1>t, Typed
    <2> QED BY <1>0, <2>1, <2>3, <2>4
  <1> QED BY <1>1, <1>2 DEF PaidFromGrant, PaidFromDrain, Cost, Full

------------------------------------------------------------------------------
LEMMA TickInv == ASSUME Inv, TypeOK', Tick PROVE Inv'
  <1>1. Conformant' /\ BreakerHolds'
    BY HistoriesKept DEF Tick
  <1>2. PaidFromGrant' /\ PaidFromDrain'
    BY DEF Inv, Tick, PaidFromGrant, PaidFromDrain, Cost, Full
  <1>3. NeverOversleeps' /\ ShutLongEnough'
    <2>1. TypeOK
      BY DEF Inv
    <2> QED BY <2>1, Typed DEF Inv, Tick, NeverOversleeps, ShutLongEnough, Greater, TypeOK
  <1> QED BY <1>1, <1>2, <1>3 DEF Inv

\* Joining or leaving the queue touches neither the bucket nor the histories,
\* and a holder that comes first to the lock is not asleep.
LEMMA QueueInv ==
    ASSUME Inv, TypeOK', UNCHANGED <<now, credit, updated, blockedUntil, grants, drains>>,
           wake' = now \/ (wake' = wake /\ queue # << >>)
    PROVE  Inv'
  <1>1. Conformant' /\ BreakerHolds'
    BY HistoriesKept
  <1>2. PaidFromGrant' /\ PaidFromDrain'
    BY DEF Inv, PaidFromGrant, PaidFromDrain, Cost, Full
  <1>3. NeverOversleeps' /\ ShutLongEnough'
    <2>1. TypeOK
      BY DEF Inv
    <2> QED BY <2>1, Typed DEF Inv, NeverOversleeps, ShutLongEnough, Greater
  <1> QED BY <1>1, <1>2, <1>3 DEF Inv

\* A holder that goes to sleep has brought the bucket up to date and sleeps
\* until it opens or until the missing credit is there.
LEMMA SleepInv ==
    ASSUME Inv, TypeOK', HoldWhileShut \/ SleepForCredit
    PROVE  Inv'
  <1>1. TypeOK
    BY DEF Inv
  <1>2. /\ UNCHANGED <<now, blockedUntil, queue, grants, drains>>
        /\ credit' = Refilled /\ updated' = now
        /\ wake' = blockedUntil \/ wake' = now + (Interval - Refilled)
    BY DEF HoldWhileShut, SleepForCredit
  <1>3. Conformant' /\ BreakerHolds'
    BY <1>2, HistoriesKept
  <1>4. PaidFromGrant' /\ PaidFromDrain'
    BY <1>1, <1>2, RefilledBounds, AccountsAfterRefill
  <1>5. NeverOversleeps'
    <2>1. Refilled \in Int
      BY <1>1, RefilledBounds
    <2> QED BY <1>1, <1>2, <2>1, Typed DEF NeverOversleeps, Greater
  <1>6. ShutLongEnough'
    BY <1>2 DEF Inv, ShutLongEnough
  <1> QED BY <1>3, <1>4, <1>5, <1>6 DEF Inv

LEMMA DrainInv == ASSUME Inv, TypeOK', Drain PROVE Inv'
  <1> DEFINE d == [at |-> now, after |-> Len(grants)]
             n == Len(drains)
             g == Len(grants)
  <1>1. TypeOK
    BY DEF Inv
  <1>2. /\ UNCHANGED <<now, queue, wake, grants>> /\ credit' = 0 /\ updated' = now
        /\ blockedUntil' = now + Cooldown /\ drains' = Append(drains, d)
    BY DEF Drain
  <1>3. /\ Len(drains') = n + 1
        /\ \A k \in 1..n : drains'[k] = drains[k]
        /\ drains'[n + 1] = d
    BY <1>1, <1>2, AppendProperties DEF TypeOK
  <1>4. /\ n \in Nat /\ g \in Nat /\ Interval \in Int /\ Cooldown \in Nat /\ Full \in Int
        /\ now \in Int /\ credit \in Int /\ updated \in Int /\ wake \in Int /\ blockedUntil \in Int
        /\ 0 <= credit /\ credit <= Full /\ updated <= now
    BY <1>1, Typed, BucketAssumption
  <1>5. \A i \in 1..g : grants[i] \in Int
    BY <1>1, Typed
  <1>6. \A k \in 1..n : drains[k].at \in Int /\ drains[k].after \in Nat
    BY <1>1, Typed
  <1> HIDE DEF d, n, g
  <1>7. ASSUME NEW k \in 1..(n + 1)
        PROVE  \/ k = n + 1 /\ drains'[k].at = now /\ drains'[k].after = g
               \/ k \in 1..n /\ drains'[k] = drains[k]
    BY <1>3, <1>4 DEF d, g
  <1>8. Conformant'
    BY <1>2 DEF Inv, Conformant, Limit!Conforms, Limit!FitsBetween
  <1>9. BreakerHolds'
    <2> SUFFICES ASSUME NEW k \in 1..(n + 1), NEW i \in drains'[k].after + 1 .. g
                 PROVE  grants[i] >= drains'[k].at + Cooldown
      BY <1>2, <1>3 DEF BreakerHolds, g
    <2>1. CASE k \in 1..n /\ drains'[k] = drains[k]
      BY <2>1 DEF Inv, BreakerHolds, n, g
    <2>2. CASE drains'[k].after = g
      BY <2>2, <1>4
    <2> QED BY <2>1, <2>2, <1>7
  <1>10. NeverOversleeps'
    <2>1. blockedUntil <= now + Cooldown
      BY DEF Inv, ShutLongEnough
    <2>2. (queue # << >> /\ wake > now)
            => wake <= blockedUntil \/ wake <= updated + (Interval - credit)
      BY DEF Inv, NeverOversleeps, Greater
    <2>3. (queue # << >> /\ wake > now) => wake <= now + Cooldown \/ wake <= now + (Interval - 0)
      BY <2>1, <2>2, <1>4
    <2> QED BY <2>3, <1>2, <1>4 DEF NeverOversleeps, Greater
  <1>11. PaidFromGrant'
    <2>1. ASSUME NEW i \in 1..g
          PROVE  /\ grants[i] <= now
                 /\ Cost(g - i + 1) + 0 <= Full + (now - grants[i])
      <3>1. /\ grants[i] <= updated
            /\ Cost(g - i + 1) + credit <= Full + (updated - grants[i])
        BY DEF Inv, PaidFromGrant, g
      <3>2. Cost(g - i + 1) \in Int
        BY <1>4, CostOfOneMore
      <3> QED BY <1>4, <1>5, <3>1, <3>2
    <2> QED BY <2>1, <1>2 DEF PaidFromGrant, Cost, Full, g
  <1>12. ASSUME NEW k \in 1..(n + 1)
         PROVE  /\ drains'[k].after <= g
                /\ drains'[k].at <= now
                /\ Cost(g - drains'[k].after) + 0 <= now - drains'[k].at
    <2>1. CASE drains'[k].at = now /\ drains'[k].after = g
      <3>1. Cost(g - g) = 0
        BY <1>4, CostOfOneMore
      <3> QED BY <2>1, <3>1, <1>4
    <2>2. CASE k \in 1..n /\ drains'[k] = drains[k]
      <3>1. /\ drains[k].after <= g
            /\ drains[k].at <= updated
            /\ Cost(g - drains[k].after) + credit <= updated - drains[k].at
        BY <2>2 DEF Inv, PaidFromDrain, n, g
      <3>2. drains[k].at \in Int /\ drains[k].after \in Nat
        BY <2>2, <1>6
      <3>3. Cost(g - drains[k].after) \in Int
        BY <1>4, <3>2, CostOfOneMore
      <3> QED BY <2>2, <1>4, <3>1, <3>2, <3>3
    <2> QED BY <2>1, <2>2, <1>7
  <1>13. PaidFromDrain'
    BY <1>12, <1>2, <1>3 DEF PaidFromDrain, Cost, g
  <1>14. ShutLongEnough'
    <2>1. ASSUME NEW k \in 1..(n + 1) PROVE drains'[k].at + Cooldown <= now + Cooldown
      <3>1. drains'[k].at \in Int
        BY <1>4, <1>6, <1>7
      <3> QED BY <1>12, <1>4, <3>1
    <2> QED BY <2>1, <1>2, <1>3, <1>4 DEF ShutLongEnough
  <1> QED BY <1>8, <1>9, <1>10, <1>11, <1>13, <1>14 DEF Inv

LEMMA SpendInv == ASSUME Inv, TypeOK', Spend PROVE Inv'
  <1> DEFINE g == Len(grants)
  <1>1. TypeOK
    BY DEF Inv
  <1>2. /\ UNCHANGED <<now, blockedUntil, drains>> /\ updated' = now /\ wake' = now
        /\ credit' = Refilled - Interval /\ Refilled >= Interval
        /\ grants' = Append(grants, now) /\ now >= blockedUntil
    BY DEF Spend
  <1>3. /\ Len(grants') = g + 1
        /\ \A i \in 1..g : grants'[i] = grants[i]
        /\ grants'[g + 1] = now
    BY <1>1, <1>2, AppendProperties DEF TypeOK
  <1>4. /\ g \in Nat /\ Interval \in Int /\ Cooldown \in Nat /\ Full \in Int
        /\ now \in Int /\ credit \in Int /\ updated \in Int /\ blockedUntil \in Int
        /\ updated <= now
    BY <1>1, Typed, BucketAssumption
  <1>5. /\ Refilled \in Int /\ Refilled <= Full /\ Refilled <= credit + (now - updated)
        /\ 0 <= Refilled - Interval
    BY <1>1, <1>2, <1>4, RefilledBounds
  <1>6. \A i \in 1..g : grants[i] \in Int
    BY <1>1, Typed
  <1>7. \A k \in 1..Len(drains) : drains[k].at \in Int /\ drains[k].after \in Nat
    BY <1>1, Typed
  <1> HIDE DEF g
  <1>8. ASSUME NEW i \in 1..(g + 1)
        PROVE  /\ grants'[i] \in Int
               /\ grants'[i] <= now
               /\ Cost(g + 1 - i + 1) + (Refilled - Interval) <= Full + (now - grants'[i])
    <2>1. CASE i = g + 1
      <3>1. Cost(0 + 1) = Interval
        BY <1>4, CostOfOneMore
      <3>2. g + 1 - i + 1 = 0 + 1
        BY <2>1, <1>4
      <3> QED BY <2>1, <3>1, <3>2, <1>3, <1>4, <1>5
    <2>2. CASE i \in 1..g
      <3>1. /\ grants[i] <= updated
            /\ Cost(g - i + 1) + credit <= Full + (updated - grants[i])
        BY <2>2 DEF Inv, PaidFromGrant, g
      <3>2. g - i + 1 \in Int /\ g + 1 - i + 1 = (g - i + 1) + 1
        BY <1>4
      <3>3. Cost(g - i + 1) \in Int /\ Cost(g + 1 - i + 1) = Cost(g - i + 1) + Interval
        BY <3>2, CostOfOneMore
      <3>4. grants'[i] = grants[i] /\ grants[i] \in Int
        BY <2>2, <1>3, <1>6
      <3> QED BY <3>1, <3>3, <3>4, <1>4, <1>5
    <2> QED BY <2>1, <2>2, <1>4
  <1>9. PaidFromGrant'
    <2>1. ASSUME NEW i \in 1..Len(grants')
          PROVE  /\ grants'[i] <= updated'
                 /\ Cost(Len(grants') - i + 1) + credit' <= Full + (updated' - grants'[i])
      <3>1. i \in 1..(g + 1) /\ Len(grants') - i + 1 = g + 1 - i + 1 /\ Full' = Full
        BY <1>3, <1>4 DEF Full
      <3> QED BY <1>2, <1>8, <3>1 DEF Full
    <2> QED BY <2>1 DEF PaidFromGrant, Cost, Full
  <1>10. Conformant'
    <2> SUFFICES ASSUME NEW i \in 1..(g + 1), NEW j \in i..(g + 1)
                 PROVE  (j - i + 1) * Interval <= Full + (grants'[j] - grants'[i])
      BY <1>3 DEF Conformant, Limit!Conforms, Limit!FitsBetween, Full
    <2>1. CASE j = g + 1
      <3>1. Cost(j - i + 1) <= Full + (now - grants'[i])
        <4>1. Cost(j - i + 1) \in Int
          BY <1>4, CostOfOneMore
        <4> QED BY <2>1, <4>1, <1>4, <1>5, <1>8
      <3> QED BY <2>1, <3>1, <1>3 DEF Cost
    <2>2. CASE j \in i..g
      <3>1. i \in 1..g /\ j \in 1..g
        BY <2>2, <1>4
      <3>2. grants'[i] = grants[i] /\ grants'[j] = grants[j]
        BY <3>1, <1>3
      <3> QED BY <2>2, <3>1, <3>2
              DEF Inv, Conformant, Limit!Conforms, Limit!FitsBetween, Full, g
    <2> QED BY <2>1, <2>2, <1>4
  <1>11. BreakerHolds'
    <2> SUFFICES ASSUME NEW k \in 1..Len(drains), NEW i \in drains[k].after + 1 .. g + 1
                 PROVE  grants'[i] >= drains[k].at + Cooldown
      BY <1>2, <1>3 DEF BreakerHolds
    <2>1. drains[k].at + Cooldown <= blockedUntil /\ drains[k].at \in Int /\ drains[k].after \in Nat
      BY <1>7 DEF Inv, ShutLongEnough
    <2>2. CASE i = g + 1
      BY <2>1, <2>2, <1>2, <1>3, <1>4
    <2>3. CASE i \in drains[k].after + 1 .. g
      <3>1. grants'[i] = grants[i]
        BY <2>1, <2>3, <1>3, <1>4
      <3> QED BY <2>3, <3>1 DEF Inv, BreakerHolds, g
    <2> QED BY <2>1, <2>2, <2>3, <1>4
  <1>12. ASSUME NEW k \in 1..Len(drains)
         PROVE  /\ drains[k].after <= g + 1
                /\ drains[k].at <= now
                /\ Cost((g + 1) - drains[k].after) + (Refilled - Interval) <= now - drains[k].at
    <2>1. /\ drains[k].after <= g
          /\ drains[k].at <= updated
          /\ Cost(g - drains[k].after) + credit <= updated - drains[k].at
      BY DEF Inv, PaidFromDrain, g
    <2>2. drains[k].at \in Int /\ drains[k].after \in Nat
      BY <1>7
    <2>3. g - drains[k].after \in Int /\ (g + 1) - drains[k].after = (g - drains[k].after) + 1
      BY <2>2, <1>4
    <2>4. Cost(g - drains[k].after) \in Int
          /\ Cost((g + 1) - drains[k].after) = Cost(g - drains[k].after) + Interval
      BY <2>3, CostOfOneMore
    <2>5. Cost((g + 1) - drains[k].after) + (Refilled - Interval)
            = Cost(g - drains[k].after) + Refilled
      BY <2>4, <1>4, <1>5
    <2>6. Cost(g - drains[k].after) + Refilled <= now - drains[k].at
      BY <2>1, <2>2, <2>4, <1>4, <1>5, CarriedOver
    <2>7. drains[k].after <= g + 1 /\ drains[k].at <= now
      BY <2>1, <2>2, <1>4
    <2> QED BY <2>5, <2>6, <2>7
  <1>13. PaidFromDrain'
    BY <1>12, <1>2, <1>3 DEF PaidFromDrain, Cost
  <1>14. NeverOversleeps' /\ ShutLongEnough'
    BY <1>2, <1>4 DEF Inv, NeverOversleeps, ShutLongEnough
  <1> QED BY <1>9, <1>10, <1>11, <1>13, <1>14 DEF Inv

------------------------------------------------------------------------------
LEMMA InvStep == Inv /\ [Next]_vars => Inv'
  <1> SUFFICES ASSUME Inv, [Next]_vars PROVE Inv'
    OBVIOUS
  <1>0. TypeOK'
    BY TypeStep DEF Inv
  <1>1. CASE Tick
    BY <1>0, <1>1, TickInv
  <1>2. ASSUME NEW c \in Callers, Acquire(c) PROVE Inv'
    BY <1>0, <1>2, QueueInv DEF Acquire
  <1>3. CASE HoldWhileShut \/ SleepForCredit
    BY <1>0, <1>3, SleepInv
  <1>4. CASE Spend
    BY <1>0, <1>4, SpendInv
  <1>5. ASSUME NEW i \in 1..Len(queue), Cancel(i) PROVE Inv'
    <2>1. queue # << >>
      BY <1>5 DEF Inv, TypeOK
    <2> QED BY <1>0, <1>5, <2>1, QueueInv DEF Cancel
  <1>6. CASE Drain
    BY <1>0, <1>6, DrainInv
  <1>7. CASE UNCHANGED vars
    BY <1>7 DEF vars, Inv, TypeOK, Full, Conformant, Limit!Conforms, Limit!FitsBetween,
                BreakerHolds, NeverOversleeps, PaidFromGrant, PaidFromDrain, ShutLongEnough
  <1> QED BY <1>1, <1>2, <1>3, <1>4, <1>5, <1>6, <1>7 DEF Next, HolderStep

LEMMA SpecInv == Spec => []Inv
  <1>1. QED BY InvInit, InvStep, PTL DEF Spec

\* What a drain took stays taken: later requests are paid by the time after it.
LEMMA InvEmpties == Inv => DrainEmpties
  <1> SUFFICES ASSUME Inv, NEW k \in 1..Len(drains)
               PROVE  Cost(Len(grants) - drains[k].after) <= now - drains[k].at
    BY DEF DrainEmpties, Cost
  <1>1. TypeOK /\ Cost(Len(grants) - drains[k].after) + credit <= updated - drains[k].at
    BY DEF Inv, PaidFromDrain
  <1>2. /\ drains[k].at \in Int /\ Len(grants) - drains[k].after \in Int
        /\ now \in Int /\ credit \in Int /\ updated \in Int /\ 0 <= credit /\ updated <= now
    BY <1>1, Typed
  <1>3. Cost(Len(grants) - drains[k].after) \in Int
    BY <1>2, CostOfOneMore
  <1> QED BY <1>1, <1>2, <1>3

\* The breaker: no request starts inside the cooldown of any drain before it.
THEOREM BreakerHoldsAlways == Spec => []BreakerHolds
  <1>1. Inv => BreakerHolds
    BY DEF Inv
  <1> QED BY <1>1, SpecInv, PTL

\* drain empties: nothing saved up before it is spent after it.
THEOREM DrainEmptiesAlways == Spec => []DrainEmpties
  BY InvEmpties, SpecInv, PTL

\* No holder sleeps past the moment it could be served.
THEOREM NeverOversleepsAlways == Spec => []NeverOversleeps
  <1>1. Inv => NeverOversleeps
    BY DEF Inv
  <1> QED BY <1>1, SpecInv, PTL

\* The bucket implements the rate limit it mirrors: every token spent is a
\* request RateLimit lets through, and every other step is time or a stutter.
THEOREM BucketImplementsRateLimit == Spec => ImplementsRateLimit
  <1>1. Init => Limit!Init
    BY DEF Init, Limit!Init
  <1>2. Inv /\ Inv' /\ [Next]_vars => [Limit!Next]_<<now, grants>>
    <2> SUFFICES ASSUME Inv, Inv', [Next]_vars
                 PROVE  Limit!Tick \/ Limit!Start \/ UNCHANGED <<now, grants>>
      BY DEF Limit!Next
    <2>1. CASE Spend
      BY <2>1 DEF Spend, Limit!Start, Inv, Conformant, Limit!Conforms, Limit!FitsBetween
    <2>2. CASE Tick
      BY <2>2 DEF Tick, Limit!Tick
    <2>3. CASE ~Spend /\ ~Tick
      BY <2>3 DEF Next, HolderStep, Acquire, HoldWhileShut, SleepForCredit, Cancel, Drain, vars
    <2> QED BY <2>1, <2>2, <2>3
  <1> QED BY <1>1, <1>2, SpecInv, PTL DEF Spec, ImplementsRateLimit, Limit!Spec
==============================================================================
