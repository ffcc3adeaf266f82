-------------------------- MODULE ConnectionProofs --------------------------
(***************************************************************************)
(* Connection, for every set of calls, whatever each may ask for, every    *)
(* number of attempts, every threshold and every number of changes by      *)
(* others: it is typed and implements WriteOnce, a delete reported as done *)
(* leaves no record, and a stale version is somebody else's change.        *)
(***************************************************************************)
EXTENDS Connection, TLAPS, SequenceTheorems

Kinds == {"limited", "other", "drain"}

\* The trimmed history stays a sequence of kinds.
LEMMA NotedTyped ==
    ASSUME handled \in Seq(Kinds), NEW s \in Seq(Kinds)
    PROVE  Noted(s) \in Seq(Kinds)
  <1> DEFINE all == handled \o s
             n == Len(all)
             k == BreakerThreshold + 1
  <1>1. all \in Seq(Kinds) /\ n \in Nat
    BY ConcatProperties, LenProperties
  <1>2. k \in Nat
    BY ConnectionAssumption
  <1>3. CASE n <= k
    BY <1>1, <1>3 DEF Noted
  <1>4. CASE ~(n <= k)
    <2>1. n - k + 1 \in 1..n
      BY <1>1, <1>2, <1>4, ConnectionAssumption
    <2>2. SubSeq(all, n - k + 1, n) \in Seq(Kinds)
      BY <1>1, <2>1, SubSeqProperties
    <2> QED BY <2>2, <1>4 DEF Noted
  <1> QED BY <1>3, <1>4

\* The kinds of history the steps note.
LEMMA NotedKinds ==
    ASSUME handled \in Seq(Kinds)
    PROVE  /\ Noted(<<"other">>) \in Seq(Kinds)
           /\ Noted(<<"limited">>) \in Seq(Kinds)
           /\ Noted(<<"limited", "drain">>) \in Seq(Kinds)
  <1>1. /\ <<"other">> \in Seq(Kinds) /\ <<"limited">> \in Seq(Kinds)
        /\ <<"limited", "drain">> \in Seq(Kinds)
    BY DEF Kinds
  <1> QED BY <1>1, NotedTyped

\* A change of the record leaves it typed, moves its version on and never
\* brings it back.
LEMMA RecordTyped ==
    ASSUME TypeOK,
           \/ record' = [record EXCEPT !.version = @ + 1]
           \/ record' = [record EXCEPT !.exists = FALSE]
           \/ record' = record
    PROVE  /\ record' \in [version : Nat, exists : BOOLEAN]
           /\ record'.version >= record.version
           /\ record'.exists => record.exists
  <1>1. record \in [version : Nat, exists : BOOLEAN]
    BY DEF TypeOK
  <1>2. CASE record' = [record EXCEPT !.version = @ + 1]
    <2>1. record.version \in Nat /\ record.exists \in BOOLEAN
      BY <1>1
    <2> DEFINE v == record.version + 1
    <2>2. v \in Nat /\ v >= record.version
      BY <2>1
    <2>3. record' = [version |-> v, exists |-> record.exists]
      BY <1>1, <1>2
    <2> HIDE DEF v
    <2>4. record'.version = v /\ record'.exists = record.exists
      BY <2>3
    <2>5. record' \in [version : Nat, exists : BOOLEAN]
      BY <2>1, <2>2, <2>3
    <2>6. record'.version >= record.version
      BY <2>2, <2>4
    <2>7. record'.exists => record.exists
      BY <2>4
    <2> QED BY <2>5, <2>6, <2>7
  <1>3. CASE record' = [record EXCEPT !.exists = FALSE]
    <2>1. record'.version = record.version /\ record'.exists = FALSE
      BY <1>1, <1>3
    <2>2. record' \in [version : Nat, exists : BOOLEAN]
      BY <1>1, <1>3
    <2>3. record.version \in Nat
      BY <1>1
    <2>4. record'.version >= record.version
      BY <2>1, <2>3
    <2> QED BY <2>1, <2>2, <2>4
  <1>4. CASE record' = record
    BY <1>1, <1>4
  <1> QED BY <1>2, <1>3, <1>4

\* Replacing one call's state by another leaves all of them typed.
LEMMA CallsTyped ==
    ASSUME TypeOK, NEW c \in Calls, NEW x \in CallStates
    PROVE  /\ [call EXCEPT ![c] = x] \in [Calls -> CallStates]
           /\ [call EXCEPT ![c] = x][c] = x
           /\ \A d \in Calls \ {c} : [call EXCEPT ![c] = x][d] = call[d]
  BY DEF TypeOK

\* What the end of a call, its next attempt, an answer and a change of where it
\* waits leave of its state, and that they touch no other call.
LEMMA EndTyped ==
    ASSUME TypeOK, NEW c \in Calls, NEW o \in Outcomes, End(c, o)
    PROVE  /\ call' \in [Calls -> CallStates]
           /\ \A d \in Calls \ {c} : call'[d] = call[d]
           /\ call'[c].pc = "ended" /\ call'[c].outcome = o
           /\ call'[c].method = call[c].method /\ call'[c].base = call[c].base
           /\ call'[c].attempt = call[c].attempt /\ call'[c].reply = call[c].reply
           /\ call'[c].maybeDone = call[c].maybeDone
  <1> DEFINE x == [call[c] EXCEPT !.pc = "ended", !.outcome = o]
  <1>1. call[c] \in CallStates
    BY DEF TypeOK
  <1>2. x \in CallStates
    BY <1>1 DEF CallStates
  <1>3. /\ x.pc = "ended" /\ x.outcome = o
        /\ x.method = call[c].method /\ x.base = call[c].base
        /\ x.attempt = call[c].attempt /\ x.reply = call[c].reply
        /\ x.maybeDone = call[c].maybeDone
    BY <1>1 DEF CallStates
  <1>4. call' = [call EXCEPT ![c] = x]
    BY DEF End, TypeOK
  <1> HIDE DEF x
  <1> QED BY <1>2, <1>3, <1>4, CallsTyped

LEMMA RetryTyped ==
    ASSUME TypeOK, NEW c \in Calls, NEW b \in BOOLEAN, More(c), Retry(c, b)
    PROVE  /\ call' \in [Calls -> CallStates]
           /\ \A d \in Calls \ {c} : call'[d] = call[d]
           /\ call'[c].pc = "backoff" /\ call'[c].outcome = call[c].outcome
           /\ call'[c].method = call[c].method /\ call'[c].base = call[c].base
           /\ call'[c].attempt = call[c].attempt + 1 /\ call'[c].reply = "none"
           /\ call'[c].maybeDone = b
  <1> DEFINE x == [call[c] EXCEPT !.pc = "backoff", !.attempt = @ + 1,
                                  !.maybeDone = b, !.reply = "none"]
  <1>1. call[c] \in CallStates
    BY DEF TypeOK
  <1>2. call[c].attempt + 1 \in 1..MaxAttempts
    BY <1>1, ConnectionAssumption DEF More, CallStates
  <1>3. x \in CallStates
    BY <1>1, <1>2 DEF CallStates
  <1>4. /\ x.pc = "backoff" /\ x.outcome = call[c].outcome
        /\ x.method = call[c].method /\ x.base = call[c].base
        /\ x.attempt = call[c].attempt + 1 /\ x.reply = "none"
        /\ x.maybeDone = b
    BY <1>1 DEF CallStates
  <1>5. call' = [call EXCEPT ![c] = x]
    BY DEF Retry, TypeOK
  <1> HIDE DEF x
  <1> QED BY <1>3, <1>4, <1>5, CallsTyped

LEMMA WaitTyped ==
    ASSUME TypeOK, NEW c \in Calls, NEW w \in {"queued", "sent"},
           call' = [call EXCEPT ![c].pc = w]
    PROVE  /\ call' \in [Calls -> CallStates]
           /\ \A d \in Calls \ {c} : call'[d] = call[d]
           /\ call'[c].pc = w /\ call'[c].outcome = call[c].outcome
           /\ call'[c].method = call[c].method /\ call'[c].base = call[c].base
           /\ call'[c].attempt = call[c].attempt /\ call'[c].reply = call[c].reply
           /\ call'[c].maybeDone = call[c].maybeDone
  <1> DEFINE x == [call[c] EXCEPT !.pc = w]
  <1>1. call[c] \in CallStates
    BY DEF TypeOK
  <1>2. x \in CallStates
    BY <1>1 DEF CallStates
  <1>3. /\ x.pc = w /\ x.outcome = call[c].outcome
        /\ x.method = call[c].method /\ x.base = call[c].base
        /\ x.attempt = call[c].attempt /\ x.reply = call[c].reply
        /\ x.maybeDone = call[c].maybeDone
    BY <1>1 DEF CallStates
  <1>4. call' = [call EXCEPT ![c] = x]
    BY DEF TypeOK
  <1> HIDE DEF x
  <1> QED BY <1>2, <1>3, <1>4, CallsTyped

LEMMA ReplyTyped ==
    ASSUME TypeOK, NEW r \in Calls \X (1..MaxAttempts), NEW answers \in SUBSET Answers,
           Reply(r, answers)
    PROVE  /\ call' \in [Calls -> CallStates]
           /\ \A d \in Calls \ {r[1]} : call'[d] = call[d]
           /\ call'[r[1]].pc = call[r[1]].pc /\ call'[r[1]].outcome = call[r[1]].outcome
           /\ call'[r[1]].method = call[r[1]].method /\ call'[r[1]].base = call[r[1]].base
           /\ call'[r[1]].attempt = call[r[1]].attempt
           /\ call'[r[1]].maybeDone = call[r[1]].maybeDone
           /\ \/ call'[r[1]].reply = call[r[1]].reply
              \/ call[r[1]].pc = "sent" /\ call'[r[1]].reply \in answers
  <1>1. r[1] \in Calls
    OBVIOUS
  <1>2. CASE UNCHANGED call
    BY <1>2, <1>1 DEF TypeOK
  <1>3. CASE ~UNCHANGED call
    <2>1. PICK a \in answers : call' = [call EXCEPT ![r[1]].reply = a]
      BY <1>3 DEF Reply
    <2>2. call[r[1]].pc = "sent"
      BY <1>3 DEF Reply
    <2> DEFINE c == r[1]
               x == [call[c] EXCEPT !.reply = a]
    <2>3. call[c] \in CallStates
      BY <1>1 DEF TypeOK
    <2>4. x \in CallStates
      BY <2>3 DEF CallStates
    <2>5. /\ x.pc = call[c].pc /\ x.outcome = call[c].outcome
          /\ x.method = call[c].method /\ x.base = call[c].base
          /\ x.attempt = call[c].attempt /\ x.reply = a
          /\ x.maybeDone = call[c].maybeDone
      BY <2>3 DEF CallStates
    <2>6. call' = [call EXCEPT ![c] = x]
      BY <2>1, <1>1 DEF TypeOK
    <2>7. c \in Calls
      BY <1>1
    <2> HIDE DEF x, c
    <2>8. /\ call' \in [Calls -> CallStates]
          /\ \A d \in Calls \ {c} : call'[d] = call[d]
          /\ call'[c] = x
      BY <2>4, <2>6, <2>7, CallsTyped
    <2> QED BY <2>1, <2>2, <2>5, <2>8 DEF c
  <1> QED BY <1>2, <1>3

LEMMA CallTyped ==
    ASSUME TypeOK, NEW c \in Calls, Call(c)
    PROVE  /\ call' \in [Calls -> CallStates]
           /\ \A d \in Calls \ {c} : call'[d] = call[d]
           /\ call[c].pc = "idle" /\ call'[c].pc = "queued"
           /\ call'[c].outcome = call[c].outcome
           /\ call'[c].method \in Methods /\ call'[c].base \in 0..record.version
           /\ call'[c].attempt = call[c].attempt /\ call'[c].reply = call[c].reply
           /\ call'[c].maybeDone = call[c].maybeDone
  <1>1. PICK m \in Asks[c], v \in 0..record.version :
           call' = [call EXCEPT ![c].method = m, ![c].base = v, ![c].pc = "queued"]
    BY DEF Call
  <1> DEFINE x == [call[c] EXCEPT !.method = m, !.base = v, !.pc = "queued"]
  <1>2. call[c] \in CallStates /\ m \in Methods /\ v \in Nat
    BY ConnectionAssumption DEF TypeOK
  <1>3. x \in CallStates
    BY <1>2 DEF CallStates
  <1>4. /\ x.pc = "queued" /\ x.outcome = call[c].outcome
        /\ x.method = m /\ x.base = v
        /\ x.attempt = call[c].attempt /\ x.reply = call[c].reply
        /\ x.maybeDone = call[c].maybeDone
    BY <1>2 DEF CallStates
  <1>5. call' = [call EXCEPT ![c] = x]
    BY <1>1 DEF TypeOK
  <1>6. call[c].pc = "idle"
    BY DEF Call
  <1> HIDE DEF x
  <1> QED BY <1>2, <1>3, <1>4, <1>5, <1>6, CallsTyped

LEMMA VerdictTyped ==
    ASSUME NEW c \in Calls
    PROVE  Verdict(c) \in Outcomes /\ Lost(c) \in Outcomes
  BY DEF Verdict, Lost, FoundGone, OwnChange, Outcomes

------------------------------------------------------------------------------
LEMMA TypeInit == Init => TypeOK
  <1>1. Idle \in CallStates
    BY ConnectionAssumption DEF Idle, CallStates
  <1> SUFFICES ASSUME Init PROVE TypeOK
    OBVIOUS
  <1>2. call \in [Calls -> CallStates] /\ effects \in [Calls -> Nat]
    BY <1>1 DEF Init
  <1>3. record \in [version : Nat, exists : BOOLEAN]
    BY DEF Init
  <1>4. handled \in Seq({"limited", "other", "drain"})
    BY DEF Init
  <1>5. streak \in 0..(BreakerThreshold - 1) /\ edits \in 0..MaxEdits
    <2>1. streak = 0 /\ edits = 0
      BY DEF Init
    <2> QED BY <2>1, ConnectionAssumption
  <1>6. shut \in BOOLEAN /\ wire = {}
    BY DEF Init
  <1> QED BY <1>2, <1>3, <1>4, <1>5, <1>6 DEF TypeOK

LEMMA TypeOfTask ==
    ASSUME TypeOK, NEW c \in Calls,
           Call(c) \/ Keyless(c) \/ Proceed(c) \/ ProbeGivesUp(c) \/ Cancelled(c)
    PROVE  TypeOK'
  <1>0. handled \in Seq(Kinds)
    BY DEF TypeOK, Kinds
  <1>1. CASE Call(c)
    <2>1. call' \in [Calls -> CallStates]
      BY <1>1, CallTyped
    <2> QED BY <1>1, <2>1 DEF Call, TypeOK, Service
  <1>2. CASE Send(c)
    <2>1. <<c, call[c].attempt>> \in Calls \X (1..MaxAttempts)
      BY DEF TypeOK, CallStates
    <2>2. call' \in [Calls -> CallStates]
      BY <1>2, WaitTyped DEF Send
    <2> QED BY <1>2, <2>1, <2>2 DEF Send, TypeOK
  <1>3. CASE BackoffOver(c)
    <2>1. call' \in [Calls -> CallStates]
      BY <1>3, WaitTyped DEF BackoffOver
    <2> QED BY <1>3, <2>1 DEF BackoffOver, TypeOK, Service
  <1>4. CASE Unanswered(c) \/ ServerError(c) \/ Answered(c)
    <2>1. call' \in [Calls -> CallStates]
      BY <1>4, EndTyped, RetryTyped, VerdictTyped DEF Unanswered, ServerError, Answered
    <2>2. streak' = 0 /\ handled' = Noted(<<"other">>) /\ UNCHANGED <<shut, Service>>
      BY <1>4 DEF Unanswered, ServerError, Answered
    <2> QED BY <1>0, <2>1, <2>2, NotedKinds, ConnectionAssumption DEF TypeOK, Service, Kinds
  <1>5. CASE RateLimited(c)
    <2>1. call' \in [Calls -> CallStates]
      <3>1. call[c].maybeDone \in BOOLEAN /\ "limited" \in Outcomes
        BY DEF TypeOK, CallStates, Outcomes
      <3> QED BY <1>5, <3>1, EndTyped, RetryTyped DEF RateLimited, LastStraw, WorthWaiting
    <2>2. streak' \in 0..(BreakerThreshold - 1) /\ shut' \in BOOLEAN
      <3>1. streak \in 0..(BreakerThreshold - 1) /\ shut \in BOOLEAN
            /\ BreakerThreshold \in Nat \ {0}
        BY ConnectionAssumption DEF TypeOK
      <3>2. CASE streak + 1 >= BreakerThreshold
        <4>1. streak' = 0 /\ shut' = TRUE
          BY <1>5, <3>2 DEF RateLimited, LastStraw, WorthWaiting
        <4> QED BY <3>1, <4>1
      <3>3. CASE ~(streak + 1 >= BreakerThreshold)
        <4>1. streak' = streak + 1 /\ shut' = shut
          BY <1>5, <3>3 DEF RateLimited, LastStraw, WorthWaiting
        <4> QED BY <3>1, <3>3, <4>1
      <3> QED BY <3>2, <3>3
    <2>3. handled' \in Seq(Kinds)
      BY <1>5, <1>0, NotedKinds DEF RateLimited, LastStraw, WorthWaiting
    <2> QED BY <1>5, <2>1, <2>2, <2>3 DEF RateLimited, LastStraw, WorthWaiting, TypeOK, Service, Kinds
  <1>6. CASE ProbeGivesUp(c) \/ ProbeReturns(c) \/ Keyless(c) \/ Cancelled(c)
    <2>1. call' \in [Calls -> CallStates]
      BY <1>6, EndTyped DEF ProbeGivesUp, ProbeReturns, Keyless, Cancelled, Outcomes
    <2> QED BY <1>6, <2>1 DEF ProbeGivesUp, ProbeReturns, Keyless, Cancelled, TypeOK, Service
  <1> QED BY <1>1, <1>2, <1>3, <1>4, <1>5, <1>6 DEF Proceed

LEMMA TypeStep == TypeOK /\ [Next]_vars => TypeOK'
  <1> SUFFICES ASSUME TypeOK, [Next]_vars PROVE TypeOK'
    OBVIOUS
  <1>1. ASSUME NEW c \in Calls, Call(c) \/ Keyless(c) \/ Proceed(c) \/ ProbeGivesUp(c) \/ Cancelled(c)
        PROVE  TypeOK'
    BY <1>1, TypeOfTask
  <1>2. CASE Reopen
    BY <1>2 DEF Reopen, TypeOK, Service
  <1>3. ASSUME NEW r \in wire, Perform(r) PROVE TypeOK'
    <2>1. r \in Calls \X (1..MaxAttempts) /\ r[1] \in Calls
      BY DEF TypeOK
    <2>2. call' \in [Calls -> CallStates]
      BY <1>3, <2>1, ReplyTyped DEF Perform, Answers
    <2>3. effects' \in [Calls -> Nat]
      BY <1>3, <2>1 DEF Perform, TypeOK
    <2>4. record' \in [version : Nat, exists : BOOLEAN]
      BY <1>3, RecordTyped DEF Perform
    <2> QED BY <1>3, <2>2, <2>3, <2>4 DEF Perform, TypeOK
  <1>4. ASSUME NEW r \in wire, Refuse(r) PROVE TypeOK'
    <2>1. r \in Calls \X (1..MaxAttempts)
      BY DEF TypeOK
    <2>2. Refusals(r[1]) \subseteq Answers
      BY DEF Refusals, Answers
    <2>3. call' \in [Calls -> CallStates]
      BY <1>4, <2>1, <2>2, ReplyTyped DEF Refuse
    <2> QED BY <1>4, <2>3 DEF Refuse, TypeOK
  <1>5. CASE OthersEdit
    <2>1. record' \in [version : Nat, exists : BOOLEAN]
      BY <1>5, RecordTyped DEF OthersEdit
    <2>2. edits' \in 0..MaxEdits
      BY <1>5, ConnectionAssumption DEF OthersEdit, TypeOK
    <2> QED BY <1>5, <2>1, <2>2 DEF OthersEdit, TypeOK
  <1>6. CASE UNCHANGED vars
    BY <1>6 DEF vars, TypeOK
  <1> QED BY <1>1, <1>2, <1>3, <1>4, <1>5, <1>6 DEF Next

\* The state keeps its types, and the streak never outgrows the threshold.
THEOREM ConnectionTyped == Spec => []TypeOK
  <1> QED BY TypeInit, TypeStep, PTL DEF Spec

------------------------------------------------------------------------------
(***************************************************************************)
(* The strengthening.  What the client knows of a call (its maybeDone and  *)
(* the answer it has) bounds what can have become of it: while no attempt  *)
(* was left open, at most the latest one is on its way, it is gone once    *)
(* the call took effect, and between attempts and after a refusal neither  *)
(* happened.  After a lost attempt the service's side takes over: a change *)
(* that was carried out has moved the version on or removed the record.    *)
(***************************************************************************)
Declined == {"limited", "limitedLong", "stale", "barred", "absent", "refused"}

OnWire(c) == \E k \in 1..MaxAttempts : <<c, k>> \in wire

\* No attempt was left open.
Certain(c) ==
    ~call[c].maybeDone =>
        /\ \A k \in 1..MaxAttempts : <<c, k>> \in wire => k = call[c].attempt
        /\ effects[c] = 1 => ~OnWire(c)
        /\ call[c].pc \in {"idle", "queued", "backoff"} \/ call[c].reply \in Declined
               => effects[c] = 0 /\ ~OnWire(c)

\* What a change that was carried out has left behind at the service.
Visible(c) ==
    /\ effects[c] \in {0, 1}
    /\ ~Writes(c) => effects[c] = 0
    /\ call[c].method = "PUT" =>
           /\ call[c].base <= record.version
           /\ effects[c] = 1 => call[c].base < record.version
    /\ call[c].method = "DELETE" /\ effects[c] = 1 => ~record.exists

\* What an answer proves.
Answering(c) ==
    /\ call[c].reply = "ok" /\ Writes(c) => effects[c] = 1
    /\ call[c].reply = "stale" => call[c].method = "PUT" /\ call[c].base < record.version
    /\ call[c].reply = "absent" => ~record.exists

\* How a call got where it is.
Progress(c) ==
    /\ call[c].pc # "ended" => call[c].outcome = "none"
    /\ call[c].pc \in {"idle", "queued", "backoff"} => call[c].reply = "none"
    /\ call[c].pc = "idle" => call[c].method = "none" /\ ~call[c].maybeDone
    /\ call[c].method = "POST" => ~call[c].maybeDone
    /\ call[c].outcome \in {"refused", "stale", "limited"} /\ Writes(c)
           => call[c].reply \in Declined
    /\ call[c].outcome = "stale" => call[c].reply = "stale" /\ ~call[c].maybeDone
    /\ call[c].outcome = "done" /\ Writes(c)
           => call[c].reply = "ok" \/ FoundGone(c)

Accounted(c) == Certain(c) /\ Visible(c) /\ Answering(c) /\ Progress(c)

Inv == TypeOK /\ \A c \in Calls : Accounted(c)

LEMMA InvInit == Init => Inv
  <1> SUFFICES ASSUME Init, NEW c \in Calls PROVE Accounted(c)
    BY TypeInit DEF Inv
  <1>1. /\ call[c] = Idle /\ effects[c] = 0 /\ wire = {}
    BY DEF Init
  <1>2. /\ call[c].method = "none" /\ call[c].pc = "idle" /\ call[c].maybeDone = FALSE
        /\ call[c].reply = "none" /\ call[c].outcome = "none"
    BY <1>1 DEF Idle
  <1> QED BY <1>1, <1>2
          DEF Accounted, Certain, Visible, Answering, Progress, FoundGone, OnWire, Writes, Declined

\* A call that a step does not touch stays accounted for, as long as nothing of
\* it comes onto the wire and the record only moves on.
LEMMA Untouched ==
    ASSUME Inv, TypeOK', NEW d \in Calls,
           call'[d] = call[d], effects'[d] = effects[d],
           \A k \in 1..MaxAttempts : <<d, k>> \in wire' => <<d, k>> \in wire,
           record'.version >= record.version, record'.exists => record.exists
    PROVE  Accounted(d)'
  <1>1. /\ Certain(d) /\ Visible(d) /\ Answering(d) /\ Progress(d)
        /\ call[d].base \in Nat /\ record.version \in Nat
    BY DEF Inv, Accounted, TypeOK, CallStates
  <1>2. record'.version \in Nat
    BY DEF TypeOK
  <1>3. Certain(d)'
    BY <1>1 DEF Certain, OnWire
  <1>4. Visible(d)'
    BY <1>1, <1>2 DEF Visible, Writes
  <1>5. Answering(d)'
    BY <1>1, <1>2 DEF Answering, Writes
  <1>6. Progress(d)'
    BY <1>1 DEF Progress, FoundGone, Writes
  <1> QED BY <1>3, <1>4, <1>5, <1>6 DEF Accounted

LEMMA RecordStays ==
    ASSUME TypeOK, UNCHANGED record
    PROVE  record'.version >= record.version /\ (record'.exists => record.exists)
  BY RecordTyped

\* The end of a call, when the answer it has bears out what its caller is told.
LEMMA EndInv ==
    ASSUME Inv, TypeOK', NEW c \in Calls, NEW o \in Outcomes, End(c, o), UNCHANGED Service,
           o \in {"refused", "stale", "limited"} /\ Writes(c) => call[c].reply \in Declined,
           o = "stale" => call[c].reply = "stale" /\ ~call[c].maybeDone,
           o = "done" /\ Writes(c) => call[c].reply = "ok" \/ FoundGone(c)
    PROVE  Inv'
  <1>1. TypeOK /\ Certain(c) /\ Visible(c) /\ Answering(c) /\ Progress(c)
    BY DEF Inv, Accounted
  <1>2. /\ \A d \in Calls \ {c} : call'[d] = call[d]
        /\ call'[c].pc = "ended" /\ call'[c].outcome = o
        /\ call'[c].method = call[c].method /\ call'[c].base = call[c].base
        /\ call'[c].attempt = call[c].attempt /\ call'[c].reply = call[c].reply
        /\ call'[c].maybeDone = call[c].maybeDone
    BY <1>1, EndTyped
  <1>3. UNCHANGED <<wire, record, effects>>
    BY DEF Service
  <1>4. Accounted(c)'
    <2>1. Certain(c)'
      BY <1>1, <1>2, <1>3 DEF Certain, OnWire
    <2>2. Visible(c)' /\ Answering(c)'
      BY <1>1, <1>2, <1>3 DEF Visible, Answering, Writes
    <2>3. Progress(c)'
      BY <1>1, <1>2, <1>3 DEF Progress, FoundGone, Writes
    <2> QED BY <2>1, <2>2, <2>3 DEF Accounted
  <1>5. ASSUME NEW d \in Calls \ {c} PROVE Accounted(d)'
    BY <1>1, <1>2, <1>3, <1>5, Untouched, RecordStays
  <1> QED BY <1>4, <1>5 DEF Inv

\* Another attempt: after a refusal what is known of the call stays known, after
\* a lost attempt it is forgotten, which only a write that is not a POST may do.
LEMMA RetryInv ==
    ASSUME Inv, TypeOK', NEW c \in Calls, NEW b \in BOOLEAN, More(c), Retry(c, b),
           UNCHANGED Service, call[c].pc = "sent",
           call[c].method = "POST" => ~b,
           ~b => ~call[c].maybeDone /\ call[c].reply \in Declined
    PROVE  Inv'
  <1>1. TypeOK /\ Certain(c) /\ Visible(c) /\ Answering(c) /\ Progress(c)
    BY DEF Inv, Accounted
  <1>2. /\ \A d \in Calls \ {c} : call'[d] = call[d]
        /\ call'[c].pc = "backoff" /\ call'[c].outcome = call[c].outcome
        /\ call'[c].method = call[c].method /\ call'[c].base = call[c].base
        /\ call'[c].reply = "none" /\ call'[c].maybeDone = b
    BY <1>1, RetryTyped
  <1>3. UNCHANGED <<wire, record, effects>>
    BY DEF Service
  <1>4. Accounted(c)'
    <2>1. Certain(c)'
      BY <1>1, <1>2, <1>3 DEF Certain, OnWire
    <2>2. Visible(c)' /\ Answering(c)'
      BY <1>1, <1>2, <1>3 DEF Visible, Answering, Writes
    <2>3. Progress(c)'
      BY <1>1, <1>2, <1>3 DEF Progress, FoundGone, Writes
    <2> QED BY <2>1, <2>2, <2>3 DEF Accounted
  <1>5. ASSUME NEW d \in Calls \ {c} PROVE Accounted(d)'
    BY <1>1, <1>2, <1>3, <1>5, Untouched, RecordStays
  <1> QED BY <1>4, <1>5 DEF Inv

------------------------------------------------------------------------------
LEMMA CallInv == ASSUME Inv, TypeOK', NEW c \in Calls, Call(c) PROVE Inv'
  <1>1. TypeOK /\ Certain(c) /\ Visible(c) /\ Answering(c) /\ Progress(c)
    BY DEF Inv, Accounted
  <1>2. /\ \A d \in Calls \ {c} : call'[d] = call[d]
        /\ call[c].pc = "idle" /\ call'[c].pc = "queued"
        /\ call'[c].outcome = call[c].outcome
        /\ call'[c].method \in Methods /\ call'[c].base \in 0..record.version
        /\ call'[c].attempt = call[c].attempt /\ call'[c].reply = call[c].reply
        /\ call'[c].maybeDone = call[c].maybeDone
    BY <1>1, CallTyped
  <1>3. UNCHANGED <<wire, record, effects>>
    BY DEF Call, Service
  <1>4. effects[c] = 0 /\ call[c].reply = "none" /\ call[c].outcome = "none"
        /\ ~call[c].maybeDone /\ ~OnWire(c)
    BY <1>1, <1>2 DEF Certain, Progress
  <1>5. Accounted(c)'
    <2>1. Certain(c)'
      BY <1>1, <1>2, <1>3, <1>4 DEF Certain, OnWire
    <2>2. Visible(c)'
      <3>1. record.version \in Nat
        BY <1>1 DEF TypeOK
      <3>2. call'[c].base <= record.version
        BY <1>2, <3>1
      <3> QED BY <1>3, <1>4, <3>2 DEF Visible, Writes
    <2>3. Answering(c)' /\ Progress(c)'
      BY <1>2, <1>3, <1>4 DEF Answering, Progress, FoundGone, Writes
    <2> QED BY <2>1, <2>2, <2>3 DEF Accounted
  <1>6. ASSUME NEW d \in Calls \ {c} PROVE Accounted(d)'
    BY <1>1, <1>2, <1>3, <1>6, Untouched, RecordStays
  <1> QED BY <1>5, <1>6 DEF Inv

LEMMA SendInv ==
    ASSUME Inv, TypeOK', NEW c \in Calls, Send(c) \/ BackoffOver(c)
    PROVE  Inv'
  <1>1. TypeOK /\ Certain(c) /\ Visible(c) /\ Answering(c) /\ Progress(c)
    BY DEF Inv, Accounted
  <1>2. PICK w \in {"queued", "sent"} :
           /\ call' = [call EXCEPT ![c].pc = w]
           /\ w = "queued" => wire' = wire
           /\ w = "sent" => wire' = wire \cup {<<c, call[c].attempt>>}
    BY DEF Send, BackoffOver, Service
  <1>3. /\ \A d \in Calls \ {c} : call'[d] = call[d]
        /\ call'[c].pc = w /\ call'[c].outcome = call[c].outcome
        /\ call'[c].method = call[c].method /\ call'[c].base = call[c].base
        /\ call'[c].attempt = call[c].attempt /\ call'[c].reply = call[c].reply
        /\ call'[c].maybeDone = call[c].maybeDone
    BY <1>1, <1>2, WaitTyped
  <1>4. UNCHANGED <<record, effects>> /\ call[c].pc \in {"queued", "backoff"}
    BY DEF Send, BackoffOver, Service
  <1>5. call[c].reply = "none" /\ call[c].outcome = "none"
        /\ (~call[c].maybeDone => effects[c] = 0 /\ ~OnWire(c))
    BY <1>1, <1>4 DEF Certain, Progress
  <1>6. Accounted(c)'
    <2>1. Certain(c)'
      <3>1. CASE w = "queued"
        BY <3>1, <1>2, <1>3, <1>4, <1>5 DEF Certain, OnWire
      <3>2. CASE w = "sent"
        <4>1. ASSUME ~call[c].maybeDone, NEW k \in 1..MaxAttempts, <<c, k>> \in wire'
              PROVE  k = call[c].attempt
          BY <3>2, <4>1, <1>2, <1>5 DEF OnWire
        <4> QED BY <3>2, <4>1, <1>3, <1>4, <1>5 DEF Certain, Declined
      <3> QED BY <3>1, <3>2
    <2>2. Visible(c)' /\ Answering(c)'
      BY <1>1, <1>3, <1>4 DEF Visible, Answering, Writes
    <2>3. Progress(c)'
      BY <1>1, <1>3, <1>4, <1>5 DEF Progress, FoundGone, Writes
    <2> QED BY <2>1, <2>2, <2>3 DEF Accounted
  <1>7. ASSUME NEW d \in Calls \ {c} PROVE Accounted(d)'
    <2>1. \A k \in 1..MaxAttempts : <<d, k>> \in wire' => <<d, k>> \in wire
      BY <1>2, <1>7
    <2> QED BY <1>1, <1>3, <1>4, <1>7, <2>1, Untouched, RecordStays
  <1> QED BY <1>6, <1>7 DEF Inv

\* The loop of request: each way it takes an answer keeps the accounts.
LEMMA AnswerInv ==
    ASSUME Inv, TypeOK', NEW c \in Calls,
           Unanswered(c) \/ RateLimited(c) \/ ServerError(c) \/ Answered(c)
    PROVE  Inv'
  <1>1. TypeOK /\ Accounted(c) /\ call[c].pc = "sent" /\ UNCHANGED Service
        /\ call[c].maybeDone \in BOOLEAN
    BY DEF Inv, Unanswered, RateLimited, LastStraw, WorthWaiting, ServerError, Answered, Resumes, TypeOK, CallStates
  <1>2. CASE Unanswered(c) \/ ServerError(c)
    <2>1. (Retryable(c) /\ More(c) /\ Retry(c, TRUE)) \/ End(c, Lost(c))
      BY <1>2 DEF Unanswered, ServerError
    <2>2. CASE Retryable(c) /\ More(c) /\ Retry(c, TRUE)
      BY <2>2, <1>1, RetryInv DEF Retryable
    <2>3. CASE End(c, Lost(c))
      <3>1. Lost(c) \in {"unknown", "failed"} /\ Lost(c) \in Outcomes
        BY DEF Lost, Outcomes
      <3> QED BY <2>3, <3>1, <1>1, EndInv
    <2> QED BY <2>1, <2>2, <2>3
  <1>3. CASE RateLimited(c)
    <2>1. call[c].reply \in Declined
      BY <1>3 DEF RateLimited, LastStraw, WorthWaiting, Declined
    <2>2. End(c, "limited") \/ (More(c) /\ Retry(c, call[c].maybeDone))
      BY <1>3 DEF RateLimited, LastStraw, WorthWaiting
    <2>3. CASE End(c, "limited")
      BY <2>1, <2>3, <1>1, EndInv DEF Outcomes
    <2>4. CASE More(c) /\ Retry(c, call[c].maybeDone)
      BY <2>1, <2>4, <1>1, RetryInv DEF Accounted, Progress
    <2> QED BY <2>2, <2>3, <2>4
  <1>4. CASE Answered(c)
    <2>1. /\ End(c, Verdict(c)) /\ Verdict(c) \in Outcomes
          /\ call[c].reply \notin {"none", "limited", "limitedLong", "broken"}
          /\ call[c].reply \in Answers \cup {"none"}
      BY <1>4, <1>1, VerdictTyped DEF Answered, TypeOK, CallStates
    <2>2. call[c].reply = "stale" => Writes(c)
      BY <1>1 DEF Accounted, Answering, Writes
    <2>3. call[c].reply \in Declined \/ call[c].reply \in {"ok", "opaque"}
      BY <2>1 DEF Declined, Answers
    <2>4. CASE call[c].reply = "ok"
      <3>1. Verdict(c) = "done"
        BY <2>4 DEF Verdict
      <3> QED BY <1>1, <2>1, <2>4, <3>1, EndInv
    <2>5. CASE call[c].reply = "opaque"
      <3>1. Verdict(c) \in {"unknown", "failed"}
        BY <2>5 DEF Verdict, Lost, FoundGone
      <3> QED BY <1>1, <2>1, <3>1, EndInv
    <2>6. CASE call[c].reply \in Declined
      <3>1. CASE FoundGone(c)
        <4>1. Verdict(c) = "done"
          BY <3>1 DEF Verdict
        <4> QED BY <1>1, <2>1, <3>1, <4>1, EndInv
      <3>2. CASE OwnChange(c)
        <4>1. Verdict(c) = "ownChange"
          BY <2>6, <3>2 DEF Verdict, OwnChange, FoundGone, Declined
        <4> QED BY <1>1, <2>1, <4>1, EndInv
      <3>3. CASE ~FoundGone(c) /\ ~OwnChange(c) /\ call[c].reply = "stale"
        <4>1. Verdict(c) = "stale" /\ ~call[c].maybeDone
          BY <2>2, <3>3 DEF Verdict, OwnChange
        <4> QED BY <1>1, <2>1, <2>6, <3>3, <4>1, EndInv
      <3>4. CASE ~FoundGone(c) /\ ~OwnChange(c) /\ call[c].reply # "stale"
        <4>1. Verdict(c) = "refused"
          BY <2>6, <3>4 DEF Verdict, Declined
        <4> QED BY <1>1, <2>1, <2>6, <4>1, EndInv
      <3> QED BY <3>1, <3>2, <3>3, <3>4
    <2> QED BY <2>3, <2>4, <2>5, <2>6
  <1> QED BY <1>2, <1>3, <1>4

LEMMA LeaveInv ==
    ASSUME Inv, TypeOK', NEW c \in Calls,
           ProbeGivesUp(c) \/ ProbeReturns(c) \/ Keyless(c) \/ Cancelled(c)
    PROVE  Inv'
  <1>1. UNCHANGED Service
    BY DEF ProbeGivesUp, ProbeReturns, Keyless, Cancelled
  <1>2. CASE Cancelled(c)
    BY <1>1, <1>2, EndInv DEF Cancelled, Outcomes
  <1>3. CASE Keyless(c)
    BY <1>1, <1>3, EndInv DEF Keyless, Outcomes
  <1>4. CASE ProbeGivesUp(c) \/ ProbeReturns(c)
    <2>1. ~Writes(c)
      BY <1>4 DEF ProbeGivesUp, ProbeReturns, Writes
    <2>2. End(c, "limited") \/ End(c, "done") \/ End(c, "failed")
      BY <1>4 DEF ProbeGivesUp, ProbeReturns
    <2> QED BY <1>1, <2>1, <2>2, EndInv DEF Outcomes
  <1> QED BY <1>2, <1>3, <1>4

\* The service carries a request out. That it can says that the call has not
\* taken effect before: its version is still the current one, the record is
\* still there, or, for a POST, the one request there ever was is this one.
LEMMA PerformInv == ASSUME Inv, TypeOK', NEW r \in wire, Perform(r) PROVE Inv'
  <1> DEFINE c == r[1]
             k == r[2]
  <1>1. /\ TypeOK /\ c \in Calls /\ k \in 1..MaxAttempts /\ r = <<c, k>>
        /\ r \in Calls \X (1..MaxAttempts)
    BY DEF Inv, TypeOK
  <1>2. /\ \A d \in Calls \ {c} : call'[d] = call[d]
        /\ call'[c].pc = call[c].pc /\ call'[c].outcome = call[c].outcome
        /\ call'[c].method = call[c].method /\ call'[c].base = call[c].base
        /\ call'[c].attempt = call[c].attempt
        /\ call'[c].maybeDone = call[c].maybeDone
        /\ \/ call'[c].reply = call[c].reply
           \/ call[c].pc = "sent" /\ call'[c].reply \in {"ok", "opaque", "broken"}
    <2>1. Reply(r, {"ok", "opaque", "broken"})
      BY DEF Perform
    <2> QED BY <1>1, <2>1, ReplyTyped DEF Answers
  <1>3. /\ wire' = wire \ {r} /\ Possible(c)
        /\ effects' = IF Writes(c) THEN [effects EXCEPT ![c] = @ + 1] ELSE effects
        /\ record' = CASE call[c].method = "PUT" -> [record EXCEPT !.version = @ + 1]
                       [] call[c].method = "DELETE" -> [record EXCEPT !.exists = FALSE]
                       [] OTHER -> record
    BY DEF Perform
  <1>4. record'.version >= record.version /\ (record'.exists => record.exists)
    BY <1>1, <1>3, RecordTyped
  <1>5. Certain(c) /\ Visible(c) /\ Answering(c) /\ Progress(c)
    BY <1>1 DEF Inv, Accounted
  <1>6. <<c, k>> \in wire
    BY <1>1
  <1> HIDE DEF c, k
  <1>7. OnWire(c) /\ call[c].pc # "idle"
    BY <1>1, <1>5, <1>6 DEF OnWire, Certain, Progress
  <1>8. Writes(c) => effects[c] = 0
    <2>1. CASE call[c].method = "PUT"
      <3>1. call[c].base = record.version /\ record.version \in Nat
        BY <2>1, <1>1, <1>3 DEF Possible, TypeOK
      <3> QED BY <2>1, <3>1, <1>5 DEF Visible
    <2>2. CASE call[c].method = "DELETE"
      BY <2>2, <1>3, <1>5 DEF Possible, Visible
    <2>3. CASE call[c].method = "POST"
      BY <2>3, <1>5, <1>7 DEF Certain, Visible, Progress
    <2> QED BY <2>1, <2>2, <2>3 DEF Writes
  <1>9. /\ effects'[c] = (IF Writes(c) THEN 1 ELSE 0)
        /\ \A d \in Calls \ {c} : effects'[d] = effects[d]
    <2>1. effects \in [Calls -> Nat]
      BY <1>1 DEF TypeOK
    <2>2. CASE Writes(c)
      <3>1. effects' = [effects EXCEPT ![c] = 1]
        <4>1. effects[c] + 1 = 1
          BY <1>8, <2>2
        <4> QED BY <1>3, <2>2, <4>1
      <3> QED BY <1>1, <2>1, <2>2, <3>1
    <2>3. CASE ~Writes(c)
      BY <1>3, <1>5, <2>3 DEF Visible
    <2> QED BY <2>2, <2>3
  <1>10. Certain(c)'
    <2> SUFFICES ASSUME ~call[c].maybeDone
                 PROVE  /\ \A j \in 1..MaxAttempts : <<c, j>> \notin wire'
                        /\ call[c].pc \notin {"idle", "queued", "backoff"}
                        /\ call'[c].reply \notin Declined
      BY <1>2 DEF Certain, OnWire
    <2>1. \A j \in 1..MaxAttempts : <<c, j>> \in wire => j = call[c].attempt
      BY <1>5 DEF Certain
    <2>2. k = call[c].attempt
      BY <1>1, <1>6, <2>1
    <2>3. \A j \in 1..MaxAttempts : <<c, j>> \notin wire'
      BY <1>1, <1>3, <2>1, <2>2
    <2>4. /\ call[c].pc \notin {"idle", "queued", "backoff"}
          /\ call[c].reply \notin Declined
      BY <1>5, <1>7 DEF Certain
    <2> QED BY <1>2, <2>3, <2>4 DEF Declined
  <1>11. Visible(c)'
    <2>1. CASE call[c].method = "PUT"
      <3>1. call[c].base = record.version /\ record.version \in Nat
        BY <2>1, <1>1, <1>3 DEF Possible, TypeOK
      <3>2. record' = [record EXCEPT !.version = @ + 1]
            /\ record \in [version : Nat, exists : BOOLEAN]
        BY <2>1, <1>1, <1>3 DEF TypeOK
      <3>3. record'.version = record.version + 1
        BY <3>2
      <3>4. call'[c].base < record'.version /\ call'[c].base <= record'.version
        BY <1>2, <3>1, <3>3
      <3> QED BY <2>1, <1>2, <1>9, <3>4 DEF Visible, Writes
    <2>2. CASE call[c].method = "DELETE"
      <3>1. record' = [record EXCEPT !.exists = FALSE]
            /\ record \in [version : Nat, exists : BOOLEAN]
        BY <2>2, <1>1, <1>3 DEF TypeOK
      <3>2. record'.exists = FALSE
        BY <3>1
      <3> QED BY <2>2, <1>2, <1>9, <3>2 DEF Visible, Writes
    <2>3. CASE call[c].method \notin {"PUT", "DELETE"}
      BY <2>3, <1>2, <1>9 DEF Visible, Writes
    <2> QED BY <2>1, <2>2, <2>3
  <1>12. Answering(c)'
    <2>1. Writes(c) => effects'[c] = 1
      BY <1>9
    <2>2. call'[c].reply = "stale" =>
             call'[c].method = "PUT" /\ call'[c].base < record'.version
      <3>1. record.version \in Nat /\ record'.version \in Nat /\ call[c].base \in Nat
        BY <1>1 DEF TypeOK, CallStates
      <3> QED BY <1>2, <1>4, <1>5, <3>1 DEF Answering
    <2>3. call'[c].reply = "absent" => ~record'.exists
      BY <1>2, <1>4, <1>5 DEF Answering
    <2> QED BY <1>2, <2>1, <2>2, <2>3 DEF Answering, Writes
  <1>13. Progress(c)'
    BY <1>2, <1>5 DEF Progress, FoundGone, Writes
  <1>14. ASSUME NEW d \in Calls \ {c} PROVE Accounted(d)'
    <2>1. \A j \in 1..MaxAttempts : <<d, j>> \in wire' => <<d, j>> \in wire
      BY <1>3
    <2> QED BY <1>2, <1>4, <1>9, <1>14, <2>1, Untouched
  <1> QED BY <1>10, <1>11, <1>12, <1>13, <1>14 DEF Inv, Accounted

\* A refusal proves what it says, and takes the request off the wire.
LEMMA RefuseInv == ASSUME Inv, TypeOK', NEW r \in wire, Refuse(r) PROVE Inv'
  <1> DEFINE c == r[1]
             k == r[2]
  <1>1. /\ TypeOK /\ c \in Calls /\ k \in 1..MaxAttempts /\ r = <<c, k>>
        /\ r \in Calls \X (1..MaxAttempts)
    BY DEF Inv, TypeOK
  <1>2. /\ \A d \in Calls \ {c} : call'[d] = call[d]
        /\ call'[c].pc = call[c].pc /\ call'[c].outcome = call[c].outcome
        /\ call'[c].method = call[c].method /\ call'[c].base = call[c].base
        /\ call'[c].attempt = call[c].attempt
        /\ call'[c].maybeDone = call[c].maybeDone
        /\ \/ call'[c].reply = call[c].reply
           \/ call[c].pc = "sent" /\ call'[c].reply \in Refusals(c)
    <2>1. Reply(r, Refusals(c)) /\ Refusals(c) \subseteq Answers
      BY DEF Refuse, Refusals, Answers
    <2> QED BY <1>1, <2>1, ReplyTyped
  <1>3. wire' = wire \ {r} /\ UNCHANGED <<record, effects>>
    BY DEF Refuse
  <1>4. Certain(c) /\ Visible(c) /\ Answering(c) /\ Progress(c)
    BY <1>1 DEF Inv, Accounted
  <1>5. <<c, k>> \in wire
    BY <1>1
  <1> HIDE DEF c, k
  <1>6. OnWire(c)
    BY <1>1, <1>5 DEF OnWire
  <1>7. Certain(c)'
    <2> SUFFICES ASSUME ~call[c].maybeDone
                 PROVE  effects[c] = 0 /\ \A j \in 1..MaxAttempts : <<c, j>> \notin wire'
      BY <1>2, <1>3 DEF Certain, OnWire
    <2>1. \A j \in 1..MaxAttempts : <<c, j>> \in wire => j = call[c].attempt
      BY <1>4 DEF Certain
    <2>2. k = call[c].attempt
      BY <1>1, <1>5, <2>1
    <2>3. \A j \in 1..MaxAttempts : <<c, j>> \notin wire'
      BY <1>1, <1>3, <2>1, <2>2
    <2>4. effects[c] = 0
      BY <1>4, <1>6 DEF Certain, Visible
    <2> QED BY <2>3, <2>4
  <1>8. Visible(c)'
    BY <1>2, <1>3, <1>4 DEF Visible, Writes
  <1>9. Answering(c)'
    <2>1. CASE call'[c].reply = call[c].reply
      BY <2>1, <1>2, <1>3, <1>4 DEF Answering, Writes
    <2>2. CASE call'[c].reply \in Refusals(c)
      <3>1. call[c].base \in Nat /\ record.version \in Nat
        BY <1>1 DEF TypeOK, CallStates
      <3>2. call'[c].reply = "stale" =>
               call[c].method = "PUT" /\ record.version # call[c].base
        BY <2>2 DEF Refusals
      <3>3. call'[c].reply = "stale" => call[c].method = "PUT" /\ call[c].base < record.version
        BY <3>1, <3>2, <1>4 DEF Visible
      <3>4. call'[c].reply = "absent" => ~record.exists
        BY <2>2 DEF Refusals
      <3>5. call'[c].reply # "ok"
        BY <2>2 DEF Refusals
      <3> QED BY <3>3, <3>4, <3>5, <1>2, <1>3 DEF Answering
    <2> QED BY <1>2, <2>1, <2>2
  <1>10. Progress(c)'
    BY <1>2, <1>4 DEF Progress, FoundGone, Writes
  <1>11. ASSUME NEW d \in Calls \ {c} PROVE Accounted(d)'
    <2>1. \A j \in 1..MaxAttempts : <<d, j>> \in wire' => <<d, j>> \in wire
      BY <1>3
    <2> QED BY <1>1, <1>2, <1>3, <1>11, <2>1, Untouched, RecordStays
  <1> QED BY <1>7, <1>8, <1>9, <1>10, <1>11 DEF Inv, Accounted

------------------------------------------------------------------------------
LEMMA InvStep == Inv /\ [Next]_vars => Inv'
  <1> SUFFICES ASSUME Inv, [Next]_vars PROVE Inv'
    OBVIOUS
  <1>0. TypeOK' /\ TypeOK
    BY TypeStep DEF Inv
  <1>1. ASSUME NEW c \in Calls, Call(c) PROVE Inv'
    BY <1>0, <1>1, CallInv
  <1>2. ASSUME NEW c \in Calls,
               Keyless(c) \/ Proceed(c) \/ ProbeGivesUp(c) \/ Cancelled(c)
        PROVE  Inv'
    BY <1>0, <1>2, SendInv, AnswerInv, LeaveInv DEF Proceed
  <1>3. ASSUME NEW r \in wire, Perform(r) PROVE Inv'
    BY <1>0, <1>3, PerformInv
  <1>4. ASSUME NEW r \in wire, Refuse(r) PROVE Inv'
    BY <1>0, <1>4, RefuseInv
  <1>5. CASE OthersEdit
    <2>1. record'.version >= record.version /\ (record'.exists => record.exists)
      BY <1>0, <1>5, RecordTyped DEF OthersEdit
    <2>2. UNCHANGED <<call, wire, effects>>
      BY <1>5 DEF OthersEdit
    <2>3. ASSUME NEW d \in Calls PROVE Accounted(d)'
      BY <1>0, <2>1, <2>2, <2>3, Untouched
    <2> QED BY <1>0, <2>3 DEF Inv
  <1>6. CASE Reopen \/ UNCHANGED vars
    <2>1. UNCHANGED <<call, wire, effects, record>>
      BY <1>6 DEF Reopen, Service, vars
    <2>2. ASSUME NEW d \in Calls PROVE Accounted(d)'
      BY <1>0, <2>1, <2>2, Untouched, RecordStays
    <2> QED BY <1>0, <2>2 DEF Inv
  <1> QED BY <1>1, <1>2, <1>3, <1>4, <1>5, <1>6 DEF Next

LEMMA SpecInv == Spec => []Inv
  <1> QED BY InvInit, InvStep, PTL DEF Spec

\* A delete reported as done leaves no record (_answered's success on a 404).
THEOREM DeleteMeansGoneAlways == Spec => []DeleteMeansGone
  <1>1. Inv => DeleteMeansGone
    BY DEF Inv, Accounted, Answering, Visible, Progress, FoundGone, Writes, DeleteMeansGone
  <1> QED BY <1>1, SpecInv, PTL

\* A call told that the record changed since it was read never changed it itself
\* and never will (_own_change).
THEOREM StaleMeansForeignAlways == Spec => []StaleMeansForeign
  <1>1. ASSUME Inv, NEW c \in Calls, call[c].outcome = "stale"
        PROVE  /\ effects[c] = 0
               /\ \A k \in 1..MaxAttempts : <<c, k>> \notin wire
               /\ record.version > call[c].base
    <2>1. Certain(c) /\ Answering(c) /\ Progress(c)
      BY <1>1 DEF Inv, Accounted
    <2>2. call[c].reply = "stale" /\ ~call[c].maybeDone /\ call[c].base < record.version
      BY <1>1, <2>1 DEF Progress, Answering
    <2>3. effects[c] = 0 /\ ~OnWire(c)
      BY <2>1, <2>2 DEF Certain, Declined
    <2>4. call[c].base \in Nat /\ record.version \in Nat
      BY <1>1 DEF Inv, TypeOK, CallStates
    <2> QED BY <2>2, <2>3, <2>4 DEF OnWire
  <1>2. Inv => StaleMeansForeign
    BY <1>1 DEF StaleMeansForeign
  <1> QED BY <1>2, SpecInv, PTL

------------------------------------------------------------------------------
\* The refinement. What a caller is told follows from what its call ended with.
LEMMA ToldIs ==
    ASSUME NEW c \in Calls
    PROVE  /\ Told[c] \in Promise!Verdicts
           /\ Told[c] = "none" <=> call[c].outcome = "none"
           /\ Told[c] = "done" => /\ Writes(c) /\ call[c].outcome = "done" /\ ~FoundGone(c)
           /\ Told[c] = "undone" => Writes(c) /\ PlainFailure(c)
  BY DEF Told, Promise!Verdicts

LEMMA RefinesInit == Init => Promise!Init
  BY DEF Init, Idle, Promise!Init, Told

\* A step that leaves what every caller was told and every effect is a stutter.
LEMMA Stutters ==
    ASSUME TypeOK, UNCHANGED effects,
           \A c \in Calls : \/ call'[c] = call[c]
                            \/ call[c].outcome = "none" /\ call'[c].outcome = "none"
    PROVE  UNCHANGED <<effects, Told>>
  <1>1. ASSUME NEW c \in Calls PROVE Told[c]' = Told[c]
    BY DEF Told, Writes, PlainFailure, FoundGone
  <1>2. Told' = Told
    BY <1>1 DEF Told
  <1> QED BY <1>2

\* The end of a call is its report.
LEMMA EndRefines ==
    ASSUME Inv, Inv', NEW c \in Calls, NEW o \in Outcomes, End(c, o), UNCHANGED Service,
           call[c].pc # "ended"
    PROVE  Promise!Next
  <1>1. TypeOK /\ Progress(c) /\ Certain(c)' /\ Visible(c)' /\ Answering(c)' /\ Progress(c)'
    BY DEF Inv, Accounted
  <1>2. /\ \A d \in Calls \ {c} : call'[d] = call[d]
        /\ call'[c].pc = "ended" /\ call'[c].outcome = o
    BY <1>1, EndTyped
  <1>3. call[c].outcome = "none" /\ UNCHANGED effects /\ effects \in [Calls -> Nat]
    BY <1>1 DEF Progress, Service, TypeOK
  <1>4. Told[c] = "none"
    BY <1>3, ToldIs
  <1>5. ASSUME NEW d \in Calls \ {c} PROVE Told[d]' = Told[d]
    BY <1>2 DEF Told, Writes, PlainFailure, FoundGone
  <1> DEFINE v == Told[c]'
  <1>6. Told' = [Told EXCEPT ![c] = v]
    <2>1. Told' = [d \in Calls |-> Told[d]'] /\ Told = [d \in Calls |-> Told[d]]
      BY DEF Told
    <2> HIDE DEF Told
    <2> QED BY <1>5, <2>1
  <1>7. v \in Promise!Verdicts
    BY DEF Told, Promise!Verdicts
  <1>8. ASSUME v = "done" PROVE effects[c] = 1
    <2>1. Writes(c)' /\ call'[c].outcome = "done" /\ ~FoundGone(c)'
      BY <1>8 DEF Told
    <2>2. call'[c].reply = "ok"
      BY <2>1, <1>1 DEF Progress
    <2> QED BY <2>1, <2>2, <1>1, <1>3 DEF Answering
  <1>9. ASSUME v = "undone" PROVE effects[c] = 0
    <2>1. Writes(c)' /\ PlainFailure(c)'
      BY <1>9 DEF Told
    <2>2. call'[c].reply \in Declined /\ ~call'[c].maybeDone
      BY <2>1, <1>1 DEF Progress, PlainFailure
    <2> QED BY <2>2, <1>1, <1>3 DEF Certain
  <1> HIDE DEF v
  <1>10. Promise!Report(c, v)
    BY <1>3, <1>4, <1>6, <1>8, <1>9 DEF Promise!Report
  <1> QED BY <1>7, <1>10 DEF Promise!Next

\* Carrying out a write is the moment it takes effect: its caller has not been
\* told it was undone, for then none of its requests is on its way.
LEMMA PerformRefines ==
    ASSUME Inv, Inv', NEW r \in wire, Perform(r)
    PROVE  Promise!Next \/ UNCHANGED <<effects, Told>>
  <1> DEFINE c == r[1]
  <1>1. /\ TypeOK /\ c \in Calls /\ r[2] \in 1..MaxAttempts /\ r = <<c, r[2]>>
        /\ r \in Calls \X (1..MaxAttempts)
    BY DEF Inv, TypeOK
  <1>2. OnWire(c)
    BY <1>1 DEF OnWire
  <1>3. Certain(c) /\ Visible(c) /\ Progress(c) /\ Visible(c)'
    BY <1>1 DEF Inv, Accounted
  <1>4. /\ \A d \in Calls \ {c} : call'[d] = call[d]
        /\ call'[c].pc = call[c].pc /\ call'[c].outcome = call[c].outcome
        /\ call'[c].method = call[c].method
        /\ call'[c].maybeDone = call[c].maybeDone
        /\ call'[c].reply = call[c].reply \/ call[c].pc = "sent"
    <2>1. Reply(r, {"ok", "opaque", "broken"})
      BY DEF Perform
    <2> QED BY <1>1, <2>1, ReplyTyped DEF Answers
  <1>5. effects' = IF Writes(c) THEN [effects EXCEPT ![c] = @ + 1] ELSE effects
    BY DEF Perform
  <1> HIDE DEF c
  <1>6. UNCHANGED Told
    <2>1. ASSUME NEW d \in Calls PROVE Told[d]' = Told[d]
      <3>1. CASE d # c
        BY <3>1, <1>4 DEF Told, Writes, PlainFailure, FoundGone
      <3>2. CASE d = c /\ call[c].pc = "sent"
        <4>1. call[c].outcome = "none" /\ call'[c].outcome = "none"
          BY <3>2, <1>3, <1>4 DEF Progress
        <4> QED BY <3>2, <4>1 DEF Told
      <3>3. CASE d = c /\ call'[c].reply = call[c].reply
        BY <3>3, <1>4 DEF Told, Writes, PlainFailure, FoundGone
      <3> QED BY <3>1, <3>2, <3>3, <1>4
    <2> QED BY <2>1 DEF Told
  <1>7. CASE ~Writes(c)
    BY <1>5, <1>6, <1>7
  <1>8. CASE Writes(c)
    <2>1. effects \in [Calls -> Nat] /\ effects[c] \in {0, 1} /\ effects'[c] \in {0, 1}
      BY <1>1, <1>3 DEF TypeOK, Visible
    <2>2. effects'[c] = effects[c] + 1
      BY <1>1, <1>5, <1>8, <2>1
    <2>3. effects[c] = 0
      BY <2>1, <2>2
    <2>4. effects' = [effects EXCEPT ![c] = 1]
      BY <1>5, <1>8, <2>3
    <2>5. Told[c] # "undone"
      <3>1. SUFFICES ASSUME Writes(c), PlainFailure(c) PROVE FALSE
        BY <1>1, ToldIs
      <3>2. call[c].reply \in Declined /\ ~call[c].maybeDone
        BY <3>1, <1>3 DEF PlainFailure, Progress
      <3> QED BY <3>2, <1>2, <1>3 DEF Certain
    <2>6. Promise!TakeEffect(c)
      BY <2>3, <2>4, <2>5, <1>6 DEF Promise!TakeEffect
    <2> QED BY <1>1, <2>6 DEF Promise!Next
  <1> QED BY <1>7, <1>8

LEMMA RefinesStep ==
    ASSUME Inv, Inv', [Next]_vars
    PROVE  Promise!Next \/ UNCHANGED <<effects, Told>>
  <1>0. TypeOK
    BY DEF Inv
  <1>1. ASSUME NEW c \in Calls, NEW x \in {"queued", "sent"}, call' = [call EXCEPT ![c].pc = x],
               UNCHANGED effects
        PROVE  UNCHANGED <<effects, Told>>
    <2>1. /\ \A d \in Calls \ {c} : call'[d] = call[d]
          /\ call'[c].outcome = call[c].outcome /\ call'[c].method = call[c].method
          /\ call'[c].maybeDone = call[c].maybeDone /\ call'[c].reply = call[c].reply
      BY <1>0, <1>1, WaitTyped
    <2>2. ASSUME NEW d \in Calls PROVE Told[d]' = Told[d]
      BY <2>1 DEF Told, Writes, PlainFailure, FoundGone
    <2> QED BY <1>1, <2>2 DEF Told
  <1>2. ASSUME NEW c \in Calls, Call(c) PROVE UNCHANGED <<effects, Told>>
    <2>1. /\ \A d \in Calls \ {c} : call'[d] = call[d]
          /\ call[c].outcome = "none" /\ call'[c].outcome = "none"
      BY <1>0, <1>2, CallTyped DEF Inv, Accounted, Progress
    <2>2. UNCHANGED effects
      BY <1>2 DEF Call, Service
    <2> QED BY <1>0, <2>1, <2>2, Stutters
  <1>3. ASSUME NEW c \in Calls, Send(c) \/ BackoffOver(c) PROVE UNCHANGED <<effects, Told>>
    BY <1>1, <1>3 DEF Send, BackoffOver, Service
  <1>4. ASSUME NEW c \in Calls, NEW b \in BOOLEAN, More(c), Retry(c, b), call[c].pc = "sent",
               UNCHANGED Service
        PROVE  UNCHANGED <<effects, Told>>
    <2>1. /\ \A d \in Calls \ {c} : call'[d] = call[d]
          /\ call[c].outcome = "none" /\ call'[c].outcome = "none"
      BY <1>0, <1>4, RetryTyped DEF Inv, Accounted, Progress
    <2> QED BY <1>0, <1>4, <2>1, Stutters DEF Service
  <1>5. ASSUME NEW c \in Calls,
               Unanswered(c) \/ RateLimited(c) \/ ServerError(c) \/ Answered(c)
        PROVE  Promise!Next \/ UNCHANGED <<effects, Told>>
    <2>1. /\ call[c].pc = "sent" /\ UNCHANGED Service /\ call[c].maybeDone \in BOOLEAN
          /\ Verdict(c) \in Outcomes /\ Lost(c) \in Outcomes /\ "limited" \in Outcomes
      BY <1>0, <1>5, VerdictTyped
         DEF Unanswered, RateLimited, LastStraw, WorthWaiting, ServerError, Answered, Resumes, TypeOK, CallStates, Outcomes
    <2>2. \/ End(c, Verdict(c)) \/ End(c, Lost(c)) \/ End(c, "limited")
          \/ (More(c) /\ Retry(c, TRUE)) \/ (More(c) /\ Retry(c, call[c].maybeDone))
      BY <1>5 DEF Unanswered, RateLimited, LastStraw, WorthWaiting, ServerError, Answered
    <2> QED BY <1>4, <2>1, <2>2, EndRefines
  <1>6. ASSUME NEW c \in Calls, ProbeGivesUp(c) \/ ProbeReturns(c) \/ Keyless(c) \/ Cancelled(c)
        PROVE  Promise!Next
    <2>1. /\ UNCHANGED Service /\ call[c].pc # "ended"
          /\ \/ End(c, "limited") \/ End(c, "done") \/ End(c, "failed")
             \/ End(c, "cancelled")
      BY <1>6 DEF ProbeGivesUp, ProbeReturns, Keyless, Cancelled
    <2> QED BY <2>1, EndRefines DEF Outcomes
  <1>7. ASSUME NEW r \in wire, Refuse(r) PROVE UNCHANGED <<effects, Told>>
    <2>1. r \in Calls \X (1..MaxAttempts) /\ Refusals(r[1]) \subseteq Answers
      BY <1>0 DEF TypeOK, Refusals, Answers
    <2>2. Reply(r, Refusals(r[1])) /\ UNCHANGED effects
      BY <1>7 DEF Refuse
    <2>3. UNCHANGED call \/ call[r[1]].pc = "sent"
      BY <2>2 DEF Reply
    <2>4. CASE UNCHANGED call
      BY <2>2, <2>4, <1>0, Stutters
    <2>5. CASE call[r[1]].pc = "sent"
      <3>1. /\ \A d \in Calls \ {r[1]} : call'[d] = call[d]
            /\ call[r[1]].outcome = "none" /\ call'[r[1]].outcome = "none"
        BY <1>0, <2>1, <2>2, <2>5, ReplyTyped DEF Inv, Accounted, Progress
      <3> QED BY <1>0, <2>2, <3>1, Stutters
    <2> QED BY <2>3, <2>4, <2>5
  <1>8. CASE Reopen \/ OthersEdit \/ UNCHANGED vars
    <2>1. UNCHANGED <<call, effects>>
      BY <1>8 DEF Reopen, OthersEdit, Service, vars
    <2> QED BY <1>0, <2>1, Stutters
  <1> QED BY <1>2, <1>3, <1>5, <1>6, <1>7, <1>8, PerformRefines DEF Next, Proceed

\* SPECS.md 10.2 for every number of calls and attempts and every loss, delay
\* and repetition: no write takes effect twice, a success took effect, and a
\* refusal with no attempt left open did not and never will.
THEOREM ConnectionImplementsWriteOnce == Spec => ImplementsWriteOnce
  <1>1. Inv /\ Inv' /\ [Next]_vars => [Promise!Next]_<<effects, Told>>
    BY RefinesStep
  <1> QED BY RefinesInit, <1>1, SpecInv, PTL DEF Spec, ImplementsWriteOnce, Promise!Spec

------------------------------------------------------------------------------
(* The breaker: what the history of answers says is what the counter counts. *)

\* As much of the history as is kept.
Window == BreakerThreshold + 1

\* How many answers are dropped from the front of the history.
Dropped(n) == IF n <= Window THEN 0 ELSE n - Window

\* The last w members of a sequence.
LEMMA LastOnes ==
    ASSUME NEW all \in Seq(Kinds), NEW n \in Nat, n = Len(all), NEW w \in Nat \ {0}, n > w,
           NEW last, last = SubSeq(all, n - w + 1, n)
    PROVE  /\ last \in Seq(Kinds) /\ Len(last) = w
           /\ \A j \in 1..w : last[j] = all[j + (n - w)]
<1> DEFINE first == n - w + 1
<1>1. first \in 1..n /\ n - first + 1 = w /\ first \in Int /\ n \in Int
  OBVIOUS
<1>2. \A j \in 1..w : first + j - 1 = j + (n - w)
  OBVIOUS
<1>3. last = SubSeq(all, first, n)
  OBVIOUS
<1> HIDE DEF first
<1>4. \A i \in first..n : all[i] \in Kinds
  BY <1>1, ElementOfSeq
<1>5. /\ SubSeq(all, first, n) \in Seq(Kinds)
      /\ Len(SubSeq(all, first, n)) = IF first <= n THEN n - first + 1 ELSE 0
      /\ \A j \in 1..(n - first + 1) : SubSeq(all, first, n)[j] = all[first + j - 1]
  BY <1>1, <1>4, SubSeqProperties
<1>6. /\ SubSeq(all, first, n) \in Seq(Kinds) /\ Len(SubSeq(all, first, n)) = w
      /\ \A j \in 1..w : SubSeq(all, first, n)[j] = all[first + j - 1]
  BY <1>1, <1>5
<1> QED
  BY <1>2, <1>3, <1>6

\* What two sequences hold after each other.
LEMMA Joined ==
    ASSUME NEW h \in Seq(Kinds), NEW s \in Seq(Kinds), NEW all, all = h \o s,
           NEW j \in 1..Len(all)
    PROVE  all[j] = IF j <= Len(h) THEN h[j] ELSE s[j - Len(h)]
<1>1. Len(h) \in Nat /\ Len(s) \in Nat /\ Len(all) = Len(h) + Len(s)
  BY ConcatProperties, LenProperties
<1>2. \A i \in 1..(Len(h) + Len(s)) : (h \o s)[i] = IF i <= Len(h) THEN h[i] ELSE s[i - Len(h)]
  BY ConcatProperties
<1> QED
  BY <1>1, <1>2

\* What the history holds, once s is noted.
Holds(h, s, d) ==
    /\ d \in Nat /\ h \in Seq(Kinds)
    /\ Len(h) = Len(handled) + Len(s) - d /\ Len(h) <= Window
    /\ \A j \in 1..Len(h) :
         h[j] = IF j + d <= Len(handled) THEN handled[j + d] ELSE s[j + d - Len(handled)]

LEMMA NotedHolds ==
    ASSUME handled \in Seq(Kinds), NEW s \in Seq(Kinds)
    PROVE  Holds(Noted(s), s, Dropped(Len(handled) + Len(s)))
<1> DEFINE all == handled \o s
           n == Len(all)
           d == Dropped(n)
           h == Noted(s)
<1>1. /\ all \in Seq(Kinds) /\ n \in Nat /\ n = Len(handled) + Len(s)
      /\ Len(handled) \in Nat /\ Len(s) \in Nat /\ Window \in Nat \ {0}
  BY ConcatProperties, LenProperties, ConnectionAssumption DEF Window
<1>2. all = handled \o s /\ n = Len(all)
  OBVIOUS
<1>3. h = IF n <= Window THEN all ELSE SubSeq(all, n - Window + 1, n)
  BY DEF Noted, Window
<1>4. d = IF n <= Window THEN 0 ELSE n - Window
  BY DEF Dropped
<1> HIDE DEF d, h, n, all
<1>5. /\ d \in Nat /\ h \in Seq(Kinds) /\ Len(h) = n - d /\ Len(h) <= Window
      /\ \A j \in 1..Len(h) : h[j] = all[j + d]
  <2>1. CASE n <= Window
    <3>1. h = all /\ d = 0
      BY <1>3, <1>4, <2>1
    <3>2. \A j \in 1..Len(h) : j + d = j
      BY <3>1
    <3>3. \A j \in 1..Len(h) : h[j] = all[j + d]
      BY <3>1, <3>2
    <3> QED
      BY <1>1, <1>2, <2>1, <3>1, <3>3
  <2>2. CASE ~(n <= Window)
    <3>1. h = SubSeq(all, n - Window + 1, n) /\ d = n - Window /\ n > Window
      BY <1>1, <1>3, <1>4, <2>2
    <3>2. h \in Seq(Kinds) /\ Len(h) = Window /\ \A j \in 1..Window : h[j] = all[j + (n - Window)]
      BY <1>1, <1>2, <3>1, LastOnes
    <3>3. d \in Nat /\ n - d = Window
      BY <1>1, <3>1
    <3>4. \A j \in 1..Len(h) : h[j] = all[j + d]
      BY <3>1, <3>2
    <3> QED
      BY <1>1, <3>2, <3>3, <3>4
  <2> QED
    BY <2>1, <2>2
<1>6. ASSUME NEW j \in 1..Len(h)
      PROVE  h[j] = IF j + d <= Len(handled) THEN handled[j + d] ELSE s[j + d - Len(handled)]
  <2> DEFINE i == j + d
  <2>1. i \in 1..Len(all) /\ h[j] = all[i]
    BY <1>1, <1>2, <1>5
  <2> HIDE DEF i
  <2>2. all[i] = IF i <= Len(handled) THEN handled[i] ELSE s[i - Len(handled)]
    BY <1>2, <2>1, Joined
  <2>3. h[j] = IF i <= Len(handled) THEN handled[i] ELSE s[i - Len(handled)]
    BY <2>1, <2>2
  <2> QED
    BY <1>1, <1>5, <2>3 DEF i
<1>7. Holds(h, s, d)
  BY <1>1, <1>5, <1>6 DEF Holds
<1> QED
  BY <1>1, <1>7 DEF d, h

\* The streak is the row of 429s that the history ends in.
EndsIn(h, st) ==
    /\ st \in 0..Len(h)
    /\ \A j \in (Len(h) - st + 1)..Len(h) : h[j] = "limited"
    /\ st < Len(h) => h[Len(h) - st] # "limited"

\* BreakerExact, for a history no longer than the window.
ExactFor(h) ==
    /\ Len(h) = Window /\ h[Window] = "drain" => \A j \in 1..BreakerThreshold : h[j] = "limited"
    /\ Len(h) = Window /\ (\A j \in 1..BreakerThreshold : h[j] = "limited") => h[Window] = "drain"

BInv == /\ handled \in Seq(Kinds) /\ Len(handled) <= Window
        /\ streak \in 0..(BreakerThreshold - 1)
        /\ EndsIn(handled, streak)
        /\ ExactFor(handled)

LEMMA NotedOther ==
    ASSUME BInv, handled' = Noted(<<"other">>), streak' = 0
    PROVE  BInv'
<1> DEFINE h == handled'
           m == Len(handled)
           T == BreakerThreshold
           d == Dropped(m + 1)
<1>1. T \in Nat \ {0} /\ Window = T + 1 /\ m \in Nat /\ m <= Window
  BY ConnectionAssumption, LenProperties DEF BInv, Window
<1>2. <<"other">> \in Seq(Kinds) /\ Len(<<"other">>) = 1
  BY DEF Kinds
<1>3. /\ d \in Nat /\ h \in Seq(Kinds) /\ Len(h) = m + 1 - d /\ Len(h) <= Window
      /\ \A j \in 1..Len(h) : h[j] = IF j + d <= m THEN handled[j + d] ELSE <<"other">>[j + d - m]
  <2>1. Holds(Noted(<<"other">>), <<"other">>, Dropped(Len(handled) + Len(<<"other">>)))
    BY <1>2, NotedHolds DEF BInv
  <2>2. Holds(h, <<"other">>, d)
    BY <1>2, <2>1
  <2> HIDE DEF d, h
  <2> QED
    BY <1>2, <2>2 DEF Holds
<1>4. d = IF m = Window THEN 1 ELSE 0
  BY <1>1 DEF Dropped
<1> HIDE DEF d
<1>5. Len(h) \in Nat \ {0} /\ Len(h) + d - m = 1
  BY <1>1, <1>3, <1>4
<1>6. h[Len(h)] = "other"
  BY <1>1, <1>3, <1>5
<1>7. EndsIn(h, 0)
  BY <1>5, <1>6 DEF EndsIn
<1>8. ASSUME Len(h) = Window, \A j \in 1..T : h[j] = "limited" PROVE FALSE
  <2>1. m \in T..Window /\ d = m - T
    BY <1>1, <1>3, <1>4, <1>8
  <2>2. streak \in 0..(T - 1) /\ streak < m /\ handled[m - streak] # "limited"
    BY <1>1, <2>1 DEF BInv, EndsIn
  <2> DEFINE p == m - streak - d
  <2>3. p \in 1..T /\ p + d = m - streak /\ p + d <= m /\ p \in 1..Len(h)
    BY <1>1, <1>3, <1>8, <2>1, <2>2
  <2> HIDE DEF p
  <2>4. h[p] = handled[m - streak]
    BY <1>3, <2>3
  <2> QED
    BY <1>8, <2>2, <2>3, <2>4
<1>9. ExactFor(h)
  BY <1>1, <1>6, <1>8 DEF ExactFor
<1>10. Window' = Window /\ streak' \in 0..(T - 1)
  BY <1>1 DEF Window
<1> QED
  BY <1>3, <1>7, <1>9, <1>10 DEF BInv, EndsIn, ExactFor, Window

LEMMA NotedLimited ==
    ASSUME BInv, handled' = Noted(<<"limited">>), streak' = streak + 1,
           ~(streak + 1 >= BreakerThreshold)
    PROVE  BInv'
<1> DEFINE h == handled'
           m == Len(handled)
           T == BreakerThreshold
           d == Dropped(m + 1)
<1>1. T \in Nat \ {0} /\ Window = T + 1 /\ m \in Nat /\ m <= Window
  BY ConnectionAssumption, LenProperties DEF BInv, Window
<1>2. <<"limited">> \in Seq(Kinds) /\ Len(<<"limited">>) = 1
  BY DEF Kinds
<1>3. /\ d \in Nat /\ h \in Seq(Kinds) /\ Len(h) = m + 1 - d /\ Len(h) <= Window
      /\ \A j \in 1..Len(h) : h[j] = IF j + d <= m THEN handled[j + d] ELSE <<"limited">>[j + d - m]
  <2>1. Holds(Noted(<<"limited">>), <<"limited">>, Dropped(Len(handled) + Len(<<"limited">>)))
    BY <1>2, NotedHolds DEF BInv
  <2>2. Holds(h, <<"limited">>, d)
    BY <1>2, <2>1
  <2> HIDE DEF d, h
  <2> QED
    BY <1>2, <2>2 DEF Holds
<1>4. d = IF m = Window THEN 1 ELSE 0
  BY <1>1 DEF Dropped
<1> HIDE DEF d
<1>5. /\ Len(h) \in Nat \ {0} /\ Len(h) + d - m = 1
      /\ streak \in 0..m /\ streak + 1 < T /\ streak + 1 <= Len(h)
  BY <1>1, <1>3, <1>4 DEF BInv, EndsIn
<1>6. h[Len(h)] = "limited"
  BY <1>1, <1>3, <1>5
<1>7. EndsIn(h, streak + 1)
  <2>1. ASSUME NEW j \in (Len(h) - (streak + 1) + 1)..Len(h) PROVE h[j] = "limited"
    <3>1. CASE j = Len(h)
      BY <1>6, <3>1
    <3>2. CASE j # Len(h)
      <4>1. j + d \in (m - streak + 1)..m /\ j \in 1..Len(h)
        BY <1>1, <1>3, <1>4, <1>5, <3>2
      <4> QED
        BY <1>3, <4>1 DEF BInv, EndsIn
    <3> QED
      BY <3>1, <3>2
  <2>2. ASSUME streak + 1 < Len(h) PROVE h[Len(h) - (streak + 1)] # "limited"
    <3>1. /\ Len(h) - (streak + 1) \in 1..Len(h) /\ (Len(h) - (streak + 1)) + d = m - streak
          /\ m - streak <= m /\ streak < m
      BY <1>1, <1>3, <1>4, <1>5, <2>2
    <3>2. h[Len(h) - (streak + 1)] = handled[m - streak]
      BY <1>3, <3>1
    <3> QED
      BY <3>1, <3>2 DEF BInv, EndsIn
  <2> QED
    BY <1>5, <2>1, <2>2 DEF EndsIn
<1>8. ASSUME Len(h) = Window, \A j \in 1..T : h[j] = "limited" PROVE FALSE
  <2>1. m \in T..Window /\ d = m - T
    BY <1>1, <1>3, <1>4, <1>8
  <2>2. streak \in 0..(T - 1) /\ streak < m /\ handled[m - streak] # "limited"
    BY <1>1, <2>1 DEF BInv, EndsIn
  <2> DEFINE p == m - streak - d
  <2>3. p \in 1..T /\ p + d = m - streak /\ p + d <= m /\ p \in 1..Len(h)
    BY <1>1, <1>3, <1>8, <2>1, <2>2
  <2> HIDE DEF p
  <2>4. h[p] = handled[m - streak]
    BY <1>3, <2>3
  <2> QED
    BY <1>8, <2>2, <2>3, <2>4
<1>9. ExactFor(h)
  BY <1>1, <1>6, <1>8 DEF ExactFor
<1>10. Window' = Window /\ streak' \in 0..(T - 1)
  BY <1>1, <1>5 DEF Window
<1> QED
  BY <1>3, <1>7, <1>9, <1>10 DEF BInv, EndsIn, ExactFor, Window

LEMMA NotedDrain ==
    ASSUME BInv, handled' = Noted(<<"limited", "drain">>), streak' = 0,
           streak + 1 >= BreakerThreshold
    PROVE  BInv'
<1> DEFINE h == handled'
           m == Len(handled)
           T == BreakerThreshold
           d == Dropped(m + 2)
           s == <<"limited", "drain">>
<1>1. /\ T \in Nat \ {0} /\ Window = T + 1 /\ m \in Nat /\ m <= Window
      /\ streak = T - 1 /\ streak <= m
  BY ConnectionAssumption, LenProperties DEF BInv, Window, EndsIn
<1>2. s \in Seq(Kinds) /\ Len(s) = 2 /\ s[1] = "limited" /\ s[2] = "drain"
  BY DEF Kinds
<1> HIDE DEF s
<1>3. /\ d \in Nat /\ h \in Seq(Kinds) /\ Len(h) = m + 2 - d /\ Len(h) <= Window
      /\ \A j \in 1..Len(h) : h[j] = IF j + d <= m THEN handled[j + d] ELSE s[j + d - m]
  <2>1. Holds(Noted(s), s, Dropped(Len(handled) + Len(s)))
    BY <1>2, NotedHolds DEF BInv
  <2>2. Holds(h, s, d)
    BY <1>2, <2>1 DEF s
  <2> HIDE DEF d, h
  <2> QED
    BY <1>2, <2>2 DEF Holds
<1>4. d = m + 1 - T /\ Len(h) = Window
  BY <1>1, <1>3 DEF Dropped
<1> HIDE DEF d
<1>5. Window \in 1..Len(h) /\ Window + d - m = 2 /\ ~(Window + d <= m)
  BY <1>1, <1>3, <1>4
<1>6. h[Window] = "drain"
  BY <1>2, <1>3, <1>5
<1>7. EndsIn(h, 0)
  BY <1>1, <1>4, <1>6 DEF EndsIn
<1>8. ASSUME NEW j \in 1..T PROVE h[j] = "limited"
  <2>1. CASE j = T
    <3>1. j + d - m = 1 /\ ~(j + d <= m) /\ j \in 1..Len(h)
      BY <1>1, <1>4, <2>1
    <3> QED
      BY <1>2, <1>3, <3>1
  <2>2. CASE j # T
    <3>1. j + d \in (m - streak + 1)..m /\ j \in 1..Len(h)
      BY <1>1, <1>3, <1>4, <2>2
    <3> QED
      BY <1>3, <3>1 DEF BInv, EndsIn
  <2> QED
    BY <2>1, <2>2
<1>9. ExactFor(h)
  BY <1>6, <1>8 DEF ExactFor
<1>10. Window' = Window /\ streak' \in 0..(T - 1)
  BY <1>1 DEF Window
<1> QED
  BY <1>3, <1>7, <1>9, <1>10 DEF BInv, EndsIn, ExactFor, Window

\* An answer is counted, ends the row, or is not one.
LEMMA BInvStep == BInv /\ [Next]_vars => BInv'
<1> SUFFICES ASSUME BInv, [Next]_vars PROVE BInv'
  OBVIOUS
<1>1. CASE UNCHANGED <<streak, handled>>
  BY <1>1 DEF BInv, EndsIn, ExactFor, Window
<1>2. ASSUME NEW c \in Calls, Unanswered(c) \/ ServerError(c) \/ Answered(c) PROVE BInv'
  BY <1>2, NotedOther DEF Unanswered, ServerError, Answered
<1>3. ASSUME NEW c \in Calls, RateLimited(c) PROVE BInv'
  BY <1>3, NotedLimited, NotedDrain DEF RateLimited, LastStraw
<1>4. ASSUME NEW c \in Calls,
             \/ Call(c) \/ Keyless(c) \/ Send(c) \/ BackoffOver(c)
             \/ ProbeReturns(c) \/ ProbeGivesUp(c) \/ Cancelled(c)
      PROVE  UNCHANGED <<streak, handled>>
  BY <1>4 DEF Call, Keyless, Send, BackoffOver, ProbeReturns, ProbeGivesUp, Cancelled
<1>5. ASSUME NEW r \in wire, Perform(r) \/ Refuse(r) PROVE UNCHANGED <<streak, handled>>
  BY <1>5 DEF Perform, Refuse
<1>6. Reopen \/ OthersEdit => UNCHANGED <<streak, handled>>
  BY DEF Reopen, OthersEdit
<1>7. UNCHANGED vars => UNCHANGED <<streak, handled>>
  BY DEF vars
<1> QED
  BY <1>1, <1>2, <1>3, <1>4, <1>5, <1>6, <1>7 DEF Next, Proceed

LEMMA BInvInit == Init => BInv
<1> SUFFICES ASSUME Init PROVE BInv
  OBVIOUS
<1>1. handled = << >> /\ streak = 0 /\ BreakerThreshold \in Nat \ {0}
  BY ConnectionAssumption DEF Init
<1> QED
  BY <1>1 DEF BInv, EndsIn, ExactFor, Window

\* The breaker trips exactly when its number of 429s in a row has been handled.
\* (_count_429)
THEOREM BreakerExactAlways == Spec => []BreakerExact
<1>1. BInv => BreakerExact
  <2> SUFFICES ASSUME BInv PROVE BreakerExact
    OBVIOUS
  <2> DEFINE T == BreakerThreshold
             m == Len(handled)
             Row(i) == \A j \in i..(i + T - 1) : handled[j] = "limited"
  <2>1. /\ T \in Nat \ {0} /\ Window = T + 1 /\ m \in Nat /\ m <= T + 1
        /\ streak \in 0..(T - 1)
    BY ConnectionAssumption, LenProperties DEF BInv, Window
  <2>2. ASSUME NEW i \in 1..m, handled[i] = "drain", i > T PROVE Row(i - T)
    <3>1. i = T + 1 /\ m = T + 1
      BY <2>1, <2>2
    <3>2. \A j \in 1..T : handled[j] = "limited"
      BY <2>1, <2>2, <3>1 DEF BInv, ExactFor
    <3> QED
      BY <2>1, <3>1, <3>2
  <2>3. ASSUME NEW i \in 1..(m - T + 1), Row(i) PROVE i + T <= m /\ handled[i + T] = "drain"
    <3>1. CASE i + T - 1 = m
      <4>1. m - streak \in i..(i + T - 1) /\ streak < m
        BY <2>1, <3>1
      <4> QED
        BY <2>3, <4>1 DEF BInv, EndsIn
    <3>2. CASE i + T - 1 # m
      <4>1. i = 1 /\ m = T + 1
        BY <2>1, <3>2
      <4>2. \A j \in 1..T : handled[j] = "limited"
        BY <2>1, <2>3, <4>1
      <4> QED
        BY <2>1, <4>1, <4>2 DEF BInv, ExactFor
    <3> QED
      BY <3>1, <3>2
  <2> QED
    BY <2>2, <2>3 DEF BreakerExact
<1> QED
  BY <1>1, BInvInit, BInvStep, PTL DEF Spec
==============================================================================
