---------------------------- MODULE HealthProofs -----------------------------
(***************************************************************************)
(* That what a status check says of a key was found out with that key, and *)
(* that a check is not repeated within the interval: for any number of     *)
(* calls and keys, and any order of saves, answers and cancellations.      *)
(*                                                                         *)
(* A call that waits or asks carries the keys the file has had since       *)
(* it read its own; the one key it sends is among them.  The lock keeps    *)
(* the last check as the holder found it until it has asked.               *)
(***************************************************************************)
EXTENDS Health, TLAPS

SomeKey == Keys \cup {NoKey}

Verdicts == [found : [reachable : {"yes", "no", Unknown}, valid : {"yes", "no", Unknown}],
             at : Nat, key : SomeKey, of : SomeKey, during : SUBSET SomeKey]

CallStates == [pc : {"idle", "keyless", "waits", "probes", "sent", "told", "limited"},
               key : SomeKey, sends : SomeKey, during : SUBSET SomeKey, told : Verdicts]

TypeOK == /\ saved \in SomeKey
          /\ call \in [Calls -> CallStates]
          /\ lock \in Calls \cup {Nobody}
          /\ last \in Verdicts
          /\ now \in 0..MaxNow

\* A check is about a key that was in the file in the middle of it, and says
\* of it what the API does.
Sound(v) == /\ v.of \in v.during
            /\ v.found.valid # Unknown => (v.found.valid = "yes") = (v.of \in Taken)

\* A call that waits for the lock or asks.
Waits(x) == x.pc \in {"waits", "probes", "sent"}
Asks(x) == x.pc \in {"probes", "sent"}

Carries(x) == Waits(x) => x.key # NoKey /\ saved \in x.during
Sends(x) == /\ x.pc = "sent" => x.sends # NoKey
            /\ Asks(x) => x.sends \in x.during /\ (x.key # last.key \/ Stale)
Says(x) == x.pc = "told" => x.told.key = x.key /\ Sound(x.told)

LastSound == IF last.at = Never THEN last.key = NoKey ELSE Sound(last)

\* A call's own part of the invariant.
OneCall(c) == /\ Carries(call[c]) /\ Sends(call[c]) /\ Says(call[c])
              /\ Asks(call[c]) => lock = c

HInv == TypeOK /\ LastSound /\ \A c \in Calls : OneCall(c)

------------------------------------------------------------------------------
LEMMA HInvInit == Init => HInv
<1> SUFFICES ASSUME Init PROVE HInv
  OBVIOUS
<1>1. Nothing \in Verdicts
  BY HealthAssumption DEF Nothing, Checked, Verdicts, SomeKey, Never
<1>2. Idle \in CallStates /\ Idle.pc = "idle"
  BY <1>1 DEF Idle, CallStates, SomeKey
<1>3. Nothing.at = Never /\ Nothing.key = NoKey
  BY DEF Nothing
<1>4. \A c \in Calls : call[c] = Idle
  BY DEF Init
<1> HIDE DEF Nothing, Idle
<1>5. TypeOK
  BY <1>1, <1>2, HealthAssumption DEF Init, TypeOK, SomeKey
<1>6. \A c \in Calls : OneCall(c)
  BY <1>2, <1>4 DEF OneCall, Carries, Sends, Says, Waits, Asks
<1> QED
  BY <1>3, <1>5, <1>6 DEF HInv, LastSound, Init

\* One call's record is replaced and the last check stays.
LEMMA CallReplaced ==
    ASSUME HInv, NEW c \in Calls, NEW x \in CallStates,
           call' = [call EXCEPT ![c] = x], UNCHANGED <<saved, last, now>>,
           lock' \in Calls \cup {Nobody},
           \A d \in Calls \ {c} : Asks(call[d]) => lock' = d,
           Carries(x), Sends(x), Says(x), Asks(x) => lock' = c
    PROVE  HInv'
<1>1. TypeOK'
  BY DEF HInv, TypeOK
<1>2. ASSUME NEW d \in Calls PROVE OneCall(d)'
  <2>1. CASE d = c
    <3>1. call'[d] = x
      BY <2>1 DEF HInv, TypeOK
    <3> QED
      BY <2>1, <3>1 DEF OneCall, Carries, Sends, Says, Sound, Stale
  <2>2. CASE d # c
    <3>1. call'[d] = call[d] /\ OneCall(d)
      BY <2>2 DEF HInv, TypeOK
    <3> QED
      BY <2>2, <3>1 DEF OneCall, Carries, Sends, Says, Sound, Stale
  <2> QED
    BY <2>1, <2>2
<1>3. LastSound'
  BY DEF HInv, LastSound, Sound
<1> QED
  BY <1>1, <1>2, <1>3 DEF HInv

\* Who asks holds the lock, alone.
LEMMA Alone ==
    ASSUME HInv, NEW c \in Calls, Asks(call[c])
    PROVE  \A d \in Calls \ {c} : ~Asks(call[d])
  BY DEF HInv, OneCall

------------------------------------------------------------------------------
\* A key that is saved is noted by every call under way.
LEMMA SaveStep ==
    ASSUME HInv, Save
    PROVE  HInv'
<1>1. PICK k \in SomeKey :
        /\ saved' = k
        /\ call' = [c \in Calls |-> IF call[c].pc \in {"waits", "probes", "sent"}
                                    THEN [call[c] EXCEPT !.during = @ \cup {k}]
                                    ELSE call[c]]
  BY DEF Save, SomeKey
<1>2. UNCHANGED <<lock, last, now>>
  BY DEF Save
<1>3. ASSUME NEW c \in Calls PROVE call'[c] \in CallStates /\ OneCall(c)'
  <2>1. call[c] \in CallStates /\ OneCall(c)
    BY DEF HInv, TypeOK
  <2>2. CASE Waits(call[c])
    <3> DEFINE x == [call[c] EXCEPT !.during = @ \cup {k}]
    <3>1. call'[c] = x
      BY <1>1, <2>2 DEF Waits
    <3>2. /\ x \in CallStates /\ x.pc = call[c].pc /\ x.key = call[c].key
          /\ x.sends = call[c].sends /\ x.told = call[c].told
          /\ x.during = call[c].during \cup {k}
      BY <2>1 DEF CallStates
    <3> HIDE DEF x
    <3> QED
      BY <1>1, <1>2, <2>1, <2>2, <3>1, <3>2
      DEF OneCall, Carries, Sends, Says, Sound, Stale, Waits, Asks
  <2>3. CASE ~Waits(call[c])
    <3>1. call'[c] = call[c]
      BY <1>1, <2>3 DEF Waits
    <3> QED
      BY <1>2, <2>1, <2>3, <3>1 DEF OneCall, Carries, Sends, Says, Sound, Stale, Waits, Asks
  <2> QED
    BY <2>2, <2>3
<1>4. call' \in [Calls -> CallStates]
  BY <1>1, <1>3
<1> QED
  BY <1>1, <1>2, <1>3, <1>4 DEF HInv, TypeOK, LastSound, Sound

\* A check that is stale stays so.
LEMMA TickStep ==
    ASSUME HInv, Tick
    PROVE  HInv'
<1>1. UNCHANGED <<saved, call, lock, last, saves>> /\ now' \in 0..MaxNow /\ now' = now + 1
  BY HealthAssumption DEF Tick, HInv, TypeOK
<1>2. last.at \in Nat /\ now \in Nat
  BY DEF HInv, TypeOK, Verdicts
<1>3. Stale => Stale'
  BY <1>1, <1>2, HealthAssumption DEF Stale
<1> QED
  BY <1>1, <1>3 DEF HInv, TypeOK, LastSound, Sound, OneCall, Carries, Sends, Says

LEMMA AskStep ==
    ASSUME HInv, NEW c \in Calls, Ask(c)
    PROVE  HInv'
<1> DEFINE x == [Idle EXCEPT !.pc = IF saved = NoKey THEN "keyless" ELSE "waits",
                             !.key = saved, !.during = {saved}]
<1>1. Nothing \in Verdicts
  BY HealthAssumption DEF Nothing, Checked, Verdicts, SomeKey, Never
<1>2. saved \in SomeKey
  BY DEF HInv, TypeOK
<1>3. /\ x \in CallStates /\ x.key = saved /\ x.during = {saved}
      /\ x.pc = IF saved = NoKey THEN "keyless" ELSE "waits"
  BY <1>1, <1>2 DEF Idle, CallStates, SomeKey
<1>4. call' = [call EXCEPT ![c] = x] /\ UNCHANGED <<saved, lock, last, now>>
  BY DEF Ask
<1> HIDE DEF x
<1>5. Carries(x) /\ Sends(x) /\ Says(x) /\ ~Asks(x)
  BY <1>3 DEF Carries, Sends, Says, Waits, Asks
<1>6. lock' \in Calls \cup {Nobody} /\ \A d \in Calls \ {c} : Asks(call[d]) => lock' = d
  BY <1>4 DEF HInv, TypeOK, OneCall
<1> QED
  BY <1>3, <1>4, <1>5, <1>6, CallReplaced

\* The lock is had: the last check is told, or another is to be made.
LEMMA EnterStep ==
    ASSUME HInv, NEW c \in Calls, Enter(c)
    PROVE  HInv'
<1>1. call[c] \in CallStates /\ OneCall(c) /\ last \in Verdicts /\ saved \in SomeKey
  BY DEF HInv, TypeOK
<1>2. \A d \in Calls : ~Asks(call[d])
  BY HealthAssumption DEF Enter, HInv, OneCall
<1>3. call[c].pc = "waits" /\ UNCHANGED <<saved, last, now>>
  BY DEF Enter
<1>4. CASE Renews(c)
  <2> DEFINE x == [call[c] EXCEPT !.pc = "probes", !.sends = saved]
  <2>1. call' = [call EXCEPT ![c] = x] /\ lock' = c
    BY <1>4 DEF Enter
  <2>2. /\ x \in CallStates /\ x.pc = "probes" /\ x.sends = saved
        /\ x.key = call[c].key /\ x.during = call[c].during
    BY <1>1 DEF CallStates
  <2> HIDE DEF x
  <2>3. Carries(x) /\ Sends(x) /\ Says(x)
    BY <1>1, <1>3, <1>4, <2>2 DEF OneCall, Carries, Sends, Says, Renews, Waits, Asks
  <2> QED
    BY <1>2, <1>3, <2>1, <2>2, <2>3, CallReplaced
<1>5. CASE ~Renews(c)
  <2> DEFINE x == [call[c] EXCEPT !.pc = "told", !.told = last]
  <2>1. call' = [call EXCEPT ![c] = x] /\ lock' = lock
    BY <1>5 DEF Enter, Tells
  <2>2. x \in CallStates /\ x.pc = "told" /\ x.told = last /\ x.key = call[c].key
    BY <1>1 DEF CallStates
  <2> HIDE DEF x
  <2>3. last.key = call[c].key /\ Sound(last)
    BY <1>5 DEF Renews, Stale, HInv, LastSound
  <2>4. Carries(x) /\ Sends(x) /\ Says(x) /\ ~Asks(x)
    BY <2>2, <2>3 DEF Carries, Sends, Says, Waits, Asks
  <2>5. lock' \in Calls \cup {Nobody}
    BY <2>1 DEF HInv, TypeOK
  <2> QED
    BY <1>2, <1>3, <2>1, <2>2, <2>4, <2>5, CallReplaced
<1> QED
  BY <1>4, <1>5

\* No token, or a request that is sent, or a call taken back.
LEMMA OtherSteps ==
    ASSUME HInv, NEW c \in Calls, Limited(c) \/ Send(c) \/ Cancel(c)
    PROVE  HInv'
<1>1. call[c] \in CallStates /\ OneCall(c) /\ last \in Verdicts /\ Nobody \notin Calls
  BY HealthAssumption DEF HInv, TypeOK
<1>2. \A d \in Calls \ {c} : Asks(call[d]) => lock = d
  BY DEF HInv, OneCall
<1>3. ASSUME Limited(c) PROVE HInv'
  <2> DEFINE x == [call[c] EXCEPT !.pc = "limited", !.told = last]
  <2>1. call' = [call EXCEPT ![c] = x] /\ lock' = Nobody /\ UNCHANGED <<saved, last, now>>
    BY <1>3 DEF Limited, Tells
  <2>2. x \in CallStates /\ x.pc = "limited"
    BY <1>1 DEF CallStates
  <2> HIDE DEF x
  <2>3. Carries(x) /\ Sends(x) /\ Says(x) /\ ~Asks(x)
    BY <2>2 DEF Carries, Sends, Says, Waits, Asks
  <2>4. \A d \in Calls \ {c} : ~Asks(call[d])
    BY <1>3, Alone DEF Limited, Asks
  <2> QED
    BY <2>1, <2>2, <2>3, <2>4, CallReplaced
<1>4. ASSUME Send(c) PROVE HInv'
  <2> DEFINE x == [call[c] EXCEPT !.pc = "sent"]
  <2>1. call' = [call EXCEPT ![c] = x] /\ UNCHANGED <<saved, lock, last, now>>
        /\ call[c].pc = "probes" /\ call[c].sends # NoKey
    BY <1>4 DEF Send
  <2>2. /\ x \in CallStates /\ x.pc = "sent" /\ x.key = call[c].key
        /\ x.sends = call[c].sends /\ x.during = call[c].during
    BY <1>1 DEF CallStates
  <2> HIDE DEF x
  <2>3. Carries(x) /\ Sends(x) /\ Says(x) /\ lock' = c
    BY <1>1, <2>1, <2>2 DEF OneCall, Carries, Sends, Says, Waits, Asks
  <2> QED
    BY <1>2, <2>1, <2>2, <2>3, CallReplaced
<1>5. ASSUME Cancel(c) PROVE HInv'
  <2>1. Nothing \in Verdicts
    BY HealthAssumption DEF Nothing, Checked, Verdicts, SomeKey, Never
  <2>2. Idle \in CallStates /\ Idle.pc = "idle"
    BY <2>1 DEF Idle, CallStates, SomeKey
  <2>3. /\ call' = [call EXCEPT ![c] = Idle] /\ UNCHANGED <<saved, last, now>>
        /\ lock' = IF lock = c THEN Nobody ELSE lock
    BY <1>5 DEF Cancel
  <2>4. Carries(Idle) /\ Sends(Idle) /\ Says(Idle) /\ ~Asks(Idle)
    BY <2>2 DEF Carries, Sends, Says, Waits, Asks
  <2>5. lock' \in Calls \cup {Nobody} /\ \A d \in Calls \ {c} : Asks(call[d]) => lock' = d
    BY <1>2, <2>3 DEF HInv, TypeOK
  <2> QED
    BY <2>2, <2>3, <2>4, <2>5, CallReplaced
<1> QED
  BY <1>3, <1>4, <1>5

\* What one answer, or none, says of the key that was sent.
LEMMA FoundOfKey ==
    ASSUME NEW key \in Keys, NEW answer \in Possible(key)
    PROVE  /\ Found(answer) \in [reachable : {"yes", "no", Unknown}, valid : {"yes", "no", Unknown}]
           /\ Found(answer).valid # Unknown => (Found(answer).valid = "yes") = (key \in Taken)
<1>1. CASE answer \in {"none", "5xx"}
  BY <1>1 DEF Found, Checked, Unknown
<1>2. CASE answer = "401"
  BY <1>2 DEF Found, Checked, Unknown, Possible
<1>3. CASE answer \in {"2xx", "403"}
  BY <1>3 DEF Found, Checked, Unknown, Possible
<1>4. CASE answer = "other"
  BY <1>4 DEF Found, Checked, Unknown
<1> QED
  BY <1>1, <1>2, <1>3, <1>4 DEF Possible, Answers

\* A check that is recorded: its holder was the only one to ask.
LEMMA RecordsStep ==
    ASSUME HInv, NEW c \in Calls, Asks(call[c]), NEW found, NEW of \in SomeKey,
           found \in [reachable : {"yes", "no", Unknown}, valid : {"yes", "no", Unknown}],
           of \in call[c].during,
           found.valid # Unknown => (found.valid = "yes") = (of \in Taken),
           Records(c, found, of), lock' = Nobody, UNCHANGED <<saved, now>>
    PROVE  HInv'
<1> DEFINE check == [found |-> found, at |-> now, key |-> call[c].key,
                     of |-> of, during |-> call[c].during]
           x == [call[c] EXCEPT !.pc = "told", !.told = check]
<1>1. call[c] \in CallStates /\ OneCall(c) /\ now \in 0..MaxNow
  BY DEF HInv, TypeOK
<1>2. check \in Verdicts /\ check.key = call[c].key /\ check.at # Never
  BY <1>1, HealthAssumption DEF Verdicts, CallStates, Never
<1>3. Sound(check)
  BY DEF Sound
<1>4. last' = check /\ call' = [call EXCEPT ![c] = x]
  BY DEF Records, Tells
<1> HIDE DEF check
<1>5. x \in CallStates /\ x.pc = "told" /\ x.told = check /\ x.key = call[c].key
  BY <1>1, <1>2 DEF CallStates
<1> HIDE DEF x
<1>6. TypeOK'
  BY <1>2, <1>4, <1>5 DEF HInv, TypeOK
<1>7. LastSound'
  BY <1>2, <1>3, <1>4 DEF LastSound, Sound, Never
<1>8. ASSUME NEW d \in Calls PROVE OneCall(d)'
  <2>1. CASE d = c
    <3>1. call'[d] = x
      BY <1>4, <2>1 DEF HInv, TypeOK
    <3> QED
      BY <1>2, <1>3, <1>5, <3>1 DEF OneCall, Carries, Sends, Says, Sound, Waits, Asks
  <2>2. CASE d # c
    <3>1. call'[d] = call[d] /\ OneCall(d) /\ ~Asks(call[d])
      BY <1>4, <2>2, Alone DEF HInv, TypeOK
    <3> QED
      BY <3>1 DEF OneCall, Carries, Sends, Says, Sound, Waits, Asks
  <2> QED
    BY <2>1, <2>2
<1> QED
  BY <1>6, <1>7, <1>8 DEF HInv

LEMMA AnswerSteps ==
    ASSUME HInv, NEW c \in Calls, NoKeyToSend(c) \/ Answered(c)
    PROVE  HInv'
<1>1. call[c] \in CallStates /\ OneCall(c)
  BY DEF HInv, TypeOK
<1>2. ASSUME NoKeyToSend(c) PROVE HInv'
  <2>1. Asks(call[c]) /\ NoKey \in call[c].during /\ NoKey \in SomeKey
    BY <1>1, <1>2 DEF NoKeyToSend, OneCall, Sends, Asks, SomeKey
  <2>2. Checked(Unknown, Unknown) \in [reachable : {"yes", "no", Unknown}, valid : {"yes", "no", Unknown}]
        /\ Checked(Unknown, Unknown).valid = Unknown
    BY DEF Checked
  <2> QED
    BY <1>2, <2>1, <2>2, RecordsStep DEF NoKeyToSend
<1>3. ASSUME Answered(c) PROVE HInv'
  <2>1. PICK answer \in Possible(call[c].sends) : Records(c, Found(answer), call[c].sends)
    BY <1>3 DEF Answered
  <2>2. Asks(call[c]) /\ call[c].sends \in call[c].during /\ call[c].sends \in SomeKey
    BY <1>1, <1>3 DEF Answered, OneCall, Sends, Asks, CallStates
  <2>3. call[c].sends \in Keys
    BY <1>1, <1>3, <2>2 DEF Answered, OneCall, Sends, SomeKey
  <2> QED
    BY <1>3, <2>1, <2>2, <2>3, FoundOfKey, RecordsStep DEF Answered
<1> QED
  BY <1>2, <1>3

LEMMA HInvNext == HInv /\ [Next]_vars => HInv'
<1> SUFFICES ASSUME HInv, [Next]_vars PROVE HInv'
  OBVIOUS
<1>1. CASE UNCHANGED vars
  BY <1>1 DEF vars, HInv, TypeOK, LastSound, Sound, OneCall, Carries, Sends, Says, Stale
<1>2. CASE Next
  BY <1>2, SaveStep, TickStep, AskStep, EnterStep, OtherSteps, AnswerSteps DEF Next
<1> QED
  BY <1>1, <1>2

------------------------------------------------------------------------------
LEMMA AlwaysHInv == Spec => []HInv
  BY HInvInit, HInvNext, PTL DEF Spec

\* Whatever is saved while a call waits or asks, what it is told of its key is
\* what a check found out with it, or with one saved in the middle of the
\* check. (client.py, Health.check)
THEOREM VerdictIsOfTheKeyAlways == Spec => []VerdictIsOfTheKey
<1>1. HInv => VerdictIsOfTheKey
  BY DEF HInv, OneCall, Says, Sound, VerdictIsOfTheKey
<1> QED
  BY <1>1, AlwaysHInv, PTL

\* The key that the last check sent is not sent again within the interval, and
\* not after a refusal, unless the file changed between the two readings of one
\* of the two checks. (client.py, Health._stale)
THEOREM SentOnceAnIntervalAlways == Spec => SentOnceAnInterval
<1>1. HInv /\ [Next]_vars =>
        [\A c \in Calls : Sending(c) /\ call[c].sends = last.of =>
            \/ last.found.valid # "no" /\ now - last.at >= Interval
            \/ Crossed(last.key, last.of)
            \/ Crossed(call[c].key, call[c].sends)]_vars
  <2> SUFFICES ASSUME HInv, NEW c \in Calls, call[c].pc = "probes", call[c].sends = last.of,
                      last.key = last.of, call[c].key = call[c].sends
               PROVE  last.found.valid # "no" /\ now - last.at >= Interval
    BY DEF Sending, Crossed
  <2>1. OneCall(c) /\ LastSound
    BY DEF HInv
  <2>2. Stale /\ last.key # NoKey
    BY <2>1 DEF OneCall, Carries, Sends, Waits, Asks
  <2> QED
    BY <2>1, <2>2 DEF Stale, LastSound
<1> QED
  BY <1>1, AlwaysHInv, PTL DEF SentOnceAnInterval, Spec
==============================================================================
