-------------------------------- MODULE Health -------------------------------
(***************************************************************************)
(* Health of api/client.py, which server_status asks: whether Lexware      *)
(* answers and takes the key, at most one request an interval.  The server *)
(* was started without a key, so each question reads the settings file for *)
(* one, and the settings page or an editor may save another meanwhile:     *)
(* while the call waits for the lock, and while its request waits for the  *)
(* bucket - Connection.probe reads the key once more.                      *)
(***************************************************************************)
EXTENDS Naturals, FiniteSets

CONSTANTS Calls,       \* calls of server_status with details
          Keys,        \* API keys
          Taken,       \* those the API takes
          Interval,    \* CHECK_INTERVAL
          MaxNow, MaxSaves   \* bounds

VARIABLES saved,     \* the key in the settings file
          call,      \* call -> where it is, and what it was told
          lock,      \* the call holding Health._lock
          last,      \* the last check: _found, _at, _key
          now, saves

vars == <<saved, call, lock, last, now, saves>>

NoKey == "no key"
Nobody == "nobody"
Never == MaxNow + 1
Unknown == "unknown"

ASSUME HealthAssumption ==
    /\ NoKey \notin Keys /\ Nobody \notin Calls
    /\ Taken \subseteq Keys
    /\ Interval \in Nat \ {0}
    /\ MaxNow \in Nat /\ MaxSaves \in Nat

\* of is the key the answer is about, and during every key the settings file
\* has held since the check read it.
Checked(reachable, valid) == [reachable |-> reachable, valid |-> valid]
Nothing == [found |-> Checked(Unknown, Unknown), at |-> Never, key |-> NoKey,
            of |-> NoKey, during |-> {}]
Idle == [pc |-> "idle", key |-> NoKey, sends |-> NoKey, during |-> {}, told |-> Nothing]

Init == /\ saved = NoKey
        /\ call = [c \in Calls |-> Idle]
        /\ lock = Nobody
        /\ last = Nothing
        /\ now = 0
        /\ saves = 0

------------------------------------------------------------------------------

\* A key is saved, or taken out of the file.
Save ==
    /\ saves < MaxSaves
    /\ saves' = saves + 1
    /\ \E k \in (Keys \cup {NoKey}) \ {saved} :
        /\ saved' = k
        /\ call' = [c \in Calls |-> IF call[c].pc \in {"waits", "probes", "sent"}
                                    THEN [call[c] EXCEPT !.during = @ \cup {k}]
                                    ELSE call[c]]
    /\ UNCHANGED <<lock, last, now>>

Tick == now < MaxNow /\ now' = now + 1 /\ UNCHANGED <<saved, call, lock, last, saves>>

\* The key is read before the lock is waited for; none ends the check.
Ask(c) ==
    /\ call[c].pc \in {"idle", "keyless", "told", "limited"}
    /\ call' = [call EXCEPT ![c] = [Idle EXCEPT !.pc = IF saved = NoKey THEN "keyless" ELSE "waits",
                                                !.key = saved, !.during = {saved}]]
    /\ UNCHANGED <<saved, lock, last, now, saves>>

\* A refusal does not age, any other check does.
Stale_RefusedToo == last.at = Never \/ now - last.at >= Interval
Stale == \/ last.at = Never
         \/ last.found.valid # "no" /\ now - last.at >= Interval

Renews_AnyKey(c) == Stale
Renews(c) == call[c].key # last.key \/ Stale

Tells(c, pc, check) == [call EXCEPT ![c].pc = pc, ![c].told = check]

\* The lock is had. What the last check found is told at once, if it stands.
Enter(c) ==
    /\ call[c].pc = "waits"
    /\ lock = Nobody
    /\ IF Renews(c)
       THEN /\ lock' = c
            /\ call' = [call EXCEPT ![c].pc = "probes", ![c].sends = saved]
       ELSE call' = Tells(c, "told", last) /\ UNCHANGED lock
    /\ UNCHANGED <<saved, last, now, saves>>

Records(c, found, of) ==
    LET check == [found |-> found, at |-> now, key |-> call[c].key,
                  of |-> of, during |-> call[c].during]
    IN  last' = check /\ call' = Tells(c, "told", check)

\* Connection.probe reads the key itself, and has none to send.
NoKeyToSend(c) ==
    /\ call[c].pc = "probes"
    /\ call[c].sends = NoKey
    /\ Records(c, Checked(Unknown, Unknown), NoKey)
    /\ lock' = Nobody
    /\ UNCHANGED <<saved, now, saves>>

\* No token comes in time, and the last check stands.
Limited(c) ==
    /\ call[c].pc = "probes"
    /\ call[c].sends # NoKey
    /\ call' = Tells(c, "limited", last)
    /\ lock' = Nobody
    /\ UNCHANGED <<saved, last, now, saves>>

Send(c) ==
    /\ call[c].pc = "probes"
    /\ call[c].sends # NoKey
    /\ call' = [call EXCEPT ![c].pc = "sent"]
    /\ UNCHANGED <<saved, lock, last, now, saves>>

\* What one answer says of the service and of the key.
Answers == {"none", "5xx", "401", "403", "2xx", "other"}
Found(answer) ==
    CASE answer \in {"none", "5xx"} -> Checked("no", Unknown)
      [] answer = "401"             -> Checked("yes", "no")
      [] answer \in {"2xx", "403"}  -> Checked("yes", "yes")
      [] answer = "other"           -> Checked("yes", Unknown)

Possible(key) == Answers \ IF key \in Taken THEN {"401"} ELSE {"2xx", "403"}

Answered(c) ==
    /\ call[c].pc = "sent"
    /\ \E answer \in Possible(call[c].sends) : Records(c, Found(answer), call[c].sends)
    /\ lock' = Nobody
    /\ UNCHANGED <<saved, now, saves>>

\* The client takes its call back.
Cancel(c) ==
    /\ call[c].pc \in {"waits", "probes", "sent"}
    /\ call' = [call EXCEPT ![c] = Idle]
    /\ lock' = IF lock = c THEN Nobody ELSE lock
    /\ UNCHANGED <<saved, last, now, saves>>

Next == \/ Save \/ Tick
        \/ \E c \in Calls : \/ Ask(c) \/ Enter(c) \/ NoKeyToSend(c)
                            \/ Limited(c) \/ Send(c) \/ Answered(c) \/ Cancel(c)

Spec == Init /\ [][Next]_vars

------------------------------------------------------------------------------
(* Properties *)

\* What a call is told of its key was found out with that key: by a check
\* that read this key first, and sent no other unless the file changed in
\* the middle of it. A call told while no token was free is told of the last
\* check, whatever key that was about. (client.py, Health)
VerdictIsOfTheKey ==
    \A c \in Calls : call[c].pc = "told" =>
        /\ call[c].told.key = call[c].key
        /\ call[c].told.of \in call[c].told.during
        /\ call[c].told.found.valid # Unknown /\ call[c].told.during = {call[c].key}
           => (call[c].told.found.valid = "yes") = (call[c].key \in Taken)

\* "One check stands for CHECK_INTERVAL seconds": of calls that come together
\* only the first one sends the key, and the key of the last check goes out
\* again after the interval, or not at all if it was refused - but for one
\* case, in which it goes out at once: the file changed in the middle of one of
\* the two checks, so that it read one key and sent another. What is remembered
\* of it is the key it read (client.py, Health._send), and the next call that
\* reads the key that was sent does not see that it was refused a moment ago.
Crossed(read, sent) == read # sent
Sending(c) == call[c].pc = "probes" /\ call'[c].pc = "sent"

SentOnceAnInterval ==
    [][\A c \in Calls : Sending(c) /\ call[c].sends = last.of =>
          \/ last.found.valid # "no" /\ now - last.at >= Interval
          \/ Crossed(last.key, last.of)
          \/ Crossed(call[c].key, call[c].sends)]_vars
==============================================================================
