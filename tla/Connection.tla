----------------------------- MODULE Connection ------------------------------
(***************************************************************************)
(* api/connection.py: what one call to Lexware goes through - the bucket,  *)
(* the wire, the answer, the retry - and what its caller is told.          *)
(*                                                                         *)
(* Calls run as tasks of one event loop and share the streak of 429s and   *)
(* the breaker.  The network may lose a request or its answer, and may     *)
(* deliver a request after its sender has given up on it.  The service is  *)
(* modelled by what the client's rules rest on: a record with a version    *)
(* that every change moves on, an update refused unless it names the       *)
(* current version, no memory of earlier requests (there is no idempotency *)
(* key), and a 429 for a request it has not carried out.                   *)
(*                                                                         *)
(* Of the bucket only the breaker is kept: a request may start unless the  *)
(* bucket is held shut (TokenBucket has the rest).  Waits have no length.  *)
(***************************************************************************)
EXTENDS Naturals, SequencesExt

CONSTANTS Calls,            \* the calls
          Asks,             \* Asks[c]: the methods call c may have
          MaxAttempts,      \* MAX_ATTEMPTS
          BreakerThreshold, \* BREAKER_THRESHOLD
          MaxEdits          \* bound: changes by other clients of the account

Methods == {"GET", "PUT", "DELETE", "POST", "PROBE"}

ASSUME ConnectionAssumption == /\ Asks \in [Calls -> SUBSET Methods]
                               /\ MaxAttempts \in Nat \ {0}
                               /\ BreakerThreshold \in Nat \ {0}
                               /\ MaxEdits \in Nat

VARIABLES call,     \* each call's method and local state
          streak,   \* _consecutive_429
          shut,     \* whether the bucket is held shut
          wire,     \* requests on their way (one that stays there is lost)
          record,   \* the record at the service: its version, and if it exists
          effects,  \* history: how often each call was carried out
          edits,    \* how often others changed the record
          handled   \* history: the latest answers handled, and breaker trips

vars == <<call, streak, shut, wire, record, effects, edits, handled>>

\* Answers: carried out; a redirect or a 2xx whose body cannot be read; a server
\* error; a 429 (whose Retry-After may be too long to wait for); a 406 naming
\* the version; a 409 about the record's state; a 404; any other refusal.
Answers == {"ok", "opaque", "broken", "limited", "limitedLong",
            "stale", "barred", "absent", "refused"}

\* What a caller gets: a result; an error that says the request was refused,
\* that somebody else changed the record, that the call itself most likely did,
\* that the outcome is unknown, that the limit was hit; a read's failure.
Outcomes == {"done", "refused", "stale", "ownChange", "unknown", "limited",
             "failed", "cancelled"}

Idle == [method |-> "none", base |-> 0, pc |-> "idle", attempt |-> 1,
         maybeDone |-> FALSE, reply |-> "none", outcome |-> "none"]

Init == /\ call = [c \in Calls |-> Idle]
        /\ streak = 0
        /\ shut = FALSE
        /\ wire = {}
        /\ record = [version |-> 0, exists |-> TRUE]
        /\ effects = [c \in Calls |-> 0]
        /\ edits = 0
        /\ handled = << >>

------------------------------------------------------------------------------
Retryable(c) == call[c].method \in {"GET", "PUT", "DELETE"}

Writes(c) == call[c].method \in {"PUT", "DELETE", "POST"}

More_OneTooMany(c) == call[c].attempt <= MaxAttempts
More(c) == call[c].attempt < MaxAttempts

\* The loop of request resumes with an answer or an error, not that of a probe.
Resumes(c) == call[c].pc = "sent" /\ call[c].method # "PROBE"

End(c, outcome) == call' = [call EXCEPT ![c].pc = "ended", ![c].outcome = outcome]

Retry(c, maybeDone) ==
    call' = [call EXCEPT ![c].pc = "backoff", ![c].attempt = @ + 1,
                         ![c].maybeDone = maybeDone, ![c].reply = "none"]

\* The outcome of a call that ends with nothing to say what became of it.
Lost(c) == IF Writes(c) THEN "unknown" ELSE "failed"

\* handled keeps what the breaker may look at, and one more.
Noted(s) == LET all == handled \o s
                n == Len(all)
                k == BreakerThreshold + 1
            IN  IF n <= k THEN all ELSE SubSeq(all, n - k + 1, n)

Service == <<wire, record, effects, edits>>

\* request or probe is called. An update names a version read some time before.
Call(c) ==
    /\ call[c].pc = "idle"
    /\ \E m \in Asks[c], v \in 0..record.version :
        /\ m # "PUT" => v = 0
        /\ call' = [call EXCEPT ![c].method = m, ![c].base = v, ![c].pc = "queued"]
    /\ UNCHANGED <<streak, shut, handled, Service>>

\* require_api_key: there is none, and nothing goes out.
Keyless(c) ==
    /\ call[c].pc = "idle"
    /\ End(c, "failed")
    /\ UNCHANGED <<streak, shut, handled, Service>>

\* A token was there: the attempt goes out.
Send(c) ==
    /\ call[c].pc = "queued"
    /\ ~shut
    /\ call' = [call EXCEPT ![c].pc = "sent"]
    /\ wire' = wire \cup {<<c, call[c].attempt>>}
    /\ UNCHANGED <<streak, shut, record, effects, edits, handled>>

BackoffOver(c) ==
    /\ call[c].pc = "backoff"
    /\ call' = [call EXCEPT ![c].pc = "queued"]
    /\ UNCHANGED <<streak, shut, handled, Service>>

\* A timeout, a lost connection or an answer httpx cannot decode.
Unanswered_StreakStands(c) ==
    /\ Resumes(c)
    /\ IF Retryable(c) /\ More(c) THEN Retry(c, TRUE) ELSE End(c, Lost(c))
    /\ handled' = Noted(<<"other">>)
    /\ UNCHANGED <<streak, shut, Service>>
Unanswered_RetriesPost(c) ==
    /\ Resumes(c)
    /\ IF More(c) THEN Retry(c, TRUE) ELSE End(c, Lost(c))
    /\ streak' = 0
    /\ handled' = Noted(<<"other">>)
    /\ UNCHANGED <<shut, Service>>
Unanswered_LoopsForever(c) ==
    /\ Resumes(c)
    /\ IF Retryable(c)
       THEN call' = [call EXCEPT ![c].pc = "backoff", ![c].maybeDone = TRUE,
                                 ![c].reply = "none"]
       ELSE End(c, Lost(c))
    /\ streak' = 0
    /\ handled' = Noted(<<"other">>)
    /\ UNCHANGED <<shut, Service>>
Unanswered(c) ==
    /\ Resumes(c)
    /\ IF Retryable(c) /\ More(c) THEN Retry(c, TRUE) ELSE End(c, Lost(c))
    /\ streak' = 0
    /\ handled' = Noted(<<"other">>)
    /\ UNCHANGED <<shut, Service>>

\* This 429 is the one the breaker waits for; its Retry-After is one to wait out.
LastStraw == streak + 1 >= BreakerThreshold
WorthWaiting(c) == call[c].reply = "limited"

RateLimited(c) ==
    /\ Resumes(c)
    /\ call[c].reply \in {"limited", "limitedLong"}
    /\ IF LastStraw
       THEN /\ shut' = TRUE
            /\ streak' = 0
            /\ handled' = Noted(<<"limited", "drain">>)
            /\ End(c, "limited")
       ELSE /\ streak' = streak + 1
            /\ handled' = Noted(<<"limited">>)
            /\ UNCHANGED shut
            /\ IF More(c) /\ WorthWaiting(c)
               THEN Retry(c, call[c].maybeDone)
               ELSE End(c, "limited")
    /\ UNCHANGED Service

ServerError(c) ==
    /\ Resumes(c)
    /\ call[c].reply = "broken"
    /\ IF Retryable(c) /\ More(c) THEN Retry(c, TRUE) ELSE End(c, Lost(c))
    /\ streak' = 0
    /\ handled' = Noted(<<"other">>)
    /\ UNCHANGED <<shut, Service>>

\* What request and its callers make of a final answer.
OwnChange_Never(c) == FALSE
OwnChange(c) == /\ call[c].reply \in {"stale", "barred"}
                /\ call[c].maybeDone
                /\ Writes(c)

FoundGone_AnyRefusal(c) == /\ call[c].reply \in {"absent", "barred"}
                           /\ call[c].method = "DELETE"
                           /\ call[c].maybeDone
FoundGone(c) == /\ call[c].reply = "absent"
                /\ call[c].method = "DELETE"
                /\ call[c].maybeDone

Verdict(c) ==
    IF call[c].reply = "ok" \/ FoundGone(c) THEN "done"
    ELSE IF call[c].reply = "opaque" THEN Lost(c)
    ELSE IF OwnChange(c) THEN "ownChange"
    ELSE IF call[c].reply = "stale" THEN "stale"
    ELSE "refused"

Answered(c) ==
    /\ Resumes(c)
    /\ call[c].reply \notin {"none", "limited", "limitedLong", "broken"}
    /\ End(c, Verdict(c))
    /\ streak' = 0
    /\ handled' = Noted(<<"other">>)
    /\ UNCHANGED <<shut, Service>>

\* probe's wait for a token is over.
ProbeGivesUp(c) ==
    /\ call[c].method = "PROBE"
    /\ call[c].pc = "queued"
    /\ End(c, "limited")
    /\ UNCHANGED <<streak, shut, handled, Service>>

\* probe returns the status that came, or None: nothing is counted or retried.
ProbeReturns(c) ==
    /\ call[c].method = "PROBE"
    /\ call[c].pc = "sent"
    /\ \/ call[c].reply # "none" /\ End(c, "done")
       \/ End(c, "failed")
    /\ UNCHANGED <<streak, shut, handled, Service>>

\* The task is cancelled wherever it waits (the client withdrew its call).
Cancelled(c) ==
    /\ call[c].pc \in {"queued", "sent", "backoff"}
    /\ End(c, "cancelled")
    /\ UNCHANGED <<streak, shut, handled, Service>>

\* The cooldown ends and no later drain extends it.
Reopen ==
    /\ shut
    /\ shut' = FALSE
    /\ UNCHANGED <<call, streak, handled, Service>>

------------------------------------------------------------------------------
\* The service answers r, which only the attempt waited for can hear. The
\* answer may be lost as well: Unanswered does not ask for an empty reply.
Reply(r, answers) ==
    IF call[r[1]].pc = "sent" /\ call[r[1]].attempt = r[2]
    THEN \E a \in answers : call' = [call EXCEPT ![r[1]].reply = a]
    ELSE UNCHANGED call

\* Whether the service can carry out what call c asks for.
Possible(c) ==
    CASE call[c].method = "PUT" -> record.exists /\ record.version = call[c].base
      [] call[c].method = "POST" -> TRUE
      [] OTHER -> record.exists

Perform(r) ==
    LET c == r[1] IN
    /\ r \in wire
    /\ Possible(c)
    /\ wire' = wire \ {r}
    /\ effects' = IF Writes(c) THEN [effects EXCEPT ![c] = @ + 1] ELSE effects
    /\ record' = CASE call[c].method = "PUT" -> [record EXCEPT !.version = @ + 1]
                   [] call[c].method = "DELETE" -> [record EXCEPT !.exists = FALSE]
                   [] OTHER -> record
    /\ Reply(r, {"ok", "opaque", "broken"})
    /\ UNCHANGED <<streak, shut, edits, handled>>

\* The service, or a proxy before it, does not carry the request out.
Refusals(c) ==
    {"limited", "limitedLong", "broken", "opaque", "refused", "barred"}
        \cup (IF call[c].method = "PUT" /\ record.exists /\ record.version # call[c].base
              THEN {"stale"} ELSE {})
        \cup (IF call[c].method # "POST" /\ ~record.exists THEN {"absent"} ELSE {})

Refuse(r) ==
    /\ r \in wire
    /\ wire' = wire \ {r}
    /\ Reply(r, Refusals(r[1]))
    /\ UNCHANGED <<streak, shut, record, effects, edits, handled>>

\* Another client of the account changes the record or deletes it.
OthersEdit ==
    /\ edits < MaxEdits
    /\ record.exists
    /\ edits' = edits + 1
    /\ \/ record' = [record EXCEPT !.version = @ + 1]
       \/ record' = [record EXCEPT !.exists = FALSE]
    /\ UNCHANGED <<call, streak, shut, wire, effects, handled>>

------------------------------------------------------------------------------
\* The steps of call c's own task that the event loop sees to.
Proceed(c) == \/ Send(c) \/ BackoffOver(c)
              \/ Unanswered(c) \/ RateLimited(c) \/ ServerError(c) \/ Answered(c)
              \/ ProbeReturns(c)

Next == \/ \E c \in Calls : \/ Call(c) \/ Keyless(c) \/ Proceed(c)
                           \/ ProbeGivesUp(c) \/ Cancelled(c)
        \/ Reopen
        \/ \E r \in wire : Perform(r) \/ Refuse(r)
        \/ OthersEdit

Spec == Init /\ [][Next]_vars

\* asyncio resumes a task whose timer or answer is due, httpx times a request
\* out, and a cooldown ends. Nothing is asked of the service or the network.
FairSpec == Spec /\ WF_vars(Reopen) /\ \A c \in Calls : WF_vars(Proceed(c))

------------------------------------------------------------------------------
CallStates == [method : Methods \cup {"none"}, base : Nat,
               pc : {"idle", "queued", "sent", "backoff", "ended"},
               attempt : 1..MaxAttempts, maybeDone : BOOLEAN,
               reply : Answers \cup {"none"}, outcome : Outcomes \cup {"none"}]

\* The types, and that the streak stays below the breaker's threshold.
TypeOK ==
    /\ call \in [Calls -> CallStates]
    /\ streak \in 0..(BreakerThreshold - 1)
    /\ shut \in BOOLEAN
    /\ wire \in SUBSET (Calls \X (1..MaxAttempts))
    /\ record \in [version : Nat, exists : BOOLEAN]
    /\ effects \in [Calls -> Nat]
    /\ edits \in 0..MaxEdits
    /\ handled \in Seq({"limited", "other", "drain"})

\* An answer that blames the request, with no earlier attempt left open.
PlainFailure(c) ==
    /\ call[c].outcome \in {"refused", "stale", "limited"}
    /\ ~call[c].maybeDone

(***************************************************************************)
(* SPECS.md 10.2 as a refinement: however requests are lost, delayed and   *)
(* repeated, no write takes effect twice, a success took effect, and a     *)
(* refusal (of a call none of whose attempts was left open) did not and    *)
(* never will, not even by a request still on its way.  A retried delete   *)
(* that finds nothing claims only that the record is gone, not who removed *)
(* it, so it maps to "open"; DeleteMeansGone says what it claims.          *)
(***************************************************************************)
Told == [c \in Calls |->
            IF call[c].outcome = "none" THEN "none"
            ELSE IF Writes(c) /\ call[c].outcome = "done" /\ ~FoundGone(c) THEN "done"
            ELSE IF Writes(c) /\ PlainFailure(c) THEN "undone"
            ELSE "open"]
Promise == INSTANCE WriteOnce WITH verdict <- Told
ImplementsWriteOnce == Promise!Spec

(***************************************************************************)
(* A delete reported as done leaves no record, also when its success is    *)
(* read off the 404 of a retry (_answered).                                *)
(***************************************************************************)
DeleteMeansGone ==
    \A c \in Calls :
        call[c].method = "DELETE" /\ call[c].outcome = "done" => ~record.exists

(***************************************************************************)
(* "The record changed since it was read" (refusal._refusal) is said only  *)
(* of somebody else's change: never when this call's own lost attempt was  *)
(* carried out or still may be, which _own_change is there to tell.        *)
(***************************************************************************)
StaleMeansForeign ==
    \A c \in Calls :
        call[c].outcome = "stale" =>
            /\ effects[c] = 0
            /\ \A k \in 1..MaxAttempts : <<c, k>> \notin wire
            /\ record.version > call[c].base

(***************************************************************************)
(* The breaker trips exactly when BreakerThreshold 429s in a row have been *)
(* handled, whichever calls they belong to (_count_429): no trip without   *)
(* them, no such row without a trip, and no 429 counted for two trips.     *)
(***************************************************************************)
BreakerExact ==
    LET T == BreakerThreshold
        Row(i) == \A j \in i..(i + T - 1) : handled[j] = "limited"
    IN  /\ \A i \in 1..Len(handled) :
            handled[i] = "drain" /\ i > T => Row(i - T)
        /\ \A i \in 1..(Len(handled) - T + 1) :
            Row(i) => i + T <= Len(handled) /\ handled[i + T] = "drain"

(***************************************************************************)
(* Every call ends, with an answer or an error: the retries are bounded,   *)
(* a bucket held shut opens again, and no answer is waited for for ever.   *)
(***************************************************************************)
EveryCallEnds ==
    \A c \in Calls : call[c].pc # "idle" ~> call[c].pc = "ended"

(***************************************************************************)
(* The module's own words on a 429: "the one failure mode whose outcome is *)
(* certain" (connection.py, module docstring). Of a write that raised      *)
(* RateLimitError that would mean it was not carried out.                  *)
(***************************************************************************)
LimitedMeansUndone ==
    \A c \in Calls : call[c].outcome = "limited" => effects[c] = 0
==============================================================================
