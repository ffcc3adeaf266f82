------------------------------ MODULE WriteOnce ------------------------------
(***************************************************************************)
(* What a caller of the API client relies on when a call changes records   *)
(* that cannot be changed back (SPECS.md section 10.2): the change takes   *)
(* effect at most once, a call reported as done has taken effect, and one  *)
(* reported as undone has not and never will.  A call may also be reported *)
(* as open, which says nothing of it.  Connection implements it.           *)
(***************************************************************************)
EXTENDS Naturals

CONSTANTS Calls

VARIABLES effects,   \* how often each call has taken effect
          verdict    \* what its caller was told: "none" so far, "done", "undone", "open"

Verdicts == {"none", "done", "undone", "open"}

Init == /\ effects = [c \in Calls |-> 0]
        /\ verdict = [c \in Calls |-> "none"]

\* The service carries the call out, whether or not its caller still waits.
TakeEffect(c) == /\ effects[c] = 0
                 /\ verdict[c] # "undone"
                 /\ effects' = [effects EXCEPT ![c] = 1]
                 /\ UNCHANGED verdict

Report(c, v) == /\ verdict[c] = "none"
                /\ v = "done" => effects[c] = 1
                /\ v = "undone" => effects[c] = 0
                /\ verdict' = [verdict EXCEPT ![c] = v]
                /\ UNCHANGED effects

Next == \E c \in Calls : TakeEffect(c) \/ \E v \in Verdicts : Report(c, v)

Spec == Init /\ [][Next]_<<effects, verdict>>
==============================================================================
