----------------------------- MODULE SettingsPage -----------------------------
(***************************************************************************)
(* configui/app.py: the local server behind the settings page, where every *)
(* request is a thread: the sessions it hands out and signs in, one action *)
(* at a time, and its end.                                                 *)
(*                                                                         *)
(* A browser keeps one cookie for all its tabs, and a tab has one request  *)
(* under way.  Requests that Host, Origin or token refuse change nothing   *)
(* and are left out, and so is the message a form leaves for the next      *)
(* page.  Of the actions of configui/actions.py those on the settings file *)
(* are here; those on the policy and the profiles, which take the same     *)
(* lock, are in PolicyFile.  A tab types one key, which has its name, and  *)
(* the API knows it or not (configui/probe.py).  The idle time may be over *)
(* at any moment.  Ctrl+C, which ends the process whatever it does, is no  *)
(* action: nothing happens after it.                                       *)
(***************************************************************************)
EXTENDS Naturals, FiniteSets

CONSTANTS Tabs,        \* the tabs requests come from
          Browsers,    \* the browsers
          Of,          \* Of[t]: the browser of tab t
          Asks,        \* Asks[t]: what tab t may ask for, and the code it sends
          MaxWaiting,  \* MAX_WAITING_SESSIONS
          FreeTries,   \* FREE_TRIES
          Watch,       \* the thread of end_when_idle
          MaxSessions, \* bound: the sessions ever issued
          MaxTabSaves  \* bound: the saves of a tab

\* The forms that act on the settings file: a key that is checked first, one
\* that is not, the other settings (the token with them), and a check alone.
Forms == {"key", "unchecked", "settings", "check"}
KeyForms == {"key", "unchecked"}
Saves == Forms \ {"check"}

\* A page, a code in the address, a code in its field, a form, the end.
Whats == {"page", "address", "field", "end"} \cup Forms

\* The start code, the one the opened browser got, or any other.
Codes == {"start", "opening", "wrong", "none"}

Sendable == ({"address", "field"} \X (Codes \ {"none"})) \cup (({"page", "end"} \cup Forms) \X {"none"})

FirstKey == "first"
NoAccount == "none"

ASSUME PageAssumption == /\ Of \in [Tabs -> Browsers]
                         /\ Asks \in [Tabs -> SUBSET Sendable]
                         /\ MaxWaiting \in Nat \ {0}
                         /\ FreeTries \in Nat
                         /\ Watch \notin Tabs
                         /\ {FirstKey, NoAccount} \cap Tabs = {}
                         /\ MaxSessions \in Nat
                         /\ MaxTabSaves \in Nat

VARIABLES sessions, \* sessions; a session is the number it was issued as
          issued,   \* how many there ever were
          signedIn, \* _signed_in
          opening,  \* whether the opening code is unspent
          wrong,    \* _wrong, as far as it matters
          trying,   \* whether _trying is held
          cookie,   \* each browser's cookie, 0 for none
          request,  \* each tab's request
          file,     \* the settings file: which save of each tab it holds, and whose key
          using,    \* whose key the settings of the page have
          account,  \* whose key the account shown on the pages was learned with
          saved,    \* history: the saves each tab was told of
          acting,   \* who holds the lock of actions
          loop,     \* the serving loop and the process
          stopping, \* the shutdown request of the loop
          stopped,  \* stopped_from_page
          ender     \* the threads that end the process: timers and Watch

access == <<sessions, issued, signedIn, opening, wrong, trying, cookie>>
ending == <<loop, stopping, stopped, ender>>
files == <<file, using, account, saved, acting>>
pageVars == <<access, request, files, ending>>

FirstFile == [saves |-> [t \in Tabs |-> 0], key |-> FirstKey]

NoRequest == [pc |-> "none", what |-> "none", session |-> 0, fresh |-> FALSE,
              code |-> "none", copy |-> FirstFile, late |-> FALSE]

Enders == Tabs \cup {Watch}

PageInit ==
    /\ sessions = {} /\ issued = 0 /\ signedIn = {}
    /\ opening = TRUE
    /\ wrong = 0 /\ trying = FALSE
    /\ cookie = [b \in Browsers |-> 0]
    /\ request = [t \in Tabs |-> NoRequest]
    /\ file = FirstFile /\ using = FirstKey /\ account = NoAccount
    /\ saved = [t \in Tabs |-> 0]
    /\ acting = "nobody"
    /\ loop = "serving" /\ stopping = FALSE /\ stopped = FALSE
    /\ ender = [e \in Enders |-> IF e = Watch THEN "watching" ELSE "none"]

At(t, pc) == request[t].pc = pc

Goto(t, pc) == request' = [request EXCEPT ![t].pc = pc]

\* The threads run as long as the process does.
Running == loop \in {"serving", "stopped"}

------------------------------------------------------------------------------
\* The session found for a request, or issued for it. The oldest of those that
\* wait for the code go where there are too many.
Pushed_Oldest(waiting) ==
    {s \in sessions : Cardinality({w \in sessions : w >= s}) >= MaxWaiting}
Pushed(waiting) ==
    {s \in waiting : Cardinality({w \in waiting : w >= s}) >= MaxWaiting}

Issue == LET new == issued + 1
         IN  /\ new <= MaxSessions
             /\ issued' = new
             /\ sessions' = (sessions \ Pushed(sessions \ signedIn)) \cup {new}

\* A request arrives and finds its session.
Arrive(t, what, code) ==
    /\ At(t, "none")
    /\ loop = "serving" /\ ~stopping
    /\ what \in Saves => saved[t] < MaxTabSaves
    /\ LET known == cookie[Of[t]] \in sessions
           x == [NoRequest EXCEPT !.pc = "arrived", !.what = what, !.code = code]
       IN  IF known
           THEN /\ request' = [request EXCEPT ![t] = [x EXCEPT !.session = cookie[Of[t]]]]
                /\ UNCHANGED <<sessions, issued>>
           ELSE /\ Issue
                /\ request' = [request EXCEPT ![t] = [x EXCEPT !.session = issued',
                                                               !.fresh = TRUE]]
    /\ UNCHANGED <<signedIn, opening, wrong, trying, cookie, files, ending>>

\* The answer, with the cookie of a new session.
Answer(t) ==
    /\ request' = [request EXCEPT ![t] = NoRequest]
    /\ cookie' = IF request[t].fresh THEN [cookie EXCEPT ![Of[t]] = request[t].session]
                 ELSE cookie

HasSignedIn(t) == request[t].session \in signedIn

\* A form that a new session sends is refused, and so is every other but the
\* code from one that has not signed in, or once the page was ended.
Refused(t) ==
    \/ request[t].fresh
    \/ request[t].what # "field" /\ (~HasSignedIn(t) \/ stopped)

TriesCode(t) == \/ request[t].what = "address" /\ ~HasSignedIn(t)
                \/ request[t].what = "field" /\ ~Refused(t)

LetIn(t) == request[t].what \in Forms \cup {"end"} /\ ~Refused(t)

\* A page, a refusal, or a code that this session has no need of.
AnsweredAtOnce(t) ==
    /\ Running /\ At(t, "arrived")
    /\ ~TriesCode(t) /\ ~LetIn(t)
    /\ Answer(t)
    /\ UNCHANGED <<sessions, issued, signedIn, opening, wrong, trying, files, ending>>

------------------------------------------------------------------------------
\* try_code.
Right(t) == request[t].code = "start" \/ (request[t].code = "opening" /\ opening)

RightCode_InLine(t) ==
    /\ Running /\ At(t, "arrived") /\ TriesCode(t) /\ Right(t)
    /\ ~trying
    /\ wrong' = 0
    /\ signedIn' = signedIn \cup {request[t].session}
    /\ opening' = (opening /\ request[t].code # "opening")
    /\ Answer(t)
    /\ UNCHANGED <<sessions, issued, trying, files, ending>>
RightCode(t) ==
    /\ Running /\ At(t, "arrived") /\ TriesCode(t) /\ Right(t)
    /\ wrong' = 0
    /\ signedIn' = signedIn \cup {request[t].session}
    /\ opening' = (opening /\ request[t].code # "opening")
    /\ Answer(t)
    /\ UNCHANGED <<sessions, issued, trying, files, ending>>

\* Wrong codes are answered one at a time, and wait once there were too many.
WrongCode(t) ==
    /\ Running /\ At(t, "arrived") /\ TriesCode(t) /\ ~Right(t)
    /\ ~trying
    /\ wrong' = IF wrong > FreeTries THEN wrong ELSE wrong + 1
    /\ IF wrong' > FreeTries
       THEN trying' = TRUE /\ Goto(t, "pausing") /\ UNCHANGED cookie
       ELSE UNCHANGED trying /\ Answer(t)
    /\ UNCHANGED <<sessions, issued, signedIn, opening, files, ending>>

PauseOver(t) ==
    /\ Running /\ At(t, "pausing")
    /\ trying' = FALSE
    /\ Answer(t)
    /\ UNCHANGED <<sessions, issued, signedIn, opening, wrong, files, ending>>

------------------------------------------------------------------------------
\* A form that is let in and its action, under the lock.
Enter(t) ==
    /\ Running /\ At(t, "arrived") /\ LetIn(t)
    /\ Goto(t, "let in")
    /\ UNCHANGED <<access, files, ending>>

AsksFirst == {"key", "check"}

\* Once the lock is taken a key is checked, if it is to be; then the file is read.
Begins(t) ==
    LET asks == request[t].what \in AsksFirst
    IN  request' = [request EXCEPT ![t].pc = IF asks THEN "asking" ELSE "acting",
                                   ![t].copy = IF asks THEN @ ELSE file,
                                   ![t].late = stopping]

Over(t, pc) == request' = [request EXCEPT ![t].pc = pc, ![t].copy = FirstFile]

ReadsFile(t) == request' = [request EXCEPT ![t].pc = "acting", ![t].copy = file]

Act_NotAlone(t) ==
    /\ Running /\ At(t, "let in") /\ request[t].what \in Forms
    /\ acting # "end"
    /\ acting' = "action"
    /\ Begins(t)
    /\ UNCHANGED <<access, file, using, account, saved, ending>>
Act(t) ==
    /\ Running /\ At(t, "let in") /\ request[t].what \in Forms
    /\ acting = "nobody"
    /\ acting' = "action"
    /\ Begins(t)
    /\ UNCHANGED <<access, file, using, account, saved, ending>>

\* An empty field, a value the server would refuse, a key the API does not know
\* or does not answer for, or nothing that the file does not say already: the
\* page again, and nothing is written.
Turned(t) ==
    /\ Running /\ request[t].pc \in {"asking", "acting"} /\ request[t].what \in Saves
    /\ Over(t, "not written")
    /\ UNCHANGED <<access, files, ending>>

\* probe.check: the API knows the key and whose account it is, or a check alone
\* fails. An account learned with a key that is not saved yet is kept back.
Checked_Kept(t) ==
    /\ Running /\ At(t, "asking")
    /\ account' = IF request[t].what = "check" THEN using ELSE t
    /\ IF request[t].what = "check" THEN Over(t, "not written") ELSE ReadsFile(t)
    /\ UNCHANGED <<access, file, using, saved, acting, ending>>
Checked(t) ==
    /\ Running /\ At(t, "asking")
    /\ IF request[t].what = "check"
       THEN account' \in {account, using} /\ Over(t, "not written")
       ELSE UNCHANGED account /\ ReadsFile(t)
    /\ UNCHANGED <<access, file, using, saved, acting, ending>>

\* The file as it was read, with this form's change; or it cannot be written.
Write(t) ==
    /\ Running /\ At(t, "acting")
    /\ \/ /\ file' = [saves |-> [request[t].copy.saves EXCEPT ![t] = saved[t] + 1],
                      key |-> IF request[t].what \in KeyForms THEN t ELSE request[t].copy.key]
          /\ Over(t, "written")
       \/ /\ Over(t, "not written")
          /\ UNCHANGED file
    /\ UNCHANGED <<access, using, account, saved, acting, ending>>

\* The settings are read back, unless the rest of them is refused or the
\* environment has a key of its own, and the answer is sent.
Reloaded == \/ using' = file.key
            \/ UNCHANGED using

ActionOver(t) ==
    /\ Running /\ request[t].pc \in {"written", "not written"}
    /\ acting' = "nobody"
    /\ IF At(t, "written")
       THEN /\ saved' = [saved EXCEPT ![t] = @ + 1]
            /\ account' = IF request[t].what = "key" THEN t ELSE account
            /\ Reloaded
       ELSE UNCHANGED <<saved, account, using>>
    /\ Answer(t)
    /\ UNCHANGED <<sessions, issued, signedIn, opening, wrong, trying, file, ending>>

\* Beenden: the answer first, and a timer for the end.
End_AsAction(t) ==
    /\ Running /\ At(t, "let in") /\ request[t].what = "end"
    /\ acting = "nobody"
    /\ acting' = "action"
    /\ stopped' = TRUE
    /\ ender' = [ender EXCEPT ![t] = "ending"]
    /\ Goto(t, "ending")
    /\ UNCHANGED <<access, file, using, account, saved, loop, stopping>>
End(t) ==
    /\ Running /\ At(t, "let in") /\ request[t].what = "end"
    /\ stopped' = TRUE
    /\ ender' = [ender EXCEPT ![t] = "ending"]
    /\ Answer(t)
    /\ UNCHANGED <<sessions, issued, signedIn, opening, wrong, trying, files, loop, stopping>>

------------------------------------------------------------------------------
\* end_when_idle finds that no request came for long enough.
IdleOver ==
    /\ Running /\ ender[Watch] = "watching"
    /\ ender' = [ender EXCEPT ![Watch] = "ending"]
    /\ UNCHANGED <<access, request, files, loop, stopping, stopped>>

\* stop_after_actions: the lock, the shutdown request, the loop's answer.
StopLoop_AtOnce(e) ==
    /\ Running /\ ender[e] = "ending"
    /\ acting' = "end"
    /\ stopping' = TRUE
    /\ ender' = [ender EXCEPT ![e] = "waiting"]
    /\ UNCHANGED <<access, request, file, using, account, saved, loop, stopped>>
StopLoop(e) ==
    /\ Running /\ ender[e] = "ending"
    /\ acting = "nobody"
    /\ acting' = "end"
    /\ stopping' = TRUE
    /\ ender' = [ender EXCEPT ![e] = "waiting"]
    /\ UNCHANGED <<access, request, file, using, account, saved, loop, stopped>>

LoopStops ==
    /\ loop = "serving" /\ stopping
    /\ loop' = "stopped"
    /\ UNCHANGED <<access, request, files, stopping, stopped, ender>>

LoopStopped(e) ==
    /\ loop = "stopped" /\ ender[e] = "waiting"
    /\ acting' = "nobody"
    /\ ender' = [ender EXCEPT ![e] = "done"]
    /\ UNCHANGED <<access, request, file, using, account, saved, loop, stopping, stopped>>

\* serve returns. No thread outlives the process.
ProcessEnds ==
    /\ loop = "stopped"
    /\ loop' = "ended"
    /\ UNCHANGED <<access, request, files, stopping, stopped, ender>>

------------------------------------------------------------------------------
Thread(t) == \/ AnsweredAtOnce(t) \/ RightCode(t) \/ WrongCode(t) \/ PauseOver(t)
             \/ Enter(t) \/ Act(t) \/ Turned(t) \/ Checked(t) \/ Write(t) \/ ActionOver(t)
             \/ End(t)

EnderThread(e) == StopLoop(e) \/ LoopStopped(e)

PageNext == \/ \E t \in Tabs : Thread(t) \/ (\E ask \in Asks[t] : Arrive(t, ask[1], ask[2]))
        \/ \E e \in Enders : EnderThread(e)
        \/ IdleOver \/ LoopStops \/ ProcessEnds

PageSpec == PageInit /\ [][PageNext]_pageVars

\* Every thread runs, and so does the main one. The locks are not fair.
Fairness == /\ \A t \in Tabs : WF_pageVars(Thread(t))
            /\ \A e \in Enders : WF_pageVars(EnderThread(e))
            /\ WF_pageVars(LoopStops) /\ WF_pageVars(ProcessEnds)

PageFairSpec == PageSpec /\ Fairness

------------------------------------------------------------------------------
(***************************************************************************)
(* ConfigServer.__init__: "two tabs saving at once each wrote what they    *)
(* had read, and the first save was lost."  A save that its tab was told   *)
(* of is in the file, whatever was saved beside it.                        *)
(***************************************************************************)
NoSaveLost == \A t \in Tabs : file.saves[t] >= saved[t]

\* The process ended in the middle of t's action.
CutOff(t) == loop = "ended" /\ request[t].pc \in {"asking", "acting", "written", "not written"}

(***************************************************************************)
(* stop_after_actions: "Stop serving once no action is writing a file."    *)
(* An action the end cuts off is one that began after the shutdown did.    *)
(***************************************************************************)
WaitsForActions == \A t \in Tabs : CutOff(t) => request[t].late

(***************************************************************************)
(* probe.check: "A key checked before it is saved is not this              *)
(* installation's key until the write has worked."  The account named on   *)
(* the pages is learned with the key that is in the file, or in the        *)
(* settings, when it is first shown - whoever saves another one, and       *)
(* whether or not this one can be written.                                 *)
(***************************************************************************)
AccountOfThisKey == [][account' # account => account' \in {file.key, using}]_pageVars

(***************************************************************************)
(* MAX_WAITING_SESSIONS: "The oldest goes first, and a signed-in session   *)
(* never does."  So it is of every session signed in while it was known,   *)
(* however many strangers open the page.                                   *)
(***************************************************************************)
SignedInStays == [][signedIn \cap sessions \subseteq sessions']_pageVars

\* The tabs of somebody who has the start code.
Knowing == {t \in Tabs : \E ask \in Asks[t] : ask[2] = "start"}

(***************************************************************************)
(* try_code: "A right code never waits behind them, or whatever loops      *)
(* wrong codes would keep the person out."                                 *)
(***************************************************************************)
RightCodeAnswered ==
    \A t \in Knowing : (At(t, "arrived") /\ request[t].code = "start") ~> (At(t, "none") \/ loop = "ended")

(***************************************************************************)
(* Beenden ends the process, though its thread waits for actions, for the  *)
(* loop and for other threads that end it.                                 *)
(***************************************************************************)
PageEnds == stopped ~> loop = "ended"
==============================================================================
