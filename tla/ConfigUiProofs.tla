---------------------------- MODULE ConfigUiProofs ----------------------------
(***************************************************************************)
(* What holds of the settings page and of the files it writes, the two     *)
(* models side by side.                                                    *)
(***************************************************************************)
EXTENDS SettingsPage, PolicyFile, TLAPS

(***************************************************************************)
(* What the lock of actions gives the settings page, for any number of     *)
(* tabs, browsers and threads that end it: no save is lost, the end waits, *)
(* and an account is shown for a key in use.  And what keeps a signed-in   *)
(* session, which needs no lock.                                           *)
(***************************************************************************)

KeyNames == Tabs \cup {FirstKey}
Files == [saves : [Tabs -> Nat], key : KeyNames]

ActionPcs == {"asking", "acting", "written", "not written"}
Requests == [pc : {"none", "arrived", "pausing", "let in"} \cup ActionPcs,
             what : {"none"} \cup Whats, session : Nat, fresh : BOOLEAN, code : Codes,
             copy : Files, late : BOOLEAN]

TypeOK == /\ request \in [Tabs -> Requests]
          /\ cookie \in [Browsers -> Nat] /\ issued \in Nat
          /\ file \in Files
          /\ saved \in [Tabs -> Nat]
          /\ stopping \in BOOLEAN
          /\ ender \in [Enders -> {"none", "watching", "ending", "waiting", "done"}]

InAction(x) == x.pc \in ActionPcs

\* The lock is held by the one action there is, or by the one thread that
\* waits for the loop.
Locked == /\ \A t, u \in Tabs : InAction(request[t]) /\ InAction(request[u]) => t = u
          /\ \A t \in Tabs : InAction(request[t]) => acting = "action"
          /\ \A e, f \in Enders : ender[e] = "waiting" /\ ender[f] = "waiting" => e = f
          /\ \A e \in Enders : ender[e] = "waiting" => acting = "end"

\* What an action read is the file still, and what it wrote is in it.
Kept(t, x) ==
    /\ x.pc = "acting" => x.copy = file
    /\ x.pc = "written" => /\ file.saves[t] >= saved[t] + 1
                           /\ x.what \in KeyForms => file.key = t

LateAfterEnd(x) == InAction(x) /\ stopping => x.late

PageInv == /\ TypeOK /\ Locked /\ NoSaveLost
           /\ \A t \in Tabs : Kept(t, request[t]) /\ LateAfterEnd(request[t])
           /\ loop # "serving" => stopping

------------------------------------------------------------------------------
LEMMA PageInvInit == PageInit => PageInv
<1> SUFFICES ASSUME PageInit PROVE PageInv
  OBVIOUS
<1>1. FirstFile \in Files
  BY DEF FirstFile, Files, KeyNames
<1>2. NoRequest \in Requests /\ NoRequest.pc = "none"
  BY <1>1 DEF NoRequest, Requests, Whats, Codes
<1>3. \A t \in Tabs : request[t] = NoRequest
  BY DEF PageInit
<1>4. FirstFile.saves = [t \in Tabs |-> 0]
  BY DEF FirstFile
<1> HIDE DEF NoRequest, FirstFile
<1>5. TypeOK
  BY <1>1, <1>2, <1>4 DEF PageInit, TypeOK
<1>6. \A t \in Tabs : ~InAction(request[t]) /\ request[t].pc = "none"
  BY <1>2, <1>3 DEF InAction, ActionPcs
<1>7. \A e \in Enders : ender[e] # "waiting"
  BY DEF PageInit
<1>8. NoSaveLost
  BY <1>4 DEF PageInit, NoSaveLost
<1> QED
  BY <1>5, <1>6, <1>7, <1>8 DEF PageInv, Locked, Kept, LateAfterEnd, PageInit

\* A request outside of any action goes on, and stays outside.
LEMMA OutsideAction ==
    ASSUME PageInv, NEW t \in Tabs, NEW x \in Requests,
           request' = [request EXCEPT ![t] = x],
           ~InAction(request[t]), ~InAction(x),
           UNCHANGED <<file, saved, acting, loop, stopping>>,
           cookie' \in [Browsers -> Nat], issued' \in Nat,
           ender' = ender \/ ender' = [ender EXCEPT ![t] = "ending"]
    PROVE  PageInv'
<1>1. TypeOK'
  BY DEF PageInv, TypeOK, Enders
<1>2. \A u \in Tabs : request'[u] = IF u = t THEN x ELSE request[u]
  BY DEF PageInv, TypeOK
<1>3. \A e \in Enders : ender'[e] = "waiting" => ender[e] = "waiting"
  BY DEF PageInv, TypeOK, Enders
<1>4. Locked'
  <2>1. \A u \in Tabs : InAction(request'[u]) => InAction(request[u])
    BY <1>2
  <2> QED
    BY <1>3, <2>1 DEF PageInv, Locked, InAction
<1>5. ASSUME NEW u \in Tabs PROVE (Kept(u, request[u]) /\ LateAfterEnd(request[u]))'
  <2>1. CASE u = t
    BY <1>2, <2>1 DEF Kept, LateAfterEnd, InAction, ActionPcs
  <2>2. CASE u # t
    BY <1>2, <2>2 DEF PageInv, Kept, LateAfterEnd, InAction
  <2> QED
    BY <2>1, <2>2
<1> QED
  BY <1>1, <1>4, <1>5 DEF PageInv, NoSaveLost

\* A request goes on inside the action that it has the lock for, and neither
\* the file nor what anybody was told is changed.
LEMMA InsideAction ==
    ASSUME PageInv, NEW t \in Tabs, NEW x \in Requests,
           request' = [request EXCEPT ![t] = x],
           InAction(request[t]) \/ (acting = "nobody" /\ acting' = "action"),
           InAction(request[t]) => acting' = acting,
           InAction(x), Kept(t, x), LateAfterEnd(x),
           UNCHANGED <<file, saved, cookie, issued, loop, stopping, ender>>
    PROVE  PageInv'
<1>1. TypeOK'
  BY DEF PageInv, TypeOK
<1>2. \A u \in Tabs : request'[u] = IF u = t THEN x ELSE request[u]
  BY DEF PageInv, TypeOK
<1>3. \A u \in Tabs : u # t => ~InAction(request[u])
  BY DEF PageInv, Locked
<1>4. acting' = "action" /\ \A e \in Enders : ender[e] # "waiting"
  BY DEF PageInv, Locked
<1>5. Locked'
  BY <1>2, <1>3, <1>4 DEF Locked, InAction
<1>6. ASSUME NEW u \in Tabs PROVE (Kept(u, request[u]) /\ LateAfterEnd(request[u]))'
  <2>1. CASE u = t
    BY <1>2, <2>1 DEF Kept, LateAfterEnd, InAction
  <2>2. CASE u # t
    BY <1>2, <2>2 DEF PageInv, Kept, LateAfterEnd, InAction
  <2> QED
    BY <2>1, <2>2
<1> QED
  BY <1>1, <1>5, <1>6 DEF PageInv, NoSaveLost

------------------------------------------------------------------------------
\* A request that is answered.
LEMMA AnswerTypes ==
    ASSUME TypeOK, NEW t \in Tabs, Answer(t), Of[t] \in Browsers
    PROVE  /\ NoRequest \in Requests /\ ~InAction(NoRequest) /\ NoRequest.pc = "none"
           /\ request' = [request EXCEPT ![t] = NoRequest]
           /\ cookie' \in [Browsers -> Nat]
<1>1. FirstFile \in Files
  BY DEF FirstFile, Files, KeyNames
<1>2. NoRequest \in Requests /\ NoRequest.pc = "none"
  BY <1>1 DEF NoRequest, Requests, Whats, Codes
<1>3. request[t].session \in Nat
  BY DEF TypeOK, Requests
<1> HIDE DEF NoRequest
<1> QED
  BY <1>2, <1>3 DEF Answer, TypeOK, InAction, ActionPcs

LEMMA ArriveStep ==
    ASSUME PageInv, NEW t \in Tabs, NEW ask \in Asks[t], Arrive(t, ask[1], ask[2])
    PROVE  PageInv'
<1>1. ask[1] \in Whats /\ ask[2] \in Codes
  BY PageAssumption DEF Sendable, Whats, Codes
<1>2. FirstFile \in Files
  BY DEF FirstFile, Files, KeyNames
<1> DEFINE x == [NoRequest EXCEPT !.pc = "arrived", !.what = ask[1], !.code = ask[2]]
<1>3. x \in Requests /\ x.pc = "arrived"
  BY <1>1, <1>2 DEF NoRequest, Requests, Whats, Codes
<1>4. ~InAction(request[t]) /\ issued \in Nat /\ cookie[Of[t]] \in Nat
  BY PageAssumption DEF Arrive, At, InAction, ActionPcs, PageInv, TypeOK
<1>5. UNCHANGED <<cookie, file, saved, acting, loop, stopping, ender>>
  BY DEF Arrive, files, ending
<1> HIDE DEF x
<1>6. CASE cookie[Of[t]] \in sessions
  <2> DEFINE y == [x EXCEPT !.session = cookie[Of[t]]]
  <2>1. request' = [request EXCEPT ![t] = y] /\ issued' = issued
    BY <1>6 DEF Arrive, x
  <2>2. y \in Requests /\ y.pc = "arrived"
    BY <1>3, <1>4 DEF Requests
  <2> HIDE DEF y
  <2> QED
    BY <1>4, <1>5, <2>1, <2>2, OutsideAction DEF InAction, ActionPcs, PageInv, TypeOK
<1>7. CASE cookie[Of[t]] \notin sessions
  <2> DEFINE y == [x EXCEPT !.session = issued', !.fresh = TRUE]
  <2>1. request' = [request EXCEPT ![t] = y] /\ issued' = issued + 1
    BY <1>7 DEF Arrive, x, Issue
  <2>2. issued' \in Nat
    BY <1>4, <2>1
  <2>3. y \in Requests /\ y.pc = "arrived"
    BY <1>3, <2>2 DEF Requests
  <2> HIDE DEF y
  <2> QED
    BY <1>4, <1>5, <2>1, <2>2, <2>3, OutsideAction DEF InAction, ActionPcs, PageInv, TypeOK
<1> QED
  BY <1>6, <1>7

\* The pages, the codes, the end, and a form that waits for the lock.
LEMMA OutsideSteps ==
    ASSUME PageInv, NEW t \in Tabs,
           \/ AnsweredAtOnce(t) \/ RightCode(t) \/ WrongCode(t)
           \/ PauseOver(t) \/ Enter(t) \/ End(t)
    PROVE  PageInv'
<1>1. /\ ~InAction(request[t]) /\ Of[t] \in Browsers /\ TypeOK
      /\ request[t] \in Requests /\ cookie \in [Browsers -> Nat] /\ issued \in Nat
  BY PageAssumption
  DEF AnsweredAtOnce, RightCode, WrongCode, PauseOver, Enter, End, At, InAction, ActionPcs,
      PageInv, TypeOK
<1>2. UNCHANGED <<file, saved, acting, loop, stopping, issued>>
  BY DEF AnsweredAtOnce, RightCode, WrongCode, PauseOver, Enter, End, files, ending, access
<1>3. ender' = ender \/ ender' = [ender EXCEPT ![t] = "ending"]
  BY DEF AnsweredAtOnce, RightCode, WrongCode, PauseOver, Enter, End, ending
<1>4. CASE Answer(t)
  BY <1>1, <1>2, <1>3, <1>4, AnswerTypes, OutsideAction
<1>5. ASSUME NEW pc \in {"pausing", "let in"}, Goto(t, pc), cookie' = cookie PROVE PageInv'
  <2> DEFINE x == [request[t] EXCEPT !.pc = pc]
  <2>1. x \in Requests /\ x.pc = pc
    BY <1>1 DEF Requests
  <2>2. request' = [request EXCEPT ![t] = x]
    BY <1>5 DEF Goto
  <2> HIDE DEF x
  <2>3. ~InAction(x)
    BY <2>1 DEF InAction, ActionPcs
  <2> QED
    BY <1>1, <1>2, <1>3, <1>5, <2>1, <2>2, <2>3, OutsideAction
<1>6. Answer(t) \/ \E pc \in {"pausing", "let in"} : Goto(t, pc) /\ cookie' = cookie
  BY DEF AnsweredAtOnce, RightCode, WrongCode, PauseOver, Enter, End, access
<1> QED
  BY <1>4, <1>5, <1>6

------------------------------------------------------------------------------
\* The lock is taken: nobody else acts, and the file read is the file.
LEMMA ActStep ==
    ASSUME PageInv, NEW t \in Tabs, Act(t)
    PROVE  PageInv'
<1> DEFINE asks == request[t].what \in AsksFirst
           x == [request[t] EXCEPT !.pc = IF asks THEN "asking" ELSE "acting",
                                   !.copy = IF asks THEN @ ELSE file,
                                   !.late = stopping]
<1>1. request[t] \in Requests /\ file \in Files
  BY DEF PageInv, TypeOK
<1>2. stopping \in BOOLEAN
  BY DEF PageInv, TypeOK
<1>3. /\ request' = [request EXCEPT ![t] = x]
      /\ acting = "nobody" /\ acting' = "action"
      /\ UNCHANGED <<file, saved, cookie, issued, loop, stopping, ender>>
  BY DEF Act, Begins, access, ending
<1>4. ~InAction(request[t])
  BY DEF Act, At, InAction, ActionPcs
<1>5. /\ x.pc = IF asks THEN "asking" ELSE "acting"
      /\ x.copy = IF asks THEN request[t].copy ELSE file
      /\ x.late = stopping
  BY <1>1 DEF Requests
<1>6. x \in Requests
  BY <1>1, <1>2 DEF Requests, ActionPcs
<1> HIDE DEF x
<1>7. InAction(x) /\ Kept(t, x) /\ LateAfterEnd(x)
  BY <1>5 DEF InAction, ActionPcs, Kept, LateAfterEnd
<1> QED
  BY <1>3, <1>4, <1>6, <1>7, InsideAction

\* Nothing is written, or the key was checked first.
LEMMA TurnedStep ==
    ASSUME PageInv, NEW t \in Tabs, Turned(t) \/ Checked(t)
    PROVE  PageInv'
<1>1. request[t] \in Requests /\ file \in Files /\ InAction(request[t]) /\ LateAfterEnd(request[t])
  BY DEF Turned, Checked, At, InAction, ActionPcs, PageInv, TypeOK
<1>2. FirstFile \in Files
  BY DEF FirstFile, Files, KeyNames
<1>3. UNCHANGED <<file, saved, cookie, issued, loop, stopping, ender, acting>>
  BY DEF Turned, Checked, access, files, ending
<1>4. ASSUME Over(t, "not written") PROVE PageInv'
  <2> DEFINE x == [request[t] EXCEPT !.pc = "not written", !.copy = FirstFile]
  <2>1. request' = [request EXCEPT ![t] = x]
    BY <1>4 DEF Over
  <2>2. x \in Requests /\ x.pc = "not written" /\ x.late = request[t].late
    BY <1>1, <1>2 DEF Requests, ActionPcs
  <2> HIDE DEF x
  <2>3. InAction(x) /\ Kept(t, x) /\ LateAfterEnd(x)
    BY <1>1, <2>2 DEF InAction, ActionPcs, Kept, LateAfterEnd
  <2> QED
    BY <1>1, <1>3, <2>1, <2>2, <2>3, InsideAction
<1>5. ASSUME ReadsFile(t) PROVE PageInv'
  <2> DEFINE x == [request[t] EXCEPT !.pc = "acting", !.copy = file]
  <2>1. request' = [request EXCEPT ![t] = x]
    BY <1>5 DEF ReadsFile
  <2>2. x \in Requests /\ x.pc = "acting" /\ x.copy = file /\ x.late = request[t].late
    BY <1>1 DEF Requests, ActionPcs
  <2> HIDE DEF x
  <2>3. InAction(x) /\ Kept(t, x) /\ LateAfterEnd(x)
    BY <1>1, <2>2 DEF InAction, ActionPcs, Kept, LateAfterEnd
  <2> QED
    BY <1>1, <1>3, <2>1, <2>2, <2>3, InsideAction
<1> QED
  BY <1>4, <1>5 DEF Turned, Checked

\* The file is the one that was read, with this save.
LEMMA PageWriteStep ==
    ASSUME PageInv, NEW t \in Tabs, Write(t)
    PROVE  PageInv'
<1>1. /\ request[t] \in Requests /\ file \in Files /\ InAction(request[t]) /\ saved[t] \in Nat
      /\ LateAfterEnd(request[t]) /\ request[t].copy = file
  BY DEF Write, At, InAction, ActionPcs, PageInv, TypeOK, Kept
<1>2. FirstFile \in Files
  BY DEF FirstFile, Files, KeyNames
<1>3. UNCHANGED <<saved, cookie, issued, loop, stopping, ender, acting>>
  BY DEF Write, access, ending
<1>4. CASE Over(t, "not written") /\ UNCHANGED file
  <2> DEFINE x == [request[t] EXCEPT !.pc = "not written", !.copy = FirstFile]
  <2>1. request' = [request EXCEPT ![t] = x]
    BY <1>4 DEF Over
  <2>2. x \in Requests /\ x.pc = "not written" /\ x.late = request[t].late
    BY <1>1, <1>2 DEF Requests, ActionPcs
  <2> HIDE DEF x
  <2>3. InAction(x) /\ Kept(t, x) /\ LateAfterEnd(x)
    BY <1>1, <2>2 DEF InAction, ActionPcs, Kept, LateAfterEnd
  <2> QED
    BY <1>1, <1>3, <1>4, <2>1, <2>2, <2>3, InsideAction
<1>5. ASSUME Over(t, "written"),
             file' = [saves |-> [request[t].copy.saves EXCEPT ![t] = saved[t] + 1],
                      key |-> IF request[t].what \in KeyForms THEN t ELSE request[t].copy.key]
      PROVE  PageInv'
  <2> DEFINE x == [request[t] EXCEPT !.pc = "written", !.copy = FirstFile]
  <2>1. request' = [request EXCEPT ![t] = x]
    BY <1>5 DEF Over
  <2>2. x \in Requests /\ x.pc = "written" /\ x.late = request[t].late /\ x.what = request[t].what
    BY <1>1, <1>2 DEF Requests, ActionPcs
  <2> HIDE DEF x
  <2>3. file.saves \in [Tabs -> Nat] /\ file.key \in KeyNames
    BY <1>1 DEF Files
  <2>4. file'.saves = [file.saves EXCEPT ![t] = saved[t] + 1]
        /\ file'.key = IF x.what \in KeyForms THEN t ELSE file.key
    BY <1>1, <1>5, <2>2
  <2>5. file' \in Files
    <3>1. [request[t].copy.saves EXCEPT ![t] = saved[t] + 1] \in [Tabs -> Nat]
      BY <1>1, <2>3
    <3>2. (IF request[t].what \in KeyForms THEN t ELSE request[t].copy.key) \in KeyNames
      BY <1>1, <2>3 DEF KeyNames
    <3> QED
      BY <1>5, <3>1, <3>2 DEF Files
  <2>6. TypeOK'
    BY <1>3, <2>1, <2>2, <2>5 DEF PageInv, TypeOK
  <2>7. \A u \in Tabs : request'[u] = IF u = t THEN x ELSE request[u]
    BY <2>1 DEF PageInv, TypeOK
  <2>8. \A u \in Tabs : u # t => ~InAction(request[u])
    BY <1>1 DEF PageInv, Locked
  <2>9. InAction(x) /\ acting = "action"
    BY <1>1, <2>2 DEF InAction, ActionPcs, PageInv, Locked
  <2>10. Locked'
    BY <1>3, <2>7, <2>8, <2>9 DEF PageInv, Locked, InAction
  <2>11. NoSaveLost'
    <3>1. ASSUME NEW u \in Tabs PROVE file'.saves[u] >= saved[u]
      <4>1. CASE u = t
        BY <1>1, <2>3, <2>4, <4>1
      <4>2. CASE u # t
        BY <2>3, <2>4, <4>2 DEF PageInv, NoSaveLost
      <4> QED
        BY <4>1, <4>2
    <3> QED
      BY <1>3, <3>1 DEF NoSaveLost
  <2>12. ASSUME NEW u \in Tabs PROVE (Kept(u, request[u]) /\ LateAfterEnd(request[u]))'
    <3>1. CASE u = t
      <4>1. request'[u] = x
        BY <2>7, <3>1
      <4>2. file'.saves[t] >= saved[t] + 1
        BY <1>1, <2>3, <2>4
      <4> QED
        BY <1>1, <1>3, <2>2, <2>4, <3>1, <4>1, <4>2 DEF Kept, LateAfterEnd, InAction
    <3>2. CASE u # t
      BY <1>3, <2>7, <2>8, <3>2 DEF Kept, LateAfterEnd, InAction, ActionPcs
    <3> QED
      BY <3>1, <3>2
  <2> QED
    BY <1>3, <2>6, <2>10, <2>11, <2>12 DEF PageInv
<1> QED
  BY <1>4, <1>5 DEF Write

\* The action is over and its tab is told: what it was told is in the file.
LEMMA ActionOverStep ==
    ASSUME PageInv, NEW t \in Tabs, ActionOver(t)
    PROVE  PageInv'
<1>1. /\ request[t] \in Requests /\ InAction(request[t]) /\ Of[t] \in Browsers /\ TypeOK
      /\ file \in Files /\ saved \in [Tabs -> Nat]
  BY PageAssumption DEF ActionOver, InAction, ActionPcs, PageInv, TypeOK
<1>2. UNCHANGED <<file, issued, loop, stopping, ender>> /\ acting' = "nobody" /\ Answer(t)
  BY DEF ActionOver, ending
<1>3. saved' = IF At(t, "written") THEN [saved EXCEPT ![t] = @ + 1] ELSE saved
  BY DEF ActionOver
<1>4. /\ NoRequest \in Requests /\ ~InAction(NoRequest) /\ NoRequest.pc = "none"
      /\ request' = [request EXCEPT ![t] = NoRequest] /\ cookie' \in [Browsers -> Nat]
  BY <1>1, <1>2, AnswerTypes
<1> HIDE DEF NoRequest
<1>5. saved' \in [Tabs -> Nat]
  BY <1>1, <1>3
<1>6. TypeOK'
  BY <1>1, <1>2, <1>4, <1>5 DEF TypeOK
<1>7. \A u \in Tabs : request'[u] = IF u = t THEN NoRequest ELSE request[u]
  BY <1>1, <1>4 DEF TypeOK
<1>8. \A u \in Tabs : u # t => ~InAction(request[u])
  BY <1>1 DEF PageInv, Locked
<1>9. \A u \in Tabs : ~InAction(request'[u])
  BY <1>4, <1>7, <1>8
<1>10. \A e \in Enders : ender[e] # "waiting"
  BY <1>1 DEF PageInv, Locked
<1>11. Locked'
  BY <1>2, <1>9, <1>10 DEF Locked, InAction
<1>12. NoSaveLost'
  <2>1. ASSUME NEW u \in Tabs PROVE file.saves[u] >= saved'[u]
    <3>1. CASE u = t /\ At(t, "written")
      <4>1. saved'[u] = saved[t] + 1
        BY <1>1, <1>3, <3>1
      <4>2. file.saves[t] >= saved[t] + 1
        BY <3>1 DEF PageInv, Kept, At
      <4> QED
        BY <3>1, <4>1, <4>2
    <3>2. CASE ~(u = t /\ At(t, "written"))
      <4>1. saved'[u] = saved[u]
        BY <1>1, <1>3, <3>2
      <4> QED
        BY <4>1 DEF PageInv, NoSaveLost
    <3> QED
      BY <3>1, <3>2
  <2> QED
    BY <1>2, <2>1 DEF NoSaveLost
<1>13. \A u \in Tabs : (Kept(u, request[u]) /\ LateAfterEnd(request[u]))'
  BY <1>9 DEF Kept, LateAfterEnd, InAction, ActionPcs
<1> QED
  BY <1>2, <1>6, <1>11, <1>12, <1>13 DEF PageInv

------------------------------------------------------------------------------
\* The threads that end the process, the loop and the process.
LEMMA EndSteps ==
    ASSUME PageInv,
           \/ \E e \in Enders : StopLoop(e) \/ LoopStopped(e)
           \/ IdleOver \/ LoopStops \/ ProcessEnds
    PROVE  PageInv'
<1>1. UNCHANGED <<request, file, saved, cookie, issued>>
  BY DEF StopLoop, LoopStopped, IdleOver, LoopStops, ProcessEnds, access, files
<1>2. ASSUME NEW e \in Enders, StopLoop(e) PROVE PageInv'
  <2>1. \A t \in Tabs : ~InAction(request[t])
    BY <1>2 DEF StopLoop, PageInv, Locked
  <2>2. \A f \in Enders : ender[f] # "waiting"
    BY <1>2 DEF StopLoop, PageInv, Locked
  <2>3. TypeOK' /\ \A f \in Enders : ender'[f] = IF f = e THEN "waiting" ELSE ender[f]
    BY <1>1, <1>2 DEF StopLoop, PageInv, TypeOK
  <2>4. acting' = "end" /\ loop' = loop /\ stopping' = TRUE
    BY <1>2 DEF StopLoop
  <2>5. Locked'
    BY <1>1, <2>1, <2>2, <2>3, <2>4 DEF Locked, InAction
  <2> QED
    BY <1>1, <2>1, <2>3, <2>4, <2>5 DEF PageInv, NoSaveLost, Kept, LateAfterEnd, InAction, ActionPcs
<1>3. ASSUME NEW e \in Enders, LoopStopped(e) PROVE PageInv'
  <2>1. acting = "end" /\ \A t \in Tabs : ~InAction(request[t])
    BY <1>3 DEF LoopStopped, PageInv, Locked
  <2>2. TypeOK' /\ \A f \in Enders : ender'[f] = IF f = e THEN "done" ELSE ender[f]
    BY <1>1, <1>3 DEF LoopStopped, PageInv, TypeOK
  <2>3. UNCHANGED <<loop, stopping>>
    BY <1>3 DEF LoopStopped
  <2>4. \A f \in Enders : ender'[f] # "waiting"
    BY <1>3, <2>2 DEF LoopStopped, PageInv, Locked
  <2>5. Locked'
    BY <1>1, <2>1, <2>4 DEF Locked, InAction
  <2> QED
    BY <1>1, <2>2, <2>3, <2>5 DEF PageInv, NoSaveLost, Kept, LateAfterEnd, InAction
<1>4. ASSUME IdleOver PROVE PageInv'
  <2>1. TypeOK' /\ \A f \in Enders : ender'[f] = "waiting" => ender[f] = "waiting"
    BY <1>1, <1>4 DEF IdleOver, PageInv, TypeOK, Enders
  <2>2. UNCHANGED <<loop, stopping, acting>>
    BY <1>4 DEF IdleOver, files
  <2>3. Locked'
    BY <1>1, <2>1, <2>2 DEF PageInv, Locked, InAction
  <2> QED
    BY <1>1, <2>1, <2>2, <2>3 DEF PageInv, NoSaveLost, Kept, LateAfterEnd, InAction
<1>5. ASSUME LoopStops \/ ProcessEnds PROVE PageInv'
  <2>1. UNCHANGED <<stopping, acting, ender>> /\ stopping
    BY <1>5 DEF LoopStops, ProcessEnds, files, PageInv
  <2> QED
    BY <1>1, <2>1 DEF PageInv, TypeOK, Locked, NoSaveLost, Kept, LateAfterEnd, InAction
<1> QED
  BY <1>2, <1>3, <1>4, <1>5

LEMMA PageInvNext == PageInv /\ [PageNext]_pageVars => PageInv'
<1> SUFFICES ASSUME PageInv, [PageNext]_pageVars PROVE PageInv'
  OBVIOUS
<1>1. CASE UNCHANGED pageVars
  BY <1>1 DEF pageVars, access, files, ending, PageInv, TypeOK, Locked, NoSaveLost, Kept,
              LateAfterEnd, InAction
<1>2. ASSUME NEW t \in Tabs, Thread(t) PROVE PageInv'
  BY <1>2, OutsideSteps, ActStep, TurnedStep, PageWriteStep, ActionOverStep DEF Thread
<1>3. ASSUME NEW t \in Tabs, NEW ask \in Asks[t], Arrive(t, ask[1], ask[2]) PROVE PageInv'
  BY <1>3, ArriveStep
<1>4. CASE (\E e \in Enders : EnderThread(e)) \/ IdleOver \/ LoopStops \/ ProcessEnds
  BY <1>4, EndSteps DEF EnderThread
<1> QED
  BY <1>1, <1>2, <1>3, <1>4 DEF PageNext

LEMMA AlwaysPageInv == PageSpec => []PageInv
  BY PageInvInit, PageInvNext, PTL DEF PageSpec

------------------------------------------------------------------------------
\* A save that its tab was told of is in the file, however many tabs save
\* beside it. (ConfigServer.actions)
THEOREM NoSaveIsLost == PageSpec => []NoSaveLost
<1>1. PageInv => NoSaveLost
  BY DEF PageInv
<1> QED
  BY <1>1, AlwaysPageInv, PTL

\* The process ends in the middle of an action only if it began after the
\* end did. (stop_after_actions)
THEOREM EndWaitsForActions == PageSpec => []WaitsForActions
<1>1. PageInv => WaitsForActions
  BY DEF PageInv, WaitsForActions, CutOff, LateAfterEnd, InAction, ActionPcs
<1> QED
  BY <1>1, AlwaysPageInv, PTL

\* The account that is shown anew is that of the key in the file or in use.
\* (probe.check, actions.save_key)
THEOREM AccountIsOfThisKey == PageSpec => AccountOfThisKey
<1>1. PageInv /\ [PageNext]_pageVars => [account' # account => account' \in {file.key, using}]_pageVars
  <2> SUFFICES ASSUME PageInv, PageNext, account' # account
               PROVE  account' \in {file.key, using}
    BY DEF pageVars, files
  <2>1. PICK t \in Tabs : Checked(t) \/ ActionOver(t)
    BY DEF PageNext, Thread, EnderThread, Arrive, AnsweredAtOnce, RightCode, WrongCode, PauseOver, Enter, Act,
           Turned, Write, End, StopLoop, LoopStopped, IdleOver, LoopStops, ProcessEnds, files
  <2>2. CASE Checked(t)
    BY <2>2 DEF Checked
  <2>3. CASE ActionOver(t)
    <3>1. At(t, "written") /\ request[t].what = "key" /\ account' = t
      BY <2>3 DEF ActionOver
    <3> QED
      BY <3>1 DEF PageInv, Kept, At, KeyForms
  <2> QED
    BY <2>1, <2>2, <2>3
<1> QED
  BY <1>1, AlwaysPageInv, PTL DEF AccountOfThisKey, PageSpec

\* Only sessions that wait for the code are pushed out. (_push_out)
THEOREM SignedInStaysAlways == PageSpec => SignedInStays
<1>1. [PageNext]_pageVars => [signedIn \cap sessions \subseteq sessions']_pageVars
  <2> SUFFICES ASSUME PageNext PROVE signedIn \cap sessions \subseteq sessions'
    OBVIOUS
  <2>1. CASE sessions' = sessions
    BY <2>1
  <2>2. CASE Issue
    BY <2>2 DEF Issue, Pushed
  <2> QED
    BY <2>1, <2>2
    DEF PageNext, Thread, EnderThread, Arrive, AnsweredAtOnce, RightCode, WrongCode, PauseOver, Enter, Act,
        Turned, Checked, Write, ActionOver, End, StopLoop, LoopStopped, IdleOver, LoopStops, ProcessEnds,
        access, files
<1> QED
  BY <1>1, PTL DEF SignedInStays, PageSpec

------------------------------------------------------------------------------
(***************************************************************************)
(* That no tool is on, or runs, unless a person has switched it on some    *)
(* time: for every set of tools and releases, every content an editor or   *)
(* an import may bring, and every interleaving and failure of the saves.   *)
(*                                                                         *)
(* The argument follows the flags through every place that holds some: the *)
(* two files, the form in the browser, and what a save is about to write.  *)
(***************************************************************************)

JobFields == {"pc", "act", "name", "read", "new"}

OnAsked(holds) == \A n \in DOMAIN holds : holds[n].tools \subseteq chosen

Writing(j) == j.pc \in {"write", "rename"}

\* What a save is about to write holds nothing that nobody has asked for.
JobAsked(j) ==
    /\ DOMAIN j = JobFields
    /\ j.pc = "merge" => j.act = "profile"
    /\ Writing(j) =>
         IF j.act \in {"profile", "delete"} THEN OnAsked(j.new.holds)
         ELSE j.new.on \subseteq chosen

Jobs == DOMAIN job = Programs /\ \A p \in Programs : JobAsked(job[p])

PInv == /\ policy.on \subseteq chosen
        /\ ran # NoTool => ran \in chosen
        /\ ticks \subseteq chosen
        /\ OnAsked(profiles.holds)
        /\ Jobs

------------------------------------------------------------------------------
\* An assignment to one program's job leaves the other one's alone.
LEMMA OneJob ==
    ASSUME DOMAIN job = Programs, NEW p \in Programs, NEW j,
           job' = [job EXCEPT ![p] = j],
           chosen \subseteq chosen',
           \A q \in Programs : JobAsked(job[q]),
           DOMAIN j = JobFields, j.pc = "merge" => j.act = "profile",
           Writing(j) => IF j.act \in {"profile", "delete"}
                         THEN \A n \in DOMAIN j.new.holds : j.new.holds[n].tools \subseteq chosen'
                         ELSE j.new.on \subseteq chosen'
    PROVE  DOMAIN job' = Programs /\ \A q \in Programs : JobAsked(job[q])'
<1>1. DOMAIN job' = Programs
  OBVIOUS
<1>2. ASSUME NEW q \in Programs PROVE JobAsked(job[q])'
  <2>1. CASE q = p
    <3>1. job'[q] = j
      BY <2>1
    <3> QED
      BY <3>1 DEF JobAsked, OnAsked
  <2>2. CASE q # p
    <3>1. job'[q] = job[q]
      BY <2>2
    <3>2. JobAsked(job[q])
      OBVIOUS
    <3> QED
      BY <3>1, <3>2 DEF JobAsked, OnAsked
  <2> QED
    BY <2>1, <2>2
<1> QED
  BY <1>1, <1>2

LEMMA SameJobs ==
    ASSUME DOMAIN job = Programs, job' = job, chosen \subseteq chosen',
           \A q \in Programs : JobAsked(job[q])
    PROVE  DOMAIN job' = Programs /\ \A q \in Programs : JobAsked(job[q])'
  BY DEF JobAsked, OnAsked

\* A job that only goes on to another place.
LEMMA MovedJob ==
    ASSUME Jobs, NEW p \in Programs, Writing(job[p]),
           job' = [job EXCEPT ![p].pc = "rename"], chosen' = chosen
    PROVE  Jobs'
<1> DEFINE j == [job[p] EXCEPT !.pc = "rename"]
<1>1. DOMAIN job[p] = JobFields /\ JobAsked(job[p])
  BY DEF Jobs, JobAsked
<1>2. DOMAIN j = JobFields /\ j.pc = "rename" /\ j.act = job[p].act /\ j.new = job[p].new
  BY <1>1 DEF JobFields
<1>3. job' = [job EXCEPT ![p] = j]
  OBVIOUS
<1> HIDE DEF j
<1>4. Writing(j) => IF j.act \in {"profile", "delete"}
                    THEN \A n \in DOMAIN j.new.holds : j.new.holds[n].tools \subseteq chosen'
                    ELSE j.new.on \subseteq chosen'
  BY <1>1, <1>2 DEF JobAsked, OnAsked, Writing
<1> QED
  BY <1>2, <1>3, <1>4, OneJob DEF Jobs

\* A save that begins, with what it is going to write.
LEMMA BegunJob ==
    ASSUME Jobs, NEW p \in Programs, NEW pc, NEW act, NEW name, NEW read, NEW new,
           Goes(p, pc, act, name, read, new), chosen \subseteq chosen',
           pc = "merge" => act = "profile",
           pc = "merge" \/ IF act \in {"profile", "delete"}
                           THEN \A n \in DOMAIN new.holds : new.holds[n].tools \subseteq chosen'
                           ELSE new.on \subseteq chosen'
    PROVE  Jobs'
<1> DEFINE j == [pc |-> pc, act |-> act, name |-> name, read |-> read, new |-> new]
<1>1. DOMAIN j = JobFields /\ j.pc = pc /\ j.act = act /\ j.new = new
  BY DEF JobFields
<1>2. job' = [job EXCEPT ![p] = j]
  BY DEF Goes
<1> HIDE DEF j
<1>3. Writing(j) => IF j.act \in {"profile", "delete"}
                    THEN \A n \in DOMAIN j.new.holds : j.new.holds[n].tools \subseteq chosen'
                    ELSE j.new.on \subseteq chosen'
  BY <1>1 DEF Writing
<1> QED
  BY <1>1, <1>2, <1>3, OneJob DEF Jobs

\* A save that is over, or stopped.
LEMMA EndedJob ==
    ASSUME Jobs, NEW p \in Programs, job' = [job EXCEPT ![p] = NoJob], chosen' = chosen
    PROVE  Jobs'
<1>1. DOMAIN NoJob = JobFields /\ NoJob.pc = "idle"
  BY DEF NoJob, JobFields
<1>2. ~Writing(NoJob)
  BY <1>1 DEF Writing
<1> QED
  BY <1>1, <1>2, OneJob DEF Jobs

------------------------------------------------------------------------------
LEMMA PInvInit == Init => PInv
  BY DEF Init, PInv, Jobs, JobAsked, OnAsked, Writing, JobFields, NoJob, Absent, Broken,
         NoProfiles, NoTool

\* A person's steps: what they add, they have asked for.
LEMMA PeopleStep ==
    ASSUME PInv, EditPolicy \/ EditProfiles \/ Tick \/ Upgrade
    PROVE  PInv'
<1>1. ASSUME EditPolicy PROVE PInv'
  <2>1. Jobs'
    BY <1>1, SameJobs DEF EditPolicy, PInv, Jobs
  <2> QED
    BY <1>1, <2>1 DEF EditPolicy, PInv, OnAsked
<1>2. ASSUME EditProfiles PROVE PInv'
  <2>1. PICK typed \in HandProfiles :
          /\ profiles' = typed
          /\ chosen' = chosen \cup UNION {All(typed)[n].tools : n \in DOMAIN All(typed)}
    BY <1>2 DEF EditProfiles
  <2>2. Jobs'
    BY <1>2, <2>1, SameJobs DEF EditProfiles, PInv, Jobs
  <2>3. OnAsked(profiles.holds)'
    BY <2>1 DEF OnAsked, All
  <2> QED
    BY <1>2, <2>1, <2>2, <2>3 DEF EditProfiles, PInv
<1>3. ASSUME Tick PROVE PInv'
  <2>1. Jobs'
    BY <1>3, SameJobs DEF Tick, PInv, Jobs
  <2> QED
    BY <1>3, <2>1 DEF Tick, PInv, OnAsked
<1>4. ASSUME Upgrade PROVE PInv'
  <2>1. Jobs'
    BY <1>4, SameJobs DEF Upgrade, people, PInv, Jobs
  <2> QED
    BY <1>4, <2>1 DEF Upgrade, people, PInv, OnAsked
<1> QED
  BY <1>1, <1>2, <1>3, <1>4

\* What only reads a file into the form, or runs a tool.
LEMMA ReadingStep ==
    ASSUME PInv, Opens \/ LoadProfile \/ ImportPolicy
                 \/ (\E tool \in Tools : Guarded(tool)) \/ (\E p \in Programs : Start(p))
    PROVE  PInv'
<1>1. ASSUME Opens PROVE PInv'
  <2>1. Jobs'
    BY <1>1, SameJobs DEF Opens, people, PInv, Jobs
  <2> QED
    BY <1>1, <2>1 DEF Opens, Stored, people, PInv, OnAsked
<1>2. ASSUME LoadProfile PROVE PInv'
  <2>1. Jobs'
    BY <1>2, SameJobs DEF LoadProfile, people, PInv, Jobs
  <2>2. ticks' \subseteq chosen
    BY <1>2 DEF LoadProfile, Flags, All, PInv, OnAsked
  <2> QED
    BY <1>2, <2>1, <2>2 DEF LoadProfile, people, PInv, OnAsked
<1>3. ASSUME ImportPolicy PROVE PInv'
  <2>1. Jobs'
    BY <1>3, SameJobs DEF ImportPolicy, PInv, Jobs
  <2>2. ticks' \subseteq chosen' /\ chosen \subseteq chosen'
    BY <1>3 DEF ImportPolicy, Flags, Stored
  <2> QED
    BY <1>3, <2>1, <2>2 DEF ImportPolicy, PInv, OnAsked
<1>4. ASSUME NEW tool \in Tools, Guarded(tool) PROVE PInv'
  <2>1. Jobs'
    BY <1>4, SameJobs DEF Guarded, people, PInv, Jobs
  <2> QED
    BY <1>4, <2>1 DEF Guarded, Stored, people, PInv, OnAsked
<1>5. ASSUME NEW p \in Programs, Start(p) PROVE PInv'
  <2>1. Jobs'
    BY <1>5, SameJobs DEF Start, people, PInv, Jobs
  <2> QED
    BY <1>5, <2>1 DEF Start, people, PInv, OnAsked
<1> QED
  BY <1>1, <1>2, <1>3, <1>4, <1>5

\* The saves that begin: each is made of a file, of the form, or of a preset
\* somebody asks for by name.
LEMMA SaveStep ==
    ASSUME PInv, Sync \/ SavePreset \/ SavePolicy \/ SaveProfile \/ OverwriteProfile \/ DeleteProfile
    PROVE  PInv'
<1>0. Programs = {"page", "tools"} /\ Jobs
  BY DEF Programs, PInv
<1>1. ASSUME Sync PROVE PInv'
  <2>1. Inventory(Stored(policy), knows["tools"]).on \subseteq chosen'
    BY <1>1 DEF Sync, Inventory, Stored, PInv
  <2>2. Jobs'
    BY <1>0, <1>1, <2>1, BegunJob DEF Sync
  <2> QED
    BY <1>1, <2>2 DEF Sync, Goes, PInv, OnAsked
<1>2. ASSUME SavePreset PROVE PInv'
  <2>1. PICK kind \in {"read-only", "write", "irreversible"} :
          /\ Goes("tools", "write", "save", "none", policy, Inventory(Preset(kind), knows["tools"]))
          /\ chosen' = chosen \cup Preset(kind)
    BY <1>2 DEF SavePreset
  <2>2. Inventory(Preset(kind), knows["tools"]).on \subseteq chosen'
    BY <2>1 DEF Inventory
  <2>3. Jobs'
    BY <1>0, <2>1, <2>2, BegunJob
  <2> QED
    BY <1>2, <2>1, <2>3 DEF SavePreset, Goes, PInv, OnAsked
<1>3. ASSUME SavePolicy PROVE PInv'
  <2>1. Inventory(Chosen, knows["page"]).on \subseteq chosen'
    BY <1>3 DEF SavePolicy, Inventory, Chosen, PInv
  <2>2. Jobs'
    BY <1>0, <1>3, <2>1, BegunJob DEF SavePolicy
  <2> QED
    BY <1>3, <2>2 DEF SavePolicy, Goes, PInv, OnAsked
<1>4. ASSUME SaveProfile \/ OverwriteProfile PROVE PInv'
  <2>1. PICK name : Goes("page", "merge", "profile", name, policy, policy)
    BY <1>4 DEF SaveProfile, OverwriteProfile
  <2>2. UNCHANGED <<ticks, chosen>>
    BY <1>4 DEF SaveProfile, OverwriteProfile
  <2>3. Jobs'
    BY <1>0, <2>1, <2>2, BegunJob
  <2> QED
    BY <2>1, <2>2, <2>3 DEF Goes, PInv, OnAsked
<1>5. ASSUME DeleteProfile PROVE PInv'
  <2>1. PICK name \in DOMAIN All(profiles) :
          Goes("page", "write", "delete", name, profiles,
               [form |-> "object",
                holds |-> [n \in DOMAIN All(profiles) \ {name} |-> All(profiles)[n]]])
    BY <1>5 DEF DeleteProfile
  <2> DEFINE holds == [n \in DOMAIN All(profiles) \ {name} |-> All(profiles)[n]]
             new == [form |-> "object", holds |-> holds]
  <2>2. new.holds = holds
    OBVIOUS
  <2>3. chosen' = chosen /\ ticks' = ticks
    BY <1>5 DEF DeleteProfile
  <2>4. \A n \in DOMAIN holds : holds[n].tools \subseteq chosen'
    BY <2>3 DEF PInv, OnAsked, All
  <2>5. Goes("page", "write", "delete", name, profiles, new)
    BY <2>1
  <2> HIDE DEF new, holds
  <2>6. Jobs'
    BY <1>0, <2>2, <2>3, <2>4, <2>5, BegunJob
  <2> QED
    BY <2>3, <2>5, <2>6 DEF Goes, PInv, OnAsked
<1> QED
  BY <1>1, <1>2, <1>3, <1>4, <1>5

\* The steps of a save under way: a profile is merged into the file from the
\* form, and write_atomically puts in place what the save had made.
LEMMA WriteStep ==
    ASSUME PInv, Merge \/ (\E p \in Programs : WriteTemp(p) \/ Rename(p) \/ Stops(p))
    PROVE  PInv'
<1>0. Programs = {"page", "tools"} /\ Jobs
  BY DEF Programs, PInv
<1>1. ASSUME Merge PROVE PInv'
  <2> DEFINE holds == [n \in DOMAIN All(profiles) \cup {job["page"].name} |->
                         IF n = job["page"].name THEN [tools |-> Chosen, known |-> knows["page"]]
                         ELSE All(profiles)[n]]
             new == [form |-> "object", holds |-> holds]
             j == [job["page"] EXCEPT !.pc = "write", !.read = profiles, !.new = new]
  <2>1. chosen' = chosen /\ UNCHANGED <<policy, profiles, ticks, ran>>
    BY <1>1 DEF Merge, people
  <2>2. \A n \in DOMAIN holds : holds[n].tools \subseteq chosen'
    <3>1. ASSUME NEW n \in DOMAIN holds PROVE holds[n].tools \subseteq chosen'
      <4>1. CASE n = job["page"].name
        BY <2>1, <4>1 DEF Chosen, PInv
      <4>2. CASE n # job["page"].name
        BY <2>1, <4>2 DEF PInv, OnAsked, All
      <4> QED
        BY <4>1, <4>2
    <3> QED
      BY <3>1
  <2>3. new.holds = holds
    OBVIOUS
  <2>4. DOMAIN job["page"] = JobFields /\ job["page"].act = "profile"
    BY <1>0, <1>1 DEF Jobs, JobAsked, Merge
  <2>5. job' = [job EXCEPT !["page"] = j]
    BY <1>1 DEF Merge, Merged
  <2>6. DOMAIN j = JobFields /\ j.pc = "write" /\ j.act = "profile" /\ j.new = new
    BY <2>4 DEF JobFields
  <2> HIDE DEF holds, new, j
  <2>7. Writing(j) => IF j.act \in {"profile", "delete"}
                      THEN \A n \in DOMAIN j.new.holds : j.new.holds[n].tools \subseteq chosen'
                      ELSE j.new.on \subseteq chosen'
    BY <2>2, <2>3, <2>6
  <2>8. Jobs'
    BY <1>0, <2>1, <2>5, <2>6, <2>7, OneJob DEF Jobs
  <2> QED
    BY <2>1, <2>8 DEF PInv, OnAsked
<1>2. ASSUME NEW p \in Programs, WriteTemp(p) PROVE PInv'
  <2>1. Jobs'
    BY <1>0, <1>2, MovedJob DEF WriteTemp, people, Writing
  <2> QED
    BY <1>2, <2>1 DEF WriteTemp, people, PInv, OnAsked
<1>3. ASSUME NEW p \in Programs, Rename(p) PROVE PInv'
  <2>1. Jobs'
    BY <1>0, <1>3, EndedJob DEF Rename, people
  <2>2. JobAsked(job[p]) /\ Writing(job[p])
    BY <1>0, <1>3 DEF Jobs, Rename, Writing
  <2>3. CASE OfProfiles(p)
    <3>1. OnAsked(job[p].new.holds)
      BY <2>2, <2>3 DEF OfProfiles, JobAsked
    <3>2. profiles' = job[p].new /\ policy' = policy
      BY <1>3, <2>3 DEF Rename
    <3> QED
      BY <1>3, <2>1, <3>1, <3>2 DEF Rename, people, PInv, OnAsked
  <2>4. CASE ~OfProfiles(p)
    <3>1. job[p].new.on \subseteq chosen
      BY <2>2, <2>4 DEF OfProfiles, JobAsked
    <3>2. policy' = job[p].new /\ profiles' = profiles
      BY <1>3, <2>4 DEF Rename
    <3> QED
      BY <1>3, <2>1, <3>1, <3>2 DEF Rename, people, PInv, OnAsked
  <2> QED
    BY <2>3, <2>4
<1>4. ASSUME NEW p \in Programs, Stops(p) PROVE PInv'
  <2>1. Jobs'
    BY <1>0, <1>4, EndedJob DEF Stops, people
  <2> QED
    BY <1>4, <2>1 DEF Stops, people, PInv, OnAsked
<1> QED
  BY <1>1, <1>2, <1>3, <1>4

LEMMA PInvNext == PInv /\ [Next]_vars => PInv'
<1> SUFFICES ASSUME PInv, [Next]_vars PROVE PInv'
  OBVIOUS
<1>1. ASSUME UNCHANGED vars PROVE PInv'
  <2>1. Jobs'
    BY <1>1, SameJobs DEF vars, people, PInv, Jobs
  <2> QED
    BY <1>1, <2>1 DEF vars, PInv, OnAsked
<1> QED
  BY <1>1, PeopleStep, ReadingStep, SaveStep, WriteStep DEF Next

\* Every tool the file switches on, and every tool that ran, is one somebody
\* has switched on: upgrades, syncs, old profiles, saves that stop half way
\* or overtake each other add none. (policy.py, profiles.py, envfile.py)
THEOREM OnlyWhatWasAsked == Spec => []NothingOnUnasked
<1>1. PInv => NothingOnUnasked
  BY DEF PInv, NothingOnUnasked
<1> QED
  BY <1>1, PInvInit, PInvNext, PTL DEF Spec

------------------------------------------------------------------------------
(***************************************************************************)
(* What a save makes of the file it read: a whole one, with a flag for     *)
(* every tool its program knows, or with the profiles it read and the one  *)
(* it was asked for.  there and hand are the names in the file of profiles *)
(* and those somebody wrote by hand.                                       *)
(***************************************************************************)
Twinless(names, hand) == \A n, m \in names : n # m /\ Alike(n, m) => {n, m} \cap hand # {}

Fits(name, there, hand) == \A m \in there : m # name /\ Alike(name, m) => {name, m} \cap hand # {}

OfTheProfiles(j) == j.act \in {"profile", "delete"}

Whole(j, hand) ==
    /\ j.new.form = "object"
    /\ DOMAIN j.new.holds \subseteq Names /\ Twinless(DOMAIN j.new.holds, hand)
    /\ \A n \in DOMAIN j.read.holds \ DOMAIN j.new.holds : j.act = "delete" /\ n = j.name

Complete(j, flags) ==
    /\ j.new.form = "object" /\ j.new.named = flags
    /\ j.act = "sync" => j.new.on = j.read.on \cap flags

Made(p, j, flags, there, hand) ==
    /\ j.pc = "merge" => j.name \in Names /\ Fits(j.name, there, hand)
    /\ Writing(j) /\ OfTheProfiles(j) => Whole(j, hand)
    /\ Writing(j) /\ ~OfTheProfiles(j) => Complete(j, flags)
    /\ p = "tools" => j.pc # "merge" /\ ~OfTheProfiles(j)

There == DOMAIN profiles.holds

SavesMade == \A p \in Programs : Made(p, job[p], knows[p], There, byHand)

QInv == /\ DOMAIN knows = Programs
        /\ There \subseteq Names /\ Twinless(There, byHand)
        /\ SavesMade

\* Names that are new in the file, and written by hand, disturb no save.
LEMMA MadeStays ==
    ASSUME NEW p, NEW j, NEW flags, NEW there, NEW hand, NEW there2, NEW hand2,
           Made(p, j, flags, there, hand), hand \subseteq hand2,
           there2 \subseteq there \cup hand2
    PROVE  Made(p, j, flags, there2, hand2)
<1>1. ASSUME NEW names, Twinless(names, hand) PROVE Twinless(names, hand2)
  BY <1>1 DEF Twinless
<1>2. ASSUME NEW name, Fits(name, there, hand) PROVE Fits(name, there2, hand2)
  BY <1>2 DEF Fits
<1> QED
  BY <1>1, <1>2 DEF Made, Whole

LEMMA QInvInit == Init => QInv
<1> SUFFICES ASSUME Init PROVE QInv
  OBVIOUS
<1>1. There = {} /\ DOMAIN knows = Programs
  BY DEF Init, There, NoProfiles
<1>2. NoJob.pc = "idle" /\ NoJob.act = "none"
  BY DEF NoJob
<1>3. \A p \in Programs : job[p] = NoJob
  BY DEF Init
<1> HIDE DEF NoJob
<1>4. SavesMade
  BY <1>2, <1>3 DEF SavesMade, Made, Writing, OfTheProfiles
<1> QED
  BY <1>1, <1>4 DEF QInv, Twinless

\* One program's job is replaced; the profiles are as they were, or the page
\* has put them in place.
LEMMA OneMade ==
    ASSUME Jobs, QInv, NEW p \in Programs, NEW j,
           job' = [job EXCEPT ![p] = j], UNCHANGED <<knows, byHand>>,
           profiles' = profiles \/ p = "page",
           There' \subseteq Names, Twinless(There', byHand),
           Made(p, j, knows[p], There', byHand)
    PROVE  QInv'
<1>1. ASSUME NEW q \in Programs PROVE Made(q, job'[q], knows[q], There', byHand)
  <2>1. CASE q = p
    BY <2>1 DEF Jobs
  <2>2. CASE q # p
    <3>1. job'[q] = job[q] /\ Made(q, job[q], knows[q], There, byHand)
      BY <2>2 DEF Jobs, QInv, SavesMade
    <3>2. CASE profiles' = profiles
      BY <3>1, <3>2 DEF There
    <3>3. CASE p = "page"
      <4>1. q = "tools"
        BY <2>2, <3>3 DEF Programs
      <4>2. job[q].pc # "merge" /\ ~OfTheProfiles(job[q])
        BY <3>1, <4>1 DEF Made
      <4> QED
        BY <3>1, <4>2 DEF Made
    <3> QED
      BY <3>2, <3>3
  <2> QED
    BY <2>1, <2>2
<1> QED
  BY <1>1 DEF QInv, SavesMade

\* A save that begins.
LEMMA BegunMade ==
    ASSUME Jobs, QInv, NEW p \in Programs, NEW pc, NEW act, NEW name, NEW read, NEW new,
           Goes(p, pc, act, name, read, new),
           \A j : j.pc = pc /\ j.act = act /\ j.name = name /\ j.read = read /\ j.new = new
                  => Made(p, j, knows[p], There, byHand)
    PROVE  QInv'
<1> DEFINE j == [pc |-> pc, act |-> act, name |-> name, read |-> read, new |-> new]
<1>1. j.pc = pc /\ j.act = act /\ j.name = name /\ j.read = read /\ j.new = new
  OBVIOUS
<1>2. job' = [job EXCEPT ![p] = j] /\ UNCHANGED <<knows, byHand, profiles>>
  BY DEF Goes, known
<1> HIDE DEF j
<1>3. Made(p, j, knows[p], There, byHand)
  BY <1>1
<1>4. There' = There
  BY <1>2 DEF There
<1> QED
  BY <1>2, <1>3, <1>4, OneMade DEF QInv

------------------------------------------------------------------------------
\* Nothing that this invariant is about.
LEMMA OtherStepsQ ==
    ASSUME QInv,
           \/ EditPolicy \/ Tick \/ Upgrade \/ Opens \/ LoadProfile \/ ImportPolicy
           \/ (\E tool \in Tools : Guarded(tool)) \/ UNCHANGED vars
    PROVE  QInv'
<1>1. UNCHANGED <<profiles, job, knows, byHand>>
  BY DEF EditPolicy, Tick, Upgrade, Opens, LoadProfile, ImportPolicy, Guarded, known, people, vars
<1> QED
  BY <1>1 DEF QInv, SavesMade, There

LEMMA EditProfilesQ ==
    ASSUME QInv, EditProfiles
    PROVE  QInv'
<1>1. PICK typed \in HandProfiles : profiles' = typed /\ byHand' = byHand \cup DOMAIN All(typed)
  BY DEF EditProfiles
<1>2. There' \subseteq Names /\ There' \subseteq byHand' /\ byHand \subseteq byHand'
  BY <1>1, PolicyFileAssumption DEF There, All
<1>3. UNCHANGED <<job, knows>>
  BY DEF EditProfiles, known
<1>4. \A p \in Programs : Made(p, job[p], knows[p], There', byHand')
  BY <1>2, MadeStays DEF QInv, SavesMade
<1>5. Twinless(There', byHand')
  BY <1>2 DEF Twinless
<1> QED
  BY <1>2, <1>3, <1>4, <1>5 DEF QInv, SavesMade

LEMMA StartQ ==
    ASSUME QInv, NEW p \in Programs, Start(p)
    PROVE  QInv'
<1>1. UNCHANGED <<profiles, job, byHand>> /\ job[p].pc = "idle"
      /\ knows' = [knows EXCEPT ![p] = Releases[installed]]
  BY DEF Start, people
<1>2. ASSUME NEW q \in Programs PROVE Made(q, job[q], knows'[q], There, byHand)
  <2>1. Made(q, job[q], knows[q], There, byHand)
    BY DEF QInv, SavesMade
  <2>2. CASE q = p
    BY <1>1, <2>1, <2>2 DEF Made, Writing
  <2>3. CASE q # p
    <3>1. knows'[q] = knows[q]
      BY <1>1, <2>3 DEF QInv
    <3> QED
      BY <2>1, <3>1
  <2> QED
    BY <2>2, <2>3
<1> QED
  BY <1>1, <1>2 DEF QInv, SavesMade, There

LEMMA BeginsQ ==
    ASSUME Jobs, QInv,
           Sync \/ SavePreset \/ SavePolicy \/ SaveProfile \/ OverwriteProfile \/ DeleteProfile
    PROVE  QInv'
<1>0. "tools" \in Programs /\ "page" \in Programs
  BY DEF Programs
<1>1. ASSUME Sync PROVE QInv'
  <2> DEFINE new == Inventory(Stored(policy), knows["tools"])
  <2>1. new.form = "object" /\ new.named = knows["tools"] /\ new.on = policy.on \cap knows["tools"]
    BY DEF Inventory, Stored
  <2>2. Goes("tools", "write", "sync", "none", policy, new)
    BY <1>1 DEF Sync
  <2> HIDE DEF new
  <2>3. \A j : j.pc = "write" /\ j.act = "sync" /\ j.name = "none" /\ j.read = policy /\ j.new = new
               => Made("tools", j, knows["tools"], There, byHand)
    BY <2>1 DEF Made, OfTheProfiles, Complete
  <2> QED
    BY <1>0, <2>2, <2>3, BegunMade
<1>2. ASSUME NEW p \in Programs, NEW on, Goes(p, "write", "save", "none", policy, Inventory(on, knows[p]))
      PROVE  QInv'
  <2> DEFINE new == Inventory(on, knows[p])
  <2>1. new.form = "object" /\ new.named = knows[p]
    BY DEF Inventory
  <2>2. Goes(p, "write", "save", "none", policy, new)
    BY <1>2
  <2> HIDE DEF new
  <2>3. \A j : j.pc = "write" /\ j.act = "save" /\ j.name = "none" /\ j.read = policy /\ j.new = new
               => Made(p, j, knows[p], There, byHand)
    BY <2>1 DEF Made, OfTheProfiles, Complete
  <2> QED
    BY <2>2, <2>3, BegunMade
<1>3. ASSUME SavePreset \/ SavePolicy PROVE QInv'
  BY <1>0, <1>2, <1>3 DEF SavePreset, SavePolicy
<1>4. ASSUME SaveProfile \/ OverwriteProfile PROVE QInv'
  <2>1. PICK name \in Names : /\ Goes("page", "merge", "profile", name, policy, policy)
                              /\ ~Find(name) \/ name \in There
    BY <1>4 DEF SaveProfile, OverwriteProfile, QInv, There, All
  <2>2. Fits(name, There, byHand)
    <3>1. ASSUME NEW m \in There, m # name, Alike(name, m) PROVE {name, m} \cap byHand # {}
      <4>1. m \in Names /\ Alike(m, name)
        BY <3>1, PolicyFileAssumption DEF QInv
      <4>2. name \in There
        BY <2>1, <4>1 DEF Find, There, All
      <4> QED
        BY <3>1, <4>2 DEF QInv, Twinless
    <3> QED
      BY <3>1 DEF Fits
  <2>3. \A j : j.pc = "merge" /\ j.act = "profile" /\ j.name = name /\ j.read = policy /\ j.new = policy
               => Made("page", j, knows["page"], There, byHand)
    BY <2>2 DEF Made, Writing
  <2> QED
    BY <1>0, <2>1, <2>3, BegunMade
<1>5. ASSUME DeleteProfile PROVE QInv'
  <2>1. PICK name \in DOMAIN All(profiles) :
          Goes("page", "write", "delete", name, profiles,
               [form |-> "object",
                holds |-> [n \in DOMAIN All(profiles) \ {name} |-> All(profiles)[n]]])
    BY <1>5 DEF DeleteProfile
  <2> DEFINE new == [form |-> "object",
                     holds |-> [n \in DOMAIN All(profiles) \ {name} |-> All(profiles)[n]]]
  <2>2. new.form = "object" /\ DOMAIN new.holds = There \ {name}
    BY DEF There, All
  <2>3. Goes("page", "write", "delete", name, profiles, new)
    BY <2>1
  <2> HIDE DEF new
  <2>4. Twinless(DOMAIN new.holds, byHand) /\ DOMAIN new.holds \subseteq Names
    BY <2>2 DEF QInv, Twinless
  <2>5. \A j : j.pc = "write" /\ j.act = "delete" /\ j.name = name /\ j.read = profiles /\ j.new = new
               => Made("page", j, knows["page"], There, byHand)
    BY <2>2, <2>4 DEF Made, OfTheProfiles, Whole, There
  <2> QED
    BY <1>0, <2>3, <2>5, BegunMade
<1> QED
  BY <1>1, <1>3, <1>4, <1>5

\* The profile is merged into the file as it is now.
LEMMA MergeQ ==
    ASSUME Jobs, QInv, Merge
    PROVE  QInv'
<1> DEFINE name == job["page"].name
           new == Merged(profiles, name, [tools |-> Chosen, known |-> knows["page"]])
           j == [job["page"] EXCEPT !.pc = "write", !.read = profiles, !.new = new]
<1>0. "page" \in Programs
  BY DEF Programs
<1>1. name \in Names /\ Fits(name, There, byHand)
  BY <1>0 DEF Merge, QInv, SavesMade, Made
<1>2. DOMAIN job["page"] = JobFields /\ job["page"].act = "profile"
  BY <1>0 DEF Jobs, JobAsked, Merge
<1>3. new.form = "object" /\ DOMAIN new.holds = There \cup {name}
  BY DEF Merged, All, There
<1>4. job' = [job EXCEPT !["page"] = j] /\ UNCHANGED <<knows, byHand, profiles>>
  BY DEF Merge, known, people
<1> HIDE DEF new
<1>5. j.pc = "write" /\ j.act = "profile" /\ j.read = profiles /\ j.new = new
  BY <1>2 DEF JobFields
<1> HIDE DEF j, name
<1>6. Twinless(There \cup {name}, byHand)
  <2>1. ASSUME NEW n \in There \cup {name}, NEW m \in There \cup {name}, n # m, Alike(n, m)
        PROVE  {n, m} \cap byHand # {}
    <3>1. CASE n = name
      BY <1>1, <2>1, <3>1 DEF Fits
    <3>2. CASE m = name
      <4>1. n \in There /\ Alike(m, n)
        BY <1>1, <2>1, <3>2, PolicyFileAssumption DEF QInv
      <4> QED
        BY <1>1, <2>1, <3>2, <4>1 DEF Fits
    <3>3. CASE n \in There /\ m \in There
      BY <2>1, <3>3 DEF QInv, Twinless
    <3> QED
      BY <2>1, <3>1, <3>2, <3>3
  <2> QED
    BY <2>1 DEF Twinless
<1>7. Made("page", j, knows["page"], There, byHand)
  BY <1>1, <1>3, <1>5, <1>6 DEF Made, OfTheProfiles, Whole, QInv, There
<1>8. There' = There
  BY <1>4 DEF There
<1> QED
  BY <1>0, <1>4, <1>7, <1>8, OneMade DEF QInv

\* A save is over, and the file is what it made, or was not touched.
LEMMA WritesQ ==
    ASSUME Jobs, QInv, NEW p \in Programs, WriteTemp(p) \/ Rename(p) \/ Stops(p)
    PROVE  QInv'
<1>1. Made(p, job[p], knows[p], There, byHand) /\ DOMAIN job[p] = JobFields
  BY DEF QInv, SavesMade, Jobs, JobAsked
<1>2. UNCHANGED <<knows, byHand>>
  BY DEF WriteTemp, Rename, Stops, known, people
<1>3. ASSUME WriteTemp(p) PROVE QInv'
  <2> DEFINE j == [job[p] EXCEPT !.pc = "rename"]
  <2>1. j.pc = "rename" /\ j.act = job[p].act /\ j.name = job[p].name
        /\ j.read = job[p].read /\ j.new = job[p].new
    BY <1>1 DEF JobFields
  <2>2. job' = [job EXCEPT ![p] = j] /\ profiles' = profiles /\ Writing(job[p])
    BY <1>3 DEF WriteTemp, Writing
  <2> HIDE DEF j
  <2>3. Made(p, j, knows[p], There, byHand)
    BY <1>1, <2>1, <2>2 DEF Made, OfTheProfiles, Writing, Whole, Complete
  <2>4. There' = There
    BY <2>2 DEF There
  <2> QED
    BY <1>2, <2>2, <2>3, <2>4, OneMade DEF QInv
<1>4. NoJob.pc = "idle" /\ NoJob.act = "none"
  BY DEF NoJob
<1> HIDE DEF NoJob
<1>5. \A there : Made(p, NoJob, knows[p], there, byHand)
  BY <1>4 DEF Made, Writing, OfTheProfiles
<1>6. ASSUME Stops(p) PROVE QInv'
  <2>1. job' = [job EXCEPT ![p] = NoJob] /\ profiles' = profiles
    BY <1>6 DEF Stops
  <2>2. There' = There
    BY <2>1 DEF There
  <2> QED
    BY <1>2, <1>5, <2>1, <2>2, OneMade DEF QInv
<1>7. ASSUME Rename(p) PROVE QInv'
  <2>1. job' = [job EXCEPT ![p] = NoJob] /\ Writing(job[p])
    BY <1>7 DEF Rename, Writing
  <2>2. CASE OfProfiles(p)
    <3>1. profiles' = job[p].new /\ OfTheProfiles(job[p])
      BY <1>7, <2>2 DEF Rename, OfProfiles, OfTheProfiles
    <3>2. p = "page" /\ Whole(job[p], byHand)
      BY <1>1, <2>1, <3>1 DEF Made, Programs
    <3>3. There' \subseteq Names /\ Twinless(There', byHand)
      BY <3>1, <3>2 DEF Whole, There
    <3> QED
      BY <1>2, <1>5, <2>1, <3>2, <3>3, OneMade
  <2>3. CASE ~OfProfiles(p)
    <3>1. profiles' = profiles
      BY <1>7, <2>3 DEF Rename
    <3>2. There' = There
      BY <3>1 DEF There
    <3> QED
      BY <1>2, <1>5, <2>1, <3>1, <3>2, OneMade DEF QInv
  <2> QED
    BY <2>2, <2>3
<1> QED
  BY <1>3, <1>6, <1>7

LEMMA QInvNext == PInv /\ QInv /\ [Next]_vars => QInv'
<1> SUFFICES ASSUME PInv, QInv, [Next]_vars PROVE QInv'
  OBVIOUS
<1>1. Jobs
  BY DEF PInv
<1> QED
  BY <1>1, OtherStepsQ, EditProfilesQ, StartQ, BeginsQ, MergeQ, WritesQ DEF Next

\* An edit by hand is counted, so that it is told from a program's write.
Counted == edits \in Nat

Keeps == UNCHANGED <<policy, profiles, edits>>

\* A step counts an edit, keeps both files, or is a rename.
LEMMA Kinds ==
    ASSUME Next
    PROVE  edits' = edits + 1 \/ Keeps \/ (edits' = edits /\ \E p \in Programs : Rename(p))
<1>1. EditPolicy \/ EditProfiles \/ Tick => edits' = edits + 1
  BY DEF EditPolicy, EditProfiles, Tick
<1>2. ImportPolicy => edits' = edits + 1
  BY DEF ImportPolicy
<1>3. Upgrade \/ Opens \/ LoadProfile => Keeps
  BY DEF Upgrade, Opens, LoadProfile, Keeps, people
<1>4. ASSUME NEW p, NEW pc, NEW act, NEW name, NEW read, NEW new, Goes(p, pc, act, name, read, new)
      PROVE  Keeps
  BY <1>4 DEF Goes, Keeps
<1>5. Sync \/ SavePolicy => Keeps
  BY <1>4 DEF Sync, SavePolicy
<1>6. SavePreset => Keeps
  BY <1>4 DEF SavePreset
<1>7. SaveProfile => Keeps
  BY <1>4 DEF SaveProfile
<1>8. OverwriteProfile => Keeps
  BY <1>4 DEF OverwriteProfile
<1>9. DeleteProfile => Keeps
  BY <1>4 DEF DeleteProfile
<1>10. Merge => Keeps
  BY DEF Merge, Keeps, people
<1>11. ASSUME NEW tool \in Tools, Guarded(tool) PROVE Keeps
  BY <1>11 DEF Guarded, Keeps, people
<1>12. ASSUME NEW p \in Programs, Start(p) \/ WriteTemp(p) \/ Stops(p) PROVE Keeps
  BY <1>12 DEF Start, WriteTemp, Stops, Keeps, people
<1>13. ASSUME NEW p \in Programs, Rename(p) PROVE edits' = edits
  BY <1>13 DEF Rename, people
<1> QED
  BY <1>1, <1>2, <1>3, <1>5, <1>6, <1>7, <1>8, <1>9, <1>10, <1>11, <1>12, <1>13 DEF Next

LEMMA CountedNext == Counted /\ [Next]_vars => Counted'
<1> SUFFICES ASSUME Counted, [Next]_vars PROVE Counted'
  OBVIOUS
<1>1. edits' = edits + 1 \/ edits' = edits
  BY Kinds DEF Keeps, vars, people
<1> QED
  BY <1>1 DEF Counted

LEMMA AlwaysAll == Spec => [](PInv /\ QInv /\ Counted)
<1>1. Init => Counted
  BY DEF Init, Counted
<1> QED
  BY <1>1, PInvInit, PInvNext, QInvInit, QInvNext, CountedNext, PTL DEF Spec

------------------------------------------------------------------------------
\* No two profiles nobody can tell apart, but for those written by hand: also
\* if the file changed after the page had looked the name up. (profiles.py)
THEOREM TwinsOnlyByHandAlways == Spec => []TwinsOnlyByHand
<1>1. QInv => TwinsOnlyByHand
  BY DEF QInv, Twinless, There, TwinsOnlyByHand, All
<1> QED
  BY <1>1, AlwaysAll, PTL

\* Only a rename puts a program's content in place.
LEMMA WhoWrites ==
    ASSUME Counted, Next, edits' = edits, policy' # policy \/ profiles' # profiles
    PROVE  \E p \in Programs : Rename(p)
<1>1. edits' # edits + 1
  BY DEF Counted
<1> QED
  BY <1>1, Kinds DEF Keeps

\* A program never leaves half a file. (write_atomically)
THEOREM NeverHalfAlways == Spec => NeverHalf
<1>1. PInv /\ QInv /\ Counted /\ [Next]_vars =>
        [edits' = edits =>
           /\ policy' # policy =>
                policy'.form = "object" /\ \E p \in Programs : policy'.named = knows[p]
           /\ profiles' # profiles => profiles'.form = "object"]_vars
  <2> SUFFICES ASSUME QInv, Counted, Next, edits' = edits, policy' # policy \/ profiles' # profiles
               PROVE  /\ policy' # policy =>
                           policy'.form = "object" /\ \E p \in Programs : policy'.named = knows[p]
                      /\ profiles' # profiles => profiles'.form = "object"
    BY DEF vars
  <2>1. PICK p \in Programs : Rename(p)
    BY WhoWrites
  <2>2. Made(p, job[p], knows[p], There, byHand) /\ Writing(job[p])
    BY <2>1 DEF QInv, SavesMade, Rename, Writing
  <2>3. CASE OfProfiles(p)
    BY <2>1, <2>2, <2>3 DEF Rename, OfProfiles, OfTheProfiles, Made, Whole
  <2>4. CASE ~OfProfiles(p)
    BY <2>1, <2>2, <2>4 DEF Rename, OfProfiles, OfTheProfiles, Made, Complete
  <2> QED
    BY <2>3, <2>4
<1> QED
  BY <1>1, AlwaysAll, PTL DEF NeverHalf, Spec

\* A sync that read the file that it replaces changes no decision in it.
\* (policy.py, sync)
THEOREM SyncDecidesNothing == Spec => SyncChangesNoDecision
<1>1. PInv /\ QInv /\ Counted /\ [Next]_vars =>
        [(policy' # policy /\ edits' = edits /\ job["tools"].act = "sync"
          /\ job'["tools"] = NoJob /\ job["tools"].read = policy)
         => ~ \E tool \in knows["tools"] : SyncDecides(tool)]_vars
  <2> SUFFICES ASSUME Jobs, QInv, Counted, Next, policy' # policy, edits' = edits, job["tools"].act = "sync",
                      job'["tools"] = NoJob, job["tools"].read = policy
               PROVE  \A tool \in knows["tools"] : ~SyncDecides(tool)
    BY DEF PInv
  <2>1. PICK p \in Programs : Rename(p)
    BY WhoWrites
  <2>2. p = "tools"
    <3>1. NoJob.act # "sync"
      BY DEF NoJob
    <3>2. p # "tools" => job'["tools"] = job["tools"]
      BY <2>1 DEF Rename, Jobs, Programs
    <3> QED
      BY <3>1, <3>2
  <2>3. Complete(job["tools"], knows["tools"])
    BY <2>1, <2>2 DEF QInv, SavesMade, Rename, Made, Writing, OfTheProfiles
  <2>4. policy' = job["tools"].new
    BY <2>1, <2>2 DEF Rename, OfProfiles
  <2> QED
    BY <2>3, <2>4 DEF Complete, SyncDecides, Stored
<1> QED
  BY <1>1, AlwaysAll, PTL DEF SyncChangesNoDecision, Spec

\* Of the profiles that a save had read, only one that is deleted goes.
\* (profiles.py, save and delete)
THEOREM ProfilesAreKept == Spec => ProfilesKept
<1>1. PInv /\ QInv /\ Counted /\ [Next]_vars =>
        [\A n \in DOMAIN All(profiles) \ DOMAIN All(profiles') :
           \/ edits' # edits
           \/ job["page"].act = "delete" /\ job["page"].name = n
           \/ n \notin DOMAIN All(job["page"].read)]_vars
  <2> SUFFICES ASSUME QInv, Counted, Next, edits' = edits, NEW n \in DOMAIN All(profiles) \ DOMAIN All(profiles'),
                      n \in DOMAIN All(job["page"].read)
               PROVE  job["page"].act = "delete" /\ job["page"].name = n
    OBVIOUS
  <2>1. profiles' # profiles
    BY DEF All
  <2>2. PICK p \in Programs : Rename(p)
    BY <2>1, WhoWrites
  <2>3. OfProfiles(p) /\ profiles' = job[p].new
    BY <2>1, <2>2 DEF Rename
  <2>4. p = "page" /\ Whole(job[p], byHand)
    BY <2>2, <2>3 DEF QInv, SavesMade, Made, Rename, Writing, OfProfiles, OfTheProfiles, Programs
  <2> QED
    BY <2>3, <2>4 DEF Whole, All
<1> QED
  BY <1>1, AlwaysAll, PTL DEF ProfilesKept, Spec
==============================================================================
