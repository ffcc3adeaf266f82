--------------------------- MODULE ToolServerProofs ---------------------------
(***************************************************************************)
(* That no client is left with an outdated list, for every number of       *)
(* clients, policies and downloads.                                        *)
(*                                                                         *)
(* The argument is about age.  The watcher's sight of a list is the list   *)
(* of some moment, and whoever believes a list without having been told    *)
(* since was given the list of that moment or of a later one.  So if the   *)
(* sight is what is offered now, and no list comes back to what it was,    *)
(* what lies between the two is the same as well.                          *)
(***************************************************************************)
EXTENDS ToolServer, TLAPS

Pcs == {"none", "starting", "scanning first", "scanned first", "asleep", "telling tools",
        "scanning", "scanned", "telling downloads", "saved"}

TaskStates == [pc : Pcs, allowed : SUBSET Tools, names : Nat, toTell : SUBSET Clients]

ClientStates == [wants : SUBSET {"tools", "downloads", "call"},
                 req : {"none", "tools", "downloads", "scan", "call", "closed"},
                 allowed : SUBSET Tools, listed : SUBSET Lists,
                 holds : [tools : SUBSET Tools, downloads : Nat],
                 noticed : SUBSET Lists, missed : SUBSET Lists, early : BOOLEAN]

TypeOK == /\ script \in Seq(SUBSET Tools)
          /\ saves \in 1..Len(script)
          /\ dir \in Nat \ {0}
          /\ seen \in [tools : SUBSET Tools, downloads : Nat]
          /\ conns \subseteq Clients
          /\ task \in [Tasks -> TaskStates]
          /\ client \in [Clients -> ClientStates]

------------------------------------------------------------------------------
\* What a client's record says: it is being answered with list l; it has
\* asked for l, now or before; nobody has told it of l, or tried to, since.
Asking(r, l) == r.req \in IF l = "tools" THEN {"tools"} ELSE {"downloads", "scan"}

Owed(r, l) == l \in r.listed \/ Asking(r, l)

Untold(r, l) == l \notin r.noticed \cup r.missed

Believing(r, l) == l \in r.listed /\ ~Asking(r, l) /\ Untold(r, l)

Scanning(r) == r.req = "scan" /\ Untold(r, "downloads")

ToBeTold(c, l) == \E t \in Tasks : Tells(t, l) /\ c \in task[t].toTell

\* c was given l, and neither was told since nor is about to be.
Believes(c, l) == Believing(client[c], l) /\ ~ToBeTold(c, l)

\* c is about to be given the downloads, under the policy that was read for it.
Scans(c) == Scanning(client[c]) /\ ~ToBeTold(c, "downloads")

\* Who is owed a telling is connected, and asks for what it wants.
Reached(c) ==
    \A l \in Lists : Owed(client[c], l) =>
        /\ l \in client[c].wants
        /\ Untold(client[c], l) /\ ~ToBeTold(c, l) => c \in conns

\* Before the first request nothing goes on.
Unwatched == At(Watcher, "none") =>
    /\ conns = {}
    /\ \A c \in Clients : client[c].listed = {} /\ Asks(c, "none")
    /\ \A t \in Tasks : At(t, "none")

\* The policy seen is not newer than any that a client believes.
ToolsSight(s) ==
    /\ s \in 1..saves /\ seen.tools = script[s]
    /\ \A c \in Clients : Believes(c, "tools") =>
         \E h \in s..saves : client[c].holds.tools = script[h]

\* A client that waits for the directory has read a policy not older than i's.
ScanAfter(i, c) == Scans(c) => \E h \in i..saves : client[c].allowed = script[h]

\* The directory seen is not newer than any that a client believes.
DirSight(i, j) ==
    /\ i \in 1..saves /\ j \in 1..dir /\ seen.downloads = Scan(script[i], j)
    /\ \A c \in Clients : Believes(c, "downloads") /\ ~client[c].early =>
         \E h \in i..saves, d \in j..dir : client[c].holds.downloads = Scan(script[h], d)
    /\ \A c \in Clients : ScanAfter(i, c)

\* What a task has read is of the policies and listings there were.
Took(x, i, j) ==
    /\ i \in 1..saves /\ j \in 1..dir
    /\ x.pc \in {"starting", "scanning first", "telling tools", "scanning"} => x.allowed = script[i]
    /\ x.pc \in {"scanned first", "scanned"} => x.names = Scan(script[i], j)

\* Before its first sight of the directory the watcher has read a policy that
\* is not newer than any client's.
FirstSightComes(i, j) ==
    /\ Took(task[Watcher], i, j)
    /\ \A c \in Clients : Believes(c, "downloads") => client[c].early
    /\ \A c \in Clients : ScanAfter(i, c)

SInv == /\ TypeOK
        /\ \A c \in Clients : Reached(c)
        /\ Unwatched
        /\ \A t \in Tasks : \E i, j \in Nat : Took(task[t], i, j)
        /\ ~At(Watcher, "none") => \E s \in Nat : ToolsSight(s)
        /\ Beginning => \E i, j \in Nat : FirstSightComes(i, j)
        /\ ~At(Watcher, "none") /\ ~Beginning => \E i, j \in Nat : DirSight(i, j)

------------------------------------------------------------------------------
\* What a step may do to what clients believe. Policies and listings are only
\* added to, and who comes to believe a list has been given the present one.
Grows == /\ script' = script
         /\ saves' \in {saves, saves + 1}
         /\ dir' \in {dir, dir + 1}

Honest(c) ==
    LET old == client[c]
        new == client'[c]
    IN  /\ Believes(c, "tools")' =>
             \/ Believes(c, "tools") /\ new.holds.tools = old.holds.tools
             \/ new.holds.tools = policy
        /\ Believes(c, "downloads")' =>
             \/ /\ Believes(c, "downloads")
                /\ new.early = old.early
                /\ new.holds.downloads = old.holds.downloads
             \/ /\ Scans(c)
                /\ new.early = Beginning
                /\ new.holds.downloads = Scan(old.allowed, dir)
        /\ Scans(c)' => \/ Scans(c) /\ new.allowed = old.allowed
                        \/ new.allowed = policy

LEMMA Longer ==
    ASSUME TypeOK, Grows
    PROVE  /\ saves \in Nat \ {0} /\ dir \in Nat \ {0}
           /\ saves' \in Nat /\ dir' \in Nat /\ saves <= saves' /\ dir <= dir'
           /\ policy = script[saves] /\ script' = script
<1>1. Len(script) \in Nat /\ saves \in 1..Len(script) /\ dir \in Nat \ {0}
  BY DEF TypeOK
<1> QED
  BY <1>1 DEF Grows, policy

LEMMA TookGrows ==
    ASSUME TypeOK, Grows, NEW x, NEW i \in Nat, NEW j \in Nat, Took(x, i, j)
    PROVE  Took(x, i, j)'
<1>1. i \in 1..saves /\ j \in 1..dir
  BY DEF Took
<1>2. i \in 1..saves' /\ j \in 1..dir'
  BY <1>1, Longer
<1> QED
  BY <1>2, Longer DEF Took, Scan

LEMMA ToolsSightStays ==
    ASSUME TypeOK, Grows, \A c \in Clients : Honest(c), seen'.tools = seen.tools,
           NEW s \in Nat, ToolsSight(s)
    PROVE  ToolsSight(s)'
<1>1. s \in 1..saves' /\ s <= saves
  BY Longer DEF ToolsSight
<1>2. ASSUME NEW c \in Clients, Believes(c, "tools")'
      PROVE  \E h \in s..saves' : client'[c].holds.tools = script[h]
  <2>1. CASE Believes(c, "tools") /\ client'[c].holds.tools = client[c].holds.tools
    <3>1. PICK h \in s..saves : client[c].holds.tools = script[h]
      BY <2>1 DEF ToolsSight
    <3>2. h \in s..saves'
      BY <3>1, Longer
    <3> QED
      BY <2>1, <3>1, <3>2
  <2>2. CASE client'[c].holds.tools = policy
    <3>1. saves \in s..saves'
      BY <1>1, Longer
    <3> QED
      BY <2>2, <3>1, Longer
  <2> QED
    BY <1>2, <2>1, <2>2 DEF Honest
<1> QED
  BY <1>1, <1>2, Longer DEF ToolsSight

LEMMA ScanAfterStays ==
    ASSUME TypeOK, Grows, NEW i \in Nat, i <= saves, NEW c \in Clients,
           Honest(c), ScanAfter(i, c)
    PROVE  ScanAfter(i, c)'
<1> SUFFICES ASSUME Scans(c)'
             PROVE  \E h \in i..saves' : client'[c].allowed = script[h]
  BY Longer DEF ScanAfter
<1>1. CASE Scans(c) /\ client'[c].allowed = client[c].allowed
  <2>1. PICK h \in i..saves : client[c].allowed = script[h]
    BY <1>1 DEF ScanAfter
  <2>2. h \in i..saves'
    BY <2>1, Longer
  <2> QED
    BY <1>1, <2>1, <2>2
<1>2. CASE client'[c].allowed = policy
  <2>1. saves \in i..saves'
    BY Longer
  <2> QED
    BY <1>2, <2>1, Longer
<1> QED
  BY <1>1, <1>2 DEF Honest

LEMMA DirSightStays ==
    ASSUME TypeOK, Grows, \A c \in Clients : Honest(c), seen'.downloads = seen.downloads,
           ~Beginning, NEW i \in Nat, NEW j \in Nat, DirSight(i, j)
    PROVE  DirSight(i, j)'
<1>1. i \in 1..saves' /\ i <= saves /\ j \in 1..dir' /\ j <= dir
  BY Longer DEF DirSight
<1>2. ASSUME NEW c \in Clients, Believes(c, "downloads")', ~client'[c].early
      PROVE  \E h \in i..saves', d \in j..dir' : client'[c].holds.downloads = Scan(script[h], d)
  <2>1. CASE /\ Believes(c, "downloads") /\ client'[c].early = client[c].early
             /\ client'[c].holds.downloads = client[c].holds.downloads
    <3>1. PICK h \in i..saves, d \in j..dir : client[c].holds.downloads = Scan(script[h], d)
      BY <1>2, <2>1 DEF DirSight
    <3>2. h \in i..saves' /\ d \in j..dir'
      BY <3>1, Longer
    <3> QED
      BY <2>1, <3>1, <3>2
  <2>2. CASE Scans(c) /\ client'[c].holds.downloads = Scan(client[c].allowed, dir)
    <3>1. PICK h \in i..saves : client[c].allowed = script[h]
      BY <2>2 DEF DirSight, ScanAfter
    <3>2. h \in i..saves' /\ dir \in j..dir'
      BY <1>1, <3>1, Longer
    <3> QED
      BY <2>2, <3>1, <3>2
  <2> QED
    BY <1>2, <2>1, <2>2 DEF Honest
<1>3. \A c \in Clients : ScanAfter(i, c)'
  BY <1>1, ScanAfterStays DEF DirSight
<1> QED
  BY <1>1, <1>2, <1>3, Longer DEF DirSight, Scan

LEMMA FirstSightStays ==
    ASSUME TypeOK, Grows, \A c \in Clients : Honest(c), Beginning,
           NEW i \in Nat, NEW j \in Nat, NEW k \in Nat, FirstSightComes(i, j),
           Took(task[Watcher], i, k)'
    PROVE  FirstSightComes(i, k)'
<1>1. i \in 1..saves
  BY DEF FirstSightComes, Took
<1>2. \A c \in Clients : ScanAfter(i, c)'
  BY <1>1, Longer, ScanAfterStays DEF FirstSightComes
<1>3. ASSUME NEW c \in Clients, Believes(c, "downloads")' PROVE client'[c].early
  BY <1>3 DEF Honest, FirstSightComes
<1> QED
  BY <1>2, <1>3 DEF FirstSightComes

\* A step that adds to what there is, and leaves the sights or renews them.
LEMMA Onward ==
    ASSUME SInv, TypeOK', Grows, \A c \in Clients : Honest(c) /\ Reached(c)', Unwatched',
           \A t \in Tasks : task'[t] = task[t] \/ \E i, j \in Nat : Took(task[t], i, j)',
           At(Watcher, "none") => At(Watcher, "none")',
           seen'.tools = seen.tools \/ \E s \in Nat : ToolsSight(s)',
           Beginning' => /\ Beginning
                         /\ \/ task'[Watcher] = task[Watcher]
                            \/ \A i, j \in Nat : Took(task[Watcher], i, j) =>
                                 \E k \in Nat : Took(task[Watcher], i, k)',
           \/ Beginning'
           \/ ~Beginning /\ seen'.downloads = seen.downloads
           \/ \E i, j \in Nat : DirSight(i, j)'
    PROVE  SInv'
<1>1. TypeOK
  BY DEF SInv
<1>2. ASSUME NEW t \in Tasks, task'[t] = task[t], NEW i \in Nat, NEW j \in Nat, Took(task[t], i, j)
      PROVE  Took(task[t], i, j)'
  <2> DEFINE x == task[t]
  <2>1. Took(x, i, j)
    BY <1>2
  <2>2. \A y : Took(y, i, j) => Took(y, i, j)'
    BY <1>1, TookGrows
  <2>3. \A y : y = task'[t] => (Took(y, i, j)' => Took(task[t], i, j)')
    BY DEF Took
  <2> QED
    BY <1>2, <2>2, <2>3
<1>3. ASSUME NEW t \in Tasks PROVE \E i, j \in Nat : Took(task[t], i, j)'
  BY <1>2 DEF SInv
<1>4. ~At(Watcher, "none")' => \E s \in Nat : ToolsSight(s)'
  BY <1>1, ToolsSightStays DEF SInv
<1>5. ASSUME Beginning' PROVE \E i, j \in Nat : FirstSightComes(i, j)'
  <2>1. PICK i, j \in Nat : FirstSightComes(i, j)
    BY <1>5 DEF SInv
  <2>2. Took(task[Watcher], i, j)
    BY <2>1 DEF FirstSightComes
  <2>3. PICK k \in Nat : Took(task[Watcher], i, k)'
    BY <1>2, <1>5, <2>2 DEF Tasks
  <2> QED
    BY <1>1, <1>5, <2>1, <2>3, FirstSightStays
<1>6. ~At(Watcher, "none")' /\ ~Beginning' => \E i, j \in Nat : DirSight(i, j)'
  BY <1>1, DirSightStays DEF SInv
<1> QED
  BY <1>3, <1>4, <1>5, <1>6 DEF SInv

------------------------------------------------------------------------------
LEMMA PolicyTyped ==
    ASSUME TypeOK
    PROVE  policy \in SUBSET Tools /\ saves \in Nat \ {0} /\ dir \in Nat \ {0}
<1>1. script \in Seq(SUBSET Tools) /\ saves \in 1..Len(script) /\ Len(script) \in Nat
  BY DEF TypeOK
<1> QED
  BY <1>1 DEF policy, TypeOK

LEMMA ScanTyped == ASSUME NEW a, NEW n \in Nat PROVE Scan(a, n) \in Nat
  BY DEF Scan

LEMMA SInvInit == Init => SInv
<1> SUFFICES ASSUME Init PROVE SInv
  OBVIOUS
<1>1. script \in Seq(SUBSET Tools) /\ script # << >>
  BY ServerAssumption DEF Init, ServerAssumption
<1>2. Len(script) \in Nat /\ Len(script) # 0
  BY <1>1
<1>3. NoTask \in TaskStates /\ NoTask.pc = "none"
  BY DEF NoTask, TaskStates, Pcs
<1>4. PICK w \in Wants : client = [c \in Clients |-> Away(w[c])]
  BY DEF Init
<1>5. \A c \in Clients : /\ Away(w[c]) \in ClientStates
                         /\ Away(w[c]).listed = {} /\ Away(w[c]).req = "none"
  BY <1>4, ServerAssumption DEF ServerAssumption, Away, ClientStates
<1>6. TypeOK
  BY <1>1, <1>2, <1>3, <1>4, <1>5 DEF Init, TypeOK, Tasks
<1>7. \A t \in Tasks : task[t].pc = "none"
  BY <1>3 DEF Init
<1>8. \A c \in Clients : client[c].listed = {} /\ client[c].req = "none"
  BY <1>4, <1>5
<1>9. \A c \in Clients : Reached(c)
  BY <1>8 DEF Reached, Owed, Asking
<1>10. \A t \in Tasks : \E i, j \in Nat : Took(task[t], i, j)
  <2>1. 1 \in 1..saves /\ 1 \in 1..dir
    BY DEF Init
  <2>2. \A t \in Tasks : Took(task[t], 1, 1)
    BY <1>7, <2>1 DEF Took
  <2> QED
    BY <2>2
<1>11. Unwatched
  BY <1>7, <1>8 DEF Unwatched, At, Asks, Init
<1>12. At(Watcher, "none") /\ ~Beginning
  BY <1>7 DEF At, Beginning, Tasks
<1> QED
  BY <1>6, <1>9, <1>10, <1>11, <1>12 DEF SInv

\* One client's record is replaced.
LEMMA ClientStep ==
    ASSUME SInv, NEW c \in Clients, NEW x \in ClientStates,
           client' = [client EXCEPT ![c] = x],
           UNCHANGED <<script, saves, dir, seen, task>>,
           conns' \subseteq Clients, conns \ {c} \subseteq conns', ~At(Watcher, "none"),
           \A l \in Lists : Owed(x, l) =>
               /\ l \in x.wants
               /\ Untold(x, l) /\ ~ToBeTold(c, l) => c \in conns',
           Believing(x, "tools") =>
               \/ Believing(client[c], "tools") /\ x.holds.tools = client[c].holds.tools
               \/ x.holds.tools = policy,
           Believing(x, "downloads") =>
               \/ /\ Believing(client[c], "downloads")
                  /\ x.early = client[c].early
                  /\ x.holds.downloads = client[c].holds.downloads
               \/ /\ Scanning(client[c])
                  /\ x.early = Beginning
                  /\ x.holds.downloads = Scan(client[c].allowed, dir),
           Scanning(x) => \/ Scanning(client[c]) /\ x.allowed = client[c].allowed
                          \/ x.allowed = policy
    PROVE  SInv'
<1>1. TypeOK
  BY DEF SInv
<1>2. TypeOK' /\ client'[c] = x /\ \A k \in Clients \ {c} : client'[k] = client[k]
  BY <1>1 DEF TypeOK
<1>3. \A k \in Clients, l \in Lists : ToBeTold(k, l)' <=> ToBeTold(k, l)
  BY DEF ToBeTold, Tells, At
<1>4. Grows
  BY DEF Grows
<1>5. ASSUME NEW k \in Clients PROVE Honest(k) /\ Reached(k)'
  <2>0. "tools" \in Lists /\ "downloads" \in Lists
    BY DEF Lists
  <2>1. CASE k = c
    <3>1. \A l \in Lists : Believes(c, l)' <=> Believing(x, l) /\ ~ToBeTold(c, l)
      BY <1>2, <1>3 DEF Believes
    <3>2. Scans(c)' <=> Scanning(x) /\ ~ToBeTold(c, "downloads")
      BY <1>2, <1>3, <2>0 DEF Scans
    <3>3. Reached(c)'
      BY <1>2, <1>3 DEF Reached
    <3>4. Honest(c)
      BY <1>2, <2>0, <3>1, <3>2 DEF Honest, Believes, Scans
    <3> QED
      BY <2>1, <3>3, <3>4
  <2>2. CASE k # c
    <3>1. client'[k] = client[k]
      BY <1>2, <2>2
    <3>2. \A l \in Lists : Believes(k, l)' <=> Believes(k, l)
      BY <1>3, <3>1 DEF Believes
    <3>3. Scans(k)' <=> Scans(k)
      BY <1>3, <2>0, <3>1 DEF Scans
    <3>4. Reached(k)'
      BY <1>3, <2>2, <3>1 DEF SInv, Reached
    <3>5. Honest(k)
      BY <2>0, <3>1, <3>2, <3>3 DEF Honest
    <3> QED
      BY <3>4, <3>5
  <2> QED
    BY <2>1, <2>2
<1>6. Unwatched'
  BY DEF Unwatched, At
<1>7. Beginning' <=> Beginning
  BY DEF Beginning
<1> QED
  BY <1>2, <1>4, <1>5, <1>6, <1>7, Onward

\* One task's record is replaced, and it goes on telling whom it told.
LEMMA Telling ==
    ASSUME SInv, NEW t \in Tasks, NEW x \in TaskStates,
           task' = [task EXCEPT ![t] = x],
           client' = client,
           \A c \in Clients, l \in Lists :
               Tells(t, l) /\ c \in task[t].toTell =>
                   /\ x.pc = IF l = "tools" THEN "telling tools" ELSE "telling downloads"
                   /\ c \in x.toTell
    PROVE  /\ \A c \in Clients, l \in Lists :
                  /\ ToBeTold(c, l) => ToBeTold(c, l)'
                  /\ Believes(c, l)' => Believes(c, l)
           /\ \A c \in Clients : Scans(c)' => Scans(c)
           /\ \A c \in Clients : Honest(c)
<1>1. task \in [Tasks -> TaskStates]
  BY DEF SInv, TypeOK
<1>2. ASSUME NEW c \in Clients, NEW l \in Lists, ToBeTold(c, l)
      PROVE  ToBeTold(c, l)'
  <2>1. PICK u \in Tasks : Tells(u, l) /\ c \in task[u].toTell
    BY <1>2 DEF ToBeTold
  <2>2. CASE u = t
    <3>1. task'[t] = x
      BY <1>1
    <3> QED
      BY <2>1, <2>2, <3>1 DEF ToBeTold, Tells, At
  <2>3. CASE u # t
    <3>1. task'[u] = task[u]
      BY <1>1, <2>3
    <3> QED
      BY <2>1, <3>1 DEF ToBeTold, Tells, At
  <2> QED
    BY <2>2, <2>3
<1>3. "tools" \in Lists /\ "downloads" \in Lists
  BY DEF Lists
<1>4. \A c \in Clients, l \in Lists : Believes(c, l)' => Believes(c, l)
  BY <1>2 DEF Believes
<1>5. \A c \in Clients : Scans(c)' => Scans(c)
  BY <1>2, <1>3 DEF Scans
<1> QED
  BY <1>2, <1>3, <1>4, <1>5 DEF Honest

\* A task begins to tell all there are, and nobody believes that list any more.
LEMMA AllToBeTold ==
    ASSUME SInv, NEW t \in Tasks, NEW x \in TaskStates, NEW l \in Lists,
           task' = [task EXCEPT ![t] = x], client' = client, conns' = conns,
           \A k \in Lists : ~Tells(t, k),
           x.pc = IF l = "tools" THEN "telling tools" ELSE "telling downloads",
           x.toTell = conns
    PROVE  /\ \A c \in Clients : ~Believes(c, l)'
           /\ l = "downloads" => \A c \in Clients : ~Scans(c)'
<1>1. task'[t] = x
  BY DEF SInv, TypeOK
<1>2. \A c \in conns : ToBeTold(c, l)'
  BY <1>1 DEF ToBeTold, Tells, At
<1>3. \A c \in Clients, k \in Lists : ToBeTold(c, k) => ToBeTold(c, k)'
  BY Telling
<1>4. ASSUME NEW c \in Clients, Owed(client[c], l), Untold(client[c], l)
      PROVE  ToBeTold(c, l)'
  BY <1>2, <1>3, <1>4 DEF SInv, Reached
<1> QED
  BY <1>4 DEF Believes, Believing, Scans, Scanning, Owed, Asking

LEMMA TaskStep ==
    ASSUME SInv, NEW t \in Tasks, NEW x \in TaskStates,
           task' = [task EXCEPT ![t] = x],
           UNCHANGED <<script, saves, dir, conns, client>>,
           seen' \in [tools : SUBSET Tools, downloads : Nat],
           ~At(Watcher, "none"),
           t = Watcher => x.pc # "none",
           \A c \in Clients, l \in Lists :
               Tells(t, l) /\ c \in task[t].toTell =>
                   /\ x.pc = IF l = "tools" THEN "telling tools" ELSE "telling downloads"
                   /\ c \in x.toTell,
           \E i, j \in Nat : Took(x, i, j),
           seen'.tools = seen.tools \/ \E s \in Nat : ToolsSight(s)',
           Beginning' => /\ Beginning
                         /\ \/ t # Watcher
                            \/ \A i, j \in Nat : Took(task[Watcher], i, j) =>
                                 \E k \in Nat : Took(x, i, k),
           \/ Beginning'
           \/ ~Beginning /\ seen'.downloads = seen.downloads
           \/ \E i, j \in Nat : DirSight(i, j)'
    PROVE  SInv'
<1>1. TypeOK
  BY DEF SInv
<1>2. TypeOK' /\ task'[t] = x /\ \A u \in Tasks \ {t} : task'[u] = task[u]
  BY <1>1 DEF TypeOK
<1>3. Grows
  BY DEF Grows
<1>4. \A c \in Clients : Honest(c)
  BY Telling
<1>5. \A c \in Clients : Reached(c)'
  <2>1. \A c \in Clients, l \in Lists : ToBeTold(c, l) => ToBeTold(c, l)'
    BY Telling
  <2> QED
    BY <2>1 DEF SInv, Reached
<1>6. Watcher \in Tasks
  BY DEF Tasks
<1>7. ~At(Watcher, "none")'
  BY <1>2, <1>6 DEF At
<1>8. \A i, j : Took(x, i, j) => Took(task[t], i, j)'
  BY <1>2 DEF Took, Scan
<1>9. \A u \in Tasks : task'[u] = task[u] \/ \E i, j \in Nat : Took(task[u], i, j)'
  BY <1>2, <1>8
<1>10. Beginning' => /\ Beginning
                     /\ \/ task'[Watcher] = task[Watcher]
                        \/ \A i, j \in Nat : Took(task[Watcher], i, j) =>
                             \E k \in Nat : Took(task[Watcher], i, k)'
  BY <1>2, <1>6, <1>8
<1> QED
  BY <1>2, <1>3, <1>4, <1>5, <1>7, <1>9, <1>10, Onward DEF Unwatched

------------------------------------------------------------------------------
\* Policies and downloads of others.
LEMMA EnvSteps == ASSUME SInv, SetPolicy \/ DirMoves \/ UNCHANGED vars PROVE SInv'
<1>1. TypeOK
  BY DEF SInv
<1>2. TypeOK' /\ Grows /\ UNCHANGED <<seen, conns, task, client>>
  BY <1>1 DEF SetPolicy, DirMoves, MoveDir, vars, TypeOK, Grows
<1>3. \A c \in Clients, l \in Lists : ToBeTold(c, l)' <=> ToBeTold(c, l)
  BY <1>2 DEF ToBeTold, Tells, At
<1>4. \A c \in Clients : Honest(c) /\ Reached(c)'
  BY <1>2, <1>3 DEF Honest, Believes, Scans, Lists, SInv, Reached
<1>5. Unwatched' /\ (At(Watcher, "none") => At(Watcher, "none")')
  BY <1>2 DEF SInv, Unwatched, At, Asks
<1>6. Beginning' <=> Beginning
  BY <1>2 DEF Beginning
<1> QED
  BY <1>2, <1>4, <1>5, <1>6, Onward

\* A client that waits for an answer waits for a server that watches.
LEMMA Watched ==
    ASSUME SInv, NEW c \in Clients,
           ~Asks(c, "none") \/ client[c].listed # {} \/ c \in conns \/ ~At(c, "none")
    PROVE  ~At(Watcher, "none")
  BY DEF SInv, Unwatched, Tasks

LEMMA RequestStep ==
    ASSUME SInv, NEW c \in Clients, NEW what \in Lists \cup {"call"}, Request(c, what)
    PROVE  SInv'
<1>1. TypeOK
  BY DEF SInv
<1> DEFINE x == [client[c] EXCEPT !.req = what, !.noticed = @ \ {what}, !.missed = @ \ {what}]
<1>2. client[c] \in ClientStates /\ client[c].req = "none" /\ what \in client[c].wants
  BY <1>1 DEF Request, Asks, TypeOK
<1>3. client' = [client EXCEPT ![c] = x] /\ UNCHANGED env
  BY <1>1 DEF Request, TypeOK, ClientStates
<1>4. /\ x \in ClientStates /\ x.req = what
      /\ x.noticed = client[c].noticed \ {what} /\ x.missed = client[c].missed \ {what}
      /\ x.wants = client[c].wants /\ x.listed = client[c].listed
      /\ x.holds = client[c].holds /\ x.early = client[c].early
  BY <1>2 DEF ClientStates, Lists
<1> HIDE DEF x
<1>5. conns' = conns \cup {c}
  BY DEF Request, Keep
<1>6. ASSUME NEW l \in Lists, Owed(x, l) PROVE l \in x.wants
  <2>1. CASE l = what
    BY <1>2, <1>4, <2>1
  <2>2. CASE l # what
    <3>1. Owed(client[c], l)
      BY <1>4, <1>6, <2>2 DEF Owed, Asking, Lists
    <3> QED
      BY <1>4, <3>1 DEF SInv, Reached
  <2> QED
    BY <2>1, <2>2
<1>7. CASE ~At(Watcher, "none")
  <2>1. UNCHANGED <<script, saves, dir, seen, task>>
    BY <1>3, <1>7 DEF Request, Keep, env
  <2>2. \A l \in Lists : Believing(x, l) => Believing(client[c], l)
    BY <1>2, <1>4 DEF Believing, Asking, Untold, Lists
  <2>3. ~Scanning(x)
    BY <1>4 DEF Scanning, Lists
  <2> QED
    BY <1>1, <1>3, <1>4, <1>5, <1>6, <1>7, <2>1, <2>2, <2>3, ClientStep DEF TypeOK, Lists
<1>8. CASE At(Watcher, "none")
  <2>1. /\ seen' = [seen EXCEPT !.tools = policy]
        /\ task' = [task EXCEPT ![Watcher] = Starting]
        /\ UNCHANGED <<script, saves, dir>>
    BY <1>3, <1>8 DEF Request, Keep, env
  <2>2. Starting \in TaskStates /\ Starting.pc = "starting" /\ Starting.allowed = policy
    BY <1>1, PolicyTyped DEF Starting, NoTask, TaskStates, Pcs
  <2>3. Watcher \in Tasks /\ task'[Watcher] = Starting
        /\ \A t \in Tasks \ {Watcher} : task'[t] = task[t]
    BY <1>1, <2>1 DEF TypeOK, Tasks
  <2>4. TypeOK'
    <3>1. task' \in [Tasks -> TaskStates]
      BY <1>1, <2>1, <2>2 DEF TypeOK
    <3>2. client' \in [Clients -> ClientStates]
      BY <1>1, <1>3, <1>4 DEF TypeOK
    <3>3. seen' \in [tools : SUBSET Tools, downloads : Nat] /\ seen'.tools = policy
      BY <1>1, <2>1, PolicyTyped DEF TypeOK
    <3> QED
      BY <1>1, <1>5, <2>1, <3>1, <3>2, <3>3 DEF TypeOK
  <2>5. \A k \in Clients : client'[k].listed = {} /\ client'[k].req # "scan"
    BY <1>1, <1>3, <1>4, <1>8 DEF SInv, Unwatched, Asks, TypeOK, Lists
  <2>6. \A k \in Clients \ {c} : client'[k] = client[k] /\ client[k].req = "none" /\ client[k].listed = {}
    BY <1>1, <1>3, <1>8 DEF SInv, Unwatched, Asks, TypeOK
  <2>7. ASSUME NEW k \in Clients PROVE Reached(k)'
    <3>1. CASE k = c
      <4>1. client'[k] = x
        BY <1>1, <1>3, <3>1 DEF TypeOK
      <4> QED
        BY <1>5, <1>6, <3>1, <4>1 DEF Reached
    <3>2. CASE k # c
      BY <2>6, <3>2 DEF Reached, Owed, Asking
    <3> QED
      BY <3>1, <3>2
  <2>8. \A t \in Tasks \ {Watcher} : task'[t].pc = "none"
    BY <1>8, <2>3 DEF SInv, Unwatched, At
  <2>9. /\ saves \in 1..saves' /\ 1 \in 1..dir' /\ saves \in Nat
        /\ script'[saves] = policy /\ script' = script /\ saves' = saves
    BY <1>1, <2>1, PolicyTyped DEF policy
  <2>10. \A t \in Tasks : Took(task[t], saves, 1)'
    <3>1. ASSUME NEW t \in Tasks PROVE /\ task'[t].pc \in {"none", "starting"}
                                       /\ task'[t].pc = "starting" => task'[t].allowed = policy
      BY <2>2, <2>3, <2>8
    <3> QED
      BY <2>9, <3>1 DEF Took
  <2>11. ToolsSight(saves)'
    <3>1. seen'.tools = policy
      BY <1>1, <2>1 DEF TypeOK
    <3> QED
      BY <2>5, <2>9, <3>1 DEF ToolsSight, Believes, Believing
  <2>12. FirstSightComes(saves, 1)'
    BY <2>3, <2>5, <2>10 DEF FirstSightComes, Believes, Believing, ScanAfter, Scans, Scanning
  <2>13. Beginning' /\ ~At(Watcher, "none")'
    BY <2>2, <2>3 DEF Beginning, At
  <2>14. Unwatched'
    BY <2>13 DEF Unwatched
  <2>15. \A t \in Tasks : \E i, j \in Nat : Took(task[t], i, j)'
    BY <2>9, <2>10
  <2> QED
    BY <2>4, <2>7, <2>9, <2>11, <2>12, <2>13, <2>14, <2>15 DEF SInv
<1> QED
  BY <1>7, <1>8

LEMMA AnswerToolsStep == ASSUME SInv, NEW c \in Clients, AnswerTools(c) PROVE SInv'
<1>1. TypeOK
  BY DEF SInv
<1> DEFINE x == [client[c] EXCEPT !.req = "none", !.holds.tools = policy,
                                  !.listed = @ \cup {"tools"}]
<1>2. client[c] \in ClientStates /\ client[c].req = "tools" /\ policy \in SUBSET Tools
  BY <1>1, PolicyTyped DEF AnswerTools, Asks, TypeOK
<1>3. client' = [client EXCEPT ![c] = x] /\ UNCHANGED <<env, seen, conns, task>>
  BY <1>1 DEF AnswerTools, TypeOK, ClientStates
<1>4. /\ x \in ClientStates /\ x.req = "none" /\ x.listed = client[c].listed \cup {"tools"}
      /\ x.noticed = client[c].noticed /\ x.missed = client[c].missed
      /\ x.wants = client[c].wants /\ x.early = client[c].early
      /\ x.holds.tools = policy /\ x.holds.downloads = client[c].holds.downloads
  BY <1>2 DEF ClientStates, Lists
<1> HIDE DEF x
<1>5. \A l \in Lists : /\ Owed(x, l) => Owed(client[c], l)
                       /\ Untold(x, l) <=> Untold(client[c], l)
  BY <1>2, <1>4 DEF Owed, Asking, Untold, Lists
<1>6. Believing(x, "downloads") => Believing(client[c], "downloads")
  BY <1>2, <1>4 DEF Believing, Asking, Untold
<1>7. ~Scanning(x)
  BY <1>4 DEF Scanning
<1>8. ~At(Watcher, "none")
  BY <1>2, Watched DEF Asks
<1>9. \A l \in Lists : Owed(x, l) =>
        /\ l \in x.wants
        /\ Untold(x, l) /\ ~ToBeTold(c, l) => c \in conns'
  BY <1>3, <1>4, <1>5 DEF SInv, Reached
<1> QED
  BY <1>1, <1>3, <1>4, <1>6, <1>7, <1>8, <1>9, ClientStep DEF TypeOK, env

LEMMA ReadPolicyStep == ASSUME SInv, NEW c \in Clients, ReadPolicy(c) PROVE SInv'
<1>1. TypeOK
  BY DEF SInv
<1> DEFINE x == [client[c] EXCEPT !.req = "scan", !.allowed = policy]
<1>2. client[c] \in ClientStates /\ client[c].req = "downloads" /\ policy \in SUBSET Tools
  BY <1>1, PolicyTyped DEF ReadPolicy, Asks, TypeOK
<1>3. client' = [client EXCEPT ![c] = x] /\ UNCHANGED <<env, seen, conns, task>>
  BY <1>1 DEF ReadPolicy, TypeOK, ClientStates
<1>4. /\ x \in ClientStates /\ x.req = "scan" /\ x.listed = client[c].listed
      /\ x.noticed = client[c].noticed /\ x.missed = client[c].missed
      /\ x.wants = client[c].wants /\ x.early = client[c].early
      /\ x.holds = client[c].holds /\ x.allowed = policy
  BY <1>2 DEF ClientStates
<1> HIDE DEF x
<1>5. \A l \in Lists : /\ Owed(x, l) => Owed(client[c], l)
                       /\ Untold(x, l) <=> Untold(client[c], l)
                       /\ Believing(x, l) => Believing(client[c], l)
  BY <1>2, <1>4 DEF Owed, Asking, Untold, Believing, Lists
<1>6. ~At(Watcher, "none")
  BY <1>2, Watched DEF Asks
<1>7. \A l \in Lists : Owed(x, l) =>
        /\ l \in x.wants
        /\ Untold(x, l) /\ ~ToBeTold(c, l) => c \in conns'
  BY <1>3, <1>4, <1>5 DEF SInv, Reached
<1> QED
  BY <1>1, <1>3, <1>4, <1>5, <1>6, <1>7, ClientStep DEF TypeOK, env, Lists

LEMMA AnswerDownloadsStep == ASSUME SInv, NEW c \in Clients, AnswerDownloads(c) PROVE SInv'
<1>1. TypeOK
  BY DEF SInv
<1> DEFINE n == Scan(client[c].allowed, dir)
           b == Beginning
           x == [client[c] EXCEPT !.req = "none", !.allowed = {},
                                  !.listed = @ \cup {"downloads"},
                                  !.holds.downloads = n, !.early = b]
<1>2. /\ client[c] \in ClientStates /\ client[c].req = "scan"
      /\ n \in Nat /\ b \in BOOLEAN
  <2>1. client[c] \in ClientStates /\ client[c].req = "scan" /\ dir \in Nat
    BY <1>1 DEF AnswerDownloads, Asks, TypeOK
  <2>2. Beginning \in BOOLEAN
    BY DEF Beginning
  <2>3. n \in Nat
    BY <2>1, ScanTyped
  <2> QED
    BY <2>1, <2>2, <2>3
<1> HIDE DEF n, b
<1>3. client' = [client EXCEPT ![c] = x] /\ UNCHANGED <<env, seen, conns, task>>
  <2>1. client' = [client EXCEPT ![c].req = "none", ![c].allowed = {},
                                ![c].listed = @ \cup {"downloads"},
                                ![c].holds.downloads = n, ![c].early = b]
    BY DEF AnswerDownloads, n, b
  <2>2. client \in [Clients -> ClientStates]
    BY <1>1 DEF TypeOK
  <2> DEFINE y == [client[c] EXCEPT !.req = "none", !.allowed = {},
                                    !.listed = @ \cup {"downloads"}]
             m == [client EXCEPT ![c] = y]
  <2>3. [client EXCEPT ![c].req = "none", ![c].allowed = {},
                       ![c].listed = @ \cup {"downloads"}] = m
    BY <2>2 DEF ClientStates
  <2>4. client' = [m EXCEPT ![c].holds.downloads = n, ![c].early = b]
    BY <2>1, <2>3
  <2>5. m[c] = y /\ x = [y EXCEPT !.holds.downloads = n, !.early = b]
    BY <2>2
  <2>6. [m EXCEPT ![c] = x] = [client EXCEPT ![c] = x] /\ m \in [Clients -> ClientStates]
    <3>1. y \in ClientStates
      BY <2>2 DEF ClientStates, Lists
    <3> HIDE DEF x, y
    <3> QED
      BY <2>2, <3>1
  <2> HIDE DEF y, m
  <2>7. client' = [m EXCEPT ![c] = x]
    BY <2>4, <2>5, <2>6 DEF ClientStates
  <2> QED
    BY <2>6, <2>7 DEF AnswerDownloads
<1>4. /\ x \in ClientStates /\ x.req = "none" /\ x.listed = client[c].listed \cup {"downloads"}
      /\ x.noticed = client[c].noticed /\ x.missed = client[c].missed
      /\ x.wants = client[c].wants /\ x.early = b
      /\ x.holds.downloads = n /\ x.holds.tools = client[c].holds.tools
  BY <1>2 DEF ClientStates, Lists
<1>5. x.early = Beginning
  BY <1>4 DEF b
<1> HIDE DEF x
<1>6. \A l \in Lists : /\ Owed(x, l) => Owed(client[c], l)
                       /\ Untold(x, l) <=> Untold(client[c], l)
  BY <1>2, <1>4 DEF Owed, Asking, Untold, Lists
<1>7. Believing(x, "tools") => Believing(client[c], "tools")
  BY <1>2, <1>4 DEF Believing, Asking, Untold
<1>8. Believing(x, "downloads") => Scanning(client[c])
  BY <1>2, <1>4 DEF Believing, Scanning, Untold
<1>9. ~Scanning(x) /\ ~At(Watcher, "none")
  BY <1>2, <1>4, Watched DEF Scanning, Asks
<1>10. \A l \in Lists : Owed(x, l) =>
         /\ l \in x.wants
         /\ Untold(x, l) /\ ~ToBeTold(c, l) => c \in conns'
  BY <1>3, <1>4, <1>6 DEF SInv, Reached
<1>11. x.holds.downloads = Scan(client[c].allowed, dir)
  BY <1>4 DEF n
<1> QED
  BY <1>1, <1>3, <1>4, <1>5, <1>7, <1>8, <1>9, <1>10, <1>11, ClientStep DEF TypeOK, env

LEMMA OtherCallStep == ASSUME SInv, NEW c \in Clients, OtherCall(c) PROVE SInv'
<1>1. TypeOK
  BY DEF SInv
<1> DEFINE x == [client[c] EXCEPT !.req = "none"]
<1>2. client[c] \in ClientStates /\ client[c].req = "call"
  BY <1>1 DEF OtherCall, Asks, TypeOK
<1>3. client' = [client EXCEPT ![c] = x] /\ UNCHANGED <<env, seen, conns, task>>
  BY <1>1 DEF OtherCall, TypeOK, ClientStates
<1>4. /\ x \in ClientStates /\ x.req = "none" /\ x.listed = client[c].listed
      /\ x.noticed = client[c].noticed /\ x.missed = client[c].missed
      /\ x.wants = client[c].wants /\ x.early = client[c].early
      /\ x.holds = client[c].holds
  BY <1>2 DEF ClientStates
<1> HIDE DEF x
<1>5. \A l \in Lists : /\ Owed(x, l) => Owed(client[c], l)
                       /\ Untold(x, l) <=> Untold(client[c], l)
                       /\ Believing(x, l) => Believing(client[c], l)
  BY <1>2, <1>4 DEF Owed, Asking, Untold, Believing, Lists
<1>6. ~Scanning(x) /\ ~At(Watcher, "none")
  BY <1>2, <1>4, Watched DEF Scanning, Asks
<1>7. \A l \in Lists : Owed(x, l) =>
        /\ l \in x.wants
        /\ Untold(x, l) /\ ~ToBeTold(c, l) => c \in conns'
  BY <1>3, <1>4, <1>5 DEF SInv, Reached
<1> QED
  BY <1>1, <1>3, <1>4, <1>5, <1>6, <1>7, ClientStep DEF TypeOK, env, Lists

LEMMA CloseStep == ASSUME SInv, NEW c \in Clients, Close(c) PROVE SInv'
<1>1. TypeOK
  BY DEF SInv
<1> DEFINE x == [Away(client[c].wants) EXCEPT !.req = "closed"]
<1>2. /\ x \in ClientStates /\ x.req = "closed" /\ x.listed = {}
  BY <1>1 DEF TypeOK, ClientStates, Away
<1>3. /\ client' = [client EXCEPT ![c] = x] /\ conns' = conns \ {c}
      /\ UNCHANGED <<env, seen, task>>
  BY DEF Close
<1>4. ~At(Watcher, "none")
  BY Watched DEF Close
<1> HIDE DEF x
<1>5. \A l \in Lists : ~Owed(x, l) /\ ~Believing(x, l)
  BY <1>2 DEF Owed, Asking, Believing, Lists
<1>6. ~Scanning(x)
  BY <1>2 DEF Scanning
<1> QED
  BY <1>1, <1>2, <1>3, <1>4, <1>5, <1>6, ClientStep DEF TypeOK, env, Lists

\* A task that does something is one of a server that watches.
LEMMA Busy == ASSUME SInv, NEW t \in Tasks, ~At(t, "none") PROVE ~At(Watcher, "none")
  BY DEF SInv, Unwatched

LEMMA LastOfAll ==
    ASSUME TypeOK
    PROVE  saves \in Nat /\ saves \in 1..saves /\ dir \in Nat /\ dir \in 1..dir
<1>1. saves \in Nat \ {0} /\ dir \in Nat \ {0}
  BY PolicyTyped
<1> QED
  BY <1>1

\* What a task has read may be the policy and listing there are.
LEMMA TookNow ==
    ASSUME TypeOK, NEW x,
           x.pc \in {"starting", "scanning first", "telling tools", "scanning"} => x.allowed = policy,
           x.pc \in {"scanned first", "scanned"} => x.names = Scan(policy, dir)
    PROVE  \E i, j \in Nat : Took(x, i, j)
<1>1. saves \in Nat /\ saves \in 1..saves /\ dir \in Nat /\ dir \in 1..dir
  BY LastOfAll
<1>2. Took(x, saves, dir)
  BY <1>1 DEF Took, policy
<1> QED
  BY <1>1, <1>2

LEMMA AnnounceStep == ASSUME SInv, NEW c \in Clients, Announce(c) PROVE SInv'
<1>1. TypeOK
  BY DEF SInv
<1> DEFINE x == [task[c] EXCEPT !.pc = "scanning", !.allowed = policy]
<1>2. c \in Tasks /\ task[c] \in TaskStates /\ task[c].pc = "saved" /\ policy \in SUBSET Tools
  BY <1>1, PolicyTyped DEF Announce, At, TypeOK, Tasks
<1>3. task' = [task EXCEPT ![c] = x] /\ UNCHANGED <<env, seen, conns, client>>
  BY <1>1 DEF Announce, TypeOK, TaskStates
<1>4. x \in TaskStates /\ x.pc = "scanning" /\ x.allowed = policy
  BY <1>2 DEF TaskStates, Pcs
<1> HIDE DEF x
<1>5. c # Watcher /\ ~At(Watcher, "none")
  BY <1>2, Busy, ServerAssumption DEF ServerAssumption, At
<1>6. \A l \in Lists : ~Tells(c, l)
  BY <1>2 DEF Tells, At
<1>7. \E i, j \in Nat : Took(x, i, j)
  BY <1>1, <1>4, TookNow
<1>8. Beginning' <=> Beginning
  BY <1>1, <1>3, <1>5 DEF Beginning, TypeOK, Tasks
<1> QED
  BY <1>1, <1>2, <1>3, <1>4, <1>5, <1>6, <1>7, <1>8, TaskStep DEF env, TypeOK

LEMMA StartStep == ASSUME SInv, Start PROVE SInv'
<1>1. TypeOK /\ Watcher \in Tasks
  BY DEF SInv, Tasks
<1> DEFINE x == [task[Watcher] EXCEPT !.pc = "scanning first"]
<1>2. task[Watcher] \in TaskStates /\ task[Watcher].pc = "starting"
  BY <1>1 DEF Start, At, TypeOK
<1>3. task' = [task EXCEPT ![Watcher] = x] /\ UNCHANGED <<env, seen, conns, client>>
  BY <1>1 DEF Start, TypeOK, TaskStates
<1>4. x \in TaskStates /\ x.pc = "scanning first" /\ x.allowed = task[Watcher].allowed
  BY <1>2 DEF TaskStates, Pcs
<1> HIDE DEF x
<1>5. ~At(Watcher, "none") /\ \A l \in Lists : ~Tells(Watcher, l)
  BY <1>2 DEF Tells, At
<1>6. \A i, j : Took(task[Watcher], i, j) => Took(x, i, j)
  BY <1>2, <1>4 DEF Took
<1>7. \E i, j \in Nat : Took(x, i, j)
  BY <1>1, <1>6 DEF SInv
<1>8. Beginning /\ Beginning'
  BY <1>1, <1>2, <1>3, <1>4 DEF Beginning, TypeOK
<1> QED
  BY <1>1, <1>3, <1>4, <1>5, <1>6, <1>7, <1>8, TaskStep DEF env, TypeOK

LEMMA ScanDirStep == ASSUME SInv, NEW t \in Tasks, ScanDir(t) PROVE SInv'
<1>1. TypeOK /\ Watcher \in Tasks
  BY DEF SInv, Tasks
<1> DEFINE n == Scan(task[t].allowed, dir)
           q == Scanned[task[t].pc]
           x == [task[t] EXCEPT !.pc = q, !.names = n]
<1>2. task[t] \in TaskStates /\ n \in Nat /\ dir \in Nat
  BY <1>1, PolicyTyped, ScanTyped DEF TypeOK
<1>3. /\ \/ task[t].pc = "scanning first" /\ q = "scanned first"
         \/ task[t].pc = "scanning" /\ q = "scanned"
      /\ task' = [task EXCEPT ![t].pc = q, ![t].names = n]
      /\ UNCHANGED <<env, seen, conns, client>>
  BY DEF ScanDir, Scanned
<1> HIDE DEF n, q
<1>4. task' = [task EXCEPT ![t] = x]
  BY <1>1, <1>3 DEF TypeOK, TaskStates
<1>5. x \in TaskStates /\ x.pc = q /\ x.names = n
  BY <1>2, <1>3 DEF TaskStates, Pcs
<1> HIDE DEF x
<1>6. ~At(Watcher, "none")
  BY <1>3, Busy DEF At
<1>7. \A l \in Lists : ~Tells(t, l)
  BY <1>3 DEF Tells, At
<1>8. ASSUME NEW i \in Nat, NEW j \in Nat, Took(task[t], i, j) PROVE Took(x, i, dir)
  <2>1. i \in 1..saves /\ j \in 1..dir /\ task[t].allowed = script[i]
    BY <1>3, <1>8 DEF Took
  <2>2. dir \in 1..dir /\ n = Scan(script[i], dir)
    BY <1>2, <2>1 DEF n
  <2> QED
    BY <1>3, <1>5, <2>1, <2>2 DEF Took
<1>9. \E i, j \in Nat : Took(x, i, j)
  BY <1>2, <1>8 DEF SInv
<1>10. Beginning' <=> Beginning
  BY <1>1, <1>3, <1>4, <1>5 DEF Beginning, TypeOK
<1>11. x.pc # "none"
  BY <1>3, <1>5
<1>12. \/ t # Watcher
       \/ \A i, j \in Nat : Took(task[Watcher], i, j) => \E k \in Nat : Took(x, i, k)
  BY <1>2, <1>8
<1> QED
  BY <1>1, <1>3, <1>4, <1>5, <1>6, <1>7, <1>9, <1>10, <1>11, <1>12, TaskStep DEF env, TypeOK

LEMMA AllToldStep == ASSUME SInv, NEW t \in Tasks, AllTold(t) PROVE SInv'
<1>1. TypeOK /\ Watcher \in Tasks
  BY DEF SInv, Tasks
<1> DEFINE x == IF Tells(t, "tools") THEN [task[t] EXCEPT !.pc = "scanning"]
                ELSE IF t = Watcher THEN Asleep
                ELSE NoTask
<1>2. task[t] \in TaskStates /\ task[t].toTell = {}
  BY <1>1 DEF AllTold, TypeOK
<1>3. task' = [task EXCEPT ![t] = x] /\ UNCHANGED <<env, seen, conns, client>>
  BY DEF AllTold
<1>4. /\ x \in TaskStates
      /\ \/ x.pc = "scanning" /\ task[t].pc = "telling tools" /\ x.allowed = task[t].allowed
         \/ x.pc \in {"asleep", "none"}
      /\ t = Watcher => x.pc # "none"
  <2>1. CASE Tells(t, "tools")
    <3>1. x = [task[t] EXCEPT !.pc = "scanning"] /\ task[t].pc = "telling tools"
      BY <2>1 DEF Tells, At
    <3> QED
      BY <1>2, <3>1 DEF TaskStates, Pcs
  <2>2. CASE ~Tells(t, "tools")
    BY <2>2 DEF Asleep, NoTask, TaskStates, Pcs
  <2> QED
    BY <2>1, <2>2
<1> HIDE DEF x
<1>5. task[t].pc \in {"telling tools", "telling downloads"}
  BY DEF AllTold, Tells, At
<1>6. ~At(Watcher, "none")
  BY <1>5, Busy DEF At
<1>7. \E i, j \in Nat : Took(x, i, j)
  <2>1. PICK i, j \in Nat : Took(task[t], i, j)
    BY DEF SInv
  <2>2. Took(x, i, j)
    BY <1>4, <2>1 DEF Took
  <2> QED
    BY <2>2
<1>8. task'[t] = x /\ \A u \in Tasks \ {t} : task'[u] = task[u]
  BY <1>1, <1>3 DEF TypeOK
<1>9. (Beginning' <=> Beginning) /\ (t = Watcher => ~Beginning)
  BY <1>1, <1>4, <1>5, <1>8 DEF Beginning
<1> QED
  BY <1>1, <1>2, <1>3, <1>4, <1>6, <1>7, <1>9, TaskStep DEF env, TypeOK

LEMMA FirstSightStep == ASSUME SInv, FirstSight PROVE SInv'
<1>1. TypeOK /\ Watcher \in Tasks
  BY DEF SInv, Tasks
<1>2. task[Watcher] \in TaskStates /\ task[Watcher].pc = "scanned first"
  BY <1>1 DEF FirstSight, At, TypeOK
<1>3. /\ task' = [task EXCEPT ![Watcher] = Asleep]
      /\ seen' = [seen EXCEPT !.downloads = task[Watcher].names]
      /\ UNCHANGED <<script, saves, dir, conns, client>>
  BY DEF FirstSight, env
<1>4. Asleep \in TaskStates /\ Asleep.pc = "asleep"
  BY DEF Asleep, NoTask, TaskStates, Pcs
<1>5. /\ seen' \in [tools : SUBSET Tools, downloads : Nat]
      /\ seen'.tools = seen.tools /\ seen'.downloads = task[Watcher].names
  BY <1>1, <1>2, <1>3 DEF TypeOK, TaskStates
<1>6. ~At(Watcher, "none") /\ \A l \in Lists : ~Tells(Watcher, l)
  BY <1>2 DEF Tells, At
<1>7. Beginning /\ ~Beginning'
  BY <1>1, <1>2, <1>3, <1>4 DEF Beginning, TypeOK
<1>8. PICK i, j \in Nat : FirstSightComes(i, j)
  BY <1>7 DEF SInv
<1>9. \A c \in Clients : Honest(c)
  BY <1>1, <1>3, <1>4, <1>6, Telling
<1>10. DirSight(i, j)'
  <2>1. i \in 1..saves /\ j \in 1..dir /\ task[Watcher].names = Scan(script[i], j)
    BY <1>2, <1>8 DEF FirstSightComes, Took
  <2>2. ASSUME NEW c \in Clients, Believes(c, "downloads")' PROVE client'[c].early
    <3>1. Believes(c, "downloads")
      BY <1>1, <1>3, <1>4, <1>6, <2>2, Telling DEF Lists
    <3> QED
      BY <1>3, <1>8, <3>1 DEF FirstSightComes
  <2>3. ASSUME NEW c \in Clients PROVE ScanAfter(i, c)'
    <3>1. Scans(c)' => Scans(c)
      BY <1>1, <1>3, <1>4, <1>6, Telling
    <3> QED
      BY <1>3, <1>8, <3>1 DEF FirstSightComes, ScanAfter
  <2> QED
    BY <1>3, <1>5, <2>1, <2>2, <2>3 DEF DirSight, Scan
<1>11. \E i1, j1 \in Nat : Took(Asleep, i1, j1)
  BY <1>1, <1>4, TookNow
<1> QED
  BY <1>1, <1>3, <1>4, <1>5, <1>6, <1>7, <1>10, <1>11, TaskStep

LEMMA LookStep == ASSUME SInv, Look PROVE SInv'
<1>1. TypeOK /\ Watcher \in Tasks
  BY DEF SInv, Tasks
<1> DEFINE new == policy # seen.tools
           told == IF new THEN conns ELSE {}
           q == IF new THEN "telling tools" ELSE "scanning"
           x == [task[Watcher] EXCEPT !.allowed = policy, !.pc = q, !.toTell = told]
<1>2. /\ task[Watcher] \in TaskStates /\ task[Watcher].pc = "asleep"
      /\ policy \in SUBSET Tools
  BY <1>1, PolicyTyped DEF Look, At, TypeOK
<1>3. /\ task' = [task EXCEPT ![Watcher] = x]
      /\ seen' = [seen EXCEPT !.tools = policy]
      /\ UNCHANGED <<script, saves, dir, conns, client>>
  BY DEF Look, env
<1>4. /\ x \in TaskStates /\ x.allowed = policy
      /\ x.pc = q /\ x.toTell = told
  BY <1>1, <1>2 DEF TaskStates, Pcs, TypeOK
<1>5. q \in {"telling tools", "scanning"}
  OBVIOUS
<1>6. new => q = "telling tools" /\ told = conns
  OBVIOUS
<1> HIDE DEF x, q, told
<1>7. /\ seen' \in [tools : SUBSET Tools, downloads : Nat]
      /\ seen'.tools = policy /\ seen'.downloads = seen.downloads
  BY <1>1, <1>2, <1>3 DEF TypeOK
<1>8. ~At(Watcher, "none") /\ \A l \in Lists : ~Tells(Watcher, l)
  BY <1>2 DEF Tells, At
<1>9. ~Beginning /\ ~Beginning'
  BY <1>1, <1>2, <1>3, <1>4, <1>5 DEF Beginning, TypeOK
<1>10. new => \E s \in Nat : ToolsSight(s)'
  <2> SUFFICES ASSUME new PROVE \E s \in Nat : ToolsSight(s)'
    OBVIOUS
  <2>1. \A c \in Clients : ~Believes(c, "tools")'
    BY <1>1, <1>3, <1>4, <1>6, <1>8, AllToBeTold DEF Lists
  <2>2. saves \in Nat \ {0}
    BY <1>1, PolicyTyped
  <2>3. saves \in 1..saves' /\ saves' \in Nat
    BY <1>3, <2>2
  <2>4. ToolsSight(saves)'
    BY <1>3, <1>7, <2>1, <2>3 DEF ToolsSight, policy
  <2> QED
    BY <2>3, <2>4
<1>11. \E i, j \in Nat : Took(x, i, j)
  <2>1. x.pc \notin {"scanned first", "scanned"}
    BY <1>4, <1>5
  <2> QED
    BY <1>1, <1>4, <2>1, TookNow
<1>12. seen'.tools = seen.tools \/ \E s \in Nat : ToolsSight(s)'
  BY <1>7, <1>10
<1>13. x.pc # "none"
  BY <1>4, <1>5
<1> QED
  BY <1>1, <1>3, <1>4, <1>7, <1>8, <1>9, <1>11, <1>12, <1>13, TaskStep

\* A scan becomes the sight, and all are to be told.
LEMMA Renewed ==
    ASSUME SInv, NEW t \in Tasks, At(t, "scanned"),
           task' = [task EXCEPT ![t] = TellingDownloads],
           seen' = [seen EXCEPT !.downloads = task[t].names],
           UNCHANGED <<script, saves, dir, conns, client>>
    PROVE  SInv'
<1>1. TypeOK /\ Watcher \in Tasks
  BY DEF SInv, Tasks
<1>2. task[t] \in TaskStates /\ task[t].pc = "scanned"
  BY <1>1 DEF At, TypeOK
<1>3. /\ TellingDownloads \in TaskStates /\ TellingDownloads.pc = "telling downloads"
      /\ TellingDownloads.toTell = conns
  BY <1>1 DEF TellingDownloads, NoTask, TaskStates, Pcs, TypeOK
<1>4. /\ seen' \in [tools : SUBSET Tools, downloads : Nat]
      /\ seen'.tools = seen.tools /\ seen'.downloads = task[t].names
  BY <1>1, <1>2 DEF TypeOK, TaskStates
<1>5. ~At(Watcher, "none") /\ \A l \in Lists : ~Tells(t, l)
  BY <1>2, Busy DEF Tells, At
<1>6. task'[t] = TellingDownloads /\ \A u \in Tasks \ {t} : task'[u] = task[u]
  BY <1>1 DEF TypeOK
<1>7. (Beginning' <=> Beginning) /\ (t = Watcher => ~Beginning)
  BY <1>1, <1>2, <1>3, <1>6 DEF Beginning
<1>8. PICK i, j \in Nat : Took(task[t], i, j)
  BY DEF SInv
<1>9. DirSight(i, j)'
  <2>1. i \in 1..saves /\ j \in 1..dir /\ task[t].names = Scan(script[i], j)
    BY <1>2, <1>8 DEF Took
  <2>2. \A c \in Clients : ~Believes(c, "downloads")' /\ ~Scans(c)'
    BY <1>3, <1>5, AllToBeTold DEF Lists
  <2> QED
    BY <1>4, <2>1, <2>2 DEF DirSight, ScanAfter, Scan
<1>10. \E i1, j1 \in Nat : Took(TellingDownloads, i1, j1)
  BY <1>1, <1>3, TookNow
<1> QED
  BY <1>3, <1>4, <1>5, <1>7, <1>9, <1>10, TaskStep

LEMMA CompareStep == ASSUME SInv, Compare PROVE SInv'
<1>1. TypeOK /\ Watcher \in Tasks
  BY DEF SInv, Tasks
<1>2. CASE task[Watcher].names # seen.downloads
  BY <1>1, <1>2, Renewed DEF Compare, env
<1>3. CASE task[Watcher].names = seen.downloads
  <2>1. /\ task' = [task EXCEPT ![Watcher] = Asleep]
        /\ UNCHANGED <<script, saves, dir, seen, conns, client>>
    BY <1>3 DEF Compare, env
  <2>2. Asleep \in TaskStates /\ Asleep.pc = "asleep"
    BY DEF Asleep, NoTask, TaskStates, Pcs
  <2>3. task[Watcher].pc = "scanned"
    BY DEF Compare, At
  <2>4. ~At(Watcher, "none") /\ \A l \in Lists : ~Tells(Watcher, l)
    BY <2>3 DEF Tells, At
  <2>5. ~Beginning /\ ~Beginning'
    BY <1>1, <2>1, <2>2, <2>3 DEF Beginning, TypeOK
  <2>6. \E i, j \in Nat : Took(Asleep, i, j)
    BY <1>1, <2>2, TookNow
  <2>7. seen' \in [tools : SUBSET Tools, downloads : Nat]
    BY <1>1, <2>1 DEF TypeOK
  <2> QED
    BY <1>1, <2>1, <2>2, <2>4, <2>5, <2>6, <2>7, TaskStep
<1> QED
  BY <1>2, <1>3

LEMMA RenewStep == ASSUME SInv, NEW c \in Clients, Renew(c) PROVE SInv'
  BY Renewed DEF Renew, env, Tasks

LEMMA SaveStep == ASSUME SInv, NEW c \in Clients, Save(c) PROVE SInv'
<1>1. TypeOK /\ Watcher \in Tasks /\ c \in Tasks /\ c # Watcher
  BY ServerAssumption DEF SInv, Tasks, ServerAssumption
<1> DEFINE x == [client[c] EXCEPT !.req = "none"]
           y == [task[c] EXCEPT !.pc = "saved"]
<1>2. /\ client[c] \in ClientStates /\ client[c].req = "call"
      /\ task[c] \in TaskStates /\ task[c].pc = "none"
  BY <1>1 DEF Save, Asks, At, TypeOK
<1>3. client' = [client EXCEPT ![c] = x]
  BY <1>1 DEF Save, TypeOK, ClientStates
<1>4. task' = [task EXCEPT ![c] = y]
  BY <1>1 DEF Save, TypeOK, TaskStates
<1>5. UNCHANGED <<script, saves, seen, conns>> /\ dir' = dir + 1 /\ dir' \in Nat \ {0}
  BY <1>1 DEF Save, MoveDir, TypeOK
<1>6. /\ x \in ClientStates /\ x.req = "none" /\ x.listed = client[c].listed
      /\ x.noticed = client[c].noticed /\ x.missed = client[c].missed
      /\ x.wants = client[c].wants /\ x.early = client[c].early
      /\ x.holds = client[c].holds
  BY <1>2 DEF ClientStates
<1>7. y \in TaskStates /\ y.pc = "saved"
  BY <1>2 DEF TaskStates, Pcs
<1> HIDE DEF x, y
<1>8. TypeOK'
  BY <1>1, <1>3, <1>4, <1>5, <1>6, <1>7 DEF TypeOK
<1>9. /\ client'[c] = x /\ \A k \in Clients \ {c} : client'[k] = client[k]
      /\ task'[c] = y /\ \A u \in Tasks \ {c} : task'[u] = task[u]
  BY <1>1, <1>3, <1>4 DEF TypeOK
<1>10. ASSUME NEW k \in Clients, NEW l \in Lists PROVE ToBeTold(k, l)' <=> ToBeTold(k, l)
  <2>1. \A u \in Tasks : Tells(u, l)' /\ k \in task'[u].toTell <=> Tells(u, l) /\ k \in task[u].toTell
    BY <1>2, <1>7, <1>9 DEF Tells, At
  <2> QED
    BY <2>1 DEF ToBeTold
<1>11. ASSUME NEW k \in Clients
       PROVE  /\ \A l \in Lists : /\ Owed(client'[k], l) => Owed(client[k], l)
                                  /\ Untold(client'[k], l) <=> Untold(client[k], l)
                                  /\ Believing(client'[k], l) => Believing(client[k], l)
              /\ Scanning(client'[k]) => Scanning(client[k])
              /\ client'[k].holds = client[k].holds /\ client'[k].early = client[k].early
              /\ client'[k].wants = client[k].wants
              /\ Scanning(client'[k]) => client'[k].allowed = client[k].allowed
  <2>1. CASE k = c
    BY <1>2, <1>6, <1>9, <2>1 DEF Owed, Asking, Untold, Believing, Scanning, Lists
  <2>2. CASE k # c
    <3>1. client'[k] = client[k]
      BY <1>9, <2>2
    <3> QED
      BY <3>1
  <2> QED
    BY <2>1, <2>2
<1>12. \A k \in Clients : Reached(k)'
  BY <1>5, <1>10, <1>11 DEF SInv, Reached
<1>13. ASSUME NEW k \in Clients PROVE Honest(k)
  <2>1. "tools" \in Lists /\ "downloads" \in Lists
    BY DEF Lists
  <2>2. \A l \in Lists : Believes(k, l)' => Believes(k, l)
    BY <1>10, <1>11 DEF Believes
  <2>3. Scans(k)' => Scans(k) /\ client'[k].allowed = client[k].allowed
    BY <1>10, <1>11, <2>1 DEF Scans
  <2> QED
    BY <1>11, <2>1, <2>2, <2>3 DEF Honest
<1>14. ~At(Watcher, "none") /\ ~At(Watcher, "none")' /\ task'[Watcher] = task[Watcher]
  <2>1. ~At(Watcher, "none")
    BY <1>2, Watched DEF Asks
  <2> QED
    BY <1>1, <1>9, <2>1 DEF At
<1>15. Grows /\ Unwatched' /\ (Beginning' <=> Beginning)
  BY <1>5, <1>14 DEF Grows, Unwatched, Beginning
<1>16. \E i, j \in Nat : Took(task[c], i, j)'
  <2>1. 1 \in 1..saves' /\ 1 \in 1..dir'
    <3>1. saves \in Nat \ {0}
      BY <1>1, PolicyTyped
    <3> QED
      BY <1>5, <3>1
  <2>2. Took(task[c], 1, 1)'
    BY <1>7, <1>9, <2>1 DEF Took
  <2> QED
    BY <2>2
<1> QED
  BY <1>5, <1>8, <1>9, <1>12, <1>13, <1>14, <1>15, <1>16, Onward

\* Who is told of a list, or dropped, does not believe it any more.
LEMMA TellStep ==
    ASSUME SInv, NEW t \in Tasks, NEW c \in Clients, NEW l \in Lists, Tell(t, c, l)
    PROVE  SInv'
<1>1. TypeOK /\ Watcher \in Tasks
  BY DEF SInv, Tasks
<1> DEFINE y == [task[t] EXCEPT !.toTell = @ \ {c}]
<1>2. /\ client[c] \in ClientStates /\ task[t] \in TaskStates
      /\ task[t].pc = IF l = "tools" THEN "telling tools" ELSE "telling downloads"
  BY <1>1 DEF Tell, Tells, At, TypeOK
<1>3. task' = [task EXCEPT ![t] = y] /\ UNCHANGED <<script, saves, dir, seen>>
  BY <1>1 DEF Tell, env, TypeOK, TaskStates
<1>4. /\ y \in TaskStates /\ y.pc = task[t].pc /\ y.allowed = task[t].allowed
      /\ y.toTell = task[t].toTell \ {c}
  BY <1>2 DEF TaskStates
<1> HIDE DEF y
<1>5. PICK x \in ClientStates :
        /\ client' = [client EXCEPT ![c] = x]
        /\ x.req = client[c].req /\ x.allowed = client[c].allowed
        /\ x.listed = client[c].listed /\ x.holds = client[c].holds
        /\ x.wants = client[c].wants /\ x.early = client[c].early
        /\ client[c].noticed \subseteq x.noticed /\ client[c].missed \subseteq x.missed
        /\ l \in x.wants => ~Untold(x, l)
        /\ \/ conns' = conns
           \/ conns' = conns \ {c} /\ \A k \in Lists : k \in x.wants => ~Untold(x, k)
  <2>1. CASE /\ client' = [client EXCEPT ![c].noticed = @ \cup ({l} \cap client[c].wants)]
             /\ conns' = conns
    <3> DEFINE x == [client[c] EXCEPT !.noticed = @ \cup ({l} \cap client[c].wants)]
    <3>1. client' = [client EXCEPT ![c] = x]
      BY <1>1, <2>1 DEF TypeOK, ClientStates
    <3>2. /\ x \in ClientStates /\ x.noticed = client[c].noticed \cup ({l} \cap client[c].wants)
          /\ x.missed = client[c].missed /\ x.req = client[c].req /\ x.allowed = client[c].allowed
          /\ x.listed = client[c].listed /\ x.holds = client[c].holds
          /\ x.wants = client[c].wants /\ x.early = client[c].early
      BY <1>2 DEF ClientStates
    <3> HIDE DEF x
    <3> QED
      BY <2>1, <3>1, <3>2 DEF Untold
  <2>2. CASE /\ client' = [client EXCEPT ![c].missed = @ \cup ({l} \cap client[c].wants)]
             /\ conns' = conns
    <3> DEFINE x == [client[c] EXCEPT !.missed = @ \cup ({l} \cap client[c].wants)]
    <3>1. client' = [client EXCEPT ![c] = x]
      BY <1>1, <2>2 DEF TypeOK, ClientStates
    <3>2. /\ x \in ClientStates /\ x.missed = client[c].missed \cup ({l} \cap client[c].wants)
          /\ x.noticed = client[c].noticed /\ x.req = client[c].req /\ x.allowed = client[c].allowed
          /\ x.listed = client[c].listed /\ x.holds = client[c].holds
          /\ x.wants = client[c].wants /\ x.early = client[c].early
      BY <1>2 DEF ClientStates
    <3> HIDE DEF x
    <3> QED
      BY <2>2, <3>1, <3>2 DEF Untold
  <2>3. CASE /\ client' = [client EXCEPT ![c].missed = @ \cup (Lists \cap client[c].wants)]
             /\ conns' = conns \ {c}
    <3> DEFINE x == [client[c] EXCEPT !.missed = @ \cup (Lists \cap client[c].wants)]
    <3>1. client' = [client EXCEPT ![c] = x]
      BY <1>1, <2>3 DEF TypeOK, ClientStates
    <3>2. /\ x \in ClientStates /\ x.missed = client[c].missed \cup (Lists \cap client[c].wants)
          /\ x.noticed = client[c].noticed /\ x.req = client[c].req /\ x.allowed = client[c].allowed
          /\ x.listed = client[c].listed /\ x.holds = client[c].holds
          /\ x.wants = client[c].wants /\ x.early = client[c].early
      BY <1>2 DEF ClientStates
    <3> HIDE DEF x
    <3> QED
      BY <2>3, <3>1, <3>2 DEF Untold
  <2> QED
    BY <2>1, <2>2, <2>3 DEF Tell
<1>6. /\ client'[c] = x /\ \A k \in Clients \ {c} : client'[k] = client[k]
      /\ task'[t] = y /\ \A u \in Tasks \ {t} : task'[u] = task[u]
  BY <1>1, <1>3, <1>5 DEF TypeOK
<1>7. TypeOK'
  BY <1>1, <1>3, <1>4, <1>5 DEF TypeOK
<1>8. ASSUME NEW k \in Clients, NEW m \in Lists, k # c \/ m # l, ToBeTold(k, m)
      PROVE  ToBeTold(k, m)'
  <2>1. PICK u \in Tasks : Tells(u, m) /\ k \in task[u].toTell
    BY <1>8 DEF ToBeTold
  <2>2. CASE u = t
    <3>1. m = l
      BY <1>2, <2>1, <2>2 DEF Tells, At, Lists
    <3> QED
      BY <1>4, <1>6, <1>8, <2>1, <2>2, <3>1 DEF ToBeTold, Tells, At
  <2>3. CASE u # t
    <3>1. task'[u] = task[u]
      BY <1>6, <2>3
    <3> QED
      BY <2>1, <3>1 DEF ToBeTold, Tells, At
  <2> QED
    BY <2>2, <2>3
<1>9. "tools" \in Lists /\ "downloads" \in Lists
  BY DEF Lists
<1>10. ASSUME NEW m \in Lists, Owed(client'[c], m), Untold(client'[c], m)
       PROVE  m # l /\ conns' = conns /\ Owed(client[c], m) /\ Untold(client[c], m)
  <2>1. Owed(client[c], m) /\ Untold(client[c], m)
    BY <1>5, <1>6, <1>10 DEF Owed, Asking, Untold
  <2>2. m \in x.wants
    BY <1>5, <2>1 DEF SInv, Reached
  <2> QED
    BY <1>5, <1>6, <1>10, <2>1, <2>2
<1>11. ASSUME NEW k \in Clients PROVE Reached(k)'
  <2>1. CASE k = c
    <3>1. \A m \in Lists : Owed(client'[c], m) => m \in client'[c].wants
      BY <1>5, <1>6 DEF SInv, Reached, Owed, Asking
    <3>2. \A m \in Lists : Owed(client'[c], m) /\ Untold(client'[c], m) /\ ~ToBeTold(c, m)' => c \in conns'
      BY <1>8, <1>10 DEF SInv, Reached
    <3> QED
      BY <2>1, <3>1, <3>2 DEF Reached
  <2>2. CASE k # c
    <3>1. client'[k] = client[k] /\ (k \in conns => k \in conns')
      BY <1>5, <1>6, <2>2
    <3> QED
      BY <1>8, <2>2, <3>1 DEF SInv, Reached
  <2> QED
    BY <2>1, <2>2
<1>12. ASSUME NEW k \in Clients PROVE Honest(k)
  <2>1. \A m \in Lists : Believes(k, m)' => Believes(k, m)
    <3>1. CASE k = c
      <4> SUFFICES ASSUME NEW m \in Lists, Believes(c, m)' PROVE Believes(c, m)
        BY <3>1
      <4>1. Believing(client'[c], m) /\ ~ToBeTold(c, m)'
        BY DEF Believes
      <4>2. m # l /\ Believing(client[c], m)
        BY <1>5, <1>6, <1>10, <4>1 DEF Believing, Owed, Asking, Untold
      <4> QED
        BY <1>8, <4>1, <4>2 DEF Believes
    <3>2. CASE k # c
      BY <1>6, <1>8, <3>2 DEF Believes
    <3> QED
      BY <3>1, <3>2
  <2>2. Scans(k)' => Scans(k)
    <3>1. CASE k = c
      <4> SUFFICES ASSUME Scans(c)' PROVE Scans(c)
        BY <3>1
      <4>1. Scanning(client'[c]) /\ ~ToBeTold(c, "downloads")'
        BY DEF Scans
      <4>2. l # "downloads" /\ Scanning(client[c])
        BY <1>5, <1>6, <1>9, <1>10, <4>1 DEF Scanning, Owed, Asking, Untold
      <4> QED
        BY <1>8, <1>9, <4>1, <4>2 DEF Scans
    <3>2. CASE k # c
      BY <1>6, <1>8, <1>9, <3>2 DEF Scans
    <3> QED
      BY <3>1, <3>2
  <2>3. /\ client'[k].holds = client[k].holds /\ client'[k].early = client[k].early
        /\ client'[k].allowed = client[k].allowed
    BY <1>5, <1>6
  <2> QED
    BY <1>9, <2>1, <2>2, <2>3 DEF Honest
<1>13. ~At(Watcher, "none")
  BY <1>2, Busy DEF At
<1>14. task'[Watcher].pc = task[Watcher].pc
  BY <1>1, <1>4, <1>6
<1>15. Grows /\ Unwatched' /\ ~At(Watcher, "none")' /\ (Beginning' <=> Beginning)
  BY <1>3, <1>13, <1>14 DEF Grows, Unwatched, Beginning, At
<1>16. \E i, j \in Nat : Took(task[t], i, j)'
  <2>1. PICK i, j \in Nat : Took(task[t], i, j)
    BY DEF SInv
  <2>2. Took(task[t], i, j)'
    BY <1>2, <1>3, <1>4, <1>6, <2>1 DEF Took
  <2> QED
    BY <2>2
<1>17. \A u \in Tasks : task'[u] = task[u] \/ \E i, j \in Nat : Took(task[u], i, j)'
  BY <1>6, <1>16
<1>18. Beginning => t # Watcher
  BY <1>2 DEF Beginning
<1> QED
  BY <1>3, <1>6, <1>7, <1>11, <1>12, <1>13, <1>15, <1>17, <1>18, Onward

------------------------------------------------------------------------------
\* The listing is a positive number wherever a download tool is on.
LEMMA NoneOrListing ==
    ASSUME NEW a, NEW n
    PROVE  Scan(a, n) = IF a \cap DownloadTools # {} THEN n ELSE 0
  BY DEF Scan

\* A sight of the tools that is what is offered is what every believer holds.
LEMMA ToolsNotMissed ==
    ASSUME TypeOK, NoReturn, NEW s, ToolsSight(s), NEW c \in Clients,
           Believes(c, "tools"), seen.tools = policy
    PROVE  client[c].holds.tools = policy
<1>1. PICK h \in s..saves : client[c].holds.tools = script[h]
  BY DEF ToolsSight
<1>2. s \in 1..Len(script) /\ h \in 1..Len(script) /\ saves \in 1..Len(script)
  BY <1>1 DEF ToolsSight, TypeOK
<1>3. script[s] = script[saves]
  BY DEF ToolsSight, policy
<1>4. CASE s < h /\ h < saves
  BY <1>1, <1>2, <1>3, <1>4 DEF NoReturn, policy
<1>5. CASE h = s \/ h = saves
  BY <1>1, <1>3, <1>5 DEF policy
<1> QED
  BY <1>1, <1>2, <1>4, <1>5

LEMMA DirNotMissed ==
    ASSUME TypeOK, NoReturn, NEW i, NEW j, DirSight(i, j), NEW c \in Clients,
           Believes(c, "downloads"), ~client[c].early,
           seen.downloads = Scan(policy, dir)
    PROVE  client[c].holds.downloads = Scan(policy, dir)
<1> DEFINE On(k) == script[k] \cap DownloadTools # {}
<1>1. PICK h \in i..saves, d \in j..dir : client[c].holds.downloads = Scan(script[h], d)
  BY DEF DirSight
<1>2. /\ i \in 1..Len(script) /\ h \in 1..Len(script) /\ saves \in 1..Len(script)
      /\ i <= h /\ h <= saves
  BY <1>1 DEF DirSight, TypeOK
<1>3. j \in Nat \ {0} /\ dir \in Nat \ {0} /\ d \in Nat /\ j <= d /\ d <= dir
  BY <1>1 DEF DirSight, TypeOK
<1>4. /\ Scan(script[i], j) = IF On(i) THEN j ELSE 0
      /\ Scan(script[h], d) = IF On(h) THEN d ELSE 0
      /\ Scan(policy, dir) = IF On(saves) THEN dir ELSE 0
  BY NoneOrListing DEF policy
<1>5. Scan(script[i], j) = Scan(policy, dir)
  BY DEF DirSight
<1>6. (On(i) <=> On(saves)) /\ (On(i) => j = dir)
  BY <1>3, <1>4, <1>5
<1>7. On(h) <=> On(i)
  <2>1. CASE i < h /\ h < saves
    BY <1>2, <1>6, <2>1 DEF NoReturn
  <2>2. CASE h = i \/ h = saves
    BY <1>6, <2>2
  <2> QED
    BY <1>2, <2>1, <2>2
<1> HIDE DEF On
<1> QED
  BY <1>1, <1>3, <1>4, <1>6, <1>7

LEMMA SInvMeans == SInv => NobodyMissed
<1> SUFFICES ASSUME SInv, NoReturn, NEW c \in Clients, NEW l \in Lists,
                    LeftBehind(c, l), ~Excused(c, l)
             PROVE  FALSE
  BY DEF NobodyMissed
<1>1. TypeOK
  BY DEF SInv
<1>2. Believes(c, l) /\ client[c].listed # {}
  BY DEF LeftBehind, Outdated, Believes, Believing, Asking, Untold, ToBeTold, Asks, Lists
<1>3. ~At(Watcher, "none")
  BY <1>2 DEF SInv, Unwatched
<1>4. CASE l = "tools"
  <2>1. PICK s \in Nat : ToolsSight(s)
    BY <1>3 DEF SInv
  <2>2. seen.tools = policy /\ client[c].holds.tools # policy
    BY <1>4 DEF LeftBehind, Outdated, Offered
  <2> QED
    BY <1>1, <1>2, <1>4, <2>1, <2>2, ToolsNotMissed
<1>5. CASE l = "downloads"
  <2>1. PICK i, j \in Nat : DirSight(i, j)
    BY <1>3, <1>5 DEF SInv, LeftBehind
  <2>2. /\ seen.downloads = Scan(policy, dir)
        /\ client[c].holds.downloads # Scan(policy, dir)
        /\ ~client[c].early
    BY <1>5 DEF LeftBehind, Outdated, Offered, Excused
  <2> QED
    BY <1>1, <1>2, <1>5, <2>1, <2>2, DirNotMissed
<1> QED
  BY <1>4, <1>5 DEF Lists

------------------------------------------------------------------------------
LEMMA SInvNext == SInv /\ [Next]_vars => SInv'
<1> SUFFICES ASSUME SInv, [Next]_vars PROVE SInv'
  OBVIOUS
<1>1. ASSUME NEW t \in Tasks, TaskSteps(t) PROVE SInv'
  BY <1>1, ScanDirStep, AllToldStep, TellStep DEF TaskSteps
<1>2. CASE SetPolicy \/ DirMoves
  BY <1>2, EnvSteps
<1>3. CASE WatcherSteps
  BY <1>1, <1>3, StartStep, FirstSightStep, LookStep, CompareStep DEF WatcherSteps, Tasks
<1>4. ASSUME NEW c \in Clients, NEW what \in Lists \cup {"call"}, Request(c, what) PROVE SInv'
  BY <1>4, RequestStep
<1>5. ASSUME NEW c \in Clients, Answers(c) PROVE SInv'
  BY <1>5, AnswerToolsStep, ReadPolicyStep, AnswerDownloadsStep, SaveStep, OtherCallStep DEF Answers
<1>6. ASSUME NEW c \in Clients, CallSteps(c) PROVE SInv'
  BY <1>1, <1>6, AnnounceStep, RenewStep DEF CallSteps, Tasks
<1>7. ASSUME NEW c \in Clients, Close(c) PROVE SInv'
  BY <1>7, CloseStep
<1>8. CASE UNCHANGED vars
  BY <1>8, EnvSteps
<1> QED
  BY <1>2, <1>3, <1>4, <1>5, <1>6, <1>7, <1>8 DEF Next

(***************************************************************************)
(* PolicyServer: "A client is told when that happens, so it can ask        *)
(* again."  For every number of clients and calls, every succession of     *)
(* policies and any number of downloads, no connected client is left with  *)
(* a list that is not offered any more and of which it will not hear,      *)
(* but for the excuses that NobodyMissed names.                            *)
(***************************************************************************)
THEOREM NobodyMissedAlways == Spec => []NobodyMissed
<1>1. Spec => []SInv
  BY SInvInit, SInvNext, PTL DEF Spec
<1> QED
  BY <1>1, SInvMeans, PTL
=============================================================================
