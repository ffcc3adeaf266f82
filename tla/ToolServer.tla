------------------------------ MODULE ToolServer ------------------------------
(***************************************************************************)
(* server.py: the two lists a server offers, its tools and its downloads,  *)
(* and how clients hear that a list is not what they were given.           *)
(*                                                                         *)
(* The tool list is what the policy file enables, the download list what   *)
(* is in the download directory, where a download tool is enabled.  Both   *)
(* change under other processes' hands.  A watcher compares each list with *)
(* its last sight of it, and a call that saved a download announces the    *)
(* new list itself.  A task of the event loop runs from one await to the   *)
(* next; the directory is scanned in a thread, between two of its steps.   *)
(*                                                                         *)
(* A listing of the directory is a number, later ones being greater, and 0 *)
(* is the empty list.  A client lists again once it is told, but need not  *)
(* before.  A client that listens on the subscription bus is one more      *)
(* connection.                                                             *)
(***************************************************************************)
EXTENDS Naturals, Sequences

CONSTANTS Clients,        \* the connections there will ever be
          Tools,          \* the tools a policy can enable
          DownloadTools,  \* those that save or read downloads
          Watcher,        \* the watcher's task
          Wants,          \* what each client may ever ask for: lists, or a call
          Scripts,        \* the policies the file may successively hold
          MaxDir          \* bound: the last listing of the directory

ASSUME ServerAssumption == /\ DownloadTools \subseteq Tools
                           /\ Watcher \notin Clients
                           /\ Wants \subseteq [Clients -> SUBSET {"tools", "downloads", "call"}]
                           /\ MaxDir \in Nat
                           /\ Scripts \subseteq Seq(SUBSET Tools) \ {<< >>}

VARIABLES script,  \* what the settings page saves, one policy after the other
          saves,   \* how many of them it has saved
          dir,     \* the directory's listing
          seen,    \* _seen and _seen_downloads: the watcher's last sight of each list
          conns,   \* _connections
          task,    \* the watcher and the announcing calls
          client   \* what each client does and was given

env == <<script, saves, dir>>
vars == <<script, saves, dir, seen, conns, task, client>>

\* The tools the file enables.
policy == script[saves]

Lists == {"tools", "downloads"}

Tasks == {Watcher} \cup Clients

\* The download list under a reading of the policy.
Scan(allowed, listing) == IF allowed \cap DownloadTools = {} THEN 0 ELSE listing

Offered == [tools |-> policy, downloads |-> Scan(policy, dir)]

Away(wants) == [wants |-> wants, req |-> "none", allowed |-> {}, listed |-> {},
                holds |-> [tools |-> {}, downloads |-> 0],
                noticed |-> {}, missed |-> {}, early |-> FALSE]

NoTask == [pc |-> "none", allowed |-> {}, names |-> 0, toTell |-> {}]

Init == /\ script \in Scripts
        /\ saves = 1
        /\ dir = 1
        /\ seen = [tools |-> {}, downloads |-> 0]
        /\ conns = {}
        /\ task = [t \in Tasks |-> NoTask]
        /\ \E w \in Wants : client = [c \in Clients |-> Away(w[c])]

At(t, pc) == task[t].pc = pc

Asks(c, req) == client[c].req = req

------------------------------------------------------------------------------
\* What other processes do: the settings page saves a policy, another server
\* saves or removes a download.
SetPolicy == /\ saves < Len(script)
             /\ saves' = saves + 1
             /\ UNCHANGED <<script, dir, seen, conns, task, client>>

MoveDir == /\ dir < MaxDir
           /\ dir' = dir + 1
           /\ UNCHANGED <<script, saves>>

DirMoves == MoveDir /\ UNCHANGED <<seen, conns, task, client>>

------------------------------------------------------------------------------
Starting == [NoTask EXCEPT !.pc = "starting", !.allowed = policy]

\* _keep: the connection is remembered, and the first one starts the watcher.
Keep_WatchesAnew(c) ==
    /\ conns' = conns \cup {c}
    /\ seen' = [seen EXCEPT !.tools = policy]
    /\ task' = IF At(Watcher, "none") THEN [task EXCEPT ![Watcher] = Starting] ELSE task
Keep(c) ==
    /\ conns' = conns \cup {c}
    /\ IF At(Watcher, "none")
       THEN /\ seen' = [seen EXCEPT !.tools = policy]
            /\ task' = [task EXCEPT ![Watcher] = Starting]
       ELSE UNCHANGED <<seen, task>>

\* A client asks for a list, which settles what it was told of that list.
Request(c, l) ==
    /\ Asks(c, "none") /\ l \in client[c].wants
    /\ l \notin client[c].listed \ (client[c].noticed \cup client[c].missed)
    /\ Keep(c)
    /\ client' = [client EXCEPT ![c].req = l, ![c].noticed = @ \ {l},
                                ![c].missed = @ \ {l}]
    /\ UNCHANGED env

\* The watcher has no sight of the directory yet.
Beginning == task[Watcher].pc \in {"starting", "scanning first", "scanned first"}

\* list_tools: one reading of the file for the whole list.
AnswerTools(c) ==
    /\ Asks(c, "tools")
    /\ client' = [client EXCEPT ![c].req = "none", ![c].holds.tools = policy,
                                ![c].listed = @ \cup {"tools"}]
    /\ UNCHANGED <<env, seen, conns, task>>

\* list_resources: the file is read, and then the directory in a thread.
ReadPolicy(c) ==
    /\ Asks(c, "downloads")
    /\ client' = [client EXCEPT ![c].req = "scan", ![c].allowed = policy]
    /\ UNCHANGED <<env, seen, conns, task>>

AnswerDownloads(c) ==
    /\ Asks(c, "scan")
    /\ client' = [client EXCEPT ![c].req = "none", ![c].allowed = {},
                                ![c].listed = @ \cup {"downloads"},
                                ![c].holds.downloads = Scan(client[c].allowed, dir),
                                ![c].early = Beginning]
    /\ UNCHANGED <<env, seen, conns, task>>

\* The connection ends, and the weak set forgets it.
Close(c) ==
    /\ c \in conns /\ ~Asks(c, "closed")
    /\ conns' = conns \ {c}
    /\ client' = [client EXCEPT ![c] = [Away(client[c].wants) EXCEPT !.req = "closed"]]
    /\ UNCHANGED <<env, seen, task>>

------------------------------------------------------------------------------
\* A download tool runs in a call, and its file is in the directory. With no
\* tool for downloads enabled the call is refused.
Save(c) ==
    /\ Asks(c, "call") /\ At(c, "none")
    /\ policy \cap DownloadTools # {}
    /\ MoveDir
    /\ client' = [client EXCEPT ![c].req = "none"]
    /\ task' = [task EXCEPT ![c].pc = "saved"]
    /\ UNCHANGED <<seen, conns>>

OtherCall(c) ==
    /\ Asks(c, "call")
    /\ client' = [client EXCEPT ![c].req = "none"]
    /\ UNCHANGED <<env, seen, conns, task>>

\* _downloads_changed of a call: the policy is read afresh for the scan.
Announce(c) ==
    /\ At(c, "saved")
    /\ task' = [task EXCEPT ![c].pc = "scanning", ![c].allowed = policy]
    /\ UNCHANGED <<env, seen, conns, client>>

\* The watcher's task begins, with the reading it was started with.
Start == /\ At(Watcher, "starting")
         /\ task' = [task EXCEPT ![Watcher].pc = "scanning first"]
         /\ UNCHANGED <<env, seen, conns, client>>

\* The thread that scans the directory. A scan that the policy spares is a
\* step as well, which only adds to what can come between.
Scanned == [x \in {"scanning first", "scanning"} |->
                IF x = "scanning" THEN "scanned" ELSE "scanned first"]

ScanDir(t) ==
    /\ task[t].pc \in DOMAIN Scanned
    /\ task' = [task EXCEPT ![t].pc = Scanned[@],
                            ![t].names = Scan(task[t].allowed, dir)]
    /\ UNCHANGED <<env, seen, conns, client>>

TellingDownloads == [NoTask EXCEPT !.pc = "telling downloads", !.toTell = conns]

Asleep == [NoTask EXCEPT !.pc = "asleep"]

\* The first sight of the directory is told to nobody.
FirstSight ==
    /\ At(Watcher, "scanned first")
    /\ seen' = [seen EXCEPT !.downloads = task[Watcher].names]
    /\ task' = [task EXCEPT ![Watcher] = Asleep]
    /\ UNCHANGED <<env, conns, client>>

\* A turn: the policy first. What is seen is told to every connection there is.
Look ==
    /\ At(Watcher, "asleep")
    /\ seen' = [seen EXCEPT !.tools = policy]
    /\ task' = [task EXCEPT ![Watcher] =
                    [@ EXCEPT !.allowed = policy,
                              !.pc = IF policy # seen.tools THEN "telling tools" ELSE "scanning",
                              !.toTell = IF policy # seen.tools THEN conns ELSE {}]]
    /\ UNCHANGED <<env, conns, client>>

\* Then the directory: the scan is compared with the last sight, which a call
\* may have renewed since the scan was taken.
Compare ==
    /\ At(Watcher, "scanned")
    /\ IF task[Watcher].names # seen.downloads
       THEN /\ seen' = [seen EXCEPT !.downloads = task[Watcher].names]
            /\ task' = [task EXCEPT ![Watcher] = TellingDownloads]
       ELSE /\ task' = [task EXCEPT ![Watcher] = Asleep]
            /\ UNCHANGED seen
    /\ UNCHANGED <<env, conns, client>>

\* A call's scan is the last sight from then on, and told.
Renew(c) ==
    /\ At(c, "scanned")
    /\ seen' = [seen EXCEPT !.downloads = task[c].names]
    /\ task' = [task EXCEPT ![c] = TellingDownloads]
    /\ UNCHANGED <<env, conns, client>>

\* The list that task t is telling of, if any.
Tells(t, l) == At(t, IF l = "tools" THEN "telling tools" ELSE "telling downloads")

\* _tell, one connection at a time: it is told, or has no channel to be told
\* on, or fails and is dropped. A list it never asks for is no news to it.
Tell(t, c, l) ==
    /\ Tells(t, l) /\ c \in task[t].toTell
    /\ task' = [task EXCEPT ![t].toTell = @ \ {c}]
    /\ \/ /\ ~Asks(c, "closed")
          /\ client' = [client EXCEPT ![c].noticed = @ \cup ({l} \cap client[c].wants)]
          /\ UNCHANGED conns
       \/ /\ client' = [client EXCEPT ![c].missed = @ \cup ({l} \cap client[c].wants)]
          /\ UNCHANGED conns
       \/ /\ conns' = conns \ {c}
          /\ client' = [client EXCEPT ![c].missed = @ \cup (Lists \cap client[c].wants)]
    /\ UNCHANGED <<env, seen>>

AllTold_OnceOnly(t) ==
    /\ \E l \in Lists : Tells(t, l)
    /\ task[t].toTell = {}
    /\ task' = [task EXCEPT ![t] = NoTask]
    /\ UNCHANGED <<env, seen, conns, client>>
AllTold(t) ==
    /\ \E l \in Lists : Tells(t, l)
    /\ task[t].toTell = {}
    /\ task' = [task EXCEPT ![t] = IF Tells(t, "tools") THEN [@ EXCEPT !.pc = "scanning"]
                                   ELSE IF t = Watcher THEN Asleep
                                   ELSE NoTask]
    /\ UNCHANGED <<env, seen, conns, client>>

------------------------------------------------------------------------------
Answers(c) == AnswerTools(c) \/ ReadPolicy(c) \/ AnswerDownloads(c) \/ Save(c) \/ OtherCall(c)

TaskSteps(t) == ScanDir(t) \/ AllTold(t) \/ (\E c \in Clients, l \in Lists : Tell(t, c, l))

WatcherSteps == Start \/ FirstSight \/ Look \/ Compare \/ TaskSteps(Watcher)

CallSteps(c) == Announce(c) \/ Renew(c) \/ TaskSteps(c)

Next == \/ SetPolicy
        \/ DirMoves
        \/ WatcherSteps
        \/ \E c \in Clients : \/ \E what \in Lists \cup {"call"} : Request(c, what)
                              \/ Answers(c) \/ CallSteps(c) \/ Close(c)

Spec == Init /\ [][Next]_vars

\* The loop runs its tasks, a handler answers, and a client that was told of
\* a list asks for it again.
Fairness == /\ WF_vars(WatcherSteps)
            /\ \A c \in Clients :
                /\ WF_vars(CallSteps(c))
                /\ WF_vars(Answers(c))
                /\ \A l \in Lists : SF_vars(l \in client[c].noticed /\ Request(c, l))

FairSpec == Spec /\ Fairness

------------------------------------------------------------------------------
\* No list comes back to what it was before: no policy is saved twice but in a
\* row, and downloads are switched at most once.
NoReturn ==
    LET On(i) == script[i] \cap DownloadTools # {}
    IN  \A i, j, k \in 1..Len(script) :
            i < j /\ j < k => /\ script[i] # script[k] \/ script[i] = script[j]
                              /\ On(i) # On(k) \/ On(i) = On(j)

\* What c was given of l is not what is offered now. A telling that failed is
\* not held against the server.
Outdated(c, l) ==
    /\ c \in conns
    /\ l \in client[c].listed \ client[c].missed
    /\ client[c].holds[l] # Offered[l]

\* c is left with an outdated list: it has not been told, nor will be, as the
\* watcher's sight is what is offered and nobody is telling.
LeftBehind(c, l) ==
    /\ Outdated(c, l) /\ Asks(c, "none") /\ l \notin client[c].noticed
    /\ seen[l] = Offered[l] /\ (l = "downloads" => ~Beginning)
    /\ ~\E t \in Tasks : Tells(t, l) /\ c \in task[t].toTell

Excused(c, l) == l = "downloads" /\ client[c].early

(***************************************************************************)
(* PolicyServer: "A client is told when that happens, so it can ask        *)
(* again."  However the saves of the settings page, downloads of this and  *)
(* of other processes, stale scans and tellings interleave, no connected   *)
(* client is left with a list that is not offered any more, unless a       *)
(* telling failed, the list came back to what it was within a turn, or the *)
(* client listed before the watcher's first sight of the directory.        *)
(***************************************************************************)
NobodyMissed ==
    NoReturn => \A c \in Clients, l \in Lists : LeftBehind(c, l) => Excused(c, l)

(***************************************************************************)
(* _watch: "Notice a changed tool list or download list and say so."  Once *)
(* nothing changes any more, every client comes to hold what is offered,   *)
(* although a call that announces on its own can put an older scan in the  *)
(* watcher's sight and the watcher one in the call's.                      *)
(***************************************************************************)
EveryoneHears ==
    []<>(NoReturn => \A c \in Clients, l \in Lists : Outdated(c, l) => Excused(c, l))
=============================================================================
