---------------------------- MODULE DownloadStore ----------------------------
(***************************************************************************)
(* files/storage.py and files/delivery.py: the download directory, which   *)
(* every download writes to and then cleans, each in a worker thread of    *)
(* its own and in any number of server processes at once.  There is no     *)
(* lock: what keeps two downloads apart is that a file is created          *)
(* exclusively, under the first free name of its candidates.               *)
(*                                                                         *)
(* A task is a download or a server start, which only cleans.  Every call  *)
(* into the file system is a step.  A file is made by one create, and a    *)
(* task that writes on writes to the file it made, also when its name is   *)
(* gone or names another file by then.  Names are numbers in alphabetical  *)
(* order, and every file in the directory could be a download, see         *)
(* _could_be_a_download.  The directory exists, and no file is moved there *)
(* by hand.                                                                *)
(***************************************************************************)
EXTENDS Naturals, Sequences, FiniteSets

CONSTANTS Downloads,   \* the downloads, in whatever process
          Starts,      \* the server starts
          Names,       \* file names
          Candidates,  \* Candidates[d]: the names _candidates yields for d, in order
          Content,     \* Content[d]: the bytes d brings
          Keep,        \* downloads_kept(), and 0 where that is None
          MaxTime      \* bound: the last tick of the file system's clock

Tasks == Downloads \cup Starts

ASSUME StoreAssumption == /\ Downloads \cap Starts = {}
                          /\ Names \subseteq Nat
                          /\ Candidates \in [Downloads -> Seq(Names)]
                          /\ \A d \in Downloads : Candidates[d] # << >>
                          /\ Keep \in Nat
                          /\ MaxTime \in Nat

VARIABLES disk,    \* the file under each name
          task,    \* the local state of each task
          clock,   \* what a file's modification time is taken from
          lost,    \* history: the downloads whose file a clean-up removed
          stuck    \* history: whether some file could not be deleted

vars == <<disk, task, clock, lost, stuck>>

NoFile == [kind |-> "absent", maker |-> {}, bytes |-> {}, mtime |-> 0]

\* A file that holds less than a download: being written, cut off, or touched
\* into being. Nobody, the empty set, goes on writing the last.
Part(maker) == [kind |-> "part", maker |-> maker, bytes |-> {}, mtime |-> clock]

There(n) == disk[n].kind # "absent"

Holds(n, bytes) == disk[n].kind = "whole" /\ disk[n].bytes = {bytes}

Idle == [pc |-> "idle", at |-> 1, toSee |-> {}, seen |-> {}, doomed |-> {}]

\* A file from an earlier run.
Old(d) == [kind |-> "whole", maker |-> {}, bytes |-> {Content[d]}, mtime |-> 0]

Init == /\ disk \in [Names -> {NoFile} \cup {Old(d) : d \in Downloads}]
        /\ task = [t \in Tasks |-> Idle]
        /\ clock = 1
        /\ lost = {}
        /\ stuck = FALSE

Tick == /\ clock < MaxTime
        /\ clock' = clock + 1
        /\ UNCHANGED <<disk, task, lost, stuck>>

\* The name d tries, writes, compares or answers with.
Name(d) == Candidates[d][task[d].at]

At(t, pc) == task[t].pc = pc

Goto(t, pc) == task' = [task EXCEPT ![t].pc = pc]

\* The downloads that made or found their file under n, and rely on it.
Relying(n) == {d \in Downloads :
                  /\ Name(d) = n
                  /\ task[d].pc \in {"writing", "undoing", "renewing", "pruning", "looking",
                                     "unlinking", "linking", "done"}}

------------------------------------------------------------------------------
\* save: the first name nobody has, or one that holds these very bytes.
Download(d) ==
    /\ At(d, "idle")
    /\ Goto(d, "creating")
    /\ UNCHANGED <<disk, clock, lost, stuck>>

Create_Overwrites(d) ==
    /\ At(d, "creating")
    /\ IF Holds(Name(d), Content[d])
       THEN Goto(d, "asking") /\ UNCHANGED disk
       ELSE /\ disk' = [disk EXCEPT ![Name(d)] = Part({d})]
            /\ Goto(d, "writing")
    /\ UNCHANGED <<clock, lost, stuck>>
Create(d) ==
    /\ At(d, "creating")
    /\ IF There(Name(d))
       THEN Goto(d, "asking") /\ UNCHANGED disk
       ELSE /\ disk' = [disk EXCEPT ![Name(d)] = Part({d})]
            /\ Goto(d, "writing")
    /\ UNCHANGED <<clock, lost, stuck>>

\* The bytes go to the file this task made, which may be nameless by now.
Write(d) ==
    /\ At(d, "writing")
    /\ disk' = IF There(Name(d)) /\ disk[Name(d)].maker = {d}
               THEN [disk EXCEPT ![Name(d)].kind = "whole",
                                 ![Name(d)].bytes = {Content[d]},
                                 ![Name(d)].mtime = clock]
               ELSE disk
    /\ Goto(d, "pruning")
    /\ UNCHANGED <<clock, lost, stuck>>

WriteFails(d) ==
    /\ At(d, "writing")
    /\ Goto(d, "undoing")
    /\ UNCHANGED <<disk, clock, lost, stuck>>

\* The half-written name is removed, whatever file it names now.
Undo(d) ==
    /\ At(d, "undoing")
    /\ Goto(d, "failed")
    /\ \/ /\ disk' = [disk EXCEPT ![Name(d)] = NoFile]
          /\ lost' = IF d \in lost THEN lost \cup Relying(Name(d)) ELSE lost
          /\ UNCHANGED stuck
       \/ /\ There(Name(d))
          /\ stuck' = TRUE
          /\ UNCHANGED <<disk, lost>>
    /\ UNCHANGED clock

\* The next candidate, or the error that there are too many files so named.
TryNext(d) ==
    task' = IF task[d].at < Len(Candidates[d])
            THEN [task EXCEPT ![d].pc = "creating", ![d].at = @ + 1]
            ELSE [task EXCEPT ![d].pc = "failed"]

\* is_file, for a name that was taken a moment ago.
IsFile(d) ==
    /\ At(d, "asking")
    /\ IF There(Name(d)) THEN Goto(d, "reading") ELSE TryNext(d)
    /\ UNCHANGED <<disk, clock, lost, stuck>>

Same_AnyWhole(d) == disk[Name(d)].kind = "whole"
Same(d) == Holds(Name(d), Content[d])

\* read_bytes, which fails for a file that went since is_file.
Compare(d) ==
    /\ At(d, "reading")
    /\ IF ~There(Name(d)) THEN Goto(d, "failed")
       ELSE IF Same(d) THEN Goto(d, "renewing")
       ELSE TryNext(d)
    /\ UNCHANGED <<disk, clock, lost, stuck>>

\* touch renews the modification time, and creates a file that is not there.
Touch(d) ==
    /\ At(d, "renewing")
    /\ disk' = IF There(Name(d)) THEN [disk EXCEPT ![Name(d)].mtime = clock]
               ELSE [disk EXCEPT ![Name(d)] = Part({})]
    /\ Goto(d, "pruning")
    /\ UNCHANGED <<clock, lost, stuck>>

------------------------------------------------------------------------------
\* prune_for: after a download, and when a server starts.
Start(s) ==
    /\ At(s, "idle")
    /\ Goto(s, "pruning")
    /\ UNCHANGED <<disk, clock, lost, stuck>>

Cleaned(t) == IF t \in Downloads THEN "linking" ELSE "done"

\* newest lists the directory, and looks at each file it listed afterwards.
List(t) ==
    /\ At(t, "pruning")
    /\ task' = IF Keep = 0 THEN [task EXCEPT ![t].pc = Cleaned(t)]
               ELSE [task EXCEPT ![t].pc = "looking",
                                 ![t].toSee = {n \in Names : There(n)}]
    /\ UNCHANGED <<disk, clock, lost, stuck>>

Look(t, n) ==
    /\ At(t, "looking")
    /\ n \in task[t].toSee
    /\ task' = [task EXCEPT ![t].toSee = @ \ {n},
                            ![t].seen = IF There(n) THEN @ \cup {<<n, disk[n].mtime>>}
                                        ELSE @]
    /\ UNCHANGED <<disk, clock, lost, stuck>>

\* Newest first, and by name where two files share a modification time.
Before(a, b) == a[2] > b[2] \/ (a[2] = b[2] /\ a[1] < b[1])

BeyondBound_OneMore(seen) ==
    {f \in seen : Cardinality({g \in seen : Before(g, f)}) > Keep}
BeyondBound(seen) ==
    {f \in seen : Cardinality({g \in seen : Before(g, f)}) >= Keep}

Sorted(t) ==
    /\ At(t, "looking")
    /\ task[t].toSee = {}
    /\ task' = [task EXCEPT ![t].pc = "unlinking", ![t].seen = {},
                            ![t].doomed = BeyondBound(task[t].seen)]
    /\ UNCHANGED <<disk, clock, lost, stuck>>

\* The doomed go in the order of the scan. One that cannot be deleted is left.
Unlink(t) ==
    /\ At(t, "unlinking")
    /\ \E f \in task[t].doomed :
        /\ \A g \in task[t].doomed : g = f \/ Before(f, g)
        /\ task' = [task EXCEPT ![t].doomed = @ \ {f}]
        /\ \/ /\ disk' = [disk EXCEPT ![f[1]] = NoFile]
              /\ lost' = lost \cup Relying(f[1])
              /\ UNCHANGED stuck
           \/ /\ There(f[1])
              /\ stuck' = TRUE
              /\ UNCHANGED <<disk, lost>>
    /\ UNCHANGED clock

AllUnlinked(t) ==
    /\ At(t, "unlinking")
    /\ task[t].doomed = {}
    /\ Goto(t, Cleaned(t))
    /\ UNCHANGED <<disk, clock, lost, stuck>>

\* resources.link looks at the file once more, for its size, and may not find it.
Link(d) ==
    /\ At(d, "linking")
    /\ Goto(d, IF There(Name(d)) THEN "done" ELSE "failed")
    /\ UNCHANGED <<disk, clock, lost, stuck>>

Ended(t) == task[t].pc \in {"done", "failed", "killed"}

\* The process is ended from outside, in the middle of anything; an error of open,
\* compare or touch, a permission taken away, ends a task no differently.
Killed(t) ==
    /\ ~At(t, "idle") /\ ~Ended(t)
    /\ Goto(t, "killed")
    /\ UNCHANGED <<disk, clock, lost, stuck>>

Save(d) == \/ Download(d) \/ Create(d) \/ Write(d) \/ WriteFails(d) \/ Undo(d)
           \/ IsFile(d) \/ Compare(d) \/ Touch(d)

Prune(t) == \/ List(t) \/ (\E n \in Names : Look(t, n)) \/ Sorted(t)
            \/ Unlink(t) \/ AllUnlinked(t)

Next == \/ Tick
        \/ \E d \in Downloads : Save(d) \/ Link(d)
        \/ \E s \in Starts : Start(s)
        \/ \E t \in Tasks : Prune(t) \/ Killed(t)

Spec == Init /\ [][Next]_vars

------------------------------------------------------------------------------
Files == [kind : {"absent", "part", "whole"},
          maker : {{}} \cup {{d} : d \in Downloads},
          bytes : {{}} \cup {{Content[d]} : d \in Downloads},
          mtime : Nat]

PCs == {"idle", "creating", "writing", "undoing", "asking", "reading", "renewing",
        "pruning", "looking", "unlinking", "linking", "done", "failed", "killed"}

TaskStates == [pc : PCs, at : Nat \ {0}, toSee : SUBSET Names,
               seen : SUBSET (Names \X Nat), doomed : SUBSET (Names \X Nat)]

\* The types, and that no download runs past its last candidate.
TypeOK ==
    /\ disk \in [Names -> Files]
    /\ task \in [Tasks -> TaskStates]
    /\ \A d \in Downloads : task[d].at \in 1..Len(Candidates[d])
    /\ clock \in 1..(MaxTime + 1)
    /\ lost \in SUBSET Downloads
    /\ stuck \in BOOLEAN

(***************************************************************************)
(* save: "A file whose contents differ is never overwritten."  Whatever    *)
(* downloads run at once, are killed halfway or fail, the bytes of a whole *)
(* file stay what they are until the file is removed.                      *)
(***************************************************************************)
NothingReplaced ==
    [][\A n \in Names :
        disk[n].kind = "whole" =>
            \/ disk'[n].kind = "absent"
            \/ disk'[n].kind = "whole" /\ disk'[n].bytes = disk[n].bytes]_vars

(***************************************************************************)
(* What a download answered with names its own bytes, whole, unless a      *)
(* clean-up removed its file: it is no half file of a killed process, no   *)
(* file of another download of the same name, and no failing download      *)
(* withdraws it (but one whose own file a clean-up removed: it deletes by  *)
(* name, and the name may be somebody else's by then).                     *)
(***************************************************************************)
AnswerHolds ==
    \A d \in Downloads :
        At(d, "done") => Holds(Name(d), Content[d]) \/ d \in lost

(***************************************************************************)
(* prune: once nothing is under way and something was, the directory holds *)
(* no more than Keep files, however the clean-ups interleaved with the     *)
(* downloads and with one another, if every file could be deleted and no   *)
(* process was killed.                                                     *)
(***************************************************************************)
BoundKept ==
    (/\ Keep > 0
     /\ ~stuck
     /\ \A t \in Tasks : task[t].pc \in {"idle", "done", "failed"}
     /\ \E t \in Tasks : At(t, "done"))
        => Cardinality({n \in Names : There(n)}) <= Keep

(***************************************************************************)
(* save: "A name holds the whole file or nothing.  Half a file under it    *)
(* would be listed, read back broken, and keep the next download of the    *)
(* same bytes from ever reusing the name."  Less than a whole file is      *)
(* there only while it is being written or withdrawn, or after a process   *)
(* was killed or a deletion refused.                                       *)
(***************************************************************************)
WholeOrNothing ==
    \A n \in Names :
        disk[n].kind = "part" =>
            \E d \in Downloads :
                /\ disk[n].maker = {d}
                /\ task[d].pc \in {"writing", "undoing", "failed", "killed"}
==============================================================================
