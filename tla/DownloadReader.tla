---------------------------- MODULE DownloadReader ----------------------------
(***************************************************************************)
(* files/resources.py and files/delivery.py: a download read back by its   *)
(* link, beside the downloads and clean-ups of DownloadStore.  The tool    *)
(* read_download and a resources/read take the same steps: the name is     *)
(* looked up on disk, the file found is measured, and then it is read;     *)
(* nothing holds it between them.  Which shape the bytes are answered in   *)
(* is left out.                                                            *)
(***************************************************************************)
EXTENDS DownloadStore

CONSTANTS Readers,      \* the readings, in whatever process
          Large,        \* the bytes beyond MAX_INLINE
          OnlyAnswered  \* bound: whether every link followed is one a download answered with

ASSUME ReaderAssumption == /\ Large \subseteq {Content[d] : d \in Downloads}
                           /\ OnlyAnswered \in BOOLEAN

VARIABLE reading  \* the state of each reading

readVars == <<disk, task, clock, lost, stuck, reading>>

Unread == [pc |-> "idle", name |-> 0, of |-> {}, got |-> {}]

ReadInit == Init /\ reading = [r \in Readers |-> Unread]

Ends(r, pc) == reading' = [reading EXCEPT ![r].pc = pc]

\* The downloads that were answered with the link to n.
Linked(n) == {d \in Downloads : At(d, "done") /\ Name(d) = n}

\* resolve: a link a client holds from a list, a download or an earlier run.
Resolve(r, n) ==
    /\ reading[r].pc = "idle"
    /\ OnlyAnswered => Linked(n) # {}
    /\ reading' = [reading EXCEPT ![r].pc = IF There(n) THEN "measuring" ELSE "gone",
                                  ![r].name = n,
                                  ![r].of = Linked(n)]
    /\ UNCHANGED vars

IsLarge(n) == disk[n].kind = "whole" /\ disk[n].bytes \subseteq Large

\* Measured before it is read. A file that went is the operating system's refusal.
Measure_Never(r) ==
    /\ reading[r].pc = "measuring"
    /\ Ends(r, "reading")
    /\ UNCHANGED vars
Measure(r) ==
    /\ reading[r].pc = "measuring"
    /\ Ends(r, IF ~There(reading[r].name) THEN "gone"
               ELSE IF IsLarge(reading[r].name) THEN "too large"
               ELSE "reading")
    /\ UNCHANGED vars

\* What is there by now, whole or not.
ReadBytes(r) ==
    /\ reading[r].pc = "reading"
    /\ IF There(reading[r].name)
       THEN reading' = [reading EXCEPT ![r].pc = "read", ![r].got = disk[reading[r].name].bytes]
       ELSE Ends(r, "gone")
    /\ UNCHANGED vars

Read(r) == (\E n \in Names : Resolve(r, n)) \/ Measure(r) \/ ReadBytes(r)

ReadNext == \/ Next /\ UNCHANGED reading
            \/ \E r \in Readers : Read(r)

ReadSpec == ReadInit /\ [][ReadNext]_readVars

------------------------------------------------------------------------------
(***************************************************************************)
(* resources: "a link either works in both or in neither", and one that a  *)
(* download reported reads that download's bytes, whole and within the     *)
(* ceiling, or says that they are too large, which they are; unless a      *)
(* clean-up removed the file, even between two steps of the reading, and   *)
(* whatever was saved under its name since.                                *)
(***************************************************************************)
ReadsBack ==
    \A r \in Readers : \A d \in reading[r].of \ lost :
        /\ reading[r].pc # "gone"
        /\ reading[r].pc = "read" => reading[r].got = {Content[d]} /\ Content[d] \notin Large
        /\ reading[r].pc = "too large" => Content[d] \in Large
==============================================================================
