------------------------- MODULE DownloadStoreProofs -------------------------
(***************************************************************************)
(* What holds of the download directory for any number of downloads,       *)
(* names, candidates, server starts and processes, and any bound.          *)
(*                                                                         *)
(* The induction rests on two facts.  Made: a file bears its maker's mark  *)
(* only once its maker has got past the choice of a name, and is not whole *)
(* while the maker is still to write it.  Relied: a download that made or  *)
(* found its file still has it under the name it chose, or a clean-up took *)
(* it and the download is counted as lost.  Made keeps a late write off    *)
(* other downloads' files, Relied a failing download's deletion.  The      *)
(* bound needs a third, Bounded, that stands before its proof.             *)
(***************************************************************************)
EXTENDS DownloadReader, FiniteSetTheorems, TLAPS

Choosing == {"idle", "creating", "asking", "reading", "renewing"}

Making == {"writing", "undoing"}

Keeping == {"renewing", "pruning", "looking", "unlinking", "linking", "done"}

Made == \A d \in Downloads : \A n \in Names :
            disk[n].maker = {d} =>
                /\ task[d].pc \notin Choosing
                /\ task[d].pc = "writing" => disk[n].kind = "part"

Relied == \A d \in Downloads :
            d \notin lost =>
                /\ task[d].pc \in Keeping => Holds(Name(d), Content[d])
                /\ task[d].pc \in Making => /\ disk[Name(d)].maker = {d}
                                            /\ disk[Name(d)].kind = "part"

Inv == TypeOK /\ Made /\ Relied

------------------------------------------------------------------------------
LEMMA NameTyped == ASSUME TypeOK, NEW d \in Downloads
                   PROVE  Name(d) \in Names
  BY StoreAssumption DEF TypeOK, Name

\* One task's record is replaced: by x, a record of the right type.
LEMMA TaskReplaced ==
    ASSUME TypeOK, NEW t \in Tasks, NEW x \in TaskStates,
           t \in Downloads => x.at \in 1..Len(Candidates[t]),
           task' = [task EXCEPT ![t] = x]
    PROVE  /\ task' \in [Tasks -> TaskStates]
           /\ \A d \in Downloads : task'[d].at \in 1..Len(Candidates[d])
           /\ \A u \in Tasks : u # t => task'[u] = task[u]
           /\ task'[t] = x
  <1>1. task \in [Tasks -> TaskStates]
    BY DEF TypeOK
  <1>2. \A u \in Tasks : task'[u] = IF u = t THEN x ELSE task[u]
    BY <1>1
  <1>3. \A d \in Downloads : task[d].at \in 1..Len(Candidates[d]) /\ d \in Tasks
    BY DEF TypeOK, Tasks
  <1>4. \A d \in Downloads : task'[d].at \in 1..Len(Candidates[d])
    BY <1>2, <1>3
  <1> QED BY <1>1, <1>2, <1>4

\* The same for a step that only moves task t on.
LEMMA WentTo ==
    ASSUME TypeOK, NEW t \in Tasks, NEW pc \in PCs, Goto(t, pc)
    PROVE  /\ task' \in [Tasks -> TaskStates]
           /\ \A d \in Downloads : task'[d].at \in 1..Len(Candidates[d])
           /\ \A u \in Tasks : u # t => task'[u] = task[u]
           /\ task'[t].pc = pc
           /\ task'[t].at = task[t].at
  <1> DEFINE x == [task[t] EXCEPT !.pc = pc]
  <1>1. task[t] \in TaskStates
    BY DEF TypeOK
  <1>2. x \in TaskStates /\ x.pc = pc /\ x.at = task[t].at
    BY <1>1 DEF TaskStates
  <1>3. task' = [task EXCEPT ![t] = x]
    BY DEF Goto
  <1>4. t \in Downloads => task[t].at \in 1..Len(Candidates[t])
    BY DEF TypeOK
  <1> HIDE DEF x
  <1> QED BY <1>2, <1>3, <1>4, TaskReplaced

\* A step that leaves the files alone and moves task t on: what t must have
\* been to be where it is now.
LEMMA MovedOn ==
    ASSUME Inv, NEW t \in Tasks, UNCHANGED <<disk, lost>>,
           \A u \in Tasks : u # t => task'[u] = task[u],
           task'[t].pc \in Choosing => task[t].pc \in Choosing,
           task'[t].pc = "writing" => task[t].pc = "writing",
           task'[t].pc \in Making => /\ task[t].pc \in Making
                                     /\ task'[t].at = task[t].at,
           task'[t].pc \in Keeping =>
                /\ task'[t].at = task[t].at
                /\ task[t].pc \in Keeping \/ (t \in Downloads => Holds(Name(t), Content[t]))
    PROVE  Made' /\ Relied'
  <1>1. \A d \in Downloads : d \in Tasks
    BY DEF Tasks
  <1>2. Made'
    <2> SUFFICES ASSUME NEW d \in Downloads, NEW n \in Names, disk'[n].maker = {d}
                 PROVE  /\ task'[d].pc \notin Choosing
                        /\ task'[d].pc = "writing" => disk'[n].kind = "part"
      BY DEF Made
    <2>1. /\ task[d].pc \notin Choosing
          /\ task[d].pc = "writing" => disk[n].kind = "part"
      BY DEF Inv, Made
    <2> QED BY <1>1, <2>1
  <1>3. Relied'
    <2> SUFFICES ASSUME NEW d \in Downloads, d \notin lost'
                 PROVE  /\ task'[d].pc \in Keeping => Holds(Name(d), Content[d])'
                        /\ task'[d].pc \in Making => /\ disk'[Name(d)'].maker = {d}
                                                     /\ disk'[Name(d)'].kind = "part"
      BY DEF Relied
    <2>1. /\ task[d].pc \in Keeping => Holds(Name(d), Content[d])
          /\ task[d].pc \in Making => /\ disk[Name(d)].maker = {d}
                                      /\ disk[Name(d)].kind = "part"
      BY DEF Inv, Relied
    <2>2. task'[d].at = task[d].at => Name(d)' = Name(d)
      BY DEF Name
    <2>3. CASE d = t
      BY <2>1, <2>2, <2>3 DEF Holds
    <2>4. CASE d # t
      BY <1>1, <2>1, <2>2, <2>4 DEF Holds
    <2> QED BY <2>3, <2>4
  <1> QED BY <1>2, <1>3

------------------------------------------------------------------------------
THEOREM InvInit == Init => Inv
  <1> SUFFICES ASSUME Init PROVE Inv
    OBVIOUS
  <1>1. \A n \in Names : disk[n] \in {NoFile} \cup {Old(d) : d \in Downloads}
    BY DEF Init
  <1>2. {NoFile} \cup {Old(d) : d \in Downloads} \subseteq Files
    BY DEF NoFile, Old, Files
  <1>3. Idle \in TaskStates
    BY DEF Idle, TaskStates, PCs
  <1>4. \A d \in Downloads : task[d].at \in 1..Len(Candidates[d])
    <2> TAKE d \in Downloads
    <2>1. Candidates[d] \in Seq(Names) /\ Candidates[d] # << >>
      BY StoreAssumption
    <2>2. Len(Candidates[d]) \in Nat /\ Len(Candidates[d]) # 0
      BY <2>1
    <2> QED BY <2>2 DEF Init, Idle, Tasks
  <1>5. TypeOK
    <2>1. disk \in [Names -> Files]
      BY <1>2 DEF Init
    <2>2. task \in [Tasks -> TaskStates]
      BY <1>3 DEF Init
    <2>3. clock \in 1..(MaxTime + 1)
      BY StoreAssumption DEF Init
    <2> QED BY <1>4, <2>1, <2>2, <2>3 DEF Init, TypeOK
  <1>6. \A n \in Names : disk[n].maker = {}
    BY <1>1 DEF NoFile, Old
  <1>7. \A d \in Downloads : task[d].pc = "idle"
    BY DEF Init, Idle, Tasks
  <1> QED BY <1>5, <1>6, <1>7 DEF Inv, Made, Relied, Keeping, Making

\* The steps by which a download chooses its name.
LEMMA ChoosingSteps ==
    ASSUME Inv, NEW d \in Downloads,
           Download(d) \/ WriteFails(d) \/ IsFile(d) \/ Compare(d)
    PROVE  Inv'
  <1>0. d \in Tasks /\ TypeOK
    BY DEF Tasks, Inv
  <1>1. /\ task' \in [Tasks -> TaskStates]
        /\ \A e \in Downloads : task'[e].at \in 1..Len(Candidates[e])
        /\ \A u \in Tasks : u # d => task'[u] = task[u]
        /\ \/ /\ task'[d].at = task[d].at
              /\ \/ task[d].pc = "writing" /\ task'[d].pc = "undoing"
                 \/ task[d].pc \in Choosing /\ task'[d].pc \in {"creating", "reading", "failed"}
                 \/ task'[d].pc = "renewing" /\ Same(d) /\ task[d].pc \in Choosing
           \/ task[d].pc \in Choosing /\ task'[d].pc = "creating"
    <2>1. ASSUME NEW pc \in PCs, Goto(d, pc)
          PROVE  /\ task' \in [Tasks -> TaskStates]
                 /\ \A e \in Downloads : task'[e].at \in 1..Len(Candidates[e])
                 /\ \A u \in Tasks : u # d => task'[u] = task[u]
                 /\ task'[d].pc = pc
                 /\ task'[d].at = task[d].at
      BY <1>0, <2>1, WentTo
    <2>2. ASSUME TryNext(d)
          PROVE  /\ task' \in [Tasks -> TaskStates]
                 /\ \A e \in Downloads : task'[e].at \in 1..Len(Candidates[e])
                 /\ \A u \in Tasks : u # d => task'[u] = task[u]
                 /\ \/ task'[d].pc = "creating"
                    \/ task'[d].pc = "failed" /\ task'[d].at = task[d].at
      <3>1. CASE task[d].at < Len(Candidates[d])
        <4> DEFINE x == [task[d] EXCEPT !.pc = "creating", !.at = @ + 1]
        <4>1. task[d] \in TaskStates /\ task[d].at \in 1..Len(Candidates[d])
          BY <1>0 DEF TypeOK
        <4>2. Len(Candidates[d]) \in Nat
          BY StoreAssumption
        <4>5. task[d].at + 1 \in Nat \ {0} /\ task[d].at + 1 \in 1..Len(Candidates[d])
          BY <3>1, <4>1, <4>2
        <4>3. x \in TaskStates /\ x.pc = "creating" /\ x.at = task[d].at + 1
          BY <4>1, <4>5 DEF TaskStates, PCs
        <4>4. task' = [task EXCEPT ![d] = x]
          BY <2>2, <3>1 DEF TryNext
        <4> HIDE DEF x
        <4> QED BY <1>0, <4>3, <4>4, <4>5, TaskReplaced
      <3>2. CASE ~(task[d].at < Len(Candidates[d]))
        <4>1. Goto(d, "failed")
          BY <2>2, <3>2 DEF TryNext, Goto
        <4> QED BY <2>1, <4>1 DEF PCs
      <3> QED BY <3>1, <3>2
    <2>3. CASE Download(d)
      BY <2>1, <2>3 DEF Download, At, PCs, Choosing
    <2>4. CASE WriteFails(d)
      BY <2>1, <2>4 DEF WriteFails, At, PCs
    <2>5. CASE IsFile(d)
      BY <2>1, <2>2, <2>5 DEF IsFile, At, PCs, Choosing
    <2>6. CASE Compare(d)
      BY <2>1, <2>2, <2>6 DEF Compare, At, PCs, Choosing
    <2> QED BY <2>3, <2>4, <2>5, <2>6
  <1>2. UNCHANGED <<disk, clock, lost, stuck>>
    BY DEF Download, WriteFails, IsFile, Compare
  <1>3. TypeOK'
    BY <1>0, <1>1, <1>2 DEF TypeOK
  <1>4. Made' /\ Relied'
    BY <1>0, <1>1, <1>2, MovedOn DEF Choosing, Making, Keeping, Same
  <1> QED BY <1>3, <1>4 DEF Inv

\* create: a new file under a name nobody has.
LEMMA CreateStep ==
    ASSUME Inv, NEW d \in Downloads, Create(d)
    PROVE  Inv'
  <1>0. d \in Tasks /\ TypeOK /\ Name(d) \in Names
    BY NameTyped DEF Tasks, Inv
  <1>1. CASE There(Name(d))
    <2>1. Goto(d, "asking") /\ UNCHANGED <<disk, clock, lost, stuck>> /\ task[d].pc = "creating"
      BY <1>1 DEF Create, At
    <2>2. /\ task' \in [Tasks -> TaskStates]
          /\ \A e \in Downloads : task'[e].at \in 1..Len(Candidates[e])
          /\ \A u \in Tasks : u # d => task'[u] = task[u]
          /\ task'[d].pc = "asking"
      BY <1>0, <2>1, WentTo DEF PCs
    <2>3. Made' /\ Relied'
      BY <1>0, <2>1, <2>2, MovedOn DEF Choosing, Making, Keeping
    <2> QED BY <1>0, <2>1, <2>2, <2>3 DEF Inv, TypeOK
  <1>2. CASE ~There(Name(d))
    <2>1. /\ Goto(d, "writing")
          /\ disk' = [disk EXCEPT ![Name(d)] = Part({d})]
          /\ UNCHANGED <<clock, lost, stuck>>
          /\ task[d].pc = "creating"
      BY <1>2 DEF Create, At
    <2>2. /\ task' \in [Tasks -> TaskStates]
          /\ \A e \in Downloads : task'[e].at \in 1..Len(Candidates[e])
          /\ \A u \in Tasks : u # d => task'[u] = task[u]
          /\ task'[d].pc = "writing"
          /\ task'[d].at = task[d].at
      BY <1>0, <2>1, WentTo DEF PCs
    <2>3. clock \in Nat
      BY <1>0, StoreAssumption DEF TypeOK
    <2>4. Part({d}) \in Files
      BY <2>3 DEF Part, Files
    <2>5. \A n \in Names : disk'[n] = IF n = Name(d) THEN Part({d}) ELSE disk[n]
      BY <1>0, <2>1 DEF TypeOK
    <2>6. TypeOK'
      BY <1>0, <2>1, <2>2, <2>4 DEF TypeOK
    <2>7. \A e \in Downloads : e \in Tasks /\ (task'[e].at = task[e].at => Name(e)' = Name(e))
      BY DEF Name, Tasks
    <2>8. Made'
      <3> SUFFICES ASSUME NEW e \in Downloads, NEW n \in Names, disk'[n].maker = {e}
                   PROVE  /\ task'[e].pc \notin Choosing
                          /\ task'[e].pc = "writing" => disk'[n].kind = "part"
        BY DEF Made
      <3>1. CASE n = Name(d)
        <4>1. e = d
          BY <2>5, <3>1 DEF Part
        <4> QED BY <2>2, <2>5, <3>1, <4>1 DEF Part, Choosing
      <3>2. CASE n # Name(d)
        <4>1. disk[n].maker = {e}
          BY <2>5, <3>2
        <4>2. /\ task[e].pc \notin Choosing
              /\ task[e].pc = "writing" => disk[n].kind = "part"
          BY <4>1 DEF Inv, Made
        <4>3. e # d
          BY <2>1, <4>2 DEF Choosing
        <4> QED BY <2>2, <2>5, <2>7, <3>2, <4>2, <4>3
      <3> QED BY <3>1, <3>2
    <2>9. Relied'
      <3> SUFFICES ASSUME NEW e \in Downloads, e \notin lost
                   PROVE  /\ task'[e].pc \in Keeping => Holds(Name(e), Content[e])'
                          /\ task'[e].pc \in Making => /\ disk'[Name(e)'].maker = {e}
                                                       /\ disk'[Name(e)'].kind = "part"
        BY <2>1 DEF Relied
      <3>1. CASE e = d
        BY <1>0, <2>2, <2>5, <2>7, <3>1 DEF Part, Keeping
      <3>2. CASE e # d
        <4>1. /\ task[e].pc \in Keeping => Holds(Name(e), Content[e])
              /\ task[e].pc \in Making => /\ disk[Name(e)].maker = {e}
                                          /\ disk[Name(e)].kind = "part"
          BY DEF Inv, Relied
        <4>2. task'[e] = task[e] /\ Name(e)' = Name(e) /\ Name(e) \in Names
          BY <1>0, <2>2, <2>7, <3>2, NameTyped
        <4>3. task[e].pc \in Keeping \cup Making => Name(e) # Name(d)
          BY <1>2, <4>1 DEF There, Holds
        <4> QED BY <2>5, <4>1, <4>2, <4>3 DEF Holds
      <3> QED BY <3>1, <3>2
    <2> QED BY <2>6, <2>8, <2>9 DEF Inv
  <1> QED BY <1>1, <1>2

\* write: the bytes go to the file d made, and to no other.
LEMMA WriteStep ==
    ASSUME Inv, NEW d \in Downloads, Write(d)
    PROVE  Inv'
  <1>0. d \in Tasks /\ TypeOK /\ Name(d) \in Names
    BY NameTyped DEF Tasks, Inv
  <1>1. /\ Goto(d, "pruning")
        /\ UNCHANGED <<clock, lost, stuck>>
        /\ task[d].pc = "writing"
    BY DEF Write, At
  <1>2. /\ task' \in [Tasks -> TaskStates]
        /\ \A e \in Downloads : task'[e].at \in 1..Len(Candidates[e])
        /\ \A u \in Tasks : u # d => task'[u] = task[u]
        /\ task'[d].pc = "pruning"
        /\ task'[d].at = task[d].at
    BY <1>0, <1>1, WentTo DEF PCs
  <1>3. \A e \in Downloads : /\ e \in Tasks /\ Name(e) \in Names
                             /\ task'[e].at = task[e].at => Name(e)' = Name(e)
    BY <1>0, NameTyped DEF Name, Tasks
  <1>4. clock \in Nat
    BY <1>0, StoreAssumption DEF TypeOK
  <1> DEFINE f == [disk[Name(d)] EXCEPT !.kind = "whole", !.bytes = {Content[d]},
                                        !.mtime = clock]
             mine == There(Name(d)) /\ disk[Name(d)].maker = {d}
  <1>5. disk[Name(d)] \in Files
    BY <1>0 DEF TypeOK
  <1>6. /\ f \in Files /\ f.kind = "whole" /\ f.bytes = {Content[d]}
        /\ f.maker = disk[Name(d)].maker
    BY <1>4, <1>5 DEF Files
  <1>7. disk' = IF mine THEN [disk EXCEPT ![Name(d)] = f] ELSE disk
    BY DEF Write
  <1> HIDE DEF f
  <1>8. \A n \in Names : disk'[n] = IF mine /\ n = Name(d) THEN f ELSE disk[n]
    BY <1>0, <1>7 DEF TypeOK
  <1>9. disk' \in [Names -> Files]
    BY <1>0, <1>6, <1>7 DEF TypeOK
  <1>10. TypeOK'
    BY <1>0, <1>1, <1>2, <1>9 DEF TypeOK
  <1>11. Made'
    <2> SUFFICES ASSUME NEW e \in Downloads, NEW n \in Names, disk'[n].maker = {e}
                 PROVE  /\ task'[e].pc \notin Choosing
                        /\ task'[e].pc = "writing" => disk'[n].kind = "part"
      BY DEF Made
    <2>1. disk[n].maker = {e}
      BY <1>6, <1>8
    <2>2. /\ task[e].pc \notin Choosing
          /\ task[e].pc = "writing" => disk[n].kind = "part"
      BY <2>1 DEF Inv, Made
    <2>3. CASE e = d
      BY <1>2, <2>3 DEF Choosing
    <2>4. CASE e # d
      <3>1. disk'[n] = disk[n]
        BY <1>8, <2>1, <2>4
      <3> QED BY <1>2, <1>3, <2>2, <2>4, <3>1
    <2> QED BY <2>3, <2>4
  <1>12. Relied'
    <2> SUFFICES ASSUME NEW e \in Downloads, e \notin lost
                 PROVE  /\ task'[e].pc \in Keeping => Holds(Name(e), Content[e])'
                        /\ task'[e].pc \in Making => /\ disk'[Name(e)'].maker = {e}
                                                     /\ disk'[Name(e)'].kind = "part"
      BY <1>1 DEF Relied
    <2>1. /\ task[e].pc \in Keeping => Holds(Name(e), Content[e])
          /\ task[e].pc \in Making => /\ disk[Name(e)].maker = {e}
                                      /\ disk[Name(e)].kind = "part"
      BY DEF Inv, Relied
    <2>2. CASE e = d
      <3>1. mine
        BY <1>1, <2>1, <2>2 DEF Making, There
      <3> QED BY <1>0, <1>2, <1>3, <1>6, <1>8, <2>2, <3>1 DEF Holds, Making
    <2>3. CASE e # d
      <3>1. task'[e] = task[e] /\ Name(e)' = Name(e) /\ Name(e) \in Names
        BY <1>2, <1>3, <2>3
      <3>2. mine => disk[Name(d)].kind = "part"
        BY <1>0, <1>1 DEF Inv, Made
      <3>3. task[e].pc \in Keeping \cup Making => ~(mine /\ Name(e) = Name(d))
        BY <2>1, <2>3, <3>2 DEF Holds
      <3> QED BY <1>8, <2>1, <3>1, <3>3 DEF Holds
    <2> QED BY <2>2, <2>3
  <1> QED BY <1>10, <1>11, <1>12 DEF Inv

\* Task t removes a file, and every other download that relies on it is lost.
LEMMA Removed ==
    ASSUME Inv, NEW t \in Tasks, NEW n \in Names,
           \A u \in Tasks : u # t => task'[u] = task[u],
           task'[t].pc \notin Choosing \cup Making,
           task'[t].pc \in Keeping => task'[t].at = task[t].at /\ task[t].pc \in Keeping,
           disk' = [disk EXCEPT ![n] = NoFile],
           lost \subseteq lost',
           \A e \in Relying(n) : e = t \/ e \in lost',
           t \in Relying(n) => t \in lost' \/ task'[t].pc \notin Keeping
    PROVE  Made' /\ Relied'
  <1>1. \A m \in Names : disk'[m] = IF m = n THEN NoFile ELSE disk[m]
    BY DEF Inv, TypeOK
  <1>2. \A e \in Downloads : e \in Tasks /\ (task'[e].at = task[e].at => Name(e)' = Name(e))
    BY DEF Name, Tasks
  <1>3. Made'
    <2> SUFFICES ASSUME NEW e \in Downloads, NEW m \in Names, disk'[m].maker = {e}
                 PROVE  /\ task'[e].pc \notin Choosing
                        /\ task'[e].pc = "writing" => disk'[m].kind = "part"
      BY DEF Made
    <2>1. m # n /\ disk[m].maker = {e} /\ disk'[m] = disk[m]
      BY <1>1 DEF NoFile
    <2>2. /\ task[e].pc \notin Choosing
          /\ task[e].pc = "writing" => disk[m].kind = "part"
      BY <2>1 DEF Inv, Made
    <2> QED BY <1>2, <2>1, <2>2 DEF Making
  <1>4. Relied'
    <2> SUFFICES ASSUME NEW e \in Downloads, e \notin lost'
                 PROVE  /\ task'[e].pc \in Keeping => Holds(Name(e), Content[e])'
                        /\ task'[e].pc \in Making => /\ disk'[Name(e)'].maker = {e}
                                                     /\ disk'[Name(e)'].kind = "part"
      BY DEF Relied
    <2>1. /\ task[e].pc \in Keeping => Holds(Name(e), Content[e])
          /\ task[e].pc \in Making => /\ disk[Name(e)].maker = {e}
                                      /\ disk[Name(e)].kind = "part"
      BY DEF Inv, Relied
    <2>2. task[e].pc \in Keeping \cup Making /\ Name(e) = n => e \in Relying(n)
      BY DEF Relying, Keeping, Making
    <2>3. Name(e) \in Names
      BY NameTyped DEF Inv
    <2>4. CASE e = t
      BY <1>1, <1>2, <2>1, <2>2, <2>3, <2>4 DEF Holds
    <2>5. CASE e # t
      BY <1>1, <1>2, <2>1, <2>2, <2>3, <2>5 DEF Holds
    <2> QED BY <2>4, <2>5
  <1> QED BY <1>3, <1>4

\* A failing download deletes what its name names.
LEMMA UndoStep ==
    ASSUME Inv, NEW d \in Downloads, Undo(d)
    PROVE  Inv'
  <1>0. d \in Tasks /\ TypeOK /\ Name(d) \in Names
    BY NameTyped DEF Tasks, Inv
  <1>1. Goto(d, "failed") /\ UNCHANGED clock /\ task[d].pc = "undoing"
    BY DEF Undo, At
  <1>2. /\ task' \in [Tasks -> TaskStates]
        /\ \A e \in Downloads : task'[e].at \in 1..Len(Candidates[e])
        /\ \A u \in Tasks : u # d => task'[u] = task[u]
        /\ task'[d].pc = "failed"
    BY <1>0, <1>1, WentTo DEF PCs
  <1>3. CASE UNCHANGED <<disk, lost>> /\ stuck' = TRUE
    <2>1. Made' /\ Relied'
      BY <1>0, <1>1, <1>2, <1>3, MovedOn DEF Choosing, Making, Keeping
    <2> QED BY <1>0, <1>1, <1>2, <1>3, <2>1 DEF Inv, TypeOK
  <1>4. CASE /\ disk' = [disk EXCEPT ![Name(d)] = NoFile]
             /\ lost' = IF d \in lost THEN lost \cup Relying(Name(d)) ELSE lost
             /\ UNCHANGED stuck
    <2>1. NoFile \in Files
      BY DEF NoFile, Files
    <2>2. TypeOK'
      BY <1>0, <1>1, <1>2, <1>4, <2>1 DEF TypeOK, Relying
    <2>3. ASSUME NEW e \in Relying(Name(d)), e # d
          PROVE  e \in lost'
      <3>1. CASE d \in lost
        BY <1>4, <3>1
      <3>2. CASE d \notin lost
        <4>1. disk[Name(d)].maker = {d} /\ disk[Name(d)].kind = "part"
          BY <1>1, <3>2 DEF Inv, Relied, Making
        <4>2. /\ e \in Downloads
              /\ Name(e) = Name(d)
              /\ task[e].pc \in Keeping \cup Making
          BY DEF Relying, Keeping, Making
        <4>3. e \in lost
          BY <2>3, <4>1, <4>2 DEF Inv, Relied, Holds
        <4> QED BY <1>4, <4>3
      <3> QED BY <3>1, <3>2
    <2>4. Made' /\ Relied'
      BY <1>0, <1>2, <1>4, <2>3, Removed DEF Choosing, Making, Keeping
    <2> QED BY <2>2, <2>4 DEF Inv
  <1> QED BY <1>3, <1>4 DEF Undo

\* touch renews a file's time, or makes a file that is nobody's.
LEMMA TouchStep ==
    ASSUME Inv, NEW d \in Downloads, Touch(d)
    PROVE  Inv'
  <1>0. d \in Tasks /\ TypeOK /\ Name(d) \in Names
    BY NameTyped DEF Tasks, Inv
  <1>1. Goto(d, "pruning") /\ UNCHANGED <<clock, lost, stuck>> /\ task[d].pc = "renewing"
    BY DEF Touch, At
  <1>2. /\ task' \in [Tasks -> TaskStates]
        /\ \A e \in Downloads : task'[e].at \in 1..Len(Candidates[e])
        /\ \A u \in Tasks : u # d => task'[u] = task[u]
        /\ task'[d].pc = "pruning"
        /\ task'[d].at = task[d].at
    BY <1>0, <1>1, WentTo DEF PCs
  <1>3. \A e \in Downloads : /\ e \in Tasks /\ Name(e) \in Names
                             /\ task'[e].at = task[e].at => Name(e)' = Name(e)
    BY <1>0, NameTyped DEF Name, Tasks
  <1> DEFINE f == IF There(Name(d)) THEN [disk[Name(d)] EXCEPT !.mtime = clock] ELSE Part({})
  <1>4. clock \in Nat /\ disk[Name(d)] \in Files
    <2>1. clock \in Nat
      BY <1>0, StoreAssumption DEF TypeOK
    <2>2. disk[Name(d)] \in Files
      BY <1>0 DEF TypeOK
    <2> QED BY <2>1, <2>2
  <1>5. f \in Files
    BY <1>4 DEF Files, Part
  <1>6. IF There(Name(d))
        THEN f.kind = disk[Name(d)].kind /\ f.bytes = disk[Name(d)].bytes
                /\ f.maker = disk[Name(d)].maker
        ELSE f.maker = {}
    BY <1>4 DEF Files, Part
  <1>7. disk' = [disk EXCEPT ![Name(d)] = f]
    BY DEF Touch
  <1> HIDE DEF f
  <1>8. \A n \in Names : disk'[n] = IF n = Name(d) THEN f ELSE disk[n]
    BY <1>0, <1>7 DEF TypeOK
  <1>9. disk' \in [Names -> Files]
    BY <1>0, <1>5, <1>7 DEF TypeOK
  <1>10. TypeOK'
    BY <1>0, <1>1, <1>2, <1>9 DEF TypeOK
  <1>11. Made'
    <2> SUFFICES ASSUME NEW e \in Downloads, NEW n \in Names, disk'[n].maker = {e}
                 PROVE  /\ task'[e].pc \notin Choosing
                        /\ task'[e].pc = "writing" => disk'[n].kind = "part"
      BY DEF Made
    <2>1. disk[n].maker = {e} /\ disk'[n].kind = disk[n].kind
      BY <1>6, <1>8
    <2>2. /\ task[e].pc \notin Choosing
          /\ task[e].pc = "writing" => disk[n].kind = "part"
      BY <2>1 DEF Inv, Made
    <2>3. e # d
      BY <1>1, <2>2 DEF Choosing
    <2> QED BY <1>2, <1>3, <2>1, <2>2, <2>3
  <1>12. Relied'
    <2> SUFFICES ASSUME NEW e \in Downloads, e \notin lost
                 PROVE  /\ task'[e].pc \in Keeping => Holds(Name(e), Content[e])'
                        /\ task'[e].pc \in Making => /\ disk'[Name(e)'].maker = {e}
                                                     /\ disk'[Name(e)'].kind = "part"
      BY <1>1 DEF Relied
    <2>1. /\ task[e].pc \in Keeping => Holds(Name(e), Content[e])
          /\ task[e].pc \in Making => /\ disk[Name(e)].maker = {e}
                                      /\ disk[Name(e)].kind = "part"
      BY DEF Inv, Relied
    <2>2. Name(e)' = Name(e) /\ Name(e) \in Names
      BY <1>2, <1>3
    <2>3. /\ Holds(Name(e), Content[e]) => Holds(Name(e), Content[e])'
          /\ disk[Name(e)].kind = "part" => disk'[Name(e)'].maker = disk[Name(e)].maker
                                            /\ disk'[Name(e)'].kind = "part"
      BY <1>6, <1>8, <2>2 DEF Holds, There
    <2>4. e = d => task[e].pc \in Keeping
      BY <1>1 DEF Keeping
    <2>5. e = d => task'[e].pc \notin Making
      BY <1>2 DEF Making
    <2>6. e # d => task'[e] = task[e]
      BY <1>2, <1>3
    <2> QED BY <2>1, <2>3, <2>4, <2>5, <2>6
  <1> QED BY <1>10, <1>11, <1>12 DEF Inv

------------------------------------------------------------------------------
\* The steps of a clean-up that remove nothing.
LEMMA ScanSteps ==
    ASSUME Inv, NEW t \in Tasks,
           List(t) \/ (\E n \in Names : Look(t, n)) \/ Sorted(t) \/ AllUnlinked(t)
    PROVE  Inv'
  <1>0. TypeOK /\ task[t] \in TaskStates /\ (t \in Downloads => task[t].at \in 1..Len(Candidates[t]))
    BY DEF Inv, TypeOK
  <1>1. UNCHANGED <<disk, clock, lost, stuck>>
    BY DEF List, Look, Sorted, AllUnlinked
  <1>2. /\ task' \in [Tasks -> TaskStates]
        /\ \A d \in Downloads : task'[d].at \in 1..Len(Candidates[d])
        /\ \A u \in Tasks : u # t => task'[u] = task[u]
        /\ task'[t].at = task[t].at
        /\ task[t].pc \in {"pruning", "looking", "unlinking"}
        /\ task'[t].pc \in {"looking", "unlinking", "linking", "done"}
    <2>1. Cleaned(t) \in PCs /\ Cleaned(t) \in {"linking", "done"}
      BY DEF Cleaned, PCs
    <2>2. CASE List(t)
      <3>1. CASE Keep = 0
        <4>1. Goto(t, Cleaned(t))
          BY <2>2, <3>1 DEF List, Goto
        <4> QED BY <1>0, <2>1, <2>2, <4>1, WentTo DEF List, At
      <3>2. CASE Keep # 0
        <4> DEFINE x == [task[t] EXCEPT !.pc = "looking", !.toSee = {n \in Names : There(n)}]
        <4>1. x \in TaskStates /\ x.pc = "looking" /\ x.at = task[t].at
          BY <1>0 DEF TaskStates, PCs
        <4>2. task' = [task EXCEPT ![t] = x]
          BY <2>2, <3>2 DEF List
        <4> HIDE DEF x
        <4> QED BY <1>0, <2>2, <4>1, <4>2, TaskReplaced DEF List, At
      <3> QED BY <3>1, <3>2
    <2>3. CASE \E n \in Names : Look(t, n)
      <3>1. PICK n \in Names : Look(t, n)
        BY <2>3
      <3> DEFINE x == [task[t] EXCEPT !.toSee = @ \ {n},
                                      !.seen = IF There(n) THEN @ \cup {<<n, disk[n].mtime>>}
                                               ELSE @]
      <3>2. disk[n].mtime \in Nat
        BY <1>0 DEF TypeOK, Files
      <3> DEFINE seen == IF There(n) THEN task[t].seen \cup {<<n, disk[n].mtime>>}
                         ELSE task[t].seen
      <3>3. seen \in SUBSET (Names \X Nat)
        BY <1>0, <3>2 DEF TaskStates
      <3> HIDE DEF seen
      <3>4. x = [task[t] EXCEPT !.toSee = @ \ {n}, !.seen = seen]
        BY <1>0 DEF TaskStates, seen
      <3>5. x \in TaskStates /\ x.pc = task[t].pc /\ x.at = task[t].at
        BY <1>0, <3>3, <3>4 DEF TaskStates
      <3>6. task' = [task EXCEPT ![t] = x] /\ task[t].pc = "looking"
        BY <3>1 DEF Look, At
      <3> HIDE DEF x
      <3> QED BY <1>0, <3>5, <3>6, TaskReplaced
    <2>4. CASE Sorted(t)
      <3> DEFINE x == [task[t] EXCEPT !.pc = "unlinking", !.seen = {},
                                      !.doomed = BeyondBound(task[t].seen)]
      <3>1. BeyondBound(task[t].seen) \in SUBSET (Names \X Nat)
        BY <1>0 DEF BeyondBound, TaskStates
      <3>2. x \in TaskStates /\ x.pc = "unlinking" /\ x.at = task[t].at
        BY <1>0, <3>1 DEF TaskStates, PCs
      <3>3. task' = [task EXCEPT ![t] = x] /\ task[t].pc = "looking"
        BY <2>4 DEF Sorted, At
      <3> HIDE DEF x
      <3> QED BY <1>0, <3>2, <3>3, TaskReplaced
    <2>5. CASE AllUnlinked(t)
      BY <1>0, <2>1, <2>5, WentTo DEF AllUnlinked, At
    <2> QED BY <2>2, <2>3, <2>4, <2>5
  <1>3. TypeOK'
    BY <1>0, <1>1, <1>2 DEF TypeOK
  <1>4. Made' /\ Relied'
    BY <1>1, <1>2, MovedOn DEF Choosing, Making, Keeping
  <1> QED BY <1>3, <1>4 DEF Inv

\* A clean-up removes a file, or cannot.
LEMMA UnlinkStep ==
    ASSUME Inv, NEW t \in Tasks, Unlink(t)
    PROVE  Inv'
  <1>0. /\ TypeOK /\ task[t] \in TaskStates
        /\ t \in Downloads => task[t].at \in 1..Len(Candidates[t])
    BY DEF Inv, TypeOK
  <1>1. PICK f \in task[t].doomed :
            /\ task' = [task EXCEPT ![t].doomed = @ \ {f}]
            /\ \/ /\ disk' = [disk EXCEPT ![f[1]] = NoFile]
                  /\ lost' = lost \cup Relying(f[1])
                  /\ UNCHANGED stuck
               \/ stuck' = TRUE /\ UNCHANGED <<disk, lost>>
    BY DEF Unlink
  <1>2. f[1] \in Names
    BY <1>0 DEF TaskStates
  <1> DEFINE x == [task[t] EXCEPT !.doomed = @ \ {f}]
  <1>3. x \in TaskStates /\ x.pc = task[t].pc /\ x.at = task[t].at
    BY <1>0 DEF TaskStates
  <1>4. task' = [task EXCEPT ![t] = x]
    BY <1>1
  <1>5. UNCHANGED clock /\ task[t].pc = "unlinking"
    BY DEF Unlink, At
  <1> HIDE DEF x
  <1>6. /\ task' \in [Tasks -> TaskStates]
        /\ \A d \in Downloads : task'[d].at \in 1..Len(Candidates[d])
        /\ \A u \in Tasks : u # t => task'[u] = task[u]
        /\ task'[t].pc = "unlinking"
        /\ task'[t].at = task[t].at
    BY <1>0, <1>3, <1>4, <1>5, TaskReplaced
  <1>7. CASE stuck' = TRUE /\ UNCHANGED <<disk, lost>>
    <2>1. Made' /\ Relied'
      BY <1>5, <1>6, <1>7, MovedOn DEF Choosing, Making, Keeping
    <2> QED BY <1>0, <1>5, <1>6, <1>7, <2>1 DEF Inv, TypeOK
  <1>8. CASE /\ disk' = [disk EXCEPT ![f[1]] = NoFile]
             /\ lost' = lost \cup Relying(f[1])
             /\ UNCHANGED stuck
    <2>1. NoFile \in Files
      BY DEF NoFile, Files
    <2>2. TypeOK'
      BY <1>0, <1>5, <1>6, <1>8, <2>1 DEF TypeOK, Relying
    <2>3. Made' /\ Relied'
      BY <1>2, <1>5, <1>6, <1>8, Removed DEF Choosing, Making, Keeping
    <2> QED BY <2>2, <2>3 DEF Inv
  <1> QED BY <1>1, <1>7, <1>8

\* The steps that only move a task on, once it has its file or needs none.
LEMMA OtherSteps ==
    ASSUME Inv, NEW t \in Tasks,
           (t \in Starts /\ Start(t)) \/ (t \in Downloads /\ Link(t)) \/ Killed(t)
    PROVE  Inv'
  <1>0. TypeOK
    BY DEF Inv
  <1>1. /\ \/ t \in Starts /\ Goto(t, "pruning")
           \/ task[t].pc = "linking" /\ Goto(t, "done")
           \/ Goto(t, "failed")
           \/ Goto(t, "killed")
        /\ UNCHANGED <<disk, clock, lost, stuck>>
    BY DEF Start, Link, Killed, At
  <1>2. /\ task' \in [Tasks -> TaskStates]
        /\ \A d \in Downloads : task'[d].at \in 1..Len(Candidates[d])
        /\ \A u \in Tasks : u # t => task'[u] = task[u]
        /\ task'[t].at = task[t].at
        /\ \/ t \in Starts /\ task'[t].pc = "pruning"
           \/ task[t].pc = "linking" /\ task'[t].pc = "done"
           \/ task'[t].pc \in {"failed", "killed"}
    BY <1>0, <1>1, WentTo DEF PCs
  <1>3. t \in Starts => t \notin Downloads
    BY StoreAssumption
  <1>4. Made' /\ Relied'
    BY <1>1, <1>2, <1>3, MovedOn DEF Choosing, Making, Keeping
  <1> QED BY <1>0, <1>1, <1>2, <1>4 DEF Inv, TypeOK

\* The clock and a step that changes nothing.
LEMMA IdleStep ==
    ASSUME Inv, Tick \/ UNCHANGED vars
    PROVE  Inv'
  <1>1. UNCHANGED <<disk, task, lost, stuck>>
    BY DEF Tick, vars
  <1>2. clock' \in 1..(MaxTime + 1)
    BY StoreAssumption DEF Inv, TypeOK, Tick, vars
  <1>3. TypeOK'
    BY <1>1, <1>2 DEF Inv, TypeOK
  <1>4. Made' /\ Relied'
    BY <1>1 DEF Inv, Made, Relied, Holds, Name
  <1> QED BY <1>3, <1>4 DEF Inv

THEOREM InvStep == Inv /\ [Next]_vars => Inv'
  <1> SUFFICES ASSUME Inv, [Next]_vars PROVE Inv'
    OBVIOUS
  <1>1. CASE Tick \/ UNCHANGED vars
    BY <1>1, IdleStep
  <1>2. CASE \E d \in Downloads : Save(d) \/ Link(d)
    <2>1. PICK d \in Downloads : Save(d) \/ Link(d)
      BY <1>2
    <2>2. d \in Tasks
      BY DEF Tasks
    <2>3. CASE Save(d)
      BY <2>3, ChoosingSteps, CreateStep, WriteStep, UndoStep, TouchStep DEF Save
    <2>4. CASE Link(d)
      BY <2>2, <2>4, OtherSteps
    <2> QED BY <2>1, <2>3, <2>4
  <1>3. CASE \E s \in Starts : Start(s)
    BY <1>3, OtherSteps DEF Tasks
  <1>4. CASE \E t \in Tasks : Prune(t) \/ Killed(t)
    BY <1>4, ScanSteps, UnlinkStep, OtherSteps DEF Prune
  <1> QED BY <1>1, <1>2, <1>3, <1>4 DEF Next

------------------------------------------------------------------------------
\* The state keeps its types, and no download runs past its last candidate.
THEOREM StoreTyped == Spec => []TypeOK
  <1>1. Inv => TypeOK
    BY DEF Inv
  <1> QED BY <1>1, InvInit, InvStep, PTL DEF Spec

\* What a download answered with holds its own bytes, or a clean-up took it.
THEOREM AnswerAlwaysHolds == Spec => []AnswerHolds
  <1>1. Inv => AnswerHolds
    BY DEF Inv, Relied, AnswerHolds, At, Keeping
  <1> QED BY <1>1, InvInit, InvStep, PTL DEF Spec

\* No step changes the bytes of a whole file, except by removing it.
THEOREM NothingIsReplaced == Spec => NothingReplaced
  <1> DEFINE Kept == \A n \in Names :
                        disk[n].kind = "whole" =>
                            \/ disk'[n].kind = "absent"
                            \/ disk'[n].kind = "whole" /\ disk'[n].bytes = disk[n].bytes
  <1>1. Inv /\ [Next]_vars => [Kept]_vars
    <2> SUFFICES ASSUME Inv, Next, NEW n \in Names, disk[n].kind = "whole"
                 PROVE  \/ disk'[n].kind = "absent"
                        \/ disk'[n].kind = "whole" /\ disk'[n].bytes = disk[n].bytes
      OBVIOUS
    <2>0. disk \in [Names -> Files] /\ disk[n] \in Files
      BY DEF Inv, TypeOK
    <2>1. CASE UNCHANGED disk
      BY <2>1
    <2>2. ASSUME NEW d \in Downloads, Create(d), ~UNCHANGED disk
          PROVE  disk'[n] = disk[n]
      BY <2>0, <2>2 DEF Create, There
    <2>3. ASSUME NEW d \in Downloads, Write(d)
          PROVE  disk'[n] = disk[n]
      <3>1. disk[n].maker # {d}
        BY <2>3 DEF Inv, Made, Write, At
      <3> QED BY <2>0, <2>3, <3>1 DEF Write
    <2>4. ASSUME NEW d \in Downloads, Touch(d)
          PROVE  disk'[n].kind = disk[n].kind /\ disk'[n].bytes = disk[n].bytes
      BY <2>0, <2>4 DEF Touch, There, Files
    <2>5. ASSUME NEW m \in Names, disk' = [disk EXCEPT ![m] = NoFile]
          PROVE  disk'[n] = disk[n] \/ disk'[n].kind = "absent"
      BY <2>0, <2>5 DEF NoFile
    <2>6. ASSUME NEW d \in Downloads, Undo(d)
          PROVE  disk'[n] = disk[n] \/ disk'[n].kind = "absent"
      <3>1. Name(d) \in Names
        BY NameTyped DEF Inv
      <3> QED BY <2>5, <2>6, <3>1 DEF Undo
    <2>7. ASSUME NEW t \in Tasks, Unlink(t)
          PROVE  disk'[n] = disk[n] \/ disk'[n].kind = "absent"
      <3>1. PICK f \in task[t].doomed : disk' = [disk EXCEPT ![f[1]] = NoFile] \/ UNCHANGED disk
        BY <2>7 DEF Unlink
      <3>2. f[1] \in Names
        BY DEF Inv, TypeOK, TaskStates
      <3> QED BY <2>5, <3>1, <3>2
    <2>8. \/ UNCHANGED disk
          \/ \E d \in Downloads : Create(d) \/ Write(d) \/ Touch(d) \/ Undo(d)
          \/ \E t \in Tasks : Unlink(t)
      BY DEF Next, Save, Prune, Tick, Download, WriteFails, IsFile, Compare, Link, Start,
             Killed, List, Look, Sorted, AllUnlinked
    <2> QED BY <2>1, <2>2, <2>3, <2>4, <2>6, <2>7, <2>8
  <1> QED BY <1>1, InvInit, InvStep, PTL DEF Spec, NothingReplaced

------------------------------------------------------------------------------
(***************************************************************************)
(* That a link a download reported reads that download's bytes, for any    *)
(* number of downloads, readings, names and processes.  The store's        *)
(* invariant says what an answered download still has on disk; what a      *)
(* reading has found out in one step holds in the next because an answered *)
(* download stays where it is, and is lost for good once it is lost.       *)
(***************************************************************************)
Records == [pc : {"idle", "measuring", "reading", "read", "gone", "too large"},
            name : Nat, of : SUBSET Downloads, got : SUBSET {Content[d] : d \in Downloads}]

Readings == {x \in Records : x.pc # "idle" => x.name \in Names}

\* A reading relies on the downloads that had answered with its link.
Follows(r) ==
    \A d \in reading[r].of :
        /\ At(d, "done") /\ Name(d) = reading[r].name
        /\ reading[r].pc = "reading" => d \in lost \/ Content[d] \notin Large

ReadInv == /\ Inv
           /\ reading \in [Readers -> Readings]
           /\ \A r \in Readers : Follows(r)
           /\ ReadsBack

------------------------------------------------------------------------------
\* An answered download does nothing more, and what is lost stays lost.
LEMMA DoneStays ==
    ASSUME Inv, [Next]_vars
    PROVE  /\ lost \subseteq lost'
           /\ \A d \in Downloads : At(d, "done") => task'[d] = task[d]
  <1>1. lost \subseteq lost'
    BY DEF Next, vars, Tick, Save, Link, Start, Prune, Killed, Download, Create, Write,
           WriteFails, Undo, IsFile, Compare, Touch, List, Look, Sorted, Unlink, AllUnlinked
  <1>2. ASSUME NEW d \in Downloads, At(d, "done")
        PROVE  task'[d] = task[d]
    <2>1. task \in [Tasks -> TaskStates]
      BY DEF Inv, TypeOK
    <2>2. d \in Tasks
      BY DEF Tasks
    <2>3. ASSUME NEW t \in Tasks, NEW x, task' = [task EXCEPT ![t] = x], ~At(t, "done")
          PROVE  task'[d] = task[d]
      BY <1>2, <2>1, <2>2, <2>3 DEF At
    <2>4. UNCHANGED task \/ \E t \in Tasks : ~At(t, "done")
                                /\ \A u \in Tasks : u # t => task'[u] = task[u]
      <3>1. CASE Tick \/ UNCHANGED vars
        BY <3>1 DEF Tick, vars
      <3>2. CASE \E e \in Downloads : Save(e) \/ Link(e)
        <4>1. PICK e \in Downloads : Save(e) \/ Link(e)
          BY <3>2
        <4>2. ~At(e, "done")
          BY <4>1 DEF Save, Link, Download, Create, Write, WriteFails, Undo, IsFile,
                      Compare, Touch, At
        <4>3. \A u \in Tasks : u # e => task'[u] = task[u]
          BY <2>1, <4>1 DEF Save, Link, Download, Create, Write, WriteFails, Undo, IsFile,
                      Compare, Touch, Goto, TryNext
        <4> QED BY <4>2, <4>3 DEF Tasks
      <3>3. CASE \E s \in Starts : Start(s)
        <4>1. PICK s \in Starts : Start(s)
          BY <3>3
        <4> QED BY <2>1, <4>1 DEF Start, At, Goto, Tasks
      <3>4. CASE \E t \in Tasks : Prune(t) \/ Killed(t)
        <4>1. PICK t \in Tasks : Prune(t) \/ Killed(t)
          BY <3>4
        <4>2. ~At(t, "done")
          BY <4>1 DEF Prune, Killed, Ended, List, Look, Sorted, Unlink, AllUnlinked, At
        <4>3. \A u \in Tasks : u # t => task'[u] = task[u]
          BY <2>1, <4>1 DEF Prune, Killed, List, Look, Sorted, Unlink, AllUnlinked, Goto
        <4> QED BY <4>2, <4>3
      <3> QED BY <3>1, <3>2, <3>3, <3>4 DEF Next
    <2> QED BY <1>2, <2>2, <2>4
  <1> QED BY <1>1, <1>2

\* What an answered download has, unless a clean-up took it.
LEMMA AnsweredHas ==
    ASSUME Inv, NEW d \in Downloads, At(d, "done"), d \notin lost
    PROVE  /\ There(Name(d)) /\ disk[Name(d)].bytes = {Content[d]}
           /\ IsLarge(Name(d)) <=> Content[d] \in Large
  <1>1. Holds(Name(d), Content[d])
    BY DEF Inv, Relied, Keeping, At
  <1> QED BY <1>1 DEF Holds, There, IsLarge

------------------------------------------------------------------------------
\* Downloads and clean-ups go on beside the readings.
LEMMA StoreStep ==
    ASSUME ReadInv, [Next]_vars, UNCHANGED reading
    PROVE  ReadInv'
  <1>1. Inv'
    BY InvStep DEF ReadInv
  <1>2. /\ lost \subseteq lost'
        /\ \A d \in Downloads : At(d, "done") => At(d, "done")' /\ Name(d)' = Name(d)
    BY DoneStays DEF ReadInv, At, Name
  <1>3. reading' \in [Readers -> Readings]
    BY DEF ReadInv
  <1>4. \A r \in Readers : Follows(r)'
    <2> SUFFICES ASSUME NEW r \in Readers, NEW d \in reading[r].of
                 PROVE  /\ At(d, "done")' /\ Name(d)' = reading[r].name
                        /\ reading[r].pc = "reading" => d \in lost' \/ Content[d] \notin Large
      BY DEF Follows
    <2>1. d \in Downloads
      BY DEF ReadInv, Readings, Records
    <2>2. /\ At(d, "done") /\ Name(d) = reading[r].name
          /\ reading[r].pc = "reading" => d \in lost \/ Content[d] \notin Large
      BY DEF ReadInv, Follows
    <2> QED BY <1>2, <2>1, <2>2
  <1>5. ReadsBack'
    BY <1>2 DEF ReadInv, ReadsBack
  <1> QED BY <1>1, <1>3, <1>4, <1>5 DEF ReadInv

\* A reading's record is replaced by one of the right type that keeps what the
\* invariant says of it.
LEMMA ReadingReplaced ==
    ASSUME ReadInv, UNCHANGED vars, NEW r \in Readers, NEW x \in Readings,
           reading' = [reading EXCEPT ![r] = x],
           \A d \in x.of :
              /\ At(d, "done") /\ Name(d) = x.name
              /\ d \in lost \/ /\ x.pc = "reading" => Content[d] \notin Large
                               /\ x.pc # "gone"
                               /\ x.pc = "read" => x.got = {Content[d]} /\ Content[d] \notin Large
                               /\ x.pc = "too large" => Content[d] \in Large
    PROVE  ReadInv'
  <1>1. /\ reading' \in [Readers -> Readings]
        /\ reading'[r] = x
        /\ \A q \in Readers : q # r => reading'[q] = reading[q]
    BY DEF ReadInv
  <1>2. Inv'
    BY IdleStep DEF ReadInv
  <1>3. \A d \in Downloads : At(d, "done")' = At(d, "done") /\ Name(d)' = Name(d) /\ lost' = lost
    BY DEF vars, At, Name
  <1>4. \A q \in Readers : Follows(q)'
    <2> SUFFICES ASSUME NEW q \in Readers, NEW d \in reading'[q].of
                 PROVE  /\ At(d, "done")' /\ Name(d)' = reading'[q].name
                        /\ reading'[q].pc = "reading" => d \in lost' \/ Content[d] \notin Large
      BY DEF Follows
    <2>1. d \in Downloads
      BY <1>1 DEF Readings, Records
    <2>2. CASE q = r
      BY <1>1, <1>3, <2>1, <2>2
    <2>3. CASE q # r
      BY <1>1, <1>3, <2>1, <2>3 DEF ReadInv, Follows
    <2> QED BY <2>2, <2>3
  <1>5. ReadsBack'
    <2> SUFFICES ASSUME NEW q \in Readers, NEW d \in reading'[q].of \ lost'
                 PROVE  /\ reading'[q].pc # "gone"
                        /\ reading'[q].pc = "read" =>
                              reading'[q].got = {Content[d]} /\ Content[d] \notin Large
                        /\ reading'[q].pc = "too large" => Content[d] \in Large
      BY DEF ReadsBack
    <2>1. lost' = lost
      BY DEF vars
    <2>2. CASE q = r
      BY <1>1, <2>1, <2>2
    <2>3. CASE q # r
      BY <1>1, <2>1, <2>3 DEF ReadInv, ReadsBack
    <2> QED BY <2>2, <2>3
  <1> QED BY <1>1, <1>2, <1>4, <1>5 DEF ReadInv

LEMMA ResolveStep ==
    ASSUME ReadInv, NEW r \in Readers, NEW n \in Names, Resolve(r, n)
    PROVE  ReadInv'
  <1> DEFINE x == [reading[r] EXCEPT !.pc = IF There(n) THEN "measuring" ELSE "gone",
                                     !.name = n, !.of = Linked(n)]
  <1>1. reading[r] \in Readings /\ n \in Nat /\ Linked(n) \in SUBSET Downloads
    BY StoreAssumption DEF ReadInv, Linked
  <1>2. /\ x \in Readings
        /\ x.pc = (IF There(n) THEN "measuring" ELSE "gone") /\ x.name = n /\ x.of = Linked(n)
    BY <1>1 DEF Readings, Records
  <1>3. reading' = [reading EXCEPT ![r] = x] /\ UNCHANGED vars
    BY DEF Resolve
  <1>4. \A d \in x.of : At(d, "done") /\ Name(d) = n /\ (d \in lost \/ There(n))
    BY <1>2, AnsweredHas DEF Linked, ReadInv
  <1> HIDE DEF x
  <1> QED BY <1>2, <1>3, <1>4, ReadingReplaced

LEMMA MeasureStep ==
    ASSUME ReadInv, NEW r \in Readers, Measure(r)
    PROVE  ReadInv'
  <1> DEFINE n == reading[r].name
             pc == IF ~There(n) THEN "gone" ELSE IF IsLarge(n) THEN "too large" ELSE "reading"
             x == [reading[r] EXCEPT !.pc = pc]
  <1>1. reading[r] \in Readings
    BY DEF ReadInv
  <1>2. x \in Readings /\ x.pc = pc /\ x.name = n /\ x.of = reading[r].of
    BY <1>1 DEF Readings, Records, Measure
  <1>3. reading' = [reading EXCEPT ![r] = x] /\ UNCHANGED vars
    BY DEF Measure, Ends
  <1>4. \A d \in reading[r].of :
           /\ d \in Downloads /\ At(d, "done") /\ Name(d) = n
           /\ d \in lost \/ (There(n) /\ (IsLarge(n) <=> Content[d] \in Large))
    <2> SUFFICES ASSUME NEW d \in reading[r].of
                 PROVE  /\ d \in Downloads /\ At(d, "done") /\ Name(d) = n
                        /\ d \in lost \/ (There(n) /\ (IsLarge(n) <=> Content[d] \in Large))
      OBVIOUS
    <2>1. d \in Downloads /\ At(d, "done") /\ Name(d) = n
      BY <1>1 DEF ReadInv, Follows, Readings, Records
    <2>2. Inv
      BY DEF ReadInv
    <2>3. d \notin lost => There(Name(d)) /\ (IsLarge(Name(d)) <=> Content[d] \in Large)
      BY <2>1, <2>2, AnsweredHas
    <2> QED BY <2>1, <2>3 DEF There, IsLarge
  <1> HIDE DEF x
  <1> QED BY <1>2, <1>3, <1>4, ReadingReplaced

LEMMA ReadBytesStep ==
    ASSUME ReadInv, NEW r \in Readers, ReadBytes(r)
    PROVE  ReadInv'
  <1> DEFINE n == reading[r].name
             x == IF There(n) THEN [reading[r] EXCEPT !.pc = "read", !.got = disk[n].bytes]
                  ELSE [reading[r] EXCEPT !.pc = "gone"]
  <1>1. reading[r] \in Readings
    BY DEF ReadInv
  <1>2. \A d \in reading[r].of :
           /\ d \in Downloads /\ At(d, "done") /\ Name(d) = n
           /\ d \in lost \/ /\ There(n) /\ disk[n].bytes = {Content[d]}
                            /\ Content[d] \notin Large
    <2> SUFFICES ASSUME NEW d \in reading[r].of
                 PROVE  /\ d \in Downloads /\ At(d, "done") /\ Name(d) = n
                        /\ d \in lost \/ /\ There(n) /\ disk[n].bytes = {Content[d]}
                                         /\ Content[d] \notin Large
      OBVIOUS
    <2>1. d \in Downloads /\ At(d, "done") /\ Name(d) = n /\ (d \in lost \/ Content[d] \notin Large)
      BY <1>1 DEF ReadInv, Follows, Readings, Records, ReadBytes
    <2>2. Inv
      BY DEF ReadInv
    <2>3. d \notin lost => There(Name(d)) /\ disk[Name(d)].bytes = {Content[d]}
      BY <2>1, <2>2, AnsweredHas
    <2> QED BY <2>1, <2>3 DEF There
  <1>3. There(n) => disk[n].bytes \in SUBSET {Content[d] : d \in Downloads}
    <2>1. \A m \in Names : disk[m].bytes \in SUBSET {Content[d] : d \in Downloads}
      BY DEF ReadInv, Inv, TypeOK, Files
    <2>2. n \in Names
      BY DEF ReadInv, Readings, Records, ReadBytes
    <2> QED BY <2>1, <2>2
  <1>4. /\ x \in Readings /\ x.name = n /\ x.of = reading[r].of
        /\ x.pc = (IF There(n) THEN "read" ELSE "gone")
        /\ There(n) => x.got = disk[n].bytes
    <2>1. reading[r] \in Records /\ n \in Names
      BY <1>1 DEF Readings, ReadBytes
    <2>2. CASE There(n)
      BY <1>3, <2>1, <2>2 DEF Readings, Records
    <2>3. CASE ~There(n)
      BY <2>1, <2>3 DEF Readings, Records
    <2> QED BY <2>2, <2>3
  <1>5. reading' = [reading EXCEPT ![r] = x] /\ UNCHANGED vars
    BY DEF ReadBytes, Ends
  <1> HIDE DEF x
  <1> QED BY <1>2, <1>4, <1>5, ReadingReplaced

------------------------------------------------------------------------------
THEOREM ReadInvInit == ReadInit => ReadInv
  <1> SUFFICES ASSUME ReadInit PROVE ReadInv
    OBVIOUS
  <1>1. Inv
    BY InvInit DEF ReadInit
  <1>2. \A r \in Readers : reading[r] = Unread
    BY DEF ReadInit
  <1>3. Unread \in Readings /\ reading \in [Readers -> Readings]
    BY DEF Unread, Readings, Records, ReadInit
  <1>4. \A r \in Readers : reading[r].of = {}
    BY <1>2 DEF Unread
  <1>5. (\A r \in Readers : Follows(r)) /\ ReadsBack
    BY <1>4 DEF Follows, ReadsBack
  <1> QED BY <1>1, <1>3, <1>5 DEF ReadInv

THEOREM ReadInvStep == ReadInv /\ [ReadNext]_readVars => ReadInv'
  <1> SUFFICES ASSUME ReadInv, [ReadNext]_readVars PROVE ReadInv'
    OBVIOUS
  <1>1. CASE (Next /\ UNCHANGED reading) \/ UNCHANGED readVars
    BY <1>1, StoreStep DEF readVars, vars
  <1>2. CASE \E r \in Readers : Read(r)
    BY <1>2, ResolveStep, MeasureStep, ReadBytesStep DEF Read
  <1> QED BY <1>1, <1>2 DEF ReadNext

\* A link that a download reported reads that download's bytes, or they are too
\* large to be read, or a clean-up took the file.
THEOREM LinksReadBack == ReadSpec => []ReadsBack
  <1>1. ReadInv => ReadsBack
    BY DEF ReadInv
  <1> QED BY <1>1, ReadInvInit, ReadInvStep, PTL DEF ReadSpec

------------------------------------------------------------------------------
(***************************************************************************)
(* The bound.  While something was cleaned, there is a task whose clean-up *)
(* accounts for every file there is: it is still to list them, or has them *)
(* among what it looks at, keeps or removes.  Only a file whose maker is   *)
(* still to withdraw it, or to clean up itself, may be missing from its    *)
(* account.                                                                *)
(***************************************************************************)
\* A file is about to be withdrawn, or its maker is still to clean up.
Passing(n) == \E d \in Downloads : task[d].pc \in Making /\ Name(d) = n

Accounted(S) == \A n \in Names : There(n) => n \in S \/ Passing(n)

NamesOf(S) == {f[1] : f \in S}

Few(K) == IsFiniteSet(K) /\ Cardinality(K) <= Keep

\* Nothing was added since t's listing that nobody else will see to.
Cleans(t) ==
    \/ At(t, "pruning")
    \/ At(t, "looking") /\ Accounted(task[t].toSee \cup NamesOf(task[t].seen))
    \/ /\ At(t, "unlinking")
       /\ \E K \in SUBSET Names : Few(K) /\ Accounted(K \cup NamesOf(task[t].doomed))
    \/ /\ task[t].pc \in {"linking", "done", "failed"}
       /\ \E K \in SUBSET Names : Few(K) /\ Accounted(K)

Undisturbed == Keep > 0 /\ ~stuck /\ \A t \in Tasks : ~At(t, "killed")

CleanUps == {"pruning", "looking", "unlinking", "linking", "done"}

Bounded == /\ \A t \in Tasks : IsFiniteSet(task[t].seen)
           /\ Undisturbed /\ (\E t \in Tasks : task[t].pc \in CleanUps)
                 => \E t \in Tasks : Cleans(t)

\* The order of the scan is strict and total.
LEMMA BeforeOrders ==
    ASSUME NEW S \in SUBSET (Names \X Nat)
    PROVE  /\ \A a, b \in S : a # b => Before(a, b) \/ Before(b, a)
           /\ \A a \in S : ~Before(a, a)
           /\ \A a, b, e \in S : Before(a, b) /\ Before(b, e) => Before(a, e)
  <1>1. \A a \in S : a = <<a[1], a[2]>> /\ a[1] \in Nat /\ a[2] \in Nat
    <2>1. Names \subseteq Nat
      BY StoreAssumption
    <2>2. \A a \in Names \X Nat : a = <<a[1], a[2]>> /\ a[1] \in Names /\ a[2] \in Nat
      OBVIOUS
    <2>3. \A a \in S : a \in Names \X Nat
      OBVIOUS
    <2> QED BY <2>1, <2>2, <2>3
  <1>2. \A a, b \in S : a # b => a[1] # b[1] \/ a[2] # b[2]
    BY <1>1
  <1> QED BY <1>1, <1>2 DEF Before

\* What is not beyond the bound is within it: each of the files that stay has
\* its own number of files before it, and that is less than Keep.
LEMMA FewAreKept ==
    ASSUME NEW S \in SUBSET (Names \X Nat), IsFiniteSet(S), Keep > 0
    PROVE  Few(S \ BeyondBound(S))
  <1> DEFINE Above(a) == {g \in S : Before(g, a)}
             T == S \ BeyondBound(S)
             rank == [a \in T |-> Cardinality(Above(a))]
  <1>1. \A a \in S : IsFiniteSet(Above(a)) /\ Cardinality(Above(a)) \in Nat
    <2> SUFFICES ASSUME NEW a \in S
                 PROVE  IsFiniteSet(Above(a)) /\ Cardinality(Above(a)) \in Nat
      OBVIOUS
    <2>1. IsFiniteSet(Above(a))
      BY FS_Subset
    <2> HIDE DEF Above
    <2> QED BY <2>1, FS_CardinalityType
  <1>2. \A a \in T : a \in S /\ ~(Cardinality(Above(a)) >= Keep)
    BY DEF BeyondBound
  <1>3. Keep \in Nat
    BY StoreAssumption
  <1>4. ASSUME NEW a \in S, NEW b \in S, Before(a, b)
        PROVE  Cardinality(Above(a)) # Cardinality(Above(b))
    <2>1. Above(a) \subseteq Above(b)
      BY <1>4, BeforeOrders
    <2>2. a \in Above(b) /\ a \notin Above(a)
      BY <1>4, BeforeOrders
    <2> HIDE DEF Above
    <2> QED BY <1>1, <2>1, <2>2, FS_Subset
  <1> HIDE DEF Above
  <1>5. rank \in [T -> 0..(Keep - 1)]
    BY <1>1, <1>2, <1>3
  <1>6. \A a, b \in T : rank[a] = rank[b] => a = b
    <2> SUFFICES ASSUME NEW a \in T, NEW b \in T, a # b PROVE rank[a] # rank[b]
      OBVIOUS
    <2>1. Before(a, b) \/ Before(b, a)
      BY <1>2, BeforeOrders
    <2> QED BY <1>2, <1>4, <2>1
  <1>7. rank \in Injection(T, 0..(Keep - 1))
    BY <1>5, <1>6 DEF Injection, IsInjective
  <1>8. IsFiniteSet(0..(Keep - 1)) /\ Cardinality(0..(Keep - 1)) = Keep
    <2>1. 0 \in Int /\ Keep - 1 \in Int /\ ~(0 > Keep - 1)
      BY <1>3
    <2>2. /\ IsFiniteSet(0..(Keep - 1))
          /\ Cardinality(0..(Keep - 1)) = IF 0 > Keep - 1 THEN 0 ELSE Keep - 1 - 0 + 1
      BY <2>1, FS_Interval
    <2> QED BY <1>3, <2>1, <2>2
  <1> HIDE DEF rank, T
  <1>9. IsFiniteSet(T) /\ Cardinality(T) <= Keep
    BY <1>7, <1>8, FS_Injection
  <1> QED BY <1>9 DEF Few, T

\* Files have one name each.
LEMMA FewNames ==
    ASSUME NEW S \in SUBSET (Names \X Nat), Few(S)
    PROVE  Few(NamesOf(S)) /\ NamesOf(S) \in SUBSET Names
  <1> DEFINE name == [a \in S |-> a[1]]
  <1>1. name \in Surjection(S, NamesOf(S))
    BY DEF Surjection, NamesOf
  <1>2. IsFiniteSet(S) /\ Cardinality(S) <= Keep /\ Keep \in Nat
    BY StoreAssumption DEF Few
  <1> HIDE DEF name
  <1>3. IsFiniteSet(NamesOf(S)) /\ Cardinality(NamesOf(S)) <= Cardinality(S)
    BY <1>1, <1>2, FS_Surjection
  <1>4. Cardinality(S) \in Nat /\ Cardinality(NamesOf(S)) \in Nat
    BY <1>2, <1>3, FS_CardinalityType
  <1> QED BY <1>2, <1>3, <1>4 DEF Few, NamesOf

LEMMA BoundedMeans == Inv /\ Bounded => BoundKept
  <1> SUFFICES ASSUME Inv, Bounded, Keep > 0, ~stuck,
                      \A t \in Tasks : task[t].pc \in {"idle", "done", "failed"},
                      NEW u \in Tasks, At(u, "done")
               PROVE  Cardinality({n \in Names : There(n)}) <= Keep
    BY DEF BoundKept
  <1>1. Undisturbed /\ task[u].pc \in CleanUps
    BY DEF Undisturbed, At, CleanUps
  <1>2. PICK t \in Tasks : Cleans(t)
    BY <1>1 DEF Bounded
  <1>3. PICK K \in SUBSET Names : Few(K) /\ Accounted(K)
    BY <1>2 DEF Cleans, At
  <1>4. \A n \in Names : ~Passing(n)
    BY DEF Passing, Making, Tasks
  <1>5. {n \in Names : There(n)} \subseteq K
    BY <1>3, <1>4 DEF Accounted
  <1>6. IsFiniteSet(K) /\ Cardinality(K) \in Nat /\ Cardinality(K) <= Keep /\ Keep \in Nat
    BY <1>3, FS_CardinalityType, StoreAssumption DEF Few
  <1>7. /\ IsFiniteSet({n \in Names : There(n)})
        /\ Cardinality({n \in Names : There(n)}) <= Cardinality(K)
    BY <1>5, <1>6, FS_Subset
  <1>8. Cardinality({n \in Names : There(n)}) \in Nat
    BY <1>7, FS_CardinalityType
  <1> QED BY <1>6, <1>7, <1>8

------------------------------------------------------------------------------
\* The step adds no file nobody sees to, and leaves those being seen to.
AddsNothing == \A n \in Names : There(n)' => (There(n) /\ ~Passing(n)) \/ Passing(n)'

Alone(t) == \A u \in Tasks : u # t => task'[u] = task[u]

LEMMA GoesAlone ==
    ASSUME Inv, NEW t \in Tasks, Prune(t) \/ Killed(t) \/ (t \in Downloads /\ (Save(t) \/ Link(t)))
                                     \/ (t \in Starts /\ Start(t))
    PROVE  Alone(t)
  <1>1. task \in [Tasks -> TaskStates]
    BY DEF Inv, TypeOK
  <1>2. CASE Prune(t) \/ Killed(t)
    BY <1>1, <1>2 DEF Alone, Prune, Killed, List, Look, Sorted, Unlink, AllUnlinked, Goto
  <1>3. CASE Save(t) \/ Link(t)
    BY <1>1, <1>3 DEF Alone, Save, Link, Download, Create, Write, WriteFails, Undo, IsFile,
                      Compare, Touch, Goto, TryNext
  <1>4. CASE Start(t)
    BY <1>1, <1>4 DEF Alone, Start, Goto
  <1> QED BY <1>2, <1>3, <1>4

\* A maker's name stays passing while its maker stays where it is.
LEMMA PassingStays ==
    ASSUME NEW t \in Tasks, Alone(t), NEW n \in Names, Passing(n),
           t \in Downloads /\ task[t].pc \in Making =>
              Name(t) # n \/ (task'[t].pc \in Making /\ task'[t].at = task[t].at)
    PROVE  Passing(n)'
  <1>1. PICK d \in Downloads : task[d].pc \in Making /\ Name(d) = n
    BY DEF Passing
  <1>2. task'[d].pc \in Making /\ task'[d].at = task[d].at
    BY <1>1 DEF Alone, Tasks
  <1> QED BY <1>1, <1>2 DEF Passing, Name

LEMMA NothingAdded ==
    ASSUME NEW t \in Tasks, Alone(t),
           \A n \in Names : There(n)' => There(n),
           task[t].pc \in Making => task'[t].pc \in Making /\ task'[t].at = task[t].at
    PROVE  AddsNothing
  BY PassingStays DEF AddsNothing

LEMMA CreateAddsNothing ==
    ASSUME Inv, NEW d \in Downloads, Create(d)
    PROVE  AddsNothing
  <1>1. d \in Tasks /\ Alone(d) /\ task[d].pc \notin Making
    BY GoesAlone DEF Tasks, Save, Create, At, Making
  <1>2. CASE UNCHANGED disk
    BY <1>1, <1>2, NothingAdded DEF There
  <1>3. CASE ~UNCHANGED disk
    <2>1. disk' = [disk EXCEPT ![Name(d)] = Part({d})] /\ Goto(d, "writing")
      BY <1>3 DEF Create
    <2>2. task'[d].pc = "writing" /\ task'[d].at = task[d].at
      <3>1. TypeOK /\ "writing" \in PCs
        BY DEF Inv, PCs
      <3> QED BY <1>1, <2>1, <3>1, WentTo
    <2>3. Passing(Name(d))'
      BY <2>2 DEF Passing, Making, Name
    <2>4. \A n \in Names : n # Name(d) => disk'[n] = disk[n]
      BY <2>1 DEF Inv, TypeOK
    <2>5. Name(d)' = Name(d)
      BY <2>2 DEF Name
    <2>6. ASSUME NEW n \in Names, There(n)'
          PROVE  (There(n) /\ ~Passing(n)) \/ Passing(n)'
      <3>1. CASE n = Name(d)
        BY <2>2, <3>1 DEF Passing, Making, Name
      <3>2. CASE n # Name(d)
        <4>1. There(n)
          BY <2>4, <2>6, <3>2 DEF There
        <4>2. Passing(n) => Passing(n)'
          BY <1>1, PassingStays
        <4> QED BY <4>1, <4>2
      <3> QED BY <3>1, <3>2
    <2> QED BY <2>6 DEF AddsNothing
  <1> QED BY <1>2, <1>3

LEMMA UndoAddsNothing ==
    ASSUME Inv, NEW d \in Downloads, Undo(d), ~stuck'
    PROVE  AddsNothing
  <1>1. d \in Tasks /\ Alone(d)
    BY GoesAlone DEF Tasks, Save
  <1>2. disk' = [disk EXCEPT ![Name(d)] = NoFile] /\ Name(d) \in Names
    BY NameTyped DEF Undo, Inv
  <1>3. \A n \in Names : disk'[n] = IF n = Name(d) THEN NoFile ELSE disk[n]
    BY <1>2 DEF Inv, TypeOK
  <1>4. ASSUME NEW n \in Names, There(n)'
        PROVE  (There(n) /\ ~Passing(n)) \/ Passing(n)'
    <2>1. n # Name(d) /\ There(n)
      BY <1>3, <1>4 DEF There, NoFile
    <2> QED BY <1>1, <2>1, PassingStays
  <1> QED BY <1>4 DEF AddsNothing

LEMMA UnlinkAddsNothing ==
    ASSUME Inv, NEW t \in Tasks, Unlink(t), ~stuck'
    PROVE  /\ AddsNothing
           /\ \E f \in task[t].doomed : ~There(f[1])' /\ f[1] \in Names
                                        /\ task'[t] = [task[t] EXCEPT !.doomed = @ \ {f}]
  <1>1. Alone(t) /\ task[t].pc \notin Making
    BY GoesAlone DEF Prune, Unlink, At, Making
  <1>2. PICK f \in task[t].doomed :
           /\ disk' = [disk EXCEPT ![f[1]] = NoFile]
           /\ task' = [task EXCEPT ![t].doomed = @ \ {f}]
    BY DEF Unlink
  <1>3. f[1] \in Names /\ disk \in [Names -> Files] /\ task \in [Tasks -> TaskStates]
    BY DEF Inv, TypeOK, TaskStates
  <1>4. \A n \in Names : disk'[n] = IF n = f[1] THEN NoFile ELSE disk[n]
    BY <1>2, <1>3
  <1>5. (\A n \in Names : There(n)' => There(n)) /\ ~There(f[1])'
    BY <1>3, <1>4 DEF There, NoFile
  <1>6. task'[t] = [task[t] EXCEPT !.doomed = @ \ {f}]
    BY <1>2, <1>3
  <1> QED BY <1>1, <1>3, <1>5, <1>6, NothingAdded

------------------------------------------------------------------------------
LEMMA AccountedStays ==
    ASSUME AddsNothing, NEW S, Accounted(S)
    PROVE  \A n \in Names : There(n)' => n \in S \/ Passing(n)'
  BY DEF AddsNothing, Accounted

\* A clean-up that is not disturbed accounts for what it did.
LEMMA CleansOn ==
    ASSUME NEW u \in Tasks, Cleans(u), task'[u] = task[u], AddsNothing
    PROVE  Cleans(u)'
  <1>1. CASE At(u, "pruning")
    BY <1>1 DEF Cleans, At
  <1>2. CASE At(u, "looking") /\ Accounted(task[u].toSee \cup NamesOf(task[u].seen))
    BY <1>2, AccountedStays DEF Cleans, At, Accounted, NamesOf
  <1>3. CASE /\ At(u, "unlinking")
             /\ \E K \in SUBSET Names : Few(K) /\ Accounted(K \cup NamesOf(task[u].doomed))
    <2>1. PICK K \in SUBSET Names : Few(K) /\ Accounted(K \cup NamesOf(task[u].doomed))
      BY <1>3
    <2>2. Accounted(K \cup NamesOf(task[u].doomed))'
      BY <2>1, AccountedStays DEF Accounted, NamesOf
    <2> QED BY <1>3, <2>1, <2>2 DEF Cleans, At
  <1>4. CASE /\ task[u].pc \in {"linking", "done", "failed"}
             /\ \E K \in SUBSET Names : Few(K) /\ Accounted(K)
    <2>1. PICK K \in SUBSET Names : Few(K) /\ Accounted(K)
      BY <1>4
    <2>2. Accounted(K)'
      BY <2>1, AccountedStays DEF Accounted
    <2> QED BY <1>4, <2>1, <2>2 DEF Cleans
  <1> QED BY <1>1, <1>2, <1>3, <1>4 DEF Cleans

LEMMA Listed ==
    ASSUME Inv, Keep > 0, NEW t \in Tasks, List(t)
    PROVE  AddsNothing /\ Cleans(t)'
  <1>1. task' = [task EXCEPT ![t].pc = "looking", ![t].toSee = {n \in Names : There(n)}]
    BY StoreAssumption DEF List
  <1>2. task[t] \in TaskStates /\ task \in [Tasks -> TaskStates]
    BY DEF Inv, TypeOK
  <1>3. task'[t].pc = "looking" /\ task'[t].toSee = {n \in Names : There(n)}
    BY <1>1, <1>2 DEF TaskStates
  <1>4. Accounted(task[t].toSee \cup NamesOf(task[t].seen))'
    BY <1>3 DEF Accounted, There, List
  <1>5. AddsNothing
    <2>1. Alone(t) /\ task[t].pc \notin Making /\ UNCHANGED disk
      BY GoesAlone DEF Prune, List, At, Making
    <2> QED BY <2>1, NothingAdded DEF There
  <1> QED BY <1>3, <1>4, <1>5 DEF Cleans, At

LEMMA Looked ==
    ASSUME Inv, NEW t \in Tasks, NEW n \in Names, Look(t, n)
    PROVE  AddsNothing /\ (Cleans(t) => Cleans(t)')
  <1>1. Alone(t) /\ task[t].pc \notin Making /\ UNCHANGED disk
    BY GoesAlone DEF Prune, Look, At, Making
  <1>2. AddsNothing
    BY <1>1, NothingAdded DEF There
  <1>3. task[t] \in TaskStates /\ task \in [Tasks -> TaskStates]
    BY DEF Inv, TypeOK
  <1>4. /\ task'[t].pc = "looking"
        /\ task'[t].toSee = task[t].toSee \ {n}
        /\ task'[t].seen = IF There(n) THEN task[t].seen \cup {<<n, disk[n].mtime>>} ELSE task[t].seen
    BY <1>3 DEF Look, At, TaskStates
  <1>5. There(n) => n \in NamesOf(task'[t].seen)
    <2> DEFINE f == <<n, disk[n].mtime>>
    <2>1. f[1] = n
      OBVIOUS
    <2>2. There(n) => f \in task'[t].seen
      BY <1>4
    <2> HIDE DEF f
    <2> QED BY <2>1, <2>2 DEF NamesOf
  <1>6. NamesOf(task[t].seen) \subseteq NamesOf(task'[t].seen)
    BY <1>4 DEF NamesOf
  <1>7. ASSUME Cleans(t) PROVE Cleans(t)'
    <2>1. Accounted(task[t].toSee \cup NamesOf(task[t].seen))
      BY <1>7 DEF Cleans, Look, At
    <2>2. \A m \in Names : There(m)' => \/ m \in task[t].toSee \cup NamesOf(task[t].seen)
                                        \/ Passing(m)'
      BY <1>2, <2>1, AccountedStays
    <2>3. \A m \in Names : There(m)' => There(m)
      BY <1>1 DEF There
    <2>4. \A m \in Names : There(m)' => \/ m \in task'[t].toSee \cup NamesOf(task'[t].seen)
                                        \/ Passing(m)'
      BY <1>4, <1>5, <1>6, <2>2, <2>3
    <2>5. Accounted(task[t].toSee \cup NamesOf(task[t].seen))'
      BY <2>4 DEF Accounted, NamesOf
    <2> QED BY <1>4, <2>5 DEF Cleans, At
  <1> QED BY <1>2, <1>7

LEMMA SortedOut ==
    ASSUME Inv, Keep > 0, NEW t \in Tasks, IsFiniteSet(task[t].seen), Sorted(t)
    PROVE  AddsNothing /\ (Cleans(t) => Cleans(t)')
  <1> DEFINE S == task[t].seen
             K == NamesOf(S \ BeyondBound(S))
  <1>1. Alone(t) /\ task[t].pc \notin Making /\ UNCHANGED disk
    BY GoesAlone DEF Prune, Sorted, At, Making
  <1>2. AddsNothing
    BY <1>1, NothingAdded DEF There
  <1>3. task[t] \in TaskStates /\ task \in [Tasks -> TaskStates]
    BY DEF Inv, TypeOK
  <1>4. /\ task'[t].pc = "unlinking"
        /\ task'[t].doomed = BeyondBound(S)
    BY <1>3 DEF Sorted, TaskStates
  <1>5. S \in SUBSET (Names \X Nat)
    BY <1>3 DEF TaskStates
  <1>6. Few(S \ BeyondBound(S))
    BY <1>5, FewAreKept
  <1>7. S \ BeyondBound(S) \in SUBSET (Names \X Nat)
    BY <1>5
  <1>8. Few(K) /\ K \in SUBSET Names
    BY <1>6, <1>7, FewNames
  <1>9. NamesOf(S) \subseteq K \cup NamesOf(task'[t].doomed)
    BY <1>4 DEF NamesOf
  <1>10. ASSUME Cleans(t) PROVE Cleans(t)'
    <2>1. Accounted(NamesOf(S))
      BY <1>10 DEF Cleans, Sorted, At
    <2>2. \A m \in Names : There(m)' => m \in NamesOf(S) \/ Passing(m)'
      BY <1>2, <2>1, AccountedStays
    <2> HIDE DEF S, K
    <2>3. \A m \in Names : There(m)' => m \in K \cup NamesOf(task'[t].doomed) \/ Passing(m)'
      BY <1>9, <2>2
    <2>4. \E X \in SUBSET Names : Few(X) /\ Accounted(X \cup NamesOf(task[t].doomed))'
      <3>1. \E X \in SUBSET Names : /\ Few(X)
                                    /\ \A m \in Names : There(m)' =>
                                         m \in X \cup NamesOf(task'[t].doomed) \/ Passing(m)'
        BY <1>8, <2>3
      <3> QED BY <3>1 DEF Accounted, NamesOf
    <2> QED BY <1>4, <2>4 DEF Cleans, At, Few
  <1> QED BY <1>2, <1>10

LEMMA Unlinked ==
    ASSUME Inv, NEW t \in Tasks, Unlink(t), ~stuck', Cleans(t)
    PROVE  Cleans(t)'
  <1>1. AddsNothing
    BY UnlinkAddsNothing
  <1>2. PICK f \in task[t].doomed : ~There(f[1])' /\ f[1] \in Names
                                    /\ task'[t] = [task[t] EXCEPT !.doomed = @ \ {f}]
    BY UnlinkAddsNothing
  <1>3. task[t] \in TaskStates
    BY DEF Inv, TypeOK
  <1>4. task'[t].pc = "unlinking" /\ task'[t].doomed = task[t].doomed \ {f}
    BY <1>2, <1>3 DEF Unlink, At, TaskStates
  <1>5. PICK K \in SUBSET Names : Few(K) /\ Accounted(K \cup NamesOf(task[t].doomed))
    BY DEF Cleans, Unlink, At
  <1>6. \A m \in Names : There(m)' => m \in K \cup NamesOf(task[t].doomed) \/ Passing(m)'
    BY <1>1, <1>5, AccountedStays
  <1>7. \A m \in NamesOf(task[t].doomed) : m # f[1] => m \in NamesOf(task'[t].doomed)
    BY <1>4 DEF NamesOf
  <1>8. \A m \in Names : There(m)' => m \in K \cup NamesOf(task'[t].doomed) \/ Passing(m)'
    BY <1>2, <1>6, <1>7
  <1>9. Accounted(K \cup NamesOf(task[t].doomed))'
    BY <1>8 DEF Accounted, NamesOf
  <1> QED BY <1>4, <1>5, <1>9 DEF Cleans, At, Few

\* The end of a clean-up, and of a download, keeps its account.
LEMMA EndedSo ==
    ASSUME Inv, NEW t \in Tasks, AllUnlinked(t) \/ (t \in Downloads /\ Link(t))
    PROVE  AddsNothing /\ (Cleans(t) => Cleans(t)')
  <1>1. Alone(t) /\ task[t].pc \notin Making /\ UNCHANGED disk
    BY GoesAlone DEF Prune, AllUnlinked, Link, At, Making
  <1>2. AddsNothing
    BY <1>1, NothingAdded DEF There
  <1>3. \E pc \in {"linking", "done", "failed"} : Goto(t, pc)
    BY DEF AllUnlinked, Link, Cleaned
  <1>4. task'[t].pc \in {"linking", "done", "failed"}
    BY <1>3 DEF Goto, Inv, TypeOK
  <1>5. ASSUME Cleans(t) PROVE \E K \in SUBSET Names : Few(K) /\ Accounted(K)
    <2>1. CASE AllUnlinked(t)
      <3>1. PICK K \in SUBSET Names : Few(K) /\ Accounted(K \cup NamesOf(task[t].doomed))
        BY <1>5, <2>1 DEF Cleans, AllUnlinked, At
      <3>2. NamesOf(task[t].doomed) = {}
        BY <2>1 DEF NamesOf, AllUnlinked
      <3>3. K \cup NamesOf(task[t].doomed) = K
        BY <3>2
      <3> QED BY <3>1, <3>3
    <2>2. CASE Link(t)
      BY <1>5, <2>2 DEF Cleans, Link, At
    <2> QED BY <2>1, <2>2
  <1>6. ASSUME Cleans(t) PROVE Cleans(t)'
    <2>1. PICK K \in SUBSET Names : Few(K) /\ Accounted(K)
      BY <1>5, <1>6
    <2>2. Accounted(K)'
      BY <1>2, <2>1, AccountedStays DEF Accounted
    <2> QED BY <1>4, <2>1, <2>2 DEF Cleans, Few
  <1> QED BY <1>2, <1>6

------------------------------------------------------------------------------
LEMMA SeenStaysFinite ==
    ASSUME Inv, \A t \in Tasks : IsFiniteSet(task[t].seen), [Next]_vars
    PROVE  \A t \in Tasks : IsFiniteSet(task'[t].seen)
  <1>1. task \in [Tasks -> TaskStates]
    BY DEF Inv, TypeOK
  <1>2. ASSUME NEW t \in Tasks, Alone(t),
               IsFiniteSet(task'[t].seen)
        PROVE  \A u \in Tasks : IsFiniteSet(task'[u].seen)
    BY <1>2 DEF Alone
  <1>3. ASSUME NEW t \in Tasks, NEW pc, Goto(t, pc)
        PROVE  \A u \in Tasks : task'[u].seen = task[u].seen
    BY <1>1, <1>3 DEF Goto, TaskStates
  <1>4. ASSUME NEW d \in Downloads, TryNext(d)
        PROVE  \A u \in Tasks : task'[u].seen = task[u].seen
    BY <1>1, <1>4 DEF TryNext, TaskStates, Tasks
  <1>5. CASE UNCHANGED task
    BY <1>5
  <1>6. ASSUME NEW d \in Downloads, Save(d) \/ Link(d)
        PROVE  \A u \in Tasks : task'[u].seen = task[u].seen
    <2>1. d \in Tasks /\ (TryNext(d) \/ \E pc \in PCs : Goto(d, pc))
      BY <1>6 DEF Tasks, PCs, Save, Link, Download, Create, Write, WriteFails, Undo, IsFile,
                  Compare, Touch
    <2> QED BY <1>3, <1>4, <2>1
  <1>7. ASSUME NEW t \in Tasks, Killed(t) \/ AllUnlinked(t) \/ (t \in Starts /\ Start(t))
        PROVE  \A u \in Tasks : task'[u].seen = task[u].seen
    <2>1. \E pc \in PCs : Goto(t, pc)
      BY <1>7 DEF PCs, Killed, AllUnlinked, Cleaned, Start
    <2> QED BY <1>3, <2>1
  <1>8. ASSUME NEW t \in Tasks, List(t) \/ Unlink(t)
        PROVE  \A u \in Tasks : task'[u].seen = task[u].seen
    <2>1. CASE List(t)
      BY <1>1, <2>1 DEF List, TaskStates
    <2>2. CASE Unlink(t)
      BY <1>1, <2>2 DEF Unlink, TaskStates
    <2> QED BY <1>8, <2>1, <2>2
  <1>9. ASSUME NEW t \in Tasks, Sorted(t)
        PROVE  \A u \in Tasks : IsFiniteSet(task'[u].seen)
    <2>1. task'[t].seen = {}
      BY <1>1, <1>9 DEF Sorted, TaskStates
    <2> QED BY <1>2, <1>9, <2>1, FS_EmptySet, GoesAlone DEF Prune
  <1>10. ASSUME NEW t \in Tasks, NEW n \in Names, Look(t, n)
         PROVE  \A u \in Tasks : IsFiniteSet(task'[u].seen)
    <2>1. task'[t].seen = IF There(n) THEN task[t].seen \cup {<<n, disk[n].mtime>>}
                          ELSE task[t].seen
      BY <1>1, <1>10 DEF Look, TaskStates
    <2>2. IsFiniteSet(task'[t].seen)
      BY <2>1, FS_AddElement
    <2>3. Alone(t)
      BY <1>10, GoesAlone DEF Prune
    <2> QED BY <1>2, <2>2, <2>3
  <1>11. Tick \/ UNCHANGED vars => UNCHANGED task
    BY DEF Tick, vars
  <1> QED BY <1>5, <1>6, <1>7, <1>8, <1>9, <1>10, <1>11 DEF Next, Prune, Tasks

\* What is disturbed stays so.
LEMMA UndisturbedBefore ==
    ASSUME Inv, [Next]_vars, Undisturbed'
    PROVE  Undisturbed
  <1>1. ~stuck
    BY DEF Undisturbed, Next, vars, Tick, Save, Link, Start, Prune, Killed, Download, Create,
           Write, WriteFails, Undo, IsFile, Compare, Touch, List, Look, Sorted, Unlink, AllUnlinked
  <1>2. ASSUME NEW u \in Tasks, At(u, "killed")
        PROVE  task'[u] = task[u]
    <2>1. ASSUME NEW t \in Tasks, ~At(t, "killed"), Alone(t)
          PROVE  task'[u] = task[u]
      BY <1>2, <2>1 DEF Alone
    <2>2. CASE Tick \/ UNCHANGED vars
      BY <2>2 DEF Tick, vars
    <2>3. ASSUME NEW d \in Downloads, Save(d) \/ Link(d)
          PROVE  task'[u] = task[u]
      <3>1. ~At(d, "killed")
        BY <2>3 DEF Save, Link, Download, Create, Write, WriteFails, Undo, IsFile,
                    Compare, Touch, At
      <3> QED BY <2>1, <2>3, <3>1, GoesAlone DEF Tasks
    <2>4. ASSUME NEW t \in Tasks, Prune(t) \/ Killed(t) \/ (t \in Starts /\ Start(t))
          PROVE  task'[u] = task[u]
      <3>1. ~At(t, "killed")
        BY <2>4 DEF Prune, Killed, Ended, List, Look, Sorted, Unlink, AllUnlinked, Start, At
      <3> QED BY <2>1, <2>4, <3>1, GoesAlone
    <2> QED BY <2>2, <2>3, <2>4 DEF Next, Tasks
  <1> QED BY <1>1, <1>2 DEF Undisturbed, At

\* A clean-up that is to come accounts for anything.
LEMMA Begun ==
    ASSUME NEW t \in Tasks, Inv, (t \in Downloads /\ (Write(t) \/ Touch(t))) \/ (t \in Starts /\ Start(t))
    PROVE  Cleans(t)'
  <1>1. Goto(t, "pruning")
    BY DEF Write, Touch, Start
  <1>2. task'[t].pc = "pruning"
    BY <1>1, WentTo DEF Inv, PCs
  <1> QED BY <1>2 DEF Cleans, At

\* What other steps leave of the clean-ups: they add nothing, and the step's
\* own task cleaned before if it is cleaning now.
LEMMA Otherwise ==
    ASSUME Inv, NEW d \in Downloads, ~stuck',
           Download(d) \/ Create(d) \/ WriteFails(d) \/ Undo(d) \/ IsFile(d) \/ Compare(d)
    PROVE  AddsNothing /\ ~Cleans(d) /\ task'[d].pc \notin CleanUps
  <1>1. d \in Tasks /\ Alone(d) /\ task \in [Tasks -> TaskStates]
    BY GoesAlone DEF Tasks, Save, Inv, TypeOK
  <1>2. ~Cleans(d)
    BY DEF Cleans, At, Download, Create, WriteFails, Undo, IsFile, Compare
  <1>3. task'[d].pc \notin CleanUps
    <2>1. \/ TryNext(d)
          \/ \E pc \in {"creating", "writing", "asking", "undoing", "failed", "reading", "renewing"} :
                Goto(d, pc)
      BY DEF Download, Create, WriteFails, Undo, IsFile, Compare
    <2>2. task'[d].pc \in {"creating", "writing", "asking", "undoing", "failed", "reading", "renewing"}
      BY <1>1, <2>1 DEF TryNext, Goto, TaskStates
    <2> QED BY <2>2 DEF CleanUps
  <1>4. CASE Create(d) \/ Undo(d)
    BY <1>2, <1>3, <1>4, CreateAddsNothing, UndoAddsNothing
  <1>5. CASE Download(d) \/ IsFile(d) \/ Compare(d)
    <2>1. task[d].pc \notin Making /\ UNCHANGED disk
      BY <1>5 DEF Download, IsFile, Compare, At, Making
    <2> QED BY <1>1, <1>2, <1>3, <2>1, NothingAdded DEF There
  <1>6. CASE WriteFails(d)
    <2>1. UNCHANGED disk /\ Goto(d, "undoing") /\ TypeOK /\ "undoing" \in PCs
      BY <1>6 DEF WriteFails, Inv, PCs
    <2>2. task'[d].pc = "undoing" /\ task'[d].at = task[d].at
      BY <1>1, <2>1, WentTo
    <2> QED BY <1>1, <1>2, <1>3, <2>1, <2>2, NothingAdded DEF There, Making
  <1> QED BY <1>2, <1>3, <1>4, <1>5, <1>6

LEMMA BoundedStep == Inv /\ Bounded /\ [Next]_vars => Bounded'
  <1> SUFFICES ASSUME Inv, Bounded, [Next]_vars, Undisturbed',
                      NEW s \in Tasks, task'[s].pc \in CleanUps
               PROVE  \E t \in Tasks : Cleans(t)'
    BY SeenStaysFinite DEF Bounded
  <1>1. /\ Keep > 0 /\ ~stuck'
        /\ \A t \in Tasks : task'[t].pc # "killed" /\ IsFiniteSet(task[t].seen)
    BY DEF Undisturbed, Bounded, At
  <1>2. (\E t \in Tasks : task[t].pc \in CleanUps) => \E t \in Tasks : Cleans(t)
    BY UndisturbedBefore DEF Bounded
  <1>3. CASE Tick \/ UNCHANGED vars
    <2>1. UNCHANGED <<disk, task>>
      BY <1>3 DEF Tick, vars
    <2>2. AddsNothing
      BY <2>1 DEF AddsNothing, There, Passing, Name
    <2>3. PICK u \in Tasks : Cleans(u)
      BY <1>2, <2>1
    <2> QED BY <2>1, <2>2, <2>3, CleansOn
  <1>4. ASSUME NEW t \in Tasks, Alone(t), AddsNothing, Cleans(t) => Cleans(t)',
               task'[t].pc \in CleanUps => task[t].pc \in CleanUps
        PROVE  \E u \in Tasks : Cleans(u)'
    <2>1. \E u \in Tasks : task[u].pc \in CleanUps
      BY <1>4 DEF Alone
    <2>2. PICK u \in Tasks : Cleans(u)
      BY <1>2, <2>1
    <2>3. u # t => Cleans(u)'
      BY <1>4, <2>2, CleansOn DEF Alone
    <2> QED BY <1>4, <2>2, <2>3
  <1>5. ASSUME NEW d \in Downloads, Save(d)
        PROVE  \E u \in Tasks : Cleans(u)'
    <2>1. d \in Tasks /\ Alone(d)
      BY <1>5, GoesAlone DEF Tasks
    <2>2. CASE Write(d) \/ Touch(d)
      BY <2>1, <2>2, Begun
    <2>3. CASE ~(Write(d) \/ Touch(d))
      BY <1>1, <1>4, <1>5, <2>1, <2>3, Otherwise DEF Save
    <2> QED BY <2>2, <2>3
  <1>6. ASSUME NEW d \in Downloads, Link(d)
        PROVE  \E u \in Tasks : Cleans(u)'
    <2>1. d \in Tasks /\ Alone(d) /\ task[d].pc \in CleanUps
      BY <1>6, GoesAlone DEF Tasks, Link, At, CleanUps
    <2> QED BY <1>4, <1>6, <2>1, EndedSo
  <1>7. ASSUME NEW t \in Starts, Start(t)
        PROVE  \E u \in Tasks : Cleans(u)'
    BY <1>7, Begun DEF Tasks
  <1>8. ASSUME NEW t \in Tasks, Prune(t)
        PROVE  \E u \in Tasks : Cleans(u)'
    <2>1. Alone(t) /\ task[t].pc \in CleanUps
      BY <1>8, GoesAlone DEF Prune, List, Look, Sorted, Unlink, AllUnlinked, At, CleanUps
    <2>2. AddsNothing /\ (Cleans(t) => Cleans(t)')
      BY <1>1, <1>8, Listed, Looked, SortedOut, Unlinked, UnlinkAddsNothing, EndedSo DEF Prune
    <2> QED BY <1>4, <2>1, <2>2
  <1>9. ASSUME NEW t \in Tasks, Killed(t)
        PROVE  FALSE
    BY <1>1, <1>9, WentTo DEF Killed, Inv, PCs
  <1> QED BY <1>3, <1>5, <1>6, <1>7, <1>8, <1>9 DEF Next

(***************************************************************************)
(* Once nothing is under way and something was, no more than Keep files    *)
(* are left, for any number of downloads, clean-ups and files: the bound   *)
(* of prune, with every file deletable and no process killed.              *)
(***************************************************************************)
THEOREM BoundKeptAlways == Spec => []BoundKept
  <1>1. Init => Bounded
    <2> SUFFICES ASSUME Init PROVE Bounded
      OBVIOUS
    <2>1. \A t \in Tasks : task[t].seen = {} /\ task[t].pc = "idle"
      BY DEF Init, Idle
    <2> QED BY <2>1, FS_EmptySet DEF Bounded, CleanUps
  <1> QED BY <1>1, BoundedStep, BoundedMeans, InvInit, InvStep, PTL DEF Spec
==============================================================================
