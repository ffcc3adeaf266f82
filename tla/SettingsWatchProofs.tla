------------------------- MODULE SettingsWatchProofs -------------------------
(***************************************************************************)
(* That a server whose settings file is the one its watch compares with    *)
(* has the settings of that file, for every number of saves and crashes.   *)
(***************************************************************************)
EXTENDS SettingsWatch, TLAPS

\* Reading a file gives a text; only its form changes (settings/envfile.py
\* _read_text).
LEMMA LinesAreText ==
  ASSUME NEW f \in Contents
  PROVE  /\ Lines(f) \in Texts
         /\ Lines(f).other = f.other
         /\ Lines(f).token = f.token
  BY DEF Lines, Contents, Texts, Forms

\* The kinds of content, and which are which.
LEMMA Kinds == /\ Texts \subseteq Contents
               /\ Texts \subseteq Drafts
               /\ NoFile \in Contents /\ Torn \in Contents /\ Unread \in Drafts
               /\ NoFile \notin Texts /\ Unread \notin Texts /\ Unread \notin Contents
               /\ Torn.form = "torn" /\ NoFile.form = "none" /\ Unread.form = "unread"
               /\ NoFile.other = 0 /\ NoFile.token = 0
               /\ Torn.other = 0 /\ Torn.token = 0
               /\ Unread.other = 0 /\ Unread.token = 0
               /\ \A f \in Texts: f.form = "whole"
  BY DEF Texts, Contents, Drafts, Forms, NoFile, Torn, Unread

\* A text with a field set to a number is a text.
LEMMA SetIsText ==
  ASSUME NEW f \in Texts, NEW n \in Nat
  PROVE  /\ [f EXCEPT !.token = n] \in Texts
         /\ [f EXCEPT !.token = n].token = n
         /\ [f EXCEPT !.token = n].other = f.other
  BY DEF Texts

LEMMA SetOtherIsText ==
  ASSUME NEW f \in Texts, NEW n \in Nat, NEW v \in {TRUE, f.valid}
  PROVE  /\ [f EXCEPT !.other = n, !.valid = v] \in Texts
         /\ [f EXCEPT !.other = n, !.valid = v].other = n
         /\ [f EXCEPT !.other = n, !.valid = v].token = f.token
  BY DEF Texts

-----------------------------------------------------------------------------
\* A token is written among lines that were read (settings/envfile.py
\* update_env_file).
Reading == pc = "writing" => lines \in Texts

LEMMA TypedAndReading == Spec => [](TypeOK /\ Reading)
<1>1. Init => TypeOK /\ Reading
  <2> SUFFICES ASSUME Init PROVE TypeOK /\ Reading
    OBVIOUS
  <2>1. file \in Contents
    BY Kinds DEF Init, Contents, Forms
  <2>2. byHand \in 0..MaxSaves /\ crashes \in 0..MaxCrashes
    BY WatchAssumption DEF Init, WatchAssumption
  <2> QED
    BY <2>1, <2>2, Kinds, LinesAreText DEF Init, TypeOK, Stages, Reading
<1>2. TypeOK /\ Reading /\ [Next]_vars => (TypeOK /\ Reading)'
  <2> SUFFICES ASSUME TypeOK, Reading, [Next]_vars PROVE (TypeOK /\ Reading)'
    OBVIOUS
  <2> USE DEF TypeOK, Reading
  <2>1. CASE Snapshot
    BY <2>1, Kinds DEF Snapshot, people, Stages
  <2>2. CASE Load
    BY <2>2, LinesAreText DEF Load, people, Stages
  <2>3. CASE Serve
    BY <2>3 DEF Serve, people, Stages
  <2>4. CASE ReadForToken
    BY <2>4, LinesAreText DEF ReadForToken, people, Stages
  <2>5. CASE WriteToken
    <3>1. lines \in Texts /\ loaded \in Texts /\ saves + 1 \in Nat
      BY <2>5 DEF WriteToken
    <3>2. [lines EXCEPT !.token = saves + 1] \in Contents
      BY <3>1, SetIsText, SetOtherIsText, Kinds
    <3>3. [loaded EXCEPT !.token = saves + 1] \in Texts
      BY <3>1, SetIsText
    <3> QED
      BY <2>5, <3>1, <3>2, <3>3 DEF WriteToken, people, Stages
  <2>6. CASE SnapshotAgain
    BY <2>6 DEF SnapshotAgain, people, Stages
  <2>7. CASE Look
    BY <2>7 DEF Look, people
  <2>8. CASE LookAgain
    BY <2>8 DEF LookAgain, people, Stages
  <2>9. CASE Ends
    BY <2>9, Kinds DEF Ends, people, Stages
  <2>10. CASE Crash
    <3>1. crashes' \in 0..MaxCrashes
      BY <2>10, WatchAssumption DEF Crash, WatchAssumption
    <3> QED
      BY <2>10, <3>1 DEF Crash, people, Stages
  <2>11. CASE PageReads
    <3>1. byHand' \in 0..MaxSaves
      BY <2>11, WatchAssumption DEF PageReads, WatchAssumption
    <3> QED
      BY <2>11, <3>1, LinesAreText DEF PageReads, server
  <2>12. CASE PageWrites
    <3>1. page \in Texts /\ saves + 1 \in Nat
      BY <2>12 DEF PageWrites
    <3>2. /\ [page EXCEPT !.token = saves + 1] \in Contents
          /\ \A v \in {TRUE, page.valid}: [page EXCEPT !.other = saves + 1, !.valid = v] \in Contents
      BY <3>1, SetIsText, SetOtherIsText, Kinds
    <3> QED
      BY <2>12, <3>1, <3>2, Kinds DEF PageWrites, server
  <2>13. CASE PageFails
    BY <2>13 DEF PageFails, server
  <2>14. CASE Opens
    <3>1. byHand' \in 0..MaxSaves
      BY <2>14, WatchAssumption DEF Opens, WatchAssumption
    <3>2. editor' \in Drafts
      BY <2>14, LinesAreText, Kinds DEF Opens
    <3> QED
      BY <2>14, <3>1, <3>2 DEF Opens, server
  <2>15. CASE Truncates
    <3>1. editor' \in Drafts
      BY <2>15 DEF Truncates, Drafts
    <3> QED
      BY <2>15, <3>1, Kinds DEF Truncates, server
  <2>16. CASE Writes
    <3>1. saves + 1 \in Nat /\ editor.token \in Nat
      BY DEF Drafts
    <3>2. file' \in Contents
      <4>1. PICK valid \in BOOLEAN, token \in {0, editor.token}:
               file' = IF file = Torn
                       THEN [form |-> "whole", other |-> saves + 1, valid |-> valid, token |-> token]
                       ELSE file
        BY <2>16 DEF Writes
      <4>2. [form |-> "whole", other |-> saves + 1, valid |-> valid, token |-> token] \in Contents
        BY <3>1 DEF Contents, Forms
      <4> QED
        BY <4>1, <4>2
    <3> QED
      BY <2>16, <3>1, <3>2, Kinds DEF Writes, server
  <2>17. CASE UNCHANGED vars
    BY <2>17 DEF vars, server, people
  <2> QED
    BY <2>1, <2>2, <2>3, <2>4, <2>5, <2>6, <2>7, <2>8, <2>9, <2>10, <2>11, <2>12,
       <2>13, <2>14, <2>15, <2>16, <2>17 DEF Next
<1> QED
  BY <1>1, <1>2, PTL DEF Spec

\* Every variable keeps its type (cli.py, transport/watch.py).
THEOREM WatchTyped == Spec => []TypeOK
  BY TypedAndReading, PTL

-----------------------------------------------------------------------------
(***************************************************************************)
(* Why it is taken as read.  Every save gives a text a number no text had, *)
(* so once the file is not the one the snapshot has, it never is again:    *)
(* it is torn or newer.  So if it is the snapshot's still, it was when the *)
(* settings were read, which was after the snapshot.                       *)
(***************************************************************************)
\* No text has the number of a save to come.
Numbered(f) == f.other <= saves /\ f.token <= saves

Known == /\ Numbered(file) /\ Numbered(base)
         /\ Numbered(page) /\ Numbered(editor) /\ Numbered(lines)

\* f was saved after every save of g.
Newer(f, g) == \/ f.other > g.other /\ f.other > g.token
               \/ f.token > g.other /\ f.token > g.token

Moved == file = base \/ file = Torn \/ Newer(file, base)

Stayed == /\ pc = "wrote" => made
          /\ pc \notin {"down", "snapped"} /\ ~made /\ file = base /\ file.form # "torn"
                => Same(loaded, file)

IInv == TypeOK /\ Reading /\ Known /\ Moved /\ Stayed

\* A text made of known ones and the next number is newer than the
\* snapshot, and so is not the snapshot.
LEMMA NextIsNewer ==
  ASSUME NEW f, NEW g, NEW n \in Nat,
         f.other \in Nat, f.token \in Nat, g.other \in Nat, g.token \in Nat,
         g.other <= n, g.token <= n, f.other = n + 1 \/ f.token = n + 1
  PROVE  Newer(f, g) /\ f # g
  BY DEF Newer
\* Each part of the invariant, from step to step.
LEMMA KnownStays == TypeOK /\ Reading /\ Known /\ [Next]_vars => Known'
<1> SUFFICES ASSUME TypeOK, Reading, Known, [Next]_vars PROVE Known'
  OBVIOUS
<1> USE DEF Known, Numbered
<1>t. /\ saves \in Nat
      /\ \A f \in {file, base, page, editor, lines}: f.other \in Nat /\ f.token \in Nat
  BY Kinds DEF TypeOK, Contents, Texts, Drafts
<1>l. Lines(file).other = file.other /\ Lines(file).token = file.token
  BY LinesAreText DEF TypeOK
<1>1. CASE Snapshot
  BY <1>1, Kinds, <1>t DEF Snapshot, people
<1>2. CASE Load
  BY <1>2 DEF Load, people
<1>3. CASE Serve
  BY <1>3 DEF Serve, people
<1>4. CASE ReadForToken
  BY <1>4, <1>l DEF ReadForToken, people
<1>5. CASE WriteToken
  <2>1. lines \in Texts /\ saves + 1 \in Nat
    BY <1>5, <1>t DEF WriteToken, Reading
  <2>2. file'.other = lines.other /\ file'.token = saves + 1
    BY <1>5, <2>1, SetIsText DEF WriteToken
  <2> QED
    BY <1>5, <2>2, <1>t DEF WriteToken, people
<1>6. CASE SnapshotAgain
  BY <1>6 DEF SnapshotAgain, people
<1>7. CASE Look
  BY <1>7 DEF Look, people
<1>8. CASE LookAgain
  BY <1>8 DEF LookAgain, people
<1>9. CASE Ends
  BY <1>9, Kinds, <1>t DEF Ends, people
<1>10. CASE Crash
  BY <1>10 DEF Crash, people
<1>11. CASE PageReads
  BY <1>11, <1>l DEF PageReads, server
<1>12. CASE PageWrites
  <2>1. page \in Texts /\ saves + 1 \in Nat
    BY <1>12, <1>t DEF PageWrites, TypeOK
  <2>s. /\ [page EXCEPT !.token = saves + 1] \in Texts
        /\ [page EXCEPT !.token = saves + 1].token = saves + 1
        /\ [page EXCEPT !.token = saves + 1].other = page.other
        /\ \A v \in {TRUE, page.valid}:
              /\ [page EXCEPT !.other = saves + 1, !.valid = v] \in Texts
              /\ [page EXCEPT !.other = saves + 1, !.valid = v].other = saves + 1
              /\ [page EXCEPT !.other = saves + 1, !.valid = v].token = page.token
    BY <2>1, SetIsText, SetOtherIsText
  <2>2. \/ file'.other = page.other /\ file'.token = saves + 1
        \/ file'.token = page.token /\ file'.other = saves + 1
    <3>1. CASE file' = [page EXCEPT !.token = saves + 1]
      BY <3>1, <2>s
    <3>2. ASSUME NEW v \in {TRUE, page.valid},
                 file' = [page EXCEPT !.other = saves + 1, !.valid = v]
          PROVE  \/ file'.other = page.other /\ file'.token = saves + 1
                 \/ file'.token = page.token /\ file'.other = saves + 1
      BY <3>2, <2>s
    <3> QED
      BY <1>12, <3>1, <3>2 DEF PageWrites
  <2> QED
    BY <1>12, <2>2, <1>t, Kinds DEF PageWrites, server
<1>13. CASE PageFails
  BY <1>13, Kinds, <1>t DEF PageFails, server
<1>14. CASE Opens
  BY <1>14, <1>l DEF Opens, server
<1>15. CASE Truncates
  <2>1. editor'.other = editor.other /\ editor'.token = editor.token
    BY <1>15 DEF Truncates, TypeOK, Drafts
  <2> QED
    BY <1>15, <2>1, Kinds, <1>t DEF Truncates, server
<1>16. CASE Writes
  <2>1. file'.other <= saves + 1 /\ file'.token <= saves + 1
    <3>1. PICK valid \in BOOLEAN, token \in {0, editor.token}:
             file' = IF file = Torn
                     THEN [form |-> "whole", other |-> saves + 1, valid |-> valid, token |-> token]
                     ELSE file
      BY <1>16 DEF Writes
    <3> QED
      BY <3>1, <1>t
  <2> QED
    BY <1>16, <2>1, Kinds, <1>t DEF Writes, server
<1>17. CASE UNCHANGED vars
  BY <1>17 DEF vars, server, people
<1> QED
  BY <1>1, <1>2, <1>3, <1>4, <1>5, <1>6, <1>7, <1>8, <1>9, <1>10, <1>11, <1>12,
     <1>13, <1>14, <1>15, <1>16, <1>17 DEF Next
\* Whoever changes the file, it is torn or newer than the snapshot from
\* then on.
LEMMA ChangedIsApart ==
  ASSUME TypeOK, Reading, Known, Next
  PROVE  \/ file' = file
         \/ file' = Torn
         \/ Newer(file', base) /\ file' # base
<1>t. /\ saves \in Nat /\ base.other \in Nat /\ base.token \in Nat
      /\ base.other <= saves /\ base.token <= saves
      /\ editor.token \in Nat
  BY Kinds DEF TypeOK, Contents, Texts, Drafts, Known, Numbered
<1>1. CASE WriteToken
  <2>1. lines \in Texts /\ saves + 1 \in Nat
    BY <1>1, <1>t DEF WriteToken, Reading
  <2>2. file' \in Texts /\ file'.token = saves + 1
    BY <1>1, <2>1, SetIsText DEF WriteToken
  <2> QED
    BY <2>2, <1>t, NextIsNewer DEF Texts
<1>2. CASE PageWrites
  <2>1. page \in Texts /\ saves + 1 \in Nat
    BY <1>2, <1>t DEF PageWrites, TypeOK
  <2>s. /\ [page EXCEPT !.token = saves + 1] \in Texts
        /\ [page EXCEPT !.token = saves + 1].token = saves + 1
        /\ [page EXCEPT !.token = saves + 1].other = page.other
        /\ \A v \in {TRUE, page.valid}:
              /\ [page EXCEPT !.other = saves + 1, !.valid = v] \in Texts
              /\ [page EXCEPT !.other = saves + 1, !.valid = v].other = saves + 1
              /\ [page EXCEPT !.other = saves + 1, !.valid = v].token = page.token
    BY <2>1, SetIsText, SetOtherIsText
  <2>2. file' \in Texts /\ (file'.token = saves + 1 \/ file'.other = saves + 1)
    <3>1. CASE file' = [page EXCEPT !.token = saves + 1]
      BY <3>1, <2>s
    <3>2. ASSUME NEW v \in {TRUE, page.valid},
                 file' = [page EXCEPT !.other = saves + 1, !.valid = v]
          PROVE  file' \in Texts /\ (file'.token = saves + 1 \/ file'.other = saves + 1)
      BY <3>2, <2>s
    <3> QED
      BY <1>2, <3>1, <3>2 DEF PageWrites
  <2> QED
    BY <2>2, <1>t, NextIsNewer DEF Texts
<1>3. CASE Writes
  <2>1. PICK valid \in BOOLEAN, token \in {0, editor.token}:
           file' = IF file = Torn
                   THEN [form |-> "whole", other |-> saves + 1, valid |-> valid, token |-> token]
                   ELSE file
    BY <1>3 DEF Writes
  <2>2. CASE file = Torn
    <3>1. file'.other = saves + 1 /\ file'.token \in Nat
      BY <2>1, <2>2, <1>t
    <3> QED
      BY <3>1, <1>t, NextIsNewer
  <2> QED
    BY <2>1, <2>2
<1>4. CASE Truncates
  BY <1>4 DEF Truncates
<1> QED
  BY <1>1, <1>2, <1>3, <1>4
     DEF Next, Snapshot, Load, Serve, ReadForToken, SnapshotAgain, Look, LookAgain, Ends,
         Crash, PageReads, PageFails, Opens

LEMMA MovedStays == TypeOK /\ Reading /\ Known /\ Moved /\ [Next]_vars => Moved'
<1> SUFFICES ASSUME TypeOK, Reading, Known, Moved, [Next]_vars PROVE Moved'
  OBVIOUS
<1>1. CASE UNCHANGED vars
  BY <1>1 DEF vars, server, Moved, Newer
<1>2. CASE Snapshot \/ SnapshotAgain
  BY <1>2 DEF Snapshot, SnapshotAgain, Moved
<1>3. ASSUME Next, ~(Snapshot \/ SnapshotAgain) PROVE Moved'
  <2>1. base' = base
    BY <1>3 DEF Next, Load, Serve, ReadForToken, WriteToken, Look, LookAgain, Ends, Crash,
                PageReads, PageWrites, PageFails, Opens, Truncates, Writes, server
  <2>2. Newer(file', base) => Newer(file', base')
    BY <2>1
  <2> QED
    BY <1>3, <2>1, ChangedIsApart DEF Moved, Newer
<1> QED
  BY <1>1, <1>2, <1>3
LEMMA StayedStays ==
  TypeOK /\ Reading /\ Known /\ Moved /\ Stayed /\ [Next]_vars => Stayed'
<1> SUFFICES ASSUME TypeOK, Reading, Known, Moved, Stayed, [Next]_vars PROVE Stayed'
  OBVIOUS
<1>1. CASE UNCHANGED vars
  BY <1>1 DEF vars, server, Stayed, Same
<1>2. CASE Snapshot
  BY <1>2 DEF Snapshot, Stayed
<1>3. CASE Load
  BY <1>3, LinesAreText DEF Load, Stayed, Same, TypeOK
<1>4. CASE Serve
  BY <1>4 DEF Serve, Stayed, Same
<1>5. CASE ReadForToken
  BY <1>5 DEF ReadForToken, Stayed, Same
<1>6. CASE WriteToken
  BY <1>6 DEF WriteToken, Stayed
<1>7. CASE SnapshotAgain
  BY <1>7 DEF SnapshotAgain, Stayed
<1>8. CASE Look
  BY <1>8 DEF Look, Stayed, Same
<1>9. CASE LookAgain
  BY <1>9 DEF LookAgain, Watching, Stayed, Same
<1>10. CASE Ends
  BY <1>10 DEF Ends, Stayed
<1>11. CASE Crash
  BY <1>11 DEF Crash, Stayed
<1>12. CASE PageReads \/ PageWrites \/ PageFails \/ Opens \/ Truncates \/ Writes
  <2>1. UNCHANGED server
    BY <1>12 DEF PageReads, PageWrites, PageFails, Opens, Truncates, Writes
  <2>2. CASE file' = file
    BY <2>1, <2>2 DEF Stayed, Same, server
  <2>3. CASE file' # file
    <3>1. file' = Torn \/ file' # base
      BY <2>3, <1>12, ChangedIsApart DEF Next
    <3> QED
      BY <2>1, <3>1, Kinds DEF Stayed, server
  <2> QED
    BY <2>2, <2>3
<1> QED
  BY <1>1, <1>2, <1>3, <1>4, <1>5, <1>6, <1>7, <1>8, <1>9, <1>10, <1>11, <1>12 DEF Next

LEMMA IInvAlways == Spec => []IInv
<1>1. Init => IInv
  <2> SUFFICES ASSUME Init PROVE IInv
    OBVIOUS
  <2>1. TypeOK /\ Reading
    <3>1. file \in Contents
      BY Kinds DEF Init, Contents, Forms
    <3>2. byHand \in 0..MaxSaves /\ crashes \in 0..MaxCrashes
      BY WatchAssumption DEF Init, WatchAssumption
    <3> QED
      BY <3>1, <3>2, Kinds, LinesAreText DEF Init, TypeOK, Stages, Reading
  <2>2. Known
    BY Kinds DEF Init, Known, Numbered
  <2>3. Moved
    BY Kinds DEF Init, Moved, Newer
  <2>4. Stayed
    BY DEF Init, Stayed
  <2> QED
    BY <2>1, <2>2, <2>3, <2>4 DEF IInv
<1>2. TypeOK /\ Reading /\ (TypeOK /\ Reading)' /\ IInv /\ [Next]_vars => IInv'
  BY KnownStays, MovedStays, StayedStays DEF IInv
<1> QED
  BY <1>1, <1>2, TypedAndReading, PTL DEF Spec

\* A server whose file is its snapshot's, and which made no token, has the
\* settings of the file (cli.py main, transport/watch.py snapshot).
THEOREM TakenAsReadAlways == Spec => []TakenAsRead
<1>1. IInv => TakenAsRead
  BY DEF IInv, Stayed, TakenAsRead, ReadAsCompared
<1> QED
  BY <1>1, IInvAlways, PTL

-----------------------------------------------------------------------------
\* A file an editor has emptied is the empty one: every other way a file comes
\* about is a whole text (settings/envfile.py update_env_file).
TornIsEmpty == file.form = "torn" => file = Torn

LEMMA TornStays == TypeOK /\ Reading /\ TornIsEmpty /\ [Next]_vars => TornIsEmpty'
<1> SUFFICES ASSUME TypeOK, Reading, TornIsEmpty, [Next]_vars, file' # file
             PROVE  TornIsEmpty'
  BY DEF TornIsEmpty
<1>1. CASE WriteToken
  <2>1. lines \in Texts /\ saves + 1 \in Nat
    BY <1>1 DEF WriteToken, Reading, TypeOK
  <2>2. file' \in Texts
    BY <1>1, <2>1, SetIsText DEF WriteToken
  <2> QED
    BY <2>2 DEF Texts, TornIsEmpty
<1>2. CASE PageWrites
  <2>1. page \in Texts /\ saves + 1 \in Nat
    BY <1>2 DEF PageWrites, TypeOK
  <2>2. /\ [page EXCEPT !.token = saves + 1] \in Texts
        /\ \A v \in {TRUE, page.valid} : [page EXCEPT !.other = saves + 1, !.valid = v] \in Texts
    BY <2>1, SetIsText, SetOtherIsText
  <2>3. file' \in Texts
    BY <1>2, <2>2 DEF PageWrites
  <2> QED
    BY <2>3 DEF Texts, TornIsEmpty
<1>3. CASE Truncates
  BY <1>3 DEF Truncates, TornIsEmpty, Torn
<1>4. CASE Writes
  <2>1. file'.form = "whole"
    BY <1>4 DEF Writes
  <2> QED
    BY <2>1 DEF TornIsEmpty
<1> QED
  BY <1>1, <1>2, <1>3, <1>4
     DEF Next, Snapshot, Load, Serve, ReadForToken, SnapshotAgain, Look, LookAgain, Ends,
         Crash, PageReads, PageFails, Opens, vars

(***************************************************************************)
(* The watch ends the process only over a file that is whole, or gone: two *)
(* readings that agree are not of an editor's save in progress, as long as *)
(* a save is over within one poll (transport/watch.py _settled).           *)
(***************************************************************************)
THEOREM EndsOverAWholeFileAlways == Spec => EndsOverAWholeFile
<1>1. Init => TornIsEmpty
  BY Kinds DEF Init, TornIsEmpty
<1>2. Spec => [](TypeOK /\ Reading /\ TornIsEmpty)
  BY <1>1, TypedAndReading, TornStays, PTL DEF Spec
<1>3. TornIsEmpty /\ [Next]_vars => [pc' = "ending" /\ pc # "ending" => file.form # "torn"]_vars
  <2> SUFFICES ASSUME TornIsEmpty, Next, pc' = "ending", pc # "ending"
               PROVE  file.form # "torn"
    OBVIOUS
  <2>1. LookAgain
    BY DEF Next, Snapshot, Load, Serve, ReadForToken, WriteToken, SnapshotAgain, Look, Ends,
           Crash, PageReads, PageWrites, PageFails, Opens, Truncates, Writes, server
  <2>2. seen = file /\ SaveIsShort
    BY <2>1 DEF LookAgain, Watching, Settled
  <2> QED
    BY <2>2 DEF SaveIsShort, TornIsEmpty
<1> QED
  BY <1>2, <1>3, PTL DEF Spec, EndsOverAWholeFile
=============================================================================
