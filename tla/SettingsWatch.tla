---------------------------- MODULE SettingsWatch ----------------------------
(***************************************************************************)
(* The settings file, the server that reads it once when it starts, and    *)
(* the watch that ends the server over a change so that a fresh one reads  *)
(* it again: cli.py, transport/watch.py, transport/http.py and             *)
(* settings/envfile.py, deployed as the container is - served over HTTP,   *)
(* started again whenever it ends, with the watch on and a token made      *)
(* where there is none.                                                    *)
(*                                                                         *)
(* Three programs write the file: the server its token, the settings page  *)
(* what is saved there, and a person's editor.  The first two replace it   *)
(* in one step; the editor empties it and then writes it.  The settings    *)
(* are two: the token and all others, each known by the number of the save *)
(* it came from, 0 for not set, so that no save brings back a file there   *)
(* once was.                                                               *)
(***************************************************************************)
EXTENDS Integers

CONSTANTS MaxSaves,  \* bound: the saves of people
          MaxCrashes \* bound: how often the server is killed

ASSUME WatchAssumption == MaxSaves \in Nat /\ MaxCrashes \in Nat

VARIABLES file,    \* the settings file
          saves,   \* the saves so far, the server's own included
          byHand,  \* the saves people began, on the page or in an editor
          page,    \* the lines an action of the page read, see update_env_file
          editor,  \* what the editor has open
          pc,      \* where the server is
          loaded,  \* its settings
          base,    \* the file as `since` has it, which the watch compares with
          lines,   \* the lines it read to write its token among
          made,    \* whether it made its token itself
          seen,    \* what the watch has read last
          crashes

server == <<pc, loaded, base, lines, made, seen>>
people == <<byHand, page, editor>>
vars == <<file, saves, people, server, crashes>>

-----------------------------------------------------------------------------
\* No file, a whole one, or one an editor has emptied and not written yet.
Forms == {"none", "whole", "torn"}

\* other: every setting but the token; valid: whether the server takes them.
Contents == [form: Forms, other: Nat, valid: BOOLEAN, token: Nat]
Texts == [form: {"whole"}, other: Nat, valid: BOOLEAN, token: Nat]

Drafts == [form: {"whole", "torn", "unread"}, other: Nat, valid: BOOLEAN, token: Nat]

NoFile == [form |-> "none", other |-> 0, valid |-> TRUE, token |-> 0]
Torn == [NoFile EXCEPT !.form = "torn"]
Unread == [NoFile EXCEPT !.form = "unread"]

\* A plausible slip: a file that is not there is not an empty one.
Lines_AsTheyAre(f) == f

\* The lines read from a file, and the file they make once written.
Lines(f) == [f EXCEPT !.form = "whole"]

Init == /\ file \in {NoFile} \cup [form: {"whole"}, other: {1}, valid: BOOLEAN, token: {0, 1}]
        /\ saves = 1
        /\ byHand = 0
        /\ page = Unread
        /\ editor = Unread
        /\ pc = "down"
        /\ loaded = Lines(NoFile)
        /\ base = NoFile
        /\ lines = Unread
        /\ made = FALSE
        /\ seen = Unread
        /\ crashes = 0

-----------------------------------------------------------------------------
(* The server, up to where it serves.                                      *)

\* Started, or started again: the file as it is before anything is read.
Snapshot == /\ pc = "down"
            /\ pc' = "snapped"
            /\ base' = file
            /\ made' = FALSE
            /\ lines' = Unread
            /\ UNCHANGED <<file, saves, people, loaded, seen, crashes>>

\* Settings the server does not take end it with a line that says so.
Load == /\ pc = "snapped"
        /\ pc' = IF file.valid THEN "read" ELSE "down"
        /\ loaded' = Lines(file)
        /\ UNCHANGED <<file, saves, people, base, lines, made, seen, crashes>>

\* A plausible slip: the snapshot taken after the settings were read.
Serve_ThenSnapshot == /\ pc = "read"
                      /\ loaded.token # 0
                      /\ pc' = "serving"
                      /\ base' = file
                      /\ UNCHANGED <<file, saves, people, loaded, lines, made, seen, crashes>>

Serve == /\ pc = "read"
         /\ loaded.token # 0
         /\ pc' = "serving"
         /\ UNCHANGED <<file, saves, people, loaded, base, lines, made, seen, crashes>>

ReadForToken == /\ pc = "read"
                /\ loaded.token = 0
                /\ pc' = "writing"
                /\ lines' = Lines(file)
                /\ UNCHANGED <<file, saves, people, loaded, base, made, seen, crashes>>

\* The token among the lines as they were read, in one move of a whole file.
WriteToken == /\ pc = "writing"
              /\ pc' = "wrote"
              /\ saves' = saves + 1
              /\ file' = [lines EXCEPT !.token = saves + 1]
              /\ loaded' = [loaded EXCEPT !.token = saves + 1]
              /\ made' = TRUE
              /\ UNCHANGED <<people, base, lines, seen, crashes>>

\* This process wrote that, so the file now says what it holds.
SnapshotAgain == /\ pc = "wrote"
                 /\ pc' = "serving"
                 /\ base' = file
                 /\ UNCHANGED <<file, saves, people, loaded, lines, made, seen, crashes>>

-----------------------------------------------------------------------------
(* The watch: a state of the file is one that two readings agree on.       *)

Watching == pc = "serving"

Look == /\ Watching
        /\ seen = Unread
        /\ seen' = file
        /\ UNCHANGED <<file, saves, people, pc, loaded, base, lines, made, crashes>>

\* A save by hand is over within one poll.
SaveIsShort == ~(seen = Torn /\ file = Torn)

\* Plausible slips: one reading is enough; compared with the last reading.
Settled_AtOnce(now) == TRUE
Differs_FromTheLast(now) == now # seen

Settled(now) == now = seen

Differs(now) == now # base

LookAgain == /\ Watching
             /\ seen # Unread
             /\ SaveIsShort
             /\ IF Settled(file) /\ Differs(file)
                THEN pc' = "ending" /\ UNCHANGED seen
                ELSE /\ seen' = IF Settled(file) THEN Unread ELSE file
                     /\ UNCHANGED pc
             /\ UNCHANGED <<file, saves, people, loaded, base, lines, made, crashes>>

\* uvicorn has shut down.
Ends == /\ pc = "ending"
        /\ pc' = "down"
        /\ seen' = Unread
        /\ UNCHANGED <<file, saves, people, loaded, base, lines, made, crashes>>

Crash == /\ pc # "down"
         /\ crashes < MaxCrashes
         /\ crashes' = crashes + 1
         /\ pc' = "down"
         /\ seen' = Unread
         /\ UNCHANGED <<file, saves, people, loaded, base, lines, made>>

-----------------------------------------------------------------------------
(* The settings page, one action at a time.                                *)

PageReads == /\ page = Unread
             /\ byHand < MaxSaves
             /\ byHand' = byHand + 1
             /\ page' = Lines(file)
             /\ UNCHANGED <<file, saves, editor, server, crashes>>

\* A key and a token are written whatever the rest is, see save_key; other
\* settings only when the server would take the whole of them.
PageWrites == /\ page # Unread
              /\ saves' = saves + 1
              /\ \/ file' = [page EXCEPT !.token = saves + 1]
                 \/ \E valid \in {TRUE, page.valid}:
                       file' = [page EXCEPT !.other = saves + 1, !.valid = valid]
              /\ page' = Unread
              /\ UNCHANGED <<byHand, editor, server, crashes>>

\* A disk that is full, or the page is killed: the old file stays.
PageFails == /\ page # Unread
             /\ page' = Unread
             /\ UNCHANGED <<file, saves, byHand, editor, server, crashes>>

(* A person's editor.                                                      *)

Opens == /\ editor = Unread
         /\ byHand < MaxSaves
         /\ file # Torn
         /\ byHand' = byHand + 1
         /\ editor' = Lines(file)
         /\ UNCHANGED <<file, saves, page, server, crashes>>

Truncates == /\ editor.form = "whole"
             /\ seen # Torn
             /\ editor' = [editor EXCEPT !.form = "torn"]
             /\ file' = Torn
             /\ UNCHANGED <<saves, byHand, page, server, crashes>>

\* A file that was replaced meanwhile is not the one the editor writes to.
Writes == /\ editor.form = "torn"
          /\ saves' = saves + 1
          /\ \E valid \in BOOLEAN, token \in {0, editor.token}:
                file' = IF file = Torn
                        THEN [form |-> "whole", other |-> saves + 1, valid |-> valid, token |-> token]
                        ELSE file
          /\ editor' = Unread
          /\ UNCHANGED <<byHand, page, server, crashes>>

-----------------------------------------------------------------------------
Next == \/ Snapshot \/ Load \/ Serve \/ ReadForToken \/ WriteToken \/ SnapshotAgain
        \/ Look \/ LookAgain \/ Ends \/ Crash
        \/ PageReads \/ PageWrites \/ PageFails
        \/ Opens \/ Truncates \/ Writes

Spec == Init /\ [][Next]_vars

\* What is running goes on, and an editor that empties a file writes it.
Fairness == /\ WF_vars(Snapshot \/ Load \/ Serve \/ ReadForToken \/ WriteToken \/ SnapshotAgain)
            /\ WF_vars(Look \/ LookAgain \/ Ends)
            /\ WF_vars(Writes)

FairSpec == Spec /\ Fairness

-----------------------------------------------------------------------------
(* Properties                                                              *)

Stages == {"down", "snapped", "read", "writing", "wrote", "serving", "ending"}

\* Every variable has its type, and what was read from a file is a whole
\* text (settings/envfile.py _read_text, update_env_file).
TypeOK == /\ file \in Contents
          /\ saves \in Nat
          /\ byHand \in 0..MaxSaves
          /\ page \in Texts \cup {Unread}
          /\ editor \in Drafts
          /\ pc \in Stages
          /\ loaded \in Texts
          /\ base \in Contents
          /\ lines \in Texts \cup {Unread}
          /\ made \in BOOLEAN
          /\ seen \in Contents \cup {Unread}
          /\ crashes \in 0..MaxCrashes

\* Two texts that set the same.
Same(f, g) == f.other = g.other /\ f.token = g.token

\* While the file is what the watch compares with, and so nothing will end
\* the process, its settings are the file's (transport/watch.py snapshot,
\* cli.py main).
ReadAsCompared == pc = "serving" /\ file = base /\ file.form # "torn" => Same(loaded, file)

\* So it is wherever the token was there already and the snapshot taken
\* before the settings were read is the one in use.
TakenAsRead == ~made => ReadAsCompared

\* A save in progress never ends the process: the file is whole at the
\* moment the watch calls it changed (transport/watch.py _settled).
EndsOverAWholeFile == [][pc' = "ending" /\ pc # "ending" => file.form # "torn"]_vars

\* Once nobody saves any more, the server serves the file as it is, unless
\* the file is one it refuses (transport/watch.py watch_for_change, the
\* restart of the container).
ChangeArrives == <>[](file.valid => pc = "serving" /\ base = file /\ TakenAsRead)
=============================================================================
