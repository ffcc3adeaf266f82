------------------------------ MODULE PolicyFile -----------------------------
(***************************************************************************)
(* tools.json and the profiles beside it, and everybody who writes them:   *)
(* the settings page (configui/actions.py, profiles.py), lexware-office-   *)
(* mcp --tools (policy.py, cli.py) and a person with an editor.  Every     *)
(* program writes through write_atomically (settings/envfile.py): a        *)
(* temporary file, then a rename.  No lock is shared between them; within  *)
(* the page, actions follow each other (SettingsPage).                     *)
(*                                                                         *)
(* A policy file is the names it mentions, those set to the literal true   *)
(* and those set to anything that is no flag at all ("false", 1).          *)
(***************************************************************************)
EXTENDS Naturals, FiniteSets

CONSTANTS Tools,         \* every tool of any release
          Releases,      \* release number -> the tools it knows, 1 the first
          Reading,       \* the tools that only read
          Irreversible,  \* the tools whose effect cannot be undone
          Names,         \* names of profiles
          Alike(_, _),   \* names a person cannot tell apart
          HandPolicies,  \* what a person may make of tools.json
          HandProfiles,  \* what a person may make of the profiles
          Bundles,       \* the files a person may import
          MaxEdits, MaxSaves   \* bounds

Programs == {"page", "tools"}
Broken == [form |-> "broken", on |-> {}, odd |-> {}, named |-> {}]
Absent == [Broken EXCEPT !.form = "absent"]

VARIABLES policy,    \* tools.json
          profiles,  \* the file of profiles
          installed, \* the release a program started now runs
          knows,     \* program -> the tools of the release it runs
          job,       \* program -> the write it is at
          ticks,     \* the boxes ticked on the permissions page
          ran,       \* the tool a client ran last
          chosen,    \* every tool somebody has ever switched on
          byHand,    \* every profile name somebody has ever written by hand
          edits, saves

vars == <<policy, profiles, installed, knows, job, ticks, ran, chosen, byHand, edits, saves>>
known == <<installed, knows>>
people == <<chosen, byHand, edits>>

NoTool == "none"
NoJob == [pc |-> "idle", act |-> "none", name |-> "none", read |-> Absent, new |-> Absent]
NoProfiles == [form |-> "absent", holds |-> [n \in {} |-> n]]

ASSUME PolicyFileAssumption ==
    /\ NoTool \notin Tools
    /\ \A r \in DOMAIN Releases : Releases[r] \subseteq Tools
    /\ \A n, m \in Names : Alike(n, m) = Alike(m, n)
    /\ \A file \in HandProfiles : DOMAIN file.holds \subseteq Names

\* What the server and the page make of the file, whatever form it has.
Stored(file) == file.on

\* A file with a flag for every tool of a release.
Inventory(on, tools) == [form |-> "object", on |-> on \cap tools, odd |-> {}, named |-> tools]

\* A profile's flags: a tool it does not carry is off, also one newer than it.
Flags_NewerOn(profile, tools) == (profile.tools \cup (tools \ profile.known)) \cap tools
Flags(profile, tools) == profile.tools \cap tools

\* The profiles of a file: one that cannot be read holds none.
All(file) == file.holds

Find_Exact(name) == name \in DOMAIN All(profiles)
Find(name) == \E n \in DOMAIN All(profiles) : Alike(n, name)

Init == /\ policy = Absent
        /\ profiles = NoProfiles
        /\ installed = 1
        /\ knows = [p \in Programs |-> Releases[1]]
        /\ job = [p \in Programs |-> NoJob]
        /\ ticks = {}
        /\ ran = NoTool
        /\ chosen = {}
        /\ byHand = {}
        /\ edits = 0
        /\ saves = 0

------------------------------------------------------------------------------
(* People *)

\* A person, or a program that is none of these two, writes the file. An
\* editor that empties it first does so twice.
EditPolicy ==
    /\ edits < MaxEdits
    /\ edits' = edits + 1
    /\ \E file \in HandPolicies : /\ policy' = file
                                  /\ chosen' = chosen \cup file.on
    /\ UNCHANGED <<profiles, known, job, ticks, ran, byHand, saves>>

EditProfiles ==
    /\ edits < MaxEdits
    /\ edits' = edits + 1
    /\ \E file \in HandProfiles :
        /\ profiles' = file
        /\ byHand' = byHand \cup DOMAIN All(file)
        /\ chosen' = chosen \cup UNION {All(file)[n].tools : n \in DOMAIN All(file)}
    /\ UNCHANGED <<policy, known, job, ticks, ran, saves>>

\* A box of the form as it stands in the browser.
Tick ==
    /\ edits < MaxEdits
    /\ edits' = edits + 1
    /\ \E tool \in knows["page"] :
        IF tool \in ticks
        THEN ticks' = ticks \ {tool} /\ UNCHANGED chosen
        ELSE ticks' = ticks \cup {tool} /\ chosen' = chosen \cup {tool}
    /\ UNCHANGED <<policy, profiles, known, job, ran, byHand, saves>>

\* A newer release is installed; a program that runs keeps its own until it
\* is started again.
Upgrade ==
    /\ installed + 1 \in DOMAIN Releases
    /\ installed' = installed + 1
    /\ UNCHANGED <<policy, profiles, knows, job, ticks, ran, people, saves>>

Start(p) ==
    /\ job[p].pc = "idle"
    /\ knows[p] # Releases[installed]
    /\ knows' = [knows EXCEPT ![p] = Releases[installed]]
    /\ UNCHANGED <<policy, profiles, installed, job, ticks, ran, people, saves>>

------------------------------------------------------------------------------
(* The server: the gate around every tool reads the file as a call arrives *)

Guarded(tool) ==
    /\ tool \in Stored(policy)
    /\ ran' = tool
    /\ UNCHANGED <<policy, profiles, known, job, ticks, people, saves>>

------------------------------------------------------------------------------
(* Saving *)

\* p has read what it needs and goes on to write, or to read again.
Goes(p, pc, act, name, read, new) ==
    /\ saves < MaxSaves
    /\ saves' = saves + 1
    /\ job' = [job EXCEPT ![p] = [pc |-> pc, act |-> act, name |-> name,
                                 read |-> read, new |-> new]]
    /\ UNCHANGED <<policy, profiles, known, ran, byHand, edits>>

Idle(p) == job[p].pc = "idle"

\* --tools sync: the file as it is, every tool it does not mention off.
Sync_Afresh ==
    /\ Idle("tools")
    /\ Goes("tools", "write", "sync", "none", policy, Inventory({}, knows["tools"]))
    /\ UNCHANGED <<ticks, chosen>>
Sync == /\ Idle("tools")
        /\ Goes("tools", "write", "sync", "none", policy, Inventory(Stored(policy), knows["tools"]))
        /\ UNCHANGED <<ticks, chosen>>

\* --tools read-only, write, irreversible.
Preset(kind) == CASE kind = "read-only"    -> knows["tools"] \cap Reading
                  [] kind = "write"        -> knows["tools"] \ Irreversible
                  [] kind = "irreversible" -> knows["tools"]

SavePreset ==
    /\ Idle("tools")
    /\ \E kind \in {"read-only", "write", "irreversible"} :
        /\ Goes("tools", "write", "save", "none", policy, Inventory(Preset(kind), knows["tools"]))
        /\ chosen' = chosen \cup Preset(kind)
    /\ UNCHANGED ticks

\* The page is opened, and shows what the server makes of the file.
Opens == /\ Idle("page")
         /\ ticks' = Stored(policy) \cap knows["page"]
         /\ UNCHANGED <<policy, profiles, known, job, ran, people, saves>>

\* A form may come from a page of an older release.
Chosen == ticks \cap knows["page"]

SavePolicy == /\ Idle("page")
              /\ Goes("page", "write", "save", "none", policy, Inventory(Chosen, knows["page"]))
              /\ UNCHANGED <<ticks, chosen>>

\* A profile or a file of flags only fills in the form.
LoadProfile ==
    /\ Idle("page")
    /\ \E n \in DOMAIN All(profiles) : ticks' = Flags(All(profiles)[n], knows["page"])
    /\ UNCHANGED <<policy, profiles, known, job, ran, people, saves>>

ImportPolicy ==
    /\ Idle("page")
    /\ edits < MaxEdits
    /\ edits' = edits + 1
    /\ \E file \in Bundles :
        /\ ticks' = Flags([tools |-> Stored(file), known |-> file.named], knows["page"])
        /\ chosen' = chosen \cup file.on
    /\ UNCHANGED <<policy, profiles, known, job, ran, byHand, saves>>

\* A new profile, if nobody would take it for one that is there. The file is
\* read once for the name and again to add the profile.
SaveProfile ==
    /\ Idle("page")
    /\ \E name \in Names : ~Find(name) /\ Goes("page", "merge", "profile", name, policy, policy)
    /\ UNCHANGED <<ticks, chosen>>

OverwriteProfile ==
    /\ Idle("page")
    /\ \E name \in DOMAIN All(profiles) : Goes("page", "merge", "profile", name, policy, policy)
    /\ UNCHANGED <<ticks, chosen>>

DeleteProfile ==
    /\ Idle("page")
    /\ \E name \in DOMAIN All(profiles) :
        Goes("page", "write", "delete", name, profiles,
             [form |-> "object",
              holds |-> [n \in DOMAIN All(profiles) \ {name} |-> All(profiles)[n]]])
    /\ UNCHANGED <<ticks, chosen>>

Merged_Alone(file, name, profile) ==
    [form |-> "object", holds |-> [n \in {name} |-> profile]]
Merged(file, name, profile) ==
    [form |-> "object",
     holds |-> [n \in DOMAIN All(file) \cup {name} |->
                  IF n = name THEN profile ELSE All(file)[n]]]

Merge ==
    /\ job["page"].pc = "merge"
    /\ job' = [job EXCEPT !["page"].pc = "write", !["page"].read = profiles,
                          !["page"].new = Merged(profiles, job["page"].name,
                                                 [tools |-> Chosen, known |-> knows["page"]])]
    /\ UNCHANGED <<policy, profiles, known, ticks, ran, people, saves>>

------------------------------------------------------------------------------
(* write_atomically *)

OfProfiles(p) == job[p].act \in {"profile", "delete"}

\* The new content goes into a file of its own.
WriteTemp_InPlace(p) ==
    /\ job[p].pc = "write"
    /\ job' = [job EXCEPT ![p].pc = "rename"]
    /\ IF OfProfiles(p) THEN profiles' = [NoProfiles EXCEPT !.form = "broken"] /\ UNCHANGED policy
       ELSE policy' = Broken /\ UNCHANGED profiles
    /\ UNCHANGED <<known, ticks, ran, people, saves>>
WriteTemp(p) ==
    /\ job[p].pc = "write"
    /\ job' = [job EXCEPT ![p].pc = "rename"]
    /\ UNCHANGED <<policy, profiles, known, ticks, ran, people, saves>>

Rename(p) ==
    /\ job[p].pc = "rename"
    /\ job' = [job EXCEPT ![p] = NoJob]
    /\ IF OfProfiles(p) THEN profiles' = job[p].new /\ UNCHANGED policy
       ELSE policy' = job[p].new /\ UNCHANGED profiles
    /\ UNCHANGED <<known, ticks, ran, people, saves>>

\* The disk is full, the directory somebody else's, or the process ends.
Stops(p) ==
    /\ ~Idle(p)
    /\ job' = [job EXCEPT ![p] = NoJob]
    /\ UNCHANGED <<policy, profiles, known, ticks, ran, people, saves>>

Next == \/ EditPolicy \/ EditProfiles \/ Tick \/ Upgrade
        \/ Sync \/ SavePreset
        \/ Opens \/ SavePolicy \/ LoadProfile \/ ImportPolicy
        \/ SaveProfile \/ OverwriteProfile \/ DeleteProfile \/ Merge
        \/ \E tool \in Tools : Guarded(tool)
        \/ \E p \in Programs : Start(p) \/ WriteTemp(p) \/ Rename(p) \/ Stops(p)

Spec == Init /\ [][Next]_vars

------------------------------------------------------------------------------
(* Properties *)

\* A tool runs, or would run, only if a person has switched it on some time:
\* by a tick, a preset, a file edited or imported, a profile edited by hand.
\* No upgrade, sync, profile older than the tool, value that is no flag, or
\* save that crashed half way switches one on. (policy.py, "only JSON true
\* switches on"; profiles.py, "a tool added by a later version is off")
NothingOnUnasked == policy.on \cup ({ran} \ {NoTool}) \subseteq chosen

\* Whoever reads either file at any moment finds it whole, and after a crash
\* too: what a program makes of one is always the complete file, one flag for
\* each tool it knows. Only an editor leaves a broken one. (write_atomically)
NeverHalf ==
    [][edits' = edits =>
        /\ policy' # policy =>
             policy'.form = "object" /\ \E p \in Programs : policy'.named = knows[p]
        /\ profiles' # profiles => profiles'.form = "object"]_vars

\* "Complete the file without changing a single decision in it": a sync that
\* could read the file, and that nobody's save came between, leaves every tool
\* its release knows as the server read it before. (policy.py, sync)
SyncDecides(tool) == (tool \in Stored(policy)) # (tool \in policy'.on)
SyncChangesNoDecision ==
    [][(policy' # policy /\ edits' = edits /\ job["tools"].act = "sync"
        /\ job'["tools"] = NoJob /\ job["tools"].read = policy)
       => ~ \E tool \in knows["tools"] : SyncDecides(tool)]_vars

\* Two profiles a person cannot tell apart are there only if somebody wrote
\* one of them by hand. (actions.py, _save_profile; profiles.py, find)
TwinsOnlyByHand ==
    \A n, m \in DOMAIN All(profiles) : n # m /\ Alike(n, m) => {n, m} \cap byHand # {}

\* A profile is lost only by its own deletion, or to a save that did not find
\* it: in a file that was broken, or changed after it was read.
\* (profiles.py: save, delete, _read)
ProfilesKept ==
    [][\A n \in DOMAIN All(profiles) \ DOMAIN All(profiles') :
        \/ edits' # edits
        \/ job["page"].act = "delete" /\ job["page"].name = n
        \/ n \notin DOMAIN All(job["page"].read)]_vars
==============================================================================
