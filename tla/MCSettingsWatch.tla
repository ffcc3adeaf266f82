--------------------------- MODULE MCSettingsWatch ---------------------------
EXTENDS SettingsWatch
(***************************************************************************)
(* The module the run settings_watch is made of.  Its constants are bounds *)
(* only, and the .cfg file gives them: how often a file is saved by        *)
(* people, and how often the server is killed and started again.           *)
(***************************************************************************)
=============================================================================
