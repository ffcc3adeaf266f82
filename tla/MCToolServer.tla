----------------------------- MODULE MCToolServer -----------------------------
(***************************************************************************)
(* A tool that reads records, one that downloads, and the saves of a       *)
(* settings page that brings no list back to what it was.                  *)
(*                                                                         *)
(* One client lists the downloads, another the tools, or calls.            *)
(***************************************************************************)
EXTENDS ToolServer, TLC

CONSTANTS c1, c2, read, save, watcher

MCTools == {read, save}
MCDownloadTools == {save}

MCClients == {c1, c2}
MCWants == {c1 :> {"downloads"} @@ c2 :> {"call"}, c1 :> {"downloads"} @@ c2 :> {"tools"}}
MCScripts == {<<{save}, {read}>>, <<{read}, {save}>>}
=============================================================================
