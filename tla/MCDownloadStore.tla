--------------------------- MODULE MCDownloadStore ---------------------------
(* Two downloads of different documents that want the same name, a server     *)
(* start beside them, files of an earlier run or none, and a directory that   *)
(* keeps one file; and a client that follows one link a download answered     *)
(* with, to a document that is too large for an answer or to one that is not. *)
EXTENDS DownloadReader

CONSTANTS d1, d2, s1, r1, invoice, letter

MCDownloads == {d1, d2}
MCStarts == {s1}
MCNames == {1, 2}
MCReaders == {r1}
MCLarge == {letter}
MCCandidates == [d \in MCDownloads |-> <<2, 1>>]
MCContent == [d \in MCDownloads |-> IF d = d1 THEN invoice ELSE letter]
==============================================================================
