------------------------------ MODULE MCReaddir ------------------------------
(* An instance of Readdir for TLC: a directory whose entries have different   *)
(* lengths, so that one that does not fit follows one that does, listed over  *)
(* NFS, with a count below, at and above one entry, or over FUSE.             *)
EXTENDS Readdir

MCDir == <<"a", "b">>
MCSize == [n \in {".", "..", "a", "b"} |-> IF n = "b" THEN {1, 2} ELSE {1}]
MCCounts == [p \in Protocols |-> IF p = "nfs" THEN {1, 2, 4} ELSE {2, 3}]
==============================================================================
