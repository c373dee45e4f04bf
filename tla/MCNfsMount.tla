------------------------------ MODULE MCNfsMount ------------------------------
(* Instances of NfsMount for TLC. *)
EXTENDS NfsMount

AnyBuild == SUBSET {"local", "tcp"} \ {{}}
BothTransports == {{"local", "tcp"}}
FreeMountpoint == {<< >>}
OccupiedMountpoint == {<<"foreign">>}
==============================================================================
