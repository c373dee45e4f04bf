------------------------------ MODULE Preflight ------------------------------
(***************************************************************************)
(* What every backend checks before any platform call                      *)
(* (backend/preflight.rs): the mountpoint, then the options it cannot      *)
(* honour.  Options is the set a builder has asked for.                    *)
(***************************************************************************)

Options == {"allow_other", "auto_unmount", "threads", "nfs_require_local_socket"}

\* What is at the mountpoint's path.
Mountpoints == {"missing", "file", "unreadable", "empty", "occupied"}

\* The CAPS constants of fuse.rs, nfs/mod.rs and cfapi.rs.
FuseCaps == [honours |-> {"allow_other", "auto_unmount", "threads"}, empty |-> FALSE]
NfsCaps(local) == [honours |-> IF local THEN {"nfs_require_local_socket"} ELSE {},
                   empty |-> FALSE]
CfApiCaps == [honours |-> {}, empty |-> TRUE]

\* check_mountpoint, check_mountpoint_empty and the options, all of which must
\* pass.  An unreadable directory is refused only by the one that lists it.
Check(mountpoint, options, caps) ==
    /\ mountpoint \notin {"missing", "file"}
    /\ caps.empty => mountpoint = "empty"
    /\ options \subseteq caps.honours
==============================================================================
