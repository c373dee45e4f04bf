------------------------------- MODULE NfsMount -------------------------------
(***************************************************************************)
(* The life of one NFS mount on macOS: nfs::mount with its two transports  *)
(* (backend/nfs/mod.rs, local.rs, tcp.rs), the Mount handle and its        *)
(* teardown, against a mount table the user and the OS also change.        *)
(*                                                                         *)
(* The table holds what is mounted on the mountpoint, the visible mount    *)
(* last: unmount(2) takes down whatever is visible.  Joining the server    *)
(* thread is one step here; NfsServer shows that it ends.                  *)
(***************************************************************************)
EXTENDS Naturals, Sequences, FiniteSets, Preflight

CONSTANTS
    FeatureSets,   \* the sets of transports that may be compiled in
    Preexisting,   \* mounts that may already sit on the mountpoint
    Faults,        \* what can go wrong besides a refusal: "verify", "unmount",
                   \* "uninspectable", "rmdir"
    MaxEjects      \* bound: unmounts by the user while the handle lives

ASSUME MountAssumption ==
    /\ FeatureSets \subseteq (SUBSET {"local", "tcp"}) \ {{}}
    /\ Preexisting \subseteq Seq({"foreign"})
    /\ Faults \subseteq {"verify", "unmount", "uninspectable", "rmdir"}
    /\ MaxEjects \in Nat

VARIABLES
    features,      \* transports compiled in
    options,       \* what the builder asks for
    pc,            \* where mount, or the teardown, stands
    table,         \* what is mounted on the mountpoint, visible last
    sockdir,       \* the socket directory exists
    servers,       \* transports whose server thread runs
    serveMount,    \* the TCP server answers MNT
    transport,     \* transport of the handle, "none" before there is one
    unmounted,     \* what unmount_path returned to the teardown
    reported,      \* what the caller was told at the end
    happened,      \* the faults that have occurred
    ejects         \* unmounts by the user so far

vars == <<features, options, pc, table, sockdir, servers, serveMount, transport,
          unmounted, reported, happened, ejects>>

config == <<features, options>>
handle == <<transport, unmounted, reported>>

\* builder.nfs_require_local_socket
require == "nfs_require_local_socket" \in options

Mounted(t) == \E i \in 1 .. Len(table) : table[i] = t

Init ==
    /\ features \in FeatureSets /\ options \in SUBSET Options
    /\ pc = "preflight"
    /\ table \in Preexisting
    /\ sockdir = FALSE /\ servers = {} /\ serveMount = FALSE
    /\ transport = "none" /\ unmounted = "none" /\ reported = "none"
    /\ happened = {} /\ ejects = 0

\* A fault may strike if it is enabled; it is remembered.
Fault(f) == f \in Faults /\ happened' = happened \union {f}

Go(from, to) == pc = from /\ pc' = to

------------------------------------------------------------------------------
(* NfsHandle::unmount_path and SocketDir::remove *)

\* Mutant: an unmount that failed is always taken for one that had happened.
StillMountedNever(look) == FALSE

\* still_mounted, by what can be inspected: the path, then its parent.
StillMounted(look) ==
    CASE look = "path_error" -> FALSE
      [] look = "parent_error" -> TRUE
      [] look = "ok" -> table # << >>

\* unmount(2) takes down the visible mount, or fails: with EINVAL when nothing is
\* mounted, or because the mount is busy.  A failure is an error only if
\* something still looks mounted.  r is what it returns.
UnmountPath(r) ==
    \/ /\ table # << >>
       /\ table' = SubSeq(table, 1, Len(table) - 1)
       /\ r = "ok"
       /\ UNCHANGED happened
    \/ /\ IF table = << >> THEN TRUE ELSE "unmount" \in Faults
       /\ \E look \in {"ok", "path_error", "parent_error"} :
           /\ look # "ok" => "uninspectable" \in Faults
           /\ happened' = happened
                \union (IF table = << >> THEN {} ELSE {"unmount"})
                \union (IF look = "ok" THEN {} ELSE {"uninspectable"})
           /\ r = IF StillMounted(look) THEN "err" ELSE "ok"
       /\ UNCHANGED table

\* dir.remove(): best effort.
RemoveDir ==
    \/ sockdir' = FALSE /\ UNCHANGED happened
    \/ Fault("rmdir") /\ UNCHANGED sockdir

------------------------------------------------------------------------------
(* nfs::mount: preflight, then the local socket if it is compiled in *)

FirstTransport == IF "local" \in features THEN "create_dir" ELSE "tcp_bind"

\* Mutant: options the backend cannot honour are ignored.
PreflightIgnoresOptions ==
    /\ \E mountpoint \in Mountpoints :
        Go("preflight", IF Check(mountpoint, {}, NfsCaps("local" \in features))
                        THEN FirstTransport ELSE "failed")
    /\ UNCHANGED <<config, table, sockdir, servers, serveMount, handle, happened, ejects>>

\* Nothing has been allocated when this refuses.
PreflightCheck ==
    /\ \E mountpoint \in Mountpoints :
        Go("preflight", IF Check(mountpoint, options, NfsCaps("local" \in features))
                        THEN FirstTransport ELSE "failed")
    /\ UNCHANGED <<config, table, sockdir, servers, serveMount, handle, happened, ejects>>

\* Mutant: the fallback does not look at nfs_require_local_socket.
AfterLocalErrorAlwaysFallsBack == IF "tcp" \in features THEN "tcp_bind" ELSE "failed"

\* Mutant: the fallback does not look at what is compiled in.
AfterLocalErrorIgnoresBuild == IF require THEN "failed" ELSE "tcp_bind"

\* Where a failed local mount leads: an error, or loopback TCP.
AfterLocalError == IF require \/ "tcp" \notin features THEN "failed" ELSE "tcp_bind"

\* SocketDir::create
CreateDir ==
    /\ \/ Go("create_dir", "bind") /\ sockdir' = TRUE
       \/ Go("create_dir", AfterLocalError) /\ UNCHANGED sockdir
    /\ UNCHANGED <<config, table, servers, serveMount, handle, happened, ejects>>

\* Bind, restrict the socket's permissions, draw the secret, spawn the server.
\* Up to the spawn an error only has the directory to remove.
LocalBind ==
    /\ \/ Go("bind", "call_mount") /\ servers' = servers \union {"local"}
       \/ Go("bind", "undo_dir") /\ UNCHANGED servers
    /\ UNCHANGED <<config, table, sockdir, serveMount, handle, happened, ejects>>

\* mount(2) with the encoded arguments.  It may succeed with a mount whose root
\* is not this filesystem's or cannot be read.
CallMount ==
    /\ \/ /\ Go("call_mount", "verify") /\ table' = Append(table, "local")
          /\ UNCHANGED happened \/ Fault("verify")
       \/ Go("call_mount", "undo_unmount") /\ UNCHANGED <<table, happened>>
    /\ UNCHANGED <<config, sockdir, servers, serveMount, handle, ejects>>

\* Mutant: the return code of mount(2) is believed.
VerifyTrusts ==
    /\ Go("verify", "mounted")
    /\ transport' = "local"
    /\ UNCHANGED <<config, table, sockdir, servers, serveMount, unmounted, reported,
                   happened, ejects>>

\* The root read back through the mountpoint must be this filesystem's: it is not
\* when the mount serves something else, cannot be read, or was ejected already.
Verify ==
    /\ \/ /\ Mounted("local") /\ "verify" \notin happened
          /\ Go("verify", "mounted") /\ transport' = "local"
       \/ /\ ~Mounted("local") \/ "verify" \in happened
          /\ Go("verify", "undo_unmount") /\ UNCHANGED transport
    /\ UNCHANGED <<config, table, sockdir, servers, serveMount, unmounted, reported,
                   happened, ejects>>

\* The failure path of mount_in, for a refused and for an unverified mount alike:
\* unmount_path (its result ignored), stop and join the server, remove the
\* directory, and only then the fallback.
UndoUnmount ==
    /\ Go("undo_unmount", "undo_stop")
    /\ \E r \in {"ok", "err"} : UnmountPath(r)
    /\ UNCHANGED <<config, sockdir, servers, serveMount, handle, ejects>>

UndoStop ==
    /\ Go("undo_stop", "undo_dir")
    /\ servers' = servers \ {"local"}
    /\ UNCHANGED <<config, table, sockdir, serveMount, handle, happened, ejects>>

UndoDir ==
    /\ Go("undo_dir", AfterLocalError)
    /\ RemoveDir
    /\ UNCHANGED <<config, table, servers, serveMount, handle, ejects>>

------------------------------------------------------------------------------
(* tcp::mount *)

TcpBind ==
    /\ \/ Go("tcp_bind", "mount_nfs") /\ servers' = servers \union {"tcp"} /\ serveMount' = TRUE
       \/ Go("tcp_bind", "failed") /\ UNCHANGED <<servers, serveMount>>
    /\ UNCHANGED <<config, table, sockdir, handle, happened, ejects>>

\* mount_nfs runs to its exit; a failure to spawn it leads the same way as its
\* own failure.
MountNfs ==
    /\ \/ Go("mount_nfs", "tcp_clear") /\ table' = Append(table, "tcp")
       \/ Go("mount_nfs", "tcp_clear_failed") /\ UNCHANGED table
    /\ UNCHANGED <<config, sockdir, servers, serveMount, handle, happened, ejects>>

\* Mutant: the window is closed on the success path only.
TcpClearOnSuccess ==
    /\ \/ Go("tcp_clear", "mounted") /\ transport' = "tcp" /\ serveMount' = FALSE
       \/ Go("tcp_clear_failed", "tcp_undo") /\ UNCHANGED <<transport, serveMount>>
    /\ UNCHANGED <<config, table, sockdir, servers, unmounted, reported, happened, ejects>>

\* serve_mount.store(false), whether the mount succeeded or not.
TcpClear ==
    /\ \/ Go("tcp_clear", "mounted") /\ transport' = "tcp"
       \/ Go("tcp_clear_failed", "tcp_undo") /\ UNCHANGED transport
    /\ serveMount' = FALSE
    /\ UNCHANGED <<config, table, sockdir, servers, unmounted, reported, happened, ejects>>

\* Mutant: the error returns without stopping the server.
TcpUndoLeaks ==
    /\ Go("tcp_undo", "failed")
    /\ UNCHANGED <<config, table, sockdir, servers, serveMount, handle, happened, ejects>>

TcpUndo ==
    /\ Go("tcp_undo", "failed")
    /\ servers' = servers \ {"tcp"}
    /\ UNCHANGED <<config, table, sockdir, serveMount, handle, happened, ejects>>

------------------------------------------------------------------------------
(* Mount::unmount and Drop, and NfsHandle::unmount behind them *)

\* Mutant: the server is stopped before the client side is unmounted.
TeardownStopsFirst ==
    /\ \/ /\ pc = "mounted" /\ servers # {}
          /\ servers' = {} /\ UNCHANGED <<pc, table, unmounted, happened>>
       \/ /\ servers = {} /\ Go("mounted", "td_stop")
          /\ \E r \in {"ok", "err"} : UnmountPath(r) /\ unmounted' = r
          /\ UNCHANGED servers
    /\ UNCHANGED <<config, sockdir, serveMount, transport, reported, ejects>>

TeardownUnmount ==
    /\ Go("mounted", "td_stop")
    /\ \E r \in {"ok", "err"} : UnmountPath(r) /\ unmounted' = r
    /\ UNCHANGED <<config, sockdir, servers, serveMount, transport, reported, ejects>>


\* Stop and join the server even if the client-side unmount failed.
TeardownStop ==
    /\ Go("td_stop", "td_dir")
    /\ servers' = servers \ {transport}
    /\ UNCHANGED <<config, table, sockdir, serveMount, handle, happened, ejects>>

\* The socket directory, on the local path; then unmount returns what
\* unmount_path said, and drop only logs it.
TeardownDir ==
    /\ Go("td_dir", "ended")
    /\ IF transport = "local" THEN RemoveDir ELSE UNCHANGED <<sockdir, happened>>
    /\ \E via \in {"unmount", "drop"} :
        reported' = IF via = "unmount" THEN unmounted ELSE "logged"
    /\ UNCHANGED <<config, table, servers, serveMount, transport, unmounted, ejects>>

------------------------------------------------------------------------------
(* The user (external) *)

\* Finder's eject, or umount: takes down the visible mount if it is ours.
Eject ==
    /\ ejects < MaxEjects
    /\ table # << >> /\ table[Len(table)] # "foreign"
    /\ table' = SubSeq(table, 1, Len(table) - 1)
    /\ ejects' = ejects + 1
    /\ UNCHANGED <<config, pc, sockdir, servers, serveMount, handle, happened>>

MountStep ==
    \/ PreflightCheck \/ CreateDir \/ LocalBind \/ CallMount \/ Verify
    \/ UndoUnmount \/ UndoStop \/ UndoDir
    \/ TcpBind \/ MountNfs \/ TcpClear \/ TcpUndo

Teardown == TeardownUnmount \/ TeardownStop \/ TeardownDir

Next == MountStep \/ Teardown \/ Eject

Spec == Init /\ [][Next]_vars

\* mount and teardown run to their end; a handle is dropped at the latest when
\* its owner ends.  The user owes nothing.
FairSpec == Spec /\ WF_vars(MountStep \/ Teardown)

------------------------------------------------------------------------------
(* Correctness *)

TypeOK ==
    /\ features \in FeatureSets /\ options \in SUBSET Options
    /\ pc \in {"preflight", "create_dir", "bind", "call_mount", "verify", "undo_unmount",
               "undo_stop", "undo_dir", "tcp_bind", "mount_nfs", "tcp_clear",
               "tcp_clear_failed", "tcp_undo", "mounted", "td_stop", "td_dir", "ended", "failed"}
    /\ table \in Seq({"foreign", "local", "tcp"})
    /\ sockdir \in BOOLEAN /\ serveMount \in BOOLEAN
    /\ servers \subseteq features
    /\ transport \in features \union {"none"}
    /\ unmounted \in {"none", "ok", "err"}
    /\ reported \in {"none", "ok", "err", "logged"}
    /\ happened \subseteq Faults
    /\ ejects \in 0 .. MaxEjects

Over == pc \in {"failed", "ended"}

\* When mount has failed or teardown has returned, no server thread runs, MNT is
\* closed, and a socket directory or a mount of this process is left only if the
\* system refused to remove it.
NothingLeftBehind ==
    Over =>
        /\ servers = {} /\ ~serveMount
        /\ sockdir => "rmdir" \in happened
        /\ Mounted("local") \/ Mounted("tcp") => "unmount" \in happened

\* A mount of this process that can be reached has its server behind it, and its
\* socket, until unmount(2) has taken it down: on every path the client side goes
\* first.
MountIsServed ==
    \A t \in {"local", "tcp"} :
        Mounted(t) /\ "unmount" \notin happened =>
            t \in servers /\ (t = "local" => sockdir)

\* MNT is answered only between the start of mount_nfs and its exit: never once a
\* handle exists or the mount has failed.
MntWindowCloses == pc \in {"mounted", "td_stop", "td_dir", "ended", "failed"} => ~serveMount

\* What mount returns is what was asked for.  A handle stands for a mount that was
\* seen to be this filesystem: only an eject can have removed it, and a root that
\* failed verification is never handed out.  A caller that requires the local socket
\* gets TCP on no path, not even a listener for the time of a failed attempt.
HandleAsAsked ==
    /\ pc = "mounted" =>
        /\ Mounted(transport) \/ ejects > 0
        /\ transport = "local" => "verify" \notin happened
    /\ require => "tcp" \notin servers /\ ~Mounted("tcp") /\ transport # "tcp"

\* unmount reports success only when the mount of this handle is gone.
ReportedUnmountIsReal == reported = "ok" => ~Mounted(transport)

\* unmount_path takes down nothing but mounts of this process.
TakesDownOnlyOwn ==
    [][Cardinality({i \in 1 .. Len(table') : table'[i] = "foreign"})
         >= Cardinality({i \in 1 .. Len(table) : table[i] = "foreign"})]_table

==============================================================================
