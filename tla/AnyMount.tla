------------------------------- MODULE AnyMount ------------------------------
(***************************************************************************)
(* The crate as its user meets it: a MountBuilder (mount.rs) is filled in  *)
(* and consumed by mount, backend/mod.rs picks the backend the build has,  *)
(* and a file is read through the mount, over FUSE or over NFS.            *)
(*                                                                         *)
(* What happens inside nfs::mount and cfapi::mount is NfsMount's and       *)
(* CfApi's; here they succeed or refuse.                                   *)
(***************************************************************************)
EXTENDS NfsProc, FuseSession

CONSTANTS
    Builds,      \* backends a build may have, "none" for none
    ThreadCounts \* arguments of MountBuilder::threads

\* There are as many threads as anyone asks for.
ASSUME AnyMountAssumption ==
    /\ Builds \subseteq {"Fuse", "Nfs", "CfApi", "none"}
    /\ ThreadCounts \subseteq Workers \union {0}

VARIABLES
    built,       \* the backend this build has
    builder,     \* the MountBuilder being filled in
    backend      \* what serves: "none" before mount, "refused" if it failed

mountVars == <<built, builder, backend>>
serving == <<fs, faults, app, reqs, reps, threads>>
vars == <<serving, nfsClient, fuseVars, mountVars>>

\* MountBuilder::new; threads 0 stands for None.
NewBuilder == [backend |-> "Auto", options |-> {}, threads |-> 0]

Init ==
    /\ ServingInit /\ NfsClientInit /\ FuseInit
    /\ built \in Builds /\ builder = NewBuilder /\ backend = "none"

------------------------------------------------------------------------------
(* MountBuilder *)

SetBackend(b) == builder' = [builder EXCEPT !.backend = b]

\* allow_other, auto_unmount and nfs_require_local_socket.
SetOption(o, yes) ==
    builder' = [builder EXCEPT !.options = IF yes THEN @ \union {o} ELSE @ \ {o}]

\* Mutant: no lower bound.
ThreadsUnclamped(n) == n

\* n.max(1)
ThreadsClamped(n) == IF n < 1 THEN 1 ELSE n

SetThreads(n) ==
    builder' = [builder EXCEPT !.options = @ \union {"threads"},
                               !.threads = ThreadsClamped(n)]

Configure ==
    /\ backend = "none"
    /\ \/ \E b \in {"Fuse", "Nfs", "CfApi"} : SetBackend(b)
       \/ \E o \in Options \ {"threads"}, yes \in BOOLEAN : SetOption(o, yes)
       \/ \E n \in ThreadCounts : SetThreads(n)
    /\ UNCHANGED <<serving, nfsClient, fuseVars, built, backend>>

------------------------------------------------------------------------------
(* backend::mount *)

\* The arm of mount, or of auto_mount, that is compiled in.
Resolve(b) == IF b \in {"Auto", built} THEN built ELSE "none"

\* The builder is consumed.
Becomes(b) ==
    /\ backend' = b
    /\ builder' = NewBuilder
    /\ UNCHANGED <<built, fs, faults, reqs, reps, threads, node, held, ahead, busy,
                   refs, extras, counts, xid, call, waiting, probes>>

Refused ==
    /\ Becomes("refused")
    /\ outcome' = "failed"
    /\ UNCHANGED <<todo, got, cur, session>>

\* fuse::mount: auto_unmount needs allow_other.
FuseAccepts(mountpoint) ==
    /\ Check(mountpoint, builder.options, FuseCaps)
    /\ "auto_unmount" \in builder.options => "allow_other" \in builder.options

\* config.n_threads
NThreads ==
    IF "threads" \in builder.options THEN builder.threads ELSE DEFAULT_WORKER_THREADS

MountFuse(mountpoint) ==
    /\ FuseAccepts(mountpoint)
    /\ Becomes("Fuse")
    /\ life' = "up"
    /\ nthreads' = NThreads
    /\ UNCHANGED <<app, cur>>

\* The local socket hands the root's handle to mount(2); over TCP the kernel has
\* to ask for it.
MountNfs(mountpoint) ==
    \E transports \in SUBSET {"local", "tcp"} : \E t \in transports :
        /\ Check(mountpoint, builder.options, NfsCaps("local" \in transports))
        /\ "nfs_require_local_socket" \in builder.options => t = "local"
        /\ Becomes("Nfs")
        /\ cur' = IF t = "local" THEN Encode(ROOT_INO) ELSE NoHandle
        /\ UNCHANGED <<app, session>>

MountCfApi(mountpoint) ==
    /\ Check(mountpoint, builder.options, CfApiCaps)
    /\ Becomes("CfApi")
    /\ UNCHANGED <<app, cur, session>>

\* A mount that passes its checks may still be refused by the platform.
Mount ==
    /\ backend = "none"
    /\ \/ Resolve(builder.backend) = "Fuse" /\ \E p \in Mountpoints : MountFuse(p)
       \/ Resolve(builder.backend) = "Nfs" /\ \E p \in Mountpoints : MountNfs(p)
       \/ Resolve(builder.backend) = "CfApi" /\ \E p \in Mountpoints : MountCfApi(p)
       \/ Refused

------------------------------------------------------------------------------
(* The system *)

NfsStep(A)  == backend = "Nfs" /\ A /\ UNCHANGED <<fuseVars, mountVars>>
FuseStep(A) == backend = "Fuse" /\ A /\ UNCHANGED <<nfsClient, mountVars>>

Nfs  == NfsStep(NfsNext)
Fuse == FuseStep(FuseNext)

Next == Configure \/ Mount \/ Nfs \/ Fuse

Spec == Init /\ [][Next]_vars

\* Threads run, the reader goes on reading, replies arrive and the client's timer
\* fires.  The other process, readahead, forgets, the program's unmount, restarts
\* and faults owe nothing.
FairSpec ==
    /\ Spec
    /\ WF_vars(Mount)
    /\ \A w \in Workers : WF_vars(NfsStep(NfsServe(w))) /\ WF_vars(FuseStep(FuseServe(w)))
    /\ WF_vars(NfsStep(NfsCall)) /\ WF_vars(NfsStep(NfsReceive))
    /\ WF_vars(NfsStep(NfsRetransmit))
    /\ WF_vars(FuseStep(ReaderAsks)) /\ WF_vars(FuseStep(UseAhead))
    /\ \A who \in Procs : WF_vars(FuseStep(FuseReceive(who)))

------------------------------------------------------------------------------
(* Correctness *)

TypeOK ==
    /\ gen \in 1 .. MaxGen /\ faults \in 0 .. MaxFaults
    /\ DOMAIN open_files \subseteq 1 .. next_handle - 1
    /\ \A h \in DOMAIN open_files : open_files[h] \in Files
    /\ todo \in {SubSeq(Path, i, Len(Path)) : i \in 1 .. Len(Path) + 1}
    /\ Len(got) <= Len(Content)
    /\ outcome \in {"reading", "done", "failed"}
    /\ pc \in [Workers -> {"idle", "decide", "read", "release", "attr", "reply"}]
    /\ \A w \in Workers : res[w].err \in FsErrors \union {"Ok"}
    /\ cur.ino \in Inos \union {0} /\ waiting \in BOOLEAN
    /\ node \in Inos /\ busy \subseteq Procs /\ Cardinality(ahead) <= 1
    /\ refs \in [Inos -> Nat] /\ count \in [Inos -> Nat] /\ owed \in [Inos -> Nat]
    /\ nthreads \in Workers \union {0}
    /\ life \in {"none", "up", "detached", "leaving", "down"}
    /\ builder.options \subseteq Options
    /\ backend \in {"none", "Fuse", "Nfs", "CfApi", "refused"}

\* Open handles are never lost and never used after their release, whichever
\* backend serves and whatever fails: READ3 opens and releases one per call on
\* concurrent threads, FUSE keeps one from open to release.
HandlesAccounted ==
    /\ backend = "Nfs" => NfsHandlesAccounted
    /\ backend = "Fuse" => FuseHandlesAccounted

\* Reading through any mount implements FileRead: lost, repeated and late messages,
\* a server that was replaced under the same port, reads that overtake one another,
\* excessive byte counts and failures show the application the file's own bytes in
\* order, the end only behind the last, or an error.
ImplementsFileRead == F!RSpec

\* A read that has begun ends, at the end of the file or with an error: no reply
\* keeps a client at the same offset forever once the filesystem's faults are over,
\* and no mount is left without a thread to serve it.
ReadEnds == <>(outcome # "reading" \/ backend = "CfApi")
==============================================================================
