-------------------------------- MODULE CfApi --------------------------------
(***************************************************************************)
(* The Windows backend (backend/cfapi.rs): registering and connecting a    *)
(* sync root, the callbacks the platform runs on its own threads against a *)
(* raw pointer to the Context, streaming a file to the platform in chunks, *)
(* and the teardown, over several mounts of one directory with crashes     *)
(* between them.                                                           *)
(*                                                                         *)
(* Bytes are counted in units; Align units are the 4 KB the platform wants *)
(* transfers aligned to.  CfRegister/Connect/Disconnect/Unregister/Execute *)
(* belong to Windows and are modelled as the code relies on them.          *)
(***************************************************************************)
EXTENDS Naturals, FiniteSets, Preflight

CONSTANTS
    Files, Dirs,      \* the files and the subdirectories
    In,               \* the directory each is in: "root" or one of Dirs
    Size,             \* the size getattr reports for each
    Readable,         \* how much of it read_at can deliver
    TRANSFER_CHUNK,   \* bytes per transfer
    Align,            \* the platform's alignment
    Faults,           \* what can fail, see FaultKinds
    MaxMounts         \* bound: calls of mount

FaultKinds == {"register", "connect", "disconnect", "unregister", "remove",
               "identity", "list", "getattr", "open", "read", "overcount", "crash"}

Entries == Files \union Dirs
Folders == {"root"} \union Dirs

ASSUME CfApiAssumption ==
    /\ In \in [Entries -> Folders] /\ Files \intersect Dirs = {}
    /\ Size \in [Files -> Nat] /\ Readable \in [Files -> Nat]
    /\ \A f \in Files : Readable[f] <= Size[f]
    /\ Align \in Nat \ {0} /\ TRANSFER_CHUNK \in Nat \ {0}
    /\ TRANSFER_CHUNK % Align = 0
    /\ Faults \subseteq FaultKinds
    /\ MaxMounts \in Nat
    /\ "user" \notin Entries /\ "root" \notin Entries

VARIABLES
    pc,           \* where mount, or the teardown, stands
    mounts,       \* calls of mount so far
    registered,   \* the sync root is registered: outlives the process
    connected,    \* the callback table is armed
    ctx,          \* the Context the callbacks point into: "none", "live", "freed"
    disk,         \* what the directory holds: placeholders, and the user's file
    wrote,        \* when the user's file was written: "none" if there is none,
                  \* see Moment
    failed,       \* what has gone wrong: teardown steps that failed, a crash
    lister,       \* the FETCH_PLACEHOLDERS callback: "none", "list", "transfer"
    dir,          \* the directory it is for
    prepared,     \* the entries list_placeholders has prepared
    cb,           \* each file's FETCH_DATA callback: "none", "open", "stream",
                  \* "release", "done"
    fh,           \* its handle is open
    sent,         \* bytes the callback counts as sent
    got,          \* bytes the platform has been given
    denied,       \* bytes the platform has been told will not come
    signalled     \* the platform has had an answer at all

life == <<pc, mounts, registered, connected, ctx, failed>>
store == <<disk, wrote>>
listing == <<lister, dir, prepared>>
fetch == <<cb, fh, sent, got, denied, signalled>>
vars == <<life, store, listing, fetch>>

\* The bytes of the range a callback for f has to answer: FETCH_DATA always
\* asks for the whole file.
Range(from, n) == from .. from + n - 1
Whole(f) == Range(0, Size[f])

Running(f) == cb[f] \in {"open", "stream", "release"}

Quiet == lister = "none" /\ \A f \in Files : ~Running(f)

Least(a, b) == IF a < b THEN a ELSE b

Each(v) == [f \in Files |-> v]

Init ==
    /\ pc = "idle" /\ mounts = 0
    /\ registered = FALSE /\ connected = FALSE /\ ctx = "none"
    /\ disk = {} /\ wrote = "none" /\ failed = {}
    /\ lister = "none" /\ dir = "root" /\ prepared = {}
    /\ cb = Each("none") /\ fh = Each(FALSE) /\ sent = Each(0)
    /\ got = Each({}) /\ denied = Each({}) /\ signalled = Each(FALSE)

------------------------------------------------------------------------------
(* mount *)

AtMountpoint == IF disk = {} THEN "empty" ELSE "occupied"

\* Mutant: the backend does not claim empty_mountpoint.
PreflightCheckAnyDirectory(mountpoint, options) ==
    Check(mountpoint, options, [CfApiCaps EXCEPT !.empty = FALSE])

\* preflight::check with this backend's CAPS.
PreflightCheck(mountpoint, options) == Check(mountpoint, options, CfApiCaps)

\* mount: the checks, and the probe for the Cloud Files API.
Mount ==
    /\ pc \in {"idle", "failed", "ended"} /\ mounts < MaxMounts
    /\ mounts' = mounts + 1
    /\ \E mountpoint \in {AtMountpoint, "missing", "file", "unreadable"},
          options \in SUBSET Options, available \in BOOLEAN :
        pc' = IF PreflightCheck(mountpoint, options) /\ available
              THEN "register" ELSE "failed"
    /\ ctx' = "none"
    /\ UNCHANGED <<registered, connected, failed, store, listing, fetch>>

\* register_sync_root: a directory that is still registered is refused.
Register ==
    /\ pc = "register"
    /\ \/ ~registered /\ registered' = TRUE /\ pc' = "connect"
       \/ (IF registered THEN TRUE ELSE "register" \in Faults)
          /\ UNCHANGED registered /\ pc' = "failed"
    /\ UNCHANGED <<mounts, connected, ctx, failed, store, listing, fetch>>

\* The Context is boxed, its address taken, and the table armed: callbacks may
\* run before mount returns.  If that fails the Context is dropped.
Connect ==
    /\ pc = "connect"
    /\ \/ connected' = TRUE /\ ctx' = "live" /\ pc' = "mounted"
       \/ "connect" \in Faults /\ pc' = "undo_register" /\ UNCHANGED <<connected, ctx>>
    /\ UNCHANGED <<mounts, registered, failed, store, listing, fetch>>

\* Mutant: a failed connect returns without unregistering.
UndoRegisterForgets ==
    /\ pc = "undo_register" /\ pc' = "failed"
    /\ UNCHANGED <<mounts, registered, connected, ctx, failed, store, listing, fetch>>

\* The failure path of mount: unregister, best effort, then the error.
UndoRegister ==
    /\ pc = "undo_register" /\ pc' = "failed"
    /\ \/ registered' = FALSE /\ UNCHANGED failed
       \/ "unregister" \in Faults /\ failed' = failed \union {"unregister"}
          /\ UNCHANGED registered
    /\ UNCHANGED <<mounts, connected, ctx, store, listing, fetch>>

------------------------------------------------------------------------------
(* Mounted::unmount: every step runs even if an earlier one failed *)

\* Mutant: the Context is dropped before the table is disarmed.
DisconnectAfterDrop ==
    /\ pc = "mounted" /\ pc' = "drain"
    /\ ctx' = "freed" /\ connected' = FALSE
    /\ UNCHANGED <<mounts, registered, failed, store, listing, fetch>>

\* CfDisconnectSyncRoot: the platform sends no more callbacks, or refuses and the
\* table stays armed.
Disconnect ==
    /\ pc = "mounted"
    /\ \/ pc' = "drain" /\ connected' = FALSE /\ UNCHANGED failed
       \/ /\ "disconnect" \in Faults /\ pc' = "unregister"
          /\ failed' = failed \union {"disconnect"} /\ UNCHANGED connected
    /\ UNCHANGED <<mounts, registered, ctx, store, listing, fetch>>

\* A disconnect that succeeds returns when no callback runs any more.
Drain ==
    /\ pc = "drain" /\ pc' = "unregister"
    /\ Quiet
    /\ UNCHANGED <<mounts, registered, connected, ctx, failed, store, listing, fetch>>

Unregister ==
    /\ pc = "unregister" /\ pc' = "remove"
    /\ \/ registered' = FALSE /\ UNCHANGED failed
       \/ "unregister" \in Faults /\ failed' = failed \union {"unregister"}
          /\ UNCHANGED registered
    /\ UNCHANGED <<mounts, connected, ctx, store, listing, fetch>>

\* Mutant: files that have been read in full, and so have lost the reparse
\* point, are skipped.
RemoveReparsePoints ==
    /\ pc = "remove" /\ pc' = "drop"
    /\ disk' = {f \in disk : f \in Files /\ Size[f] > 0 /\ got[f] = Whole(f)}
    /\ UNCHANGED <<mounts, registered, connected, ctx, wrote, failed, listing, fetch>>

\* remove_leftover_placeholders: everything the directory holds, a subdirectory
\* with what is in it, each best effort.
Remove ==
    /\ pc = "remove" /\ pc' = "drop"
    /\ \E left \in SUBSET disk :
        /\ left # {} => "remove" \in Faults
        /\ \A e \in left \ {"user"} : In[e] \in left \union {"root"}
        /\ disk' = left
        /\ wrote' = IF "user" \in left THEN wrote ELSE "none"
        /\ failed' = IF left = {} THEN failed ELSE failed \union {"remove"}
    /\ UNCHANGED <<mounts, registered, connected, ctx, listing, fetch>>

\* self is dropped, and the Context with it.
Drop ==
    /\ pc = "drop" /\ pc' = "ended"
    /\ ctx' = "freed"
    /\ UNCHANGED <<mounts, registered, connected, failed, store, listing, fetch>>

------------------------------------------------------------------------------
(* FETCH_PLACEHOLDERS *)

\* The platform enumerates the root, which carries no identity, or a subdirectory,
\* by its own; one that does not decode is answered with a failure.
StartList ==
    /\ connected /\ registered /\ lister = "none"
    /\ dir' \in Folders \intersect (disk \union {"root"})
    /\ \/ lister' = "list"
       \/ dir' # "root" /\ "identity" \in Faults /\ lister' = "transfer"
    /\ UNCHANGED <<life, store, prepared, fetch>>

\* list_placeholders: the listing (see Readdir), without the entries whose
\* getattr fails; an error prepares nothing.
List ==
    /\ lister = "list" /\ lister' = "transfer"
    /\ \/ \E skipped \in SUBSET Entries :
            /\ skipped # {} => "getattr" \in Faults
            /\ prepared' = {e \in Entries : In[e] = dir} \ skipped
       \/ "list" \in Faults /\ prepared' = {}
    /\ UNCHANGED <<life, store, dir, fetch>>

\* transfer_placeholders: the platform creates the ones that are missing, not
\* hydrated, if this is still a sync root and the directory is there.
TransferPlaceholders ==
    /\ lister = "transfer" /\ lister' = "none"
    /\ disk' = IF registered /\ dir \in disk \union {"root"} THEN disk \union prepared ELSE disk
    /\ cb' = [f \in Files |-> IF f \in disk' \ disk /\ ~Running(f) THEN "none" ELSE cb[f]]
    /\ prepared' = {} /\ dir' = "root"
    /\ UNCHANGED <<life, wrote, fh, sent, got, denied, signalled>>

------------------------------------------------------------------------------
(* FETCH_DATA *)

\* CfExecute accepts a range that is aligned or reaches the end of the file; the
\* code logs a refusal and carries on.
Accepts(f, from, n) ==
    (from % Align = 0 /\ n % Align = 0) \/ from + n >= Size[f]

\* transfer_data with bytes, and with a failure status.
Give(f, from, n) ==
    /\ got' = IF Accepts(f, from, n)
              THEN [got EXCEPT ![f] = @ \union Range(from, n)] ELSE got
    /\ signalled' = [signalled EXCEPT ![f] = @ \/ Accepts(f, from, n)]
    /\ UNCHANGED denied
Deny(f, from, n) ==
    /\ denied' = IF Accepts(f, from, n)
                 THEN [denied EXCEPT ![f] = @ \union Range(from, n)] ELSE denied
    /\ signalled' = [signalled EXCEPT ![f] = @ \/ Accepts(f, from, n)]
    /\ UNCHANGED got

\* An application opens a placeholder that is not hydrated.  An identity that
\* does not decode fails the whole range.
StartFetch(f) ==
    /\ connected /\ registered /\ f \in disk
    /\ cb[f] = "none" \/ (cb[f] = "done" /\ denied[f] # {})
    /\ \/ /\ cb' = [cb EXCEPT ![f] = "open"]
          /\ got' = [got EXCEPT ![f] = {}] /\ denied' = [denied EXCEPT ![f] = {}]
          /\ signalled' = [signalled EXCEPT ![f] = FALSE]
       \/ /\ "identity" \in Faults
          /\ cb' = [cb EXCEPT ![f] = "done"]
          /\ got' = [got EXCEPT ![f] = {}] /\ denied' = [denied EXCEPT ![f] = Whole(f)]
          /\ signalled' = [signalled EXCEPT ![f] = TRUE]
    /\ sent' = [sent EXCEPT ![f] = 0]
    /\ UNCHANGED <<life, store, listing, fh>>

\* stream_fetch: without a handle it returns the error at once.
Open(f) ==
    /\ cb[f] = "open"
    /\ \/ cb' = [cb EXCEPT ![f] = "stream"] /\ fh' = [fh EXCEPT ![f] = TRUE]
       \/ "open" \in Faults /\ cb' = [cb EXCEPT ![f] = "done"] /\ UNCHANGED fh
    /\ UNCHANGED <<life, store, listing, sent, got, denied, signalled>>

Want(f) == Least(Size[f] - sent[f], TRANSFER_CHUNK)

\* What read_at may return: a short count only at the end of what there is, and,
\* from an implementation that breaks the contract, more than it was asked for.
Counts(f) ==
    {Least(Want(f), IF Readable[f] > sent[f] THEN Readable[f] - sent[f] ELSE 0)}
      \union (IF "overcount" \in Faults /\ Readable[f] >= sent[f] + Want(f)
              THEN {Want(f) + 1} ELSE {})

\* Mutant: the count is believed.
ClampTrusts(f, n) == n

\* n.min(want)
Clamp(f, n) == Least(n, Want(f))

\* Mutant: a chunk that was passed on is not counted.
AdvanceNothing(f, n) == sent[f]

\* sent += n
Advance(f, n) == sent[f] + Clamp(f, n)

\* Mutant: the range that failed starts where the fetch did.
RestFromStart(f) == 0

\* Where the untransferred range of a failed fetch begins.
RestFrom(f) == sent[f]

\* Mutants: a failed read returns past the release; the failure is only logged.
FailLeaks(f) ==
    /\ Deny(f, RestFrom(f), Size[f] - RestFrom(f))
    /\ cb' = [cb EXCEPT ![f] = "done"]
    /\ UNCHANGED sent
FailSilently(f) ==
    /\ cb' = [cb EXCEPT ![f] = "release"]
    /\ UNCHANGED <<sent, got, denied, signalled>>

\* The untransferred range is failed, and the handle is released on the way out.
Fail(f) ==
    /\ Deny(f, RestFrom(f), Size[f] - RestFrom(f))
    /\ cb' = [cb EXCEPT ![f] = "release"]
    /\ UNCHANGED sent

\* One turn of stream_chunks: an empty file is signalled and done; otherwise a
\* chunk is read and passed on, or the rest is failed because read_at returned
\* nothing.
Stream(f) ==
    /\ cb[f] = "stream"
    /\ \/ /\ Size[f] = 0
          /\ Give(f, 0, 0)
          /\ cb' = [cb EXCEPT ![f] = "release"] /\ UNCHANGED sent
       \/ /\ Size[f] > 0
          /\ \E n \in Counts(f) \ {0} :
              /\ Give(f, sent[f], Clamp(f, n))
              /\ sent' = [sent EXCEPT ![f] = Advance(f, n)]
              /\ cb' = [cb EXCEPT ![f] = IF Advance(f, n) < Size[f]
                                         THEN "stream" ELSE "release"]
       \/ Size[f] > 0 /\ 0 \in Counts(f) /\ Fail(f)
    /\ UNCHANGED <<life, store, listing, fh>>

\* read_at returned an error: the rest is failed.
ReadError(f) ==
    /\ cb[f] = "stream" /\ Size[f] > 0 /\ "read" \in Faults
    /\ Fail(f)
    /\ UNCHANGED <<life, store, listing, fh>>

\* release, its error only logged; the callback returns.
Release(f) ==
    /\ cb[f] = "release"
    /\ cb' = [cb EXCEPT ![f] = "done"] /\ fh' = [fh EXCEPT ![f] = FALSE]
    /\ UNCHANGED <<life, store, listing, sent, got, denied, signalled>>

Callback ==
    \/ List \/ TransferPlaceholders
    \/ \E f \in Files : Open(f) \/ Stream(f) \/ ReadError(f) \/ Release(f)

------------------------------------------------------------------------------
(* The rest of the machine (external) *)

\* Outside any mount, between the check for an empty directory and the
\* registration, or from the registration to the end of the removal.
Moment ==
    IF pc \in {"idle", "failed", "ended", "undo_register", "drop"} THEN "outside"
    ELSE IF pc = "register" THEN "checked" ELSE "mounted"

\* The user puts a file of his own into the directory.
UserWrites ==
    /\ "user" \notin disk
    /\ disk' = disk \union {"user"} /\ wrote' = Moment
    /\ UNCHANGED <<life, listing, fetch>>

\* The process dies: its callbacks, handles and connection go, the registration
\* and the directory stay.
Crash ==
    /\ "crash" \in Faults /\ pc \notin {"idle", "failed", "ended"}
    /\ pc' = "idle" /\ connected' = FALSE /\ ctx' = "none" /\ failed' = failed \union {"crash"}
    /\ lister' = "none" /\ dir' = "root" /\ prepared' = {}
    /\ cb' = Each("none") /\ fh' = Each(FALSE) /\ sent' = Each(0)
    /\ got' = Each({}) /\ denied' = Each({}) /\ signalled' = Each(FALSE)
    /\ UNCHANGED <<mounts, registered, store>>

Teardown == Disconnect \/ Drain \/ Unregister \/ Remove \/ Drop

Next ==
    \/ Mount \/ Register \/ Connect \/ UndoRegister
    \/ Teardown
    \/ StartList \/ (\E f \in Files : StartFetch(f)) \/ Callback
    \/ UserWrites \/ Crash

Spec == Init /\ [][Next]_vars

\* Callbacks run to their end, mount and teardown too: the handle is dropped at
\* the latest when its owner ends.
FairSpec ==
    /\ Spec
    /\ WF_vars(List \/ TransferPlaceholders)
    /\ \A f \in Files : WF_vars(Open(f) \/ Stream(f) \/ Release(f))
    /\ WF_vars(Register \/ Connect \/ UndoRegister)
    /\ WF_vars(Teardown)

------------------------------------------------------------------------------
(* Correctness *)

TypeOK ==
    /\ pc \in {"idle", "register", "connect", "undo_register", "mounted", "drain",
               "unregister", "remove", "drop", "ended", "failed"}
    /\ mounts \in 0 .. MaxMounts
    /\ registered \in BOOLEAN /\ connected \in BOOLEAN
    /\ ctx \in {"none", "live", "freed"}
    /\ disk \subseteq Entries \union {"user"}
    /\ wrote \in {"none", "outside", "checked", "mounted"}
    /\ failed \subseteq {"disconnect", "unregister", "remove", "crash"}
    /\ lister \in {"none", "list", "transfer"} /\ prepared \subseteq Entries
    /\ dir \in Folders
    /\ cb \in [Files -> {"none", "open", "stream", "release", "done"}]
    /\ fh \in [Files -> BOOLEAN] /\ signalled \in [Files -> BOOLEAN]
    /\ sent \in [Files -> Nat] /\ got \in [Files -> SUBSET Nat] /\ denied \in [Files -> SUBSET Nat]
    /\ \A f \in Files : /\ sent[f] <= Size[f]
                        /\ got[f] \subseteq Whole(f) /\ denied[f] \subseteq Whole(f)

\* Every callback that runs has the Context its raw pointer leads to: unmount
\* frees it only when none is left and none can come.
ContextOutlivesCallbacks == Quiet \/ ctx = "live"

\* A callback that has returned has answered every byte it was asked for, with
\* data or with a failure, so the platform never waits out its timeout.
FetchAnswered ==
    \A f \in Files : cb[f] = "done" =>
        signalled[f] /\ got[f] \union denied[f] = Whole(f)

\* The bytes handed over are real, and none of them is failed as well: what a
\* failure leaves out is exactly what was not transferred.
DataOrFailureNeverBoth ==
    \A f \in Files : got[f] \intersect denied[f] = {} /\ got[f] \subseteq Range(0, Readable[f])

\* Every handle opened for a fetch is released by the time its callback returns.
HandlesReleased == \A f \in Files : fh[f] => Running(f)

\* What teardown leaves behind it was refused to remove: no armed callback table,
\* no registration, no placeholder.  A mount that failed leaves no registration
\* of its own.
TeardownLeavesNothing ==
    /\ pc = "ended" => /\ connected => "disconnect" \in failed
                       /\ disk \intersect Entries # {} => "remove" \in failed
    /\ pc \in {"ended", "failed"} /\ registered => failed \intersect {"unregister", "crash"} # {}

\* A file of the user's is removed only if it was written between the emptiness
\* check of a mount and the removal at its unmount: one that was there before mount
\* was called, or that came to a mount that had failed or was over, stays whatever
\* fails, crashes or is mounted again.
FilesOutsideMountsSurvive == [][wrote = "outside" => "user" \in disk']_vars

\* A file that was in the directory when it became a sync root is never removed: what
\* remove_leftover_placeholders takes down is the backend's own.
UserFilesSurvive == [][(wrote \in {"outside", "checked"}) => "user" \in disk']_vars

\* Every callback returns.
FetchEnds == \A f \in Files : Running(f) ~> ~Running(f)

\* Unmounting ends, callbacks in flight or not, unless the process dies first.
UnmountEnds == pc = "drain" ~> pc \in {"ended", "idle"}
==============================================================================
