------------------------------- MODULE NfsProc -------------------------------
(***************************************************************************)
(* backend/nfs/nfs_proto.rs, mount_proto.rs and handle.rs: the procedures  *)
(* of the NFS and the MOUNT program, each a sequence of trait calls and a  *)
(* reply, called by a kernel that walks down a path and reads a file over  *)
(* a transport that loses, repeats and reorders messages.                  *)
(***************************************************************************)
EXTENDS Serving, ExportPath

CONSTANTS
    RTMAX,       \* cap on the bytes of one READ3
    MaxOffset,   \* u64::MAX
    Counts,      \* byte counts the kernel asks for
    FsNames,     \* names a filesystem may be given
    Secrets,     \* Secrets[gen]: the secret a program puts in its export path
    Probes,      \* further procedures the kernel may call on the way
    MaxProbes,   \* bound: how many of them
    MaxCalls,    \* bound: calls of one reader, more than it needs
    MaxGen       \* bound: how many programs serve one after the other

ASSUME NfsProcAssumption ==
    /\ RTMAX \in Nat \ {0} /\ Counts \subseteq Nat \ {0} /\ Counts # {}
    /\ MaxOffset \in Nat /\ MaxProbes \in Nat /\ MaxCalls \in Nat
    /\ MaxGen \in Nat \ {0} /\ 1 .. MaxGen \subseteq DOMAIN Data
    /\ Secrets \in [1 .. MaxGen -> Hex]
    /\ FsNames \subseteq Seq(STRING)
    /\ \A g, h \in 1 .. MaxGen : Secrets[g] = Secrets[h] => g = h

VARIABLES
    cur,         \* the file handle the kernel has reached
    xid,         \* the current call's id
    call,        \* the current call
    waiting,     \* its reply is outstanding
    probes       \* how many probes have been sent

nfsClient == <<cur, xid, call, waiting, probes>>

NoHandle == [secret |-> 0, ino |-> 0]

\* Every program draws its two secrets afresh; they are numbered like programs.
HexOf(g) == Secrets[g]

\* FileHandle3::encode
Encode(ino) == [secret |-> gen, ino |-> ino]

\* Mutant: the secret is not compared.
ResolvesAny(fh) == fh # NoHandle

\* FileHandle3::resolve finds this program's secret in the handle.
Resolves(fh) == fh.secret = gen

Min2(a, b) == IF a < b THEN a ELSE b
SaturatingAdd(a, b) == Min2(a + b, MaxOffset)

NfsClientInit ==
    /\ cur = NoHandle /\ xid = 0 /\ call = NoRequest
    /\ waiting = FALSE /\ probes = 0

------------------------------------------------------------------------------
(* The server's threads *)

RejectRofs == {"setattr", "write", "create", "mkdir", "mknod", "remove", "rmdir",
               "rename", "link", "commit"}
RejectNotsupp == {"readlink", "symlink"}
TakesHandle == {"getattr", "lookup", "access", "read", "readdir", "readdirplus",
                "fsstat", "fsinfo", "pathconf"}

Answer(m) == [xid |-> m.xid, rpc |-> "SUCCESS", status |-> NFS3_OK, fh |-> NoHandle,
              data |-> << >>, count |-> 0, eof |-> FALSE]

Status(m, s) == [Answer(m) EXCEPT !.status = s]

\* A call answered without the filesystem.
Direct(m) == m.op \notin TakesHandle \/ m.garbage \/ ~Resolves(m.fh)

MntAnswer(m) ==
    CASE Mnt(m.path, HexOf(gen)) = "MNT3_OK" -> [Answer(m) EXCEPT !.fh = Encode(ROOT_INO)]
      [] Mnt(m.path, HexOf(gen)) = "MNT3ERR_ACCES" -> Status(m, NFS3ERR_ACCES)
      [] OTHER -> Status(m, NFS3ERR_NOENT)

\* The rejections do not look at their arguments.
DirectAnswer(m) ==
    CASE m.op \in {"null", "export"} -> Answer(m)
      [] m.op \in RejectRofs         -> Status(m, NFS3ERR_ROFS)
      [] m.op \in RejectNotsupp      -> Status(m, NFS3ERR_NOTSUPP)
      [] m.op \notin TakesHandle \union {"mnt", "umnt"} ->
             [Answer(m) EXCEPT !.rpc = "PROC_UNAVAIL"]
      [] m.op \in TakesHandle \union {"mnt", "umnt"} /\ m.garbage ->
             [Answer(m) EXCEPT !.rpc = "GARBAGE_ARGS"]
      [] m.op = "umnt" /\ ~m.garbage -> Answer(m)
      [] m.op = "mnt" /\ ~m.garbage  -> MntAnswer(m)
      [] m.op \in TakesHandle /\ ~m.garbage -> Status(m, NFS3ERR_NOENT)

\* dispatch: a call is answered at once, or a handler starts.  fsinfo and
\* pathconf have nothing to decide and go on to the attributes.
NfsDispatch(w) ==
    /\ pc[w] = "idle"
    /\ \E m \in reqs :
        /\ reqs' = reqs \ {m}
        /\ \/ /\ Direct(m)
              /\ reps' = reps \union {DirectAnswer(m)}
              /\ UNCHANGED threads
           \/ /\ ~Direct(m)
              /\ req' = [req EXCEPT ![w] = m]
              /\ pc' = [pc EXCEPT ![w] =
                          IF m.op \in {"fsinfo", "pathconf"} THEN "attr" ELSE "decide"]
              /\ UNCHANGED <<reps, res, hnd>>
    /\ UNCHANGED <<fs, faults, app, nfsClient>>

Send(w, m) ==
    /\ reps' = reps \union {m}
    /\ pc' = [pc EXCEPT ![w] = "idle"]
    /\ req' = [req EXCEPT ![w] = NoRequest]
    /\ res' = [res EXCEPT ![w] = Ok(0)]
    /\ hnd' = [hnd EXCEPT ![w] = 0]

StatusOf(r) == IF r.err = "Ok" THEN NFS3_OK ELSE ToNfsstat3(r.err)

\* getattr and access: one trait call, and the reply says what it said.
NfsGetattr(w) ==
    /\ pc[w] = "decide" /\ req[w].op \in {"getattr", "access"}
    /\ \E r \in Results(Attr(req[w].fh.ino)) :
        /\ Charge(r)
        /\ Send(w, Status(req[w], StatusOf(r)))
    /\ UNCHANGED <<fs, reqs, app, nfsClient>>

\* The name, the listing or the statistics: which entries a listing has, and what
\* is said when none fits, are Readdir's.
Decides(m) ==
    CASE m.op = "lookup"                   -> Lookup(m.fh.ino, m.name)
      [] m.op \in {"readdir", "readdirplus"} -> ReaddirResult(m.fh.ino)
      [] OTHER                             -> Ok(0)

\* lookup, readdir_common and fsstat: the call that decides, before the attributes.
NfsDecide(w) ==
    /\ pc[w] = "decide" /\ req[w].op \in {"lookup", "readdir", "readdirplus", "fsstat"}
    /\ \E r \in Results(Decides(req[w])) :
        /\ Charge(r)
        /\ res' = [res EXCEPT ![w] = r]
    /\ pc' = [pc EXCEPT ![w] = "attr"]
    /\ UNCHANGED <<fs, reqs, reps, req, hnd, app, nfsClient>>

\* read: a handle of its own for every call.
NfsOpen(w) ==
    /\ pc[w] = "decide" /\ req[w].op = "read"
    /\ \E r \in Results(OpenResult(req[w].fh.ino)) :
        /\ Charge(r)
        /\ res' = [res EXCEPT ![w] = r]
        /\ IF r.err = "Ok"
           THEN /\ Opened(r.ino)
                /\ hnd' = [hnd EXCEPT ![w] = next_handle]
                /\ pc' = [pc EXCEPT ![w] = "read"]
           ELSE /\ pc' = [pc EXCEPT ![w] = "attr"]
                /\ UNCHANGED <<fs, hnd>>
    /\ UNCHANGED <<reqs, reps, req, app, nfsClient>>

\* Mutant: a failed read keeps its handle.
AfterReadLeaks(r) == IF r.err = "Ok" THEN "release" ELSE "attr"

\* n.min(buf.len())
Clamp(n, len) == Min2(n, len)

\* Both arms release the handle next.
AfterRead(r) == "release"

NfsReadAt(w) ==
    /\ pc[w] = "read"
    /\ LET len == Min2(req[w].count, RTMAX)
           r0  == ReadAt(hnd[w], req[w].offset, len)
       IN  \E r \in Results(r0) \union {Overclaims(hnd[w], req[w].offset, r0)} :
             /\ Charge(r)
             /\ res' = [res EXCEPT ![w] = [r EXCEPT !.n = Clamp(r.n, len)]]
             /\ pc' = [pc EXCEPT ![w] = AfterRead(r)]
    /\ UNCHANGED <<fs, reqs, reps, req, hnd, app, nfsClient>>

\* release_logging: an error is logged, and the handle is gone either way.
NfsRelease(w) ==
    /\ pc[w] = "release"
    /\ Released(hnd[w])
    /\ hnd' = [hnd EXCEPT ![w] = 0]
    /\ pc' = [pc EXCEPT ![w] = "attr"]
    /\ UNCHANGED <<faults, reqs, reps, req, res, app, nfsClient>>

\* A reply without attributes never claims the end.
Eof(m, r, a) == a.err = "Ok" /\ SaturatingAdd(m.offset, r.n) >= FileSize(m.fh.ino)

\* The attributes that go into every reply, as far as getattr gives them, and the
\* reply itself.
NfsReply(w) ==
    /\ pc[w] = "attr"
    /\ \E a \in Results(Attr(req[w].fh.ino)) :
        LET m == req[w]
            r == res[w]
            s == Status(m, StatusOf(r))
        IN  /\ Charge(a)
            /\ Send(w, CASE r.err = "Ok" /\ m.op = "lookup" -> [s EXCEPT !.fh = Encode(r.ino)]
                         [] r.err = "Ok" /\ m.op = "read" ->
                                [s EXCEPT !.data = r.data, !.count = r.n, !.eof = Eof(m, r, a)]
                         [] OTHER -> s)
    /\ UNCHANGED <<fs, reqs, app, nfsClient>>

NfsServe(w) ==
    \/ NfsDispatch(w) \/ NfsGetattr(w) \/ NfsDecide(w) \/ NfsOpen(w)
    \/ NfsReadAt(w) \/ NfsRelease(w) \/ NfsReply(w)

------------------------------------------------------------------------------
(* The kernel's NFS client and the transport (external) *)

Request(op) ==
    [xid |-> xid + 1, op |-> op, fh |-> cur, name |-> "", offset |-> 0, count |-> 0,
     path |-> << >>, garbage |-> FALSE]

Foreign == [secret |-> MaxGen + 1, ino |-> ROOT_INO]

\* MNT until there is a handle, then LOOKUP down the path, then READ to the end.
NextCalls ==
    IF cur = NoHandle
    THEN {[Request("mnt") EXCEPT !.path = ExportPathFor(HexOf(1), n)] : n \in FsNames}
    ELSE IF todo # << >> THEN {[Request("lookup") EXCEPT !.name = Head(todo)]}
    ELSE {[Request("read") EXCEPT !.offset = Len(got), !.count = c] : c \in Counts}

ProbeCalls ==
    LET aimed(h) == {[Request(p) EXCEPT !.fh = h, !.name = ".."] : p \in Probes}
    IN  aimed(cur) \union aimed(Foreign)
          \union {[Request(p) EXCEPT !.name = "..", !.garbage = TRUE] : p \in Probes}

NfsCall ==
    /\ ~waiting /\ outcome = "reading" /\ xid < MaxCalls
    /\ \/ call' \in NextCalls /\ UNCHANGED probes
       \/ probes < MaxProbes /\ cur # NoHandle /\ call' \in ProbeCalls /\ probes' = probes + 1
    /\ xid' = xid + 1
    /\ waiting' = TRUE
    /\ reqs' = reqs \union {call'}
    /\ UNCHANGED <<fs, faults, app, reps, threads, cur>>

IsProbe(m) == m.op \notin {"mnt", "lookup", "read"} \/ m.name = ".."

\* The application gets as many bytes as the reply counts.
Accept(m) ==
    /\ waiting' = FALSE
    /\ IF IsProbe(call) THEN UNCHANGED <<app, cur>>
       ELSE IF m.rpc # "SUCCESS" \/ m.status # NFS3_OK
       THEN outcome' = "failed" /\ UNCHANGED <<todo, got, cur>>
       ELSE IF call.op = "read"
       THEN /\ got' = got \o [i \in 1 .. m.count |->
                               IF i <= Len(m.data) THEN m.data[i] ELSE "junk"]
            /\ outcome' = IF m.eof THEN "done" ELSE "reading"
            /\ UNCHANGED <<todo, cur>>
       ELSE /\ cur' = m.fh
            /\ todo' = IF call.op = "lookup" THEN Tail(todo) ELSE todo
            /\ UNCHANGED <<got, outcome>>
    /\ call' = NoRequest
    /\ UNCHANGED <<xid, probes>>

\* A reply counts once; one that does not answer the current call is dropped.
NfsReceive ==
    /\ \E m \in reps :
        /\ reps' = reps \ {m}
        /\ \/ waiting /\ m.xid = xid /\ Accept(m)
           \/ ~(waiting /\ m.xid = xid) /\ UNCHANGED <<app, nfsClient>>
    /\ UNCHANGED <<fs, faults, reqs, threads>>

CallLost ==
    /\ call \notin reqs
    /\ \A w \in Workers : req[w] # call
    /\ \A m \in reps : m.xid # xid

\* The timer fires: the same call again, under its own xid.
NfsRetransmit ==
    /\ waiting /\ call \notin reqs
    /\ reqs' = reqs \union {call}
    /\ \/ CallLost /\ UNCHANGED faults
       \/ ~CallLost /\ faults < MaxFaults /\ faults' = faults + 1
    /\ UNCHANGED <<fs, app, reps, threads, nfsClient>>

NfsLose ==
    /\ faults < MaxFaults
    /\ faults' = faults + 1
    /\ \/ \E m \in reqs : reqs' = reqs \ {m} /\ UNCHANGED reps
       \/ \E m \in reps : reps' = reps \ {m} /\ UNCHANGED reqs
    /\ UNCHANGED <<fs, app, threads, nfsClient>>

\* A soft mount gives up on a call.
NfsGiveUp ==
    /\ waiting
    /\ waiting' = FALSE
    /\ call' = NoRequest
    /\ outcome' = "failed"
    /\ UNCHANGED <<fs, faults, todo, got, reqs, reps, threads, cur, xid, probes>>

\* The program dies and another takes its place on the same port, with secrets
\* and content of its own; the kernel keeps the handles it has.
NfsRestart ==
    /\ gen < MaxGen
    /\ gen' = gen + 1
    /\ open_files' = << >> /\ next_handle' = 1
    /\ pc' = [w \in Workers |-> "idle"]
    /\ req' = [w \in Workers |-> NoRequest]
    /\ res' = [w \in Workers |-> Ok(0)]
    /\ hnd' = [w \in Workers |-> 0]
    /\ UNCHANGED <<faults, app, reqs, reps, nfsClient>>

NfsNext ==
    \/ \E w \in Workers : NfsServe(w)
    \/ NfsCall \/ NfsReceive \/ NfsRetransmit \/ NfsLose \/ NfsGiveUp \/ NfsRestart

------------------------------------------------------------------------------
(* Correctness *)

\* Every handle that is open belongs to the READ3 call of one thread, from its open
\* to its release, and is open on the file of that call: whatever fails in between,
\* an answered call leaves none behind and no two calls share one.
NfsHandlesAccounted ==
    LET owners == {w \in Workers : hnd[w] # 0}
    IN  /\ DOMAIN open_files = {hnd[w] : w \in owners}
        /\ \A w \in owners : open_files[hnd[w]] = req[w].fh.ino
        /\ \A v, w \in owners : hnd[v] = hnd[w] => v = w

\* Whatever the filesystem is called, the path that tcp::mount hands to mount_nfs
\* opens the mount it was made for and no mount of a later program, and ends in a
\* volume name that is not empty, has neither a separator nor a control character
\* in it and neither starts nor ends with one of the characters that are trimmed.
ExportPathHolds ==
    \A m \in reqs : m.op = "mnt" /\ ~IsProbe(m) =>
        /\ Mnt(m.path, HexOf(gen)) = IF gen = 1 THEN "MNT3_OK" ELSE "MNT3ERR_ACCES"
        /\ Len(m.path) > 2
        /\ \A i \in 3 .. Len(m.path) : ~Rejected(m.path[i])
        /\ ~Trimmed(m.path[3]) /\ ~Trimmed(m.path[Len(m.path)])
==============================================================================
