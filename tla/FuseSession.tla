----------------------------- MODULE FuseSession -----------------------------
(***************************************************************************)
(* backend/fuse.rs: callbacks of the kernel on several threads, each one   *)
(* call of the filesystem and a reply.  A reader walks down a path and     *)
(* reads, with readahead, on one handle; another process makes calls of    *)
(* its own; the kernel forgets inodes it no longer uses.                   *)
(*                                                                         *)
(* fuser and the kernel are external.  A callback's trait call and the     *)
(* kernel's receipt of the reply are separate steps, so replies overtake   *)
(* one another.                                                            *)
(***************************************************************************)
EXTENDS Serving, Preflight, FiniteSetsExt

CONSTANTS
    MAX_READ,    \* cap on the bytes of one read
    ReadSizes,   \* byte counts the kernel asks for
    XattrLen,    \* length of an extended attribute, or of the list of names
    XattrSizes,  \* buffer sizes callers of getxattr and listxattr offer
    Extras,      \* operations of the other process
    MaxExtras,   \* bound: how many of them
    DEFAULT_WORKER_THREADS

ASSUME FuseAssumption ==
    /\ MAX_READ \in Nat \ {0} /\ ReadSizes \subseteq Nat \ {0} /\ ReadSizes # {}
    /\ XattrLen \in Nat /\ XattrSizes \subseteq Nat /\ MaxExtras \in Nat
    /\ Extras \subseteq {"lookup", "getattr", "statfs", "readdir", "getxattr", "listxattr"}
    /\ DEFAULT_WORKER_THREADS \in Workers

VARIABLES
    node,        \* the inode the reader has reached
    held,        \* its open file, or 0
    ahead,       \* a chunk read ahead, or none: a set of at most one
    busy,        \* processes waiting for a reply
    refs,        \* per inode: lookups the kernel remembers
    count,       \* per inode: lookups a caching filesystem has counted
    owed,        \* per inode: those of them made by readdir::emit
    extras,      \* operations of the other process so far
    nthreads,    \* Config.n_threads
    life         \* "none", "up", "detached", "leaving" or "down"

kernel == <<node, held, ahead, busy, refs, extras>>
session == <<nthreads, life>>
counts == <<count, owed>>
fuseVars == <<kernel, counts, session>>

Procs == {"reader", "readahead", "other"}
Zero == [i \in Inos |-> 0]

FuseInit ==
    /\ node = ROOT_INO /\ held = 0 /\ ahead = {} /\ busy = {} /\ extras = 0
    /\ refs = Zero /\ count = Zero /\ owed = Zero
    /\ nthreads = 0 /\ life = "none"

\* The kernel sends requests: also when unmounting has failed and left the session
\* to its threads.
Attached == life \in {"up", "detached"}

------------------------------------------------------------------------------
(* The callbacks *)

Take(w, m) ==
    /\ pc[w] = "idle" /\ w <= nthreads
    /\ reqs' = reqs \ {m}

\* The callback has its result and will reply.
Answering(w, m, r, h) ==
    /\ Charge(r)
    /\ pc' = [pc EXCEPT ![w] = "reply"]
    /\ req' = [req EXCEPT ![w] = m]
    /\ res' = [res EXCEPT ![w] = r]
    /\ hnd' = [hnd EXCEPT ![w] = h]
    /\ UNCHANGED <<reps, app, kernel, session>>

Counted(c, r) == IF r.err = "Ok" THEN [c EXCEPT ![r.ino] = @ + 1] ELSE c

FuseLookup(w) == \E m \in reqs :
    /\ m.op = "lookup" /\ Take(w, m)
    /\ \E r \in Results(Lookup(m.ino, m.name)) :
        /\ Answering(w, m, r, 0)
        /\ count' = Counted(count, r)
    /\ UNCHANGED <<fs, owed>>

\* getattr, and statfs with its default.
FuseGetattr(w) == \E m \in reqs :
    /\ m.op \in {"getattr", "statfs"} /\ Take(w, m)
    /\ \E r \in Results(IF m.op = "getattr" THEN Attr(m.ino) ELSE Ok(0)) :
        Answering(w, m, r, 0)
    /\ UNCHANGED <<fs, counts>>

FuseOpen(w) == \E m \in reqs :
    /\ m.op = "open" /\ Take(w, m)
    /\ \E r \in Results(OpenResult(m.ino)) :
        /\ Answering(w, m, r, IF r.err = "Ok" THEN next_handle ELSE 0)
        /\ IF r.err = "Ok" THEN Opened(r.ino) ELSE UNCHANGED fs
    /\ UNCHANGED counts

\* read_buffer_len
ReadBufferLen(size) == IF size < MAX_READ THEN size ELSE MAX_READ

\* Mutant: the buffer is sent as it was allocated.
TruncatedNever(r, len) ==
    [i \in 1 .. len |-> IF i <= Len(r.data) THEN r.data[i] ELSE "junk"]

\* The buffer, after truncate(n.min(buf.len())).
Truncated(r, len) ==
    [i \in 1 .. (IF r.n < len THEN r.n ELSE len) |->
        IF i <= Len(r.data) THEN r.data[i] ELSE "junk"]

FuseRead(w) == \E m \in reqs :
    /\ m.op = "read" /\ Take(w, m)
    /\ LET len == ReadBufferLen(m.size)
           r0  == ReadAt(m.fh, m.offset, len)
       IN  \E r \in Results(r0) \union {Overclaims(m.fh, m.offset, r0)} :
             Answering(w, m, IF r.err = "Ok" THEN [r EXCEPT !.data = Truncated(r, len)]
                                             ELSE r, 0)
    /\ UNCHANGED <<fs, counts>>

\* A failed release is logged; the handle is gone either way.
FuseRelease(w) == \E m \in reqs :
    /\ m.op = "release" /\ Take(w, m)
    /\ Answering(w, m, Ok(0), 0)
    /\ Released(m.fh)
    /\ UNCHANGED counts

\* Mutant: one forgotten lookup, however many the kernel names.
ForgottenOne(m) == 1

Forgotten(m) == m.nlookup

\* There is no reply to a forget.
FuseForget(w) == \E m \in reqs :
    /\ m.op = "forget" /\ Take(w, m)
    /\ count' = [count EXCEPT ![m.ino] = @ - Forgotten(m)]
    /\ UNCHANGED <<fs, faults, reps, threads, app, kernel, owed, session>>

\* A listing from cookie m.offset: emit looks ".." up on the way to the entries,
\* unless the kernel has it already, and goes on without it when that fails.  What
\* the reply lists is Readdir's.
FuseReaddir(w) == \E m \in reqs :
    /\ m.op = "readdir" /\ Take(w, m)
    /\ \E parent \in IF m.offset <= 1 THEN {Lookup(m.ino, ".."), Err("Io")}
                                      ELSE {Err("NotFound")} :
        /\ count' = Counted(count, parent)
        /\ owed' = Counted(owed, parent)
    /\ \E r \in Results(Ok(m.ino)) : Answering(w, m, r, 0)
    /\ UNCHANGED fs

\* xattr_reply: the length, the value, or ERANGE.
XattrReply(len, size) ==
    IF size = 0 THEN "Size" ELSE IF len > size THEN "TooLarge" ELSE "Data"

FuseXattr(w) == \E m \in reqs :
    /\ m.op \in {"getxattr", "listxattr"} /\ Take(w, m)
    /\ \E r \in Results(Ok(m.ino))
                  \union (IF m.op = "getxattr" THEN {Err("NoXattr")} ELSE {}) :
        Answering(w, m, IF r.err = "Ok" THEN [r EXCEPT !.n = XattrLen] ELSE r, 0)
    /\ UNCHANGED <<fs, counts>>

Errno(m, r) ==
    IF r.err # "Ok" THEN ToErrno(r.err)
    ELSE IF m.op \in {"getxattr", "listxattr"} /\ XattrReply(r.n, m.size) = "TooLarge"
    THEN ERANGE ELSE 0

\* The reply leaves; the kernel has nobody waiting for one to a release.
FuseReply(w) ==
    /\ pc[w] = "reply"
    /\ reps' = IF req[w].who = "none" THEN reps
               ELSE reps \union {[who |-> req[w].who, op |-> req[w].op,
                                  errno |-> Errno(req[w], res[w]), ino |-> res[w].ino,
                                  fh |-> hnd[w], offset |-> req[w].offset,
                                  data |-> res[w].data]}
    /\ pc' = [pc EXCEPT ![w] = "idle"]
    /\ req' = [req EXCEPT ![w] = NoRequest]
    /\ res' = [res EXCEPT ![w] = Ok(0)]
    /\ hnd' = [hnd EXCEPT ![w] = 0]
    /\ UNCHANGED <<fs, faults, reqs, app, fuseVars>>

FuseServe(w) ==
    \/ FuseLookup(w) \/ FuseGetattr(w) \/ FuseOpen(w) \/ FuseRead(w) \/ FuseRelease(w)
    \/ FuseForget(w) \/ FuseReaddir(w) \/ FuseXattr(w) \/ FuseReply(w)

------------------------------------------------------------------------------
(* The kernel and the processes on the mount (external) *)

Req(who, op, ino) ==
    [who |-> who, op |-> op, ino |-> ino, name |-> "", fh |-> 0, offset |-> 0,
     size |-> 0, nlookup |-> 0]

Submit(m) ==
    /\ Attached
    /\ reqs' = reqs \union {m}
    /\ UNCHANGED <<fs, faults, reps, threads, app, counts, session>>

Ask(m) ==
    /\ m.who \notin busy
    /\ busy' = busy \union {m.who}
    /\ Submit(m)
    /\ UNCHANGED <<node, ahead, refs, held>>

\* Down the path, open, then read on from what has come.
ReaderAsks ==
    /\ outcome = "reading"
    /\ \/ /\ todo # << >>
          /\ Ask([Req("reader", "lookup", node) EXCEPT !.name = Head(todo)])
       \/ /\ todo = << >> /\ held = 0
          /\ Ask(Req("reader", "open", node))
       \/ /\ held # 0
          /\ \A c \in ahead : c.offset # Len(got)
          /\ \E n \in ReadSizes :
               Ask([Req("reader", "read", node) EXCEPT
                       !.fh = held, !.offset = Len(got), !.size = n])
    /\ UNCHANGED extras

\* A read of what follows, on the same handle, before it is asked for.
Readahead ==
    /\ outcome = "reading" /\ held # 0 /\ ahead = {} /\ "reader" \in busy
    /\ \E n \in ReadSizes :
         Ask([Req("readahead", "read", node) EXCEPT
                 !.fh = held, !.offset = Len(got) + n, !.size = n])
    /\ UNCHANGED extras

OtherAsks ==
    /\ extras < MaxExtras
    /\ extras' = extras + 1
    /\ \E op \in Extras, n \in XattrSizes, cookie \in {0, 2} :
         /\ op \notin {"getxattr", "listxattr"} => n = 0
         /\ op # "readdir" => cookie = 0
         /\ Ask([Req("other", op, ROOT_INO) EXCEPT
                   !.name = Path[1], !.size = n, !.offset = cookie])

\* Bytes for the reader; none at all are the end of the file.
Took(data) ==
    /\ got' = got \o data
    /\ outcome' = IF data = << >> THEN "done" ELSE "reading"
    /\ UNCHANGED todo

ReaderGets(m) ==
    IF m.errno # 0 THEN outcome' = "failed" /\ UNCHANGED <<todo, got, node, held>>
    ELSE CASE m.op = "lookup" -> /\ node' = m.ino /\ todo' = Tail(todo)
                                 /\ UNCHANGED <<got, outcome, held>>
           [] m.op = "open"   -> held' = m.fh /\ UNCHANGED <<app, node>>
           [] m.op = "read"   -> Took(m.data) /\ UNCHANGED <<node, held>>

FuseReceive(who) ==
    /\ Attached
    /\ \E m \in reps :
        /\ m.who = who
        /\ reps' = reps \ {m}
        /\ refs' = IF m.op = "lookup" /\ m.errno = 0 THEN [refs EXCEPT ![m.ino] = @ + 1]
                   ELSE refs
        /\ IF who = "reader" THEN ReaderGets(m) ELSE UNCHANGED <<app, node, held>>
        /\ ahead' = IF who = "readahead" /\ m.errno = 0 /\ m.offset >= Len(got)
                    THEN {[offset |-> m.offset, data |-> m.data]} ELSE ahead
    /\ busy' = busy \ {who}
    /\ UNCHANGED <<fs, faults, reqs, threads, counts, session, extras>>

\* A chunk read ahead is used when the reader arrives there, and dropped behind it.
UseAhead ==
    /\ "reader" \notin busy /\ outcome = "reading"
    /\ \E c \in ahead :
        \/ c.offset = Len(got) /\ Took(c.data)
        \/ c.offset < Len(got) /\ UNCHANGED app
    /\ ahead' = {}
    /\ UNCHANGED <<fs, faults, reqs, reps, threads, counts, session, node, held, busy,
                   refs, extras>>

\* The file is closed when its reads are back.
Close ==
    /\ outcome # "reading" /\ held # 0
    /\ {"reader", "readahead"} \intersect busy = {}
    /\ held' = 0
    /\ Submit([Req("none", "release", node) EXCEPT !.fh = held])
    /\ UNCHANGED <<node, ahead, busy, refs, extras>>

\* The inodes the reader has come through, while it needs them.
InUse ==
    {ROOT_INO} \union
    IF outcome = "reading" \/ held # 0
    THEN {Walk[k] : k \in 0 .. Len(Path) - Len(todo)} ELSE {}

Forget(i) ==
    /\ i \notin InUse /\ refs[i] > 0
    /\ LET m == [Req("none", "forget", i) EXCEPT !.nlookup = refs[i]]
       IN  m \notin reqs /\ Submit(m)
    /\ refs' = [refs EXCEPT ![i] = 0]
    /\ UNCHANGED <<node, held, ahead, busy, extras>>

\* FuseHandle::unmount.  A mount in use stays, the error is reported and the
\* session's threads go on; otherwise the threads are joined.
FuseUnmount ==
    /\ life = "up"
    /\ \/ /\ held # 0 \/ busy # {}
          /\ life' = "detached"
          /\ UNCHANGED <<app, reqs>>
       \/ /\ held = 0 /\ busy = {}
          /\ life' = "leaving"
          /\ reqs' = {}
          /\ outcome' = IF outcome = "reading" THEN "failed" ELSE outcome
          /\ UNCHANGED <<todo, got>>
    /\ UNCHANGED <<fs, faults, reps, threads, kernel, counts, nthreads>>

FuseJoin ==
    /\ life = "leaving" /\ Idle
    /\ life' = "down"
    /\ UNCHANGED <<fs, faults, reqs, reps, threads, app, kernel, counts, nthreads>>

FuseNext ==
    \/ \E w \in Workers : FuseServe(w)
    \/ ReaderAsks \/ Readahead \/ OtherAsks \/ UseAhead \/ Close
    \/ \E who \in Procs : FuseReceive(who)
    \/ \E i \in Inos : Forget(i)
    \/ FuseUnmount \/ FuseJoin

------------------------------------------------------------------------------
(* Correctness *)

\* While the mount serves, the handles that are open are the reader's, the one of
\* an open whose reply is on its way, and the one of a release that has not been
\* served; and a read never reaches the filesystem with a handle that is gone.
FuseHandlesAccounted ==
    LET opening   == {m.fh : m \in {m \in reps : m.op = "open"}}
                       \union {hnd[w] : w \in Workers}
        releasing == {m.fh : m \in {m \in reqs : m.op = "release"}}
    IN  Attached =>
          /\ DOMAIN open_files = (opening \union releasing \union {held}) \ {0}
          /\ \A m \in reqs : m.op = "read" => m.fh \in DOMAIN open_files

\* Successful lookups of i whose replies are on their way, or about to be sent, and
\* the lookups that forgets on their way give back.
Told(i)  == {m \in reps : m.op = "lookup" /\ m.errno = 0 /\ m.ino = i}
Found(i) == {w \in Workers : req[w].op = "lookup" /\ res[w].err = "Ok" /\ res[w].ino = i}
GivenBack(i) ==
    UNION {{m.nlookup} \X (1 .. m.nlookup) : m \in {m \in reqs : m.op = "forget" /\ m.ino = i}}

\* A filesystem that frees an inode when its lookups are forgotten never frees one
\* the kernel still knows: what it has counted is what the kernel remembers, what
\* is on its way to either, and the lookups of ".." that emit makes itself and
\* nobody will forget.  Lookups and forgets of one inode run on different threads
\* in any order.
LookupsConserved ==
    Attached => \A i \in Inos :
        count[i] = refs[i] + Cardinality(Told(i)) + Cardinality(Found(i))
                     + Cardinality(GivenBack(i)) + owed[i]
==============================================================================
