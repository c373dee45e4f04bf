--------------------------- MODULE FileReadProofs ----------------------------
(***************************************************************************)
(* For every tree, file, path, number of threads, of programs and of       *)
(* faults: reading through a mount implements FileRead.                    *)
(***************************************************************************)
EXTENDS AnyMountProofs, ExportPathProofs

\* The file to be read, where the reader stands, and where its next name leads.
TheFile == Walk[Len(Path)]
Here == Walk[Len(Path) - Len(todo)]
There == Dirs[Here][Head(todo)]

\* The application has walked a part of the path and holds a part of the file.
AppInv ==
    /\ todo \in Seq(STRING) /\ Len(todo) <= Len(Path)
    /\ \A i \in 1 .. Len(todo) : todo[i] = Path[Len(Path) - Len(todo) + i]
    /\ got \in Seq(Bytes) /\ Len(got) <= Len(Content)
    /\ \A i \in 1 .. Len(got) : got[i] = Content[i]

\* d is the part of the file at offset o, or nothing.
Piece(o, d) ==
    /\ o \in Nat /\ d \in Seq(Bytes)
    /\ d # << >> => o + Len(d) <= Len(Content)
    /\ \A i \in 1 .. Len(d) : d[i] = Content[o + i]

\* Before mount nothing has happened.
Start ==
    /\ gen = 1 /\ outcome = "reading" /\ Here = ROOT_INO
    /\ cur = NoHandle /\ xid = 0 /\ waiting = FALSE
    /\ node = ROOT_INO /\ ahead = {} /\ life = "none"

------------------------------------------------------------------------------
(* What is true of a read over NFS *)

\* A handle that the first program gave out.
First(ino) == [secret |-> 1, ino |-> ino]

\* The pending call is the one the application needs next, or a probe.
CallOK(m) ==
    /\ m.xid = xid
    /\ \/ IsProbe(m)
       \/ m.op = "mnt" /\ cur = NoHandle /\ \E n \in FsNames : m.path = ExportPathFor(HexOf(1), n)
       \/ m.op = "lookup" /\ cur # NoHandle /\ m.fh = cur /\ todo # << >> /\ m.name = Head(todo)
       \/ /\ m.op = "read" /\ cur # NoHandle /\ m.fh = cur /\ todo = << >>
          /\ m.offset = Len(got) /\ m.count \in Nat

\* What is on its way under the pending call's xid is that call.
InCall(m) == m.xid \in 0 .. xid /\ ((waiting /\ m.xid = xid) => m = call)

\* The result a thread has for its request is what the tree and the file say.
Truth(m, r) ==
    m.op \in {"lookup", "read"} =>
        /\ r.err \in FsErrors \union {"Ok"}
        /\ (r.err = "Ok" /\ m.op = "lookup" /\ m.name \notin {".", ".."}) =>
             r.ino = Dirs[m.fh.ino][m.name]
        /\ (r.err = "Ok" /\ m.op = "read" /\ m.fh = First(TheFile) /\ m.offset \in Nat
              /\ m.count \in Nat) => Piece(m.offset, r.data) /\ r.n = Len(r.data)

\* A thread serves only handles of its own program.
ThreadOK(w) ==
    /\ InCall(req[w]) /\ req[w].fh.secret = gen /\ req[w].op \in TakesHandle
    /\ pc[w] = "read" => req[w].op = "read"
    /\ pc[w] \in {"release", "attr"} => Truth(req[w], res[w])

\* A successful reply to the pending call tells the truth.
GoodReply(m) ==
    (m.rpc = "SUCCESS" /\ m.status = NFS3_OK) =>
        /\ call.op = "mnt" => m.fh = First(ROOT_INO)
        /\ call.op = "lookup" => m.fh = First(There)
        /\ call.op = "read" => /\ Piece(Len(got), m.data) /\ m.count = Len(m.data)
                               /\ m.eof => Len(got) + Len(m.data) = Len(Content)

ReplyOK(m) == m.xid \in 0 .. xid /\ ((waiting /\ m.xid = xid /\ ~IsProbe(call)) => GoodReply(m))

NfsReading ==
    /\ gen \in 1 .. MaxGen /\ xid \in Nat
    /\ cur = First(Here) \/ (cur = NoHandle /\ Here = ROOT_INO)
    /\ waiting => outcome = "reading" /\ CallOK(call)
    /\ \A m \in reqs : InCall(m)
    /\ \A w \in Workers : pc[w] # "idle" => ThreadOK(w)
    /\ \A m \in reps : ReplyOK(m)

------------------------------------------------------------------------------
(* What is true of a read over FUSE *)

\* Requests of the reader are about where it stands; reads are of the file.
RequestOK(m) ==
    /\ m.who = "reader" =>
         /\ m.op = "lookup" => todo # << >> /\ m.ino = Here /\ m.name = Head(todo)
         /\ m.op = "open" => todo = << >> /\ m.ino = Here
         /\ m.op = "read" => m.offset = Len(got)
    /\ m.op = "read" => m.offset \in Nat /\ m.size \in ReadSizes

\* An answer to request m: the inode, the handle or the bytes; no bytes are the end.
AnswerOK(m, ino, fh, data) ==
    /\ (m.who = "reader" /\ m.op = "lookup") => ino = There
    /\ (m.op = "open" /\ fh # 0) => open_files[fh] = TheFile
    /\ m.op = "read" => Piece(m.offset, data) /\ (data = << >> => m.offset >= Len(Content))

FuseRequests ==
    /\ \A m \in reqs : RequestOK(m)
    /\ \A w \in Workers : pc[w] = "reply" =>
         /\ RequestOK(req[w]) /\ res[w].err \in FsErrors \union {"Ok"}
         /\ res[w].err = "Ok" => AnswerOK(req[w], res[w].ino, hnd[w], res[w].data)

FuseReplies ==
    /\ \A m \in reps : m.errno = 0 => AnswerOK(m, m.ino, m.fh, m.data)
    /\ \A m \in reps : m.who = "reader" =>
         /\ m.op = "lookup" => todo # << >>
         /\ m.op = "open" => todo = << >>
         /\ m.op = "read" => m.offset = Len(got)
    /\ \A c \in ahead : Piece(c.offset, c.data) /\ (c.data = << >> => c.offset >= Len(Content))

FuseReading ==
    /\ gen = 1 /\ node = Here
    /\ "reader" \in busy => outcome = "reading"
    /\ held # 0 => todo = << >> /\ open_files[held] = TheFile
    /\ FuseRequests /\ FuseReplies

ReadInv ==
    /\ HandleInv /\ AppInv
    /\ backend = "none" => Start
    /\ backend = "Nfs" => NfsReading
    /\ backend = "Fuse" => IF Attached THEN FuseReading ELSE outcome # "reading"

------------------------------------------------------------------------------
(* The path and the file *)

LEMMA FileFacts ==
    /\ Content \in Seq(Bytes) /\ Len(Content) \in Nat
    /\ TheFile \in Files /\ Data[1][TheFile] = Content
    /\ Path \in Seq(STRING) /\ Len(Path) \in Nat /\ Walk[0] = ROOT_INO
BY PathAssumption, MemFsAssumption DEF Content, TheFile

\* The next name leads one step down, and where it leads is in the tree.
LEMMA StepDown ==
    ASSUME AppInv, todo # << >>
    PROVE  /\ Head(todo) \notin {".", ".."}
           /\ (todo' = Tail(todo) /\ UNCHANGED got) => AppInv' /\ Here' = There
<1> DEFINE p == Len(Path)
           t == Len(todo)
<1>1. todo \in Seq(STRING) /\ t \in Nat \ {0} /\ p \in Nat /\ t <= p
  BY FileFacts DEF AppInv
<1>2. Head(todo) = todo[1] /\ todo[1] = Path[p - t + 1] /\ p - t + 1 \in 1 .. p
  <2>1. 1 \in 1 .. t /\ p - t + 1 \in 1 .. p
    BY <1>1
  <2> QED BY <1>1, <2>1 DEF AppInv
<1>3. /\ Path[p - t + 1] \in DOMAIN Dirs[Walk[p - t]] \ {".", ".."}
      /\ Walk[p - t + 1] = Dirs[Walk[p - t]][Path[p - t + 1]]
  <2>1. (p - t + 1) - 1 = p - t
    BY <1>1
  <2> QED BY <1>2, <2>1, PathAssumption
<1>4. Head(todo) \notin {".", ".."}
  BY <1>2, <1>3
<1>5. ASSUME todo' = Tail(todo), UNCHANGED got PROVE AppInv' /\ Here' = There
  <2>1. todo' \in Seq(STRING) /\ Len(todo') = t - 1
    BY <1>1, <1>5
  <2>2. ASSUME NEW i \in 1 .. Len(todo') PROVE todo'[i] = Path[p - Len(todo') + i]
    <3>1. i + 1 \in 1 .. t /\ p - t + (i + 1) = p - (t - 1) + i /\ i \in 1 .. t - 1
      BY <1>1, <2>1
    <3>2. todo'[i] = todo[i + 1]
      BY <1>1, <1>5, <3>1
    <3>3. todo[i + 1] = Path[p - t + (i + 1)]
      BY <3>1 DEF AppInv
    <3> QED BY <2>1, <3>1, <3>2, <3>3
  <2>3. AppInv'
    <3>1. Len(todo') <= p
      BY <1>1, <2>1
    <3> QED BY <1>5, <2>1, <2>2, <3>1 DEF AppInv
  <2>4. Here' = Walk[p - t + 1]
    <3>1. p - (t - 1) = p - t + 1
      BY <1>1
    <3> QED BY <2>1, <3>1 DEF Here
  <2> QED BY <1>2, <1>3, <2>3, <2>4 DEF There, Here
<1> QED BY <1>4, <1>5

LEMMA Arrived ==
    ASSUME todo = << >>
    PROVE  Here = TheFile
<1>1. Len(Path) \in Nat
  BY FileFacts
<1>2. Len(Path) - Len(todo) = Len(Path)
  BY <1>1
<1> QED BY <1>2 DEF Here, TheFile

LEMMA SamePlace ==
    ASSUME UNCHANGED <<todo, got>>
    PROVE  /\ AppInv => AppInv'
           /\ Here' = Here /\ There' = There
BY DEF AppInv, Here, There

\* The next piece of the file, and with it FileRead's Deliver.
LEMMA TakePiece ==
    ASSUME AppInv, NEW d, Piece(Len(got), d), got' = got \o d, UNCHANGED todo
    PROVE  /\ AppInv' /\ Len(got') = Len(got) + Len(d)
           /\ Len(got') \in Len(got) .. Len(Content)
           /\ got' = SubSeq(Content, 1, Len(got'))
<1> DEFINE a == Len(got)
           b == Len(d)
           c == Len(Content)
<1>1. /\ got \in Seq(Bytes) /\ d \in Seq(Bytes) /\ Content \in Seq(Bytes)
      /\ a \in Nat /\ b \in Nat /\ c \in Nat /\ a <= c
  BY FileFacts DEF AppInv, Piece
<1>2. a + b <= c
  <2>1. CASE d = << >>
    BY <1>1, <2>1
  <2>2. CASE d # << >>
    BY <2>2 DEF Piece
  <2> QED BY <2>1, <2>2
<1>3. /\ got' \in Seq(Bytes) /\ Len(got') = a + b
      /\ \A i \in 1 .. a + b : got'[i] = IF i <= a THEN got[i] ELSE d[i - a]
  BY <1>1, ConcatProperties
<1>4. ASSUME NEW i \in 1 .. a + b PROVE got'[i] = Content[i]
  <2>1. CASE i <= a
    <3>1. i \in 1 .. a
      BY <1>1, <2>1
    <3> QED BY <1>3, <2>1, <3>1 DEF AppInv
  <2>2. CASE ~(i <= a)
    <3>1. i - a \in 1 .. b /\ a + (i - a) = i
      BY <1>1, <2>2
    <3>2. d[i - a] = Content[a + (i - a)]
      BY <3>1 DEF Piece
    <3> QED BY <1>3, <2>2, <3>1, <3>2
  <2> QED BY <2>1, <2>2
<1>5. Len(got') \in a .. c
  BY <1>1, <1>2, <1>3
<1>6. AppInv'
  BY <1>2, <1>3, <1>4 DEF AppInv
<1>7. got' = SubSeq(Content, 1, Len(got'))
  <2> DEFINE s == got'
             t == SubSeq(Content, 1, a + b)
  <2>1. /\ t \in Seq(Bytes) /\ Len(t) = a + b
        /\ \A i \in 1 .. a + b : t[i] = Content[i]
    BY <1>1, <1>2
  <2>2. s \in Seq(Bytes) /\ Len(s) = Len(t) /\ \A i \in 1 .. Len(s) : s[i] = t[i]
    BY <1>3, <1>4, <2>1
  <2> HIDE DEF s, t
  <2>3. s = t
    BY <2>1, <2>2, SeqEqual
  <2> QED BY <1>3, <2>3 DEF s, t
<1> QED BY <1>3, <1>5, <1>6, <1>7

\* Bytes that arrive in order are a step of FileRead.
LEMMA DeliverStep ==
    ASSUME AppInv, NEW d, Piece(Len(got), d), got' = got \o d, UNCHANGED todo,
           outcome = "reading", outcome' \in {"reading", "done"},
           outcome' = "done" => Len(got') = Len(Content)
    PROVE  AppInv' /\ F!RNext
<1>1. /\ AppInv' /\ Len(got') = Len(got) + Len(d)
      /\ Len(got') \in Len(got) .. Len(Content)
      /\ got' = SubSeq(Content, 1, Len(got'))
  BY TakePiece
<1>2. F!Deliver
  BY <1>1 DEF F!Deliver
<1> QED BY <1>1, <1>2 DEF F!RNext


\* read_at on an open handle of the file: a piece of it, of the length that clamping
\* the count to the buffer gives, and empty only at the end or for an empty buffer.
LEMMA ReadsPiece ==
    ASSUME gen = 1, NEW fh \in DOMAIN open_files, open_files[fh] = TheFile,
           NEW offset \in Nat, NEW len \in Nat, NEW r,
           r \in Results(ReadAt(fh, offset, len))
                   \union {Overclaims(fh, offset, ReadAt(fh, offset, len))}
    PROVE  /\ r.err \in {"Ok", "Io"}
           /\ r.err = "Ok" =>
                /\ Piece(offset, r.data) /\ r.n \in Nat
                /\ Min2(r.n, len) = Len(r.data)
                /\ len > 0 /\ r.data = << >> => offset >= Len(Content)
<1> DEFINE c == Len(Content)
           start == IF offset < c THEN offset ELSE c
           n == IF len < c - start THEN len ELSE c - start
           d == SubSeq(Content, start + 1, start + n)
           r0 == ReadAt(fh, offset, len)
<1>1. Content \in Seq(Bytes) /\ c \in Nat /\ Data[gen][open_files[fh]] = Content
  BY FileFacts
<1>2. r0 = [err |-> "Ok", ino |-> open_files[fh], data |-> d, n |-> n]
  BY <1>1 DEF ReadAt, Ok
<1>3. start \in Nat /\ n \in Nat /\ start <= c /\ start + n <= c /\ n <= len
  BY <1>1
<1>4. /\ d \in Seq(Bytes) /\ Len(d) = n /\ \A i \in 1 .. n : d[i] = Content[start + i]
  <2> HIDE DEF start, n
  <2> QED BY <1>1, <1>3
<1>5. Piece(offset, d)
  <2>1. CASE offset < c
    <3>1. start = offset
      BY <2>1
    <3> HIDE DEF start, n
    <3> QED BY <1>1, <1>3, <1>4, <3>1 DEF Piece
  <2>2. CASE ~(offset < c)
    <3>1. n = 0
      BY <1>1, <2>2
    <3> HIDE DEF start, n, d
    <3>2. d = << >>
      BY <1>4, <3>1
    <3> QED BY <1>4, <3>1, <3>2 DEF Piece
  <2> QED BY <2>1, <2>2
<1>6. len > 0 /\ d = << >> => offset >= c
  <2>1. d = << >> => n = 0
    BY <1>4
  <2>2. n = 0 => len = 0 \/ offset >= c
    BY <1>1
  <2> HIDE DEF start, n, d
  <2> QED BY <2>1, <2>2
<1>7. CASE r = r0
  <2>1. Min2(n, len) = n
    <3> HIDE DEF n
    <3> QED BY <1>3 DEF Min2
  <2> HIDE DEF start, n, d, r0
  <2> QED BY <1>2, <1>3, <1>4, <1>5, <1>6, <1>7, <2>1
<1>8. CASE r = Err("Io")
  BY <1>8 DEF Err
<1>9. CASE r = Overclaims(fh, offset, r0) /\ d # << >>
  <2>1. n > 0
    <3> HIDE DEF n, d, start
    <3> QED BY <1>3, <1>4, <1>9
  <2>2. offset < c
    BY <1>1, <2>1
  <2>3. c - offset \in Nat /\ Min2(c - offset, len) = n
    BY <1>1, <2>2 DEF Min2
  <2> HIDE DEF start, n, d
  <2>4. r = [err |-> "Ok", ino |-> open_files[fh], data |-> d, n |-> c - offset]
    BY <1>1, <1>2, <1>9 DEF Overclaims
  <2> QED BY <1>4, <1>5, <1>6, <2>3, <2>4
<1>10. CASE r = Overclaims(fh, offset, r0) /\ d = << >>
  <2>1. r = r0
    <3> HIDE DEF start, n, d
    <3> QED BY <1>2, <1>10 DEF Overclaims
  <2> QED BY <1>7, <2>1
<1> QED BY <1>7, <1>8, <1>9, <1>10 DEF Results

LEMMA LookupTruth ==
    ASSUME NEW parent, NEW name, name \notin {".", ".."}, NEW r \in Results(Lookup(parent, name)),
           r.err = "Ok"
    PROVE  r.ino = Dirs[parent][name]
BY DEF Results, Lookup, Attr, Ok, Err

LEMMA ErrorsKnown ==
    /\ \A parent, name : \A r \in Results(Lookup(parent, name)) : r.err \in FsErrors \union {"Ok"}
    /\ \A ino : \A r \in Results(OpenResult(ino)) : r.err \in FsErrors \union {"Ok"}
<1>1. \A ino : (Attr(ino)).err \in FsErrors \union {"Ok"}
  BY DEF Attr, Ok, Err, FsErrors
<1>2. (Err("Io")).err \in FsErrors /\ (Err("NotFound")).err \in FsErrors
      /\ (Err("NotADirectory")).err \in FsErrors /\ (Err("IsADirectory")).err \in FsErrors
  BY DEF Err, FsErrors
<1>3. \A parent, name : (Lookup(parent, name)).err \in FsErrors \union {"Ok"}
  BY <1>1, <1>2 DEF Lookup
<1>4. \A ino : (OpenResult(ino)).err \in FsErrors \union {"Ok"}
  BY <1>1, <1>2 DEF OpenResult
<1> QED BY <1>2, <1>3, <1>4 DEF Results

\* A failure never reports success.
LEMMA FailuresShow ==
    \A e \in FsErrors : ToNfsstat3(e) # NFS3_OK /\ ToErrno(e) # 0
BY DEF FsErrors, ToNfsstat3, ToErrno, NFS3_OK, NFS3ERR_NOENT, NFS3ERR_ACCES, NFS3ERR_ROFS,
       NFS3ERR_NOTSUPP, ENODATA

------------------------------------------------------------------------------
(* Reading over NFS *)

\* A thread's own step leaves the client alone, and the rest follows from what it
\* now holds and from what it sends.
LEMMA ServeKeeps ==
    ASSUME NfsReading, NEW w \in Workers, UNCHANGED <<gen, app, nfsClient>>,
           \A m \in reqs' : m \in reqs,
           \A m \in reps' : m \in reps \/ ReplyOK(m),
           \A v \in Workers : v # w => pc'[v] = pc[v] /\ req'[v] = req[v] /\ res'[v] = res[v],
           pc'[w] # "idle" =>
             /\ InCall(req'[w]) /\ req'[w].fh.secret = gen /\ req'[w].op \in TakesHandle
             /\ pc'[w] = "read" => req'[w].op = "read"
             /\ pc'[w] \in {"release", "attr"} => Truth(req'[w], res'[w])
    PROVE  NfsReading'
<1> USE DEF app, nfsClient
<1>1. Here' = Here /\ There' = There
  BY SamePlace
<1>2. /\ gen' \in 1 .. MaxGen /\ xid' \in Nat
      /\ cur' = First(Here') \/ (cur' = NoHandle /\ Here' = ROOT_INO)
      /\ waiting' => outcome' = "reading" /\ CallOK(call)'
  BY <1>1 DEF NfsReading, CallOK
<1>3. \A m \in reqs' : InCall(m)'
  BY DEF NfsReading, InCall
<1>4. ASSUME NEW m \in reps' PROVE ReplyOK(m)'
  <2>1. ReplyOK(m)
    BY DEF NfsReading
  <2> QED BY <1>1, <2>1 DEF ReplyOK, GoodReply
<1>5. ASSUME NEW v \in Workers, pc'[v] # "idle" PROVE ThreadOK(v)'
  <2>1. CASE v = w
    BY <1>5, <2>1 DEF ThreadOK, InCall
  <2>2. CASE v # w
    <3>1. pc'[v] = pc[v] /\ req'[v] = req[v] /\ res'[v] = res[v]
      BY <2>2
    <3>2. ThreadOK(v)
      BY <1>5, <3>1 DEF NfsReading
    <3> QED BY <3>1, <3>2 DEF ThreadOK, InCall
  <2> QED BY <2>1, <2>2
<1> QED BY <1>2, <1>3, <1>4, <1>5 DEF NfsReading

\* A reply that reports failure, or comes from a probe, promises nothing.
LEMMA PendingCall ==
    ASSUME NfsReading, NEW m, InCall(m), waiting, m.xid = xid, ~IsProbe(call)
    PROVE  /\ m = call /\ ~IsProbe(m)
           /\ m.op \in {"mnt", "lookup", "read"}
           /\ m.op = "mnt" => /\ cur = NoHandle
                              /\ \E n \in FsNames : m.path = ExportPathFor(HexOf(1), n)
           /\ m.op = "lookup" => /\ cur = First(Here) /\ m.fh = cur
                                 /\ todo # << >> /\ m.name = Head(todo)
           /\ m.op = "read" => /\ cur = First(Here) /\ m.fh = cur /\ todo = << >>
                               /\ m.offset = Len(got) /\ m.count \in Nat
BY DEF NfsReading, InCall, CallOK

\* The export path of the first program opens no later one.
LEMMA MntGood ==
    ASSUME gen \in 1 .. MaxGen, NEW m, NEW n \in FsNames, m.path = ExportPathFor(HexOf(1), n)
    PROVE  MntAnswer(m).status = NFS3_OK => MntAnswer(m).fh = First(ROOT_INO)
<1>1. HexOf(1) \in Hex /\ n \in Seq(STRING) /\ (HexOf(1) = HexOf(gen) => gen = 1)
  BY NfsProcAssumption DEF HexOf
<1>2. PICK path : path = m.path
  OBVIOUS
<1>3. Mnt(path, HexOf(gen)) = IF HexOf(1) = HexOf(gen) THEN "MNT3_OK" ELSE "MNT3ERR_ACCES"
  BY <1>1, <1>2, PathFacts
<1>4. CASE gen = 1
  BY <1>2, <1>3, <1>4 DEF MntAnswer, Answer, Encode, First, Status
<1>5. CASE gen # 1
  <2>1. MntAnswer(m) = Status(m, NFS3ERR_ACCES)
    BY <1>1, <1>2, <1>3, <1>5 DEF MntAnswer
  <2> QED BY <2>1 DEF Status, Answer, NFS3ERR_ACCES, NFS3_OK
<1> QED BY <1>4, <1>5

LEMMA DirectGood ==
    ASSUME NfsReading, NEW m \in reqs, Direct(m)
    PROVE  ReplyOK(DirectAnswer(m))
<1> DEFINE a == DirectAnswer(m)
<1>1. a.xid = m.xid
  <2>1. /\ (Answer(m)).xid = m.xid /\ (MntAnswer(m)).xid = m.xid
        /\ \A s : (Status(m, s)).xid = m.xid
    BY DEF Answer, Status, MntAnswer
  <2>2. \A r : [Answer(m) EXCEPT !.rpc = r].xid = m.xid
    BY DEF Answer
  <2>3. /\ m.op \in TakesHandle \/ m.op = "mnt" \/ m.op = "umnt"
           \/ m.op \notin TakesHandle \union {"mnt", "umnt"}
        /\ m.garbage \/ ~m.garbage
    OBVIOUS
  <2> QED BY <2>1, <2>2, <2>3 DEF DirectAnswer
<1>2. InCall(m)
  BY DEF NfsReading
<1>3. ASSUME waiting, m.xid = xid, ~IsProbe(call), a.rpc = "SUCCESS", a.status = NFS3_OK
      PROVE  GoodReply(a)
  <2>1. /\ m = call /\ m.op \in {"mnt", "lookup", "read"}
        /\ m.op = "mnt" => \E n \in FsNames : m.path = ExportPathFor(HexOf(1), n)
    BY <1>2, <1>3, PendingCall
  <2>2. m.op \notin {"null", "export", "umnt"} \union RejectRofs \union RejectNotsupp
    BY <2>1 DEF RejectRofs, RejectNotsupp
  <2>3. CASE m.garbage
    <3>1. a = [Answer(m) EXCEPT !.rpc = "GARBAGE_ARGS"]
      BY <2>1, <2>2, <2>3 DEF DirectAnswer, TakesHandle
    <3> QED BY <1>3, <3>1 DEF Answer
  <2>4. CASE ~m.garbage /\ m.op = "mnt"
    <3>1. a = MntAnswer(m)
      BY <2>1, <2>2, <2>4 DEF DirectAnswer, TakesHandle
    <3>2. gen \in 1 .. MaxGen
      BY DEF NfsReading
    <3>3. a.fh = First(ROOT_INO)
      BY <1>3, <2>1, <2>4, <3>1, <3>2, MntGood
    <3> QED BY <2>1, <2>4, <3>3 DEF GoodReply
  <2>5. CASE ~m.garbage /\ m.op # "mnt"
    <3>1. a = Status(m, NFS3ERR_NOENT)
      BY <2>1, <2>2, <2>5 DEF DirectAnswer, TakesHandle
    <3> QED BY <1>3, <3>1 DEF Status, Answer, NFS3ERR_NOENT, NFS3_OK
  <2> QED BY <2>3, <2>4, <2>5
<1> HIDE DEF a
<1>4. ~(a.rpc = "SUCCESS" /\ a.status = NFS3_OK) => GoodReply(a)
  BY DEF GoodReply
<1>5. ReplyOK(a)
  BY <1>1, <1>2, <1>3, <1>4 DEF ReplyOK, InCall
<1> QED BY <1>5 DEF a

LEMMA DispatchReads ==
    ASSUME HandleTypes, NfsReading, NEW w \in Workers, NfsDispatch(w)
    PROVE  NfsReading'
<1> USE DEF fs, threads
<1>0. DOMAIN pc = Workers /\ DOMAIN req = Workers /\ DOMAIN res = Workers
  BY DEF HandleTypes
<1>1. PICK m \in reqs :
        /\ reqs' = reqs \ {m}
        /\ \/ /\ Direct(m)
              /\ reps' = reps \union {DirectAnswer(m)}
              /\ UNCHANGED threads
           \/ /\ ~Direct(m)
              /\ req' = [req EXCEPT ![w] = m]
              /\ pc' = [pc EXCEPT ![w] =
                          IF m.op \in {"fsinfo", "pathconf"} THEN "attr" ELSE "decide"]
              /\ UNCHANGED <<reps, res, hnd>>
  BY DEF NfsDispatch
<1>2. pc[w] = "idle" /\ UNCHANGED <<gen, app, nfsClient>>
  BY DEF NfsDispatch
<1>3. CASE Direct(m) /\ reps' = reps \union {DirectAnswer(m)} /\ UNCHANGED threads
  <2>1. ReplyOK(DirectAnswer(m))
    BY <1>3, DirectGood
  <2> QED BY <1>1, <1>2, <1>3, <2>1, ServeKeeps
<1>4. CASE /\ ~Direct(m) /\ UNCHANGED <<reps, res, hnd>> /\ req' = [req EXCEPT ![w] = m]
           /\ pc' = [pc EXCEPT ![w] = IF m.op \in {"fsinfo", "pathconf"} THEN "attr" ELSE "decide"]
  <2>1. InCall(m) /\ m.fh.secret = gen /\ m.op \in TakesHandle
    BY <1>4 DEF NfsReading, Direct, Resolves
  <2>2. /\ req'[w] = m
        /\ \A v \in Workers : v # w => pc'[v] = pc[v] /\ req'[v] = req[v] /\ res'[v] = res[v]
    BY <1>0, <1>4
  <2>3. /\ pc'[w] # "read" /\ pc'[w] # "release"
        /\ pc'[w] = "attr" => m.op \notin {"lookup", "read"}
    BY <1>0, <1>4
  <2>4. pc'[w] = "attr" => Truth(req'[w], res'[w])
    BY <2>2, <2>3 DEF Truth
  <2> QED BY <1>1, <1>2, <1>4, <2>1, <2>2, <2>3, <2>4, ServeKeeps
<1> QED BY <1>1, <1>3, <1>4

LEMMA SendReads ==
    ASSUME HandleTypes, NfsReading, NEW w \in Workers, NEW a, ReplyOK(a), Send(w, a),
           UNCHANGED <<gen, reqs, app, nfsClient>>
    PROVE  NfsReading'
<1>1. DOMAIN pc = Workers /\ DOMAIN req = Workers /\ DOMAIN res = Workers
  BY DEF HandleTypes
<1>2. /\ pc'[w] = "idle"
      /\ \A v \in Workers : v # w => pc'[v] = pc[v] /\ req'[v] = req[v] /\ res'[v] = res[v]
  BY <1>1 DEF Send
<1>3. \A m \in reps' : m \in reps \/ ReplyOK(m)
  BY DEF Send
<1> QED BY <1>2, <1>3, ServeKeeps

\* getattr and access are only ever probes.
LEMMA GetattrReads ==
    ASSUME HandleTypes, NfsReading, NEW w \in Workers, NfsGetattr(w)
    PROVE  NfsReading'
<1>1. PICK r : Send(w, Status(req[w], StatusOf(r)))
  BY DEF NfsGetattr
<1>2. /\ UNCHANGED <<gen, reqs, app, nfsClient>>
      /\ InCall(req[w]) /\ req[w].op \in {"getattr", "access"}
  BY DEF NfsGetattr, NfsReading, ThreadOK, fs
<1>3. PICK a : a = Status(req[w], StatusOf(r))
  OBVIOUS
<1>4. a.xid = req[w].xid
  BY <1>3 DEF Status, Answer
<1>5. ~(waiting /\ a.xid = xid /\ ~IsProbe(call))
  BY <1>2, <1>4, PendingCall
<1>6. ReplyOK(a)
  BY <1>2, <1>4, <1>5 DEF ReplyOK, InCall
<1> QED BY <1>1, <1>2, <1>3, <1>6, SendReads

\* A step of the handler that ends with a true result, or with none yet.
LEMMA HandlerReads ==
    ASSUME HandleTypes, NfsReading, NEW w \in Workers, pc[w] # "idle",
           NEW p, NEW r, pc' = [pc EXCEPT ![w] = p], res' = [res EXCEPT ![w] = r],
           p = "read" => req[w].op = "read",
           p \in {"release", "attr"} => Truth(req[w], r),
           UNCHANGED <<gen, req, reqs, reps, app, nfsClient>>
    PROVE  NfsReading'
<1>1. DOMAIN pc = Workers /\ DOMAIN req = Workers /\ DOMAIN res = Workers
  BY DEF HandleTypes
<1>2. /\ pc'[w] = p /\ res'[w] = r
      /\ \A v \in Workers : v # w => pc'[v] = pc[v] /\ req'[v] = req[v] /\ res'[v] = res[v]
  BY <1>1
<1>3. InCall(req[w]) /\ req[w].fh.secret = gen /\ req[w].op \in TakesHandle
  BY DEF NfsReading, ThreadOK
<1> QED BY <1>2, <1>3, ServeKeeps

LEMMA DecideReads ==
    ASSUME HandleTypes, NfsReading, NEW w \in Workers, NfsDecide(w)
    PROVE  NfsReading'
<1>1. PICK r \in Results(Decides(req[w])) : res' = [res EXCEPT ![w] = r]
  BY DEF NfsDecide
<1>2. /\ pc[w] = "decide" /\ pc' = [pc EXCEPT ![w] = "attr"] /\ req[w].op \in {"lookup", "readdir", "readdirplus", "fsstat"}
      /\ UNCHANGED <<gen, req, reqs, reps, app, nfsClient>>
  BY DEF NfsDecide, fs
<1>3. Truth(req[w], r)
  <2>1. CASE req[w].op = "lookup"
    <3>1. r \in Results(Lookup(req[w].fh.ino, req[w].name))
      BY <1>1, <2>1 DEF Decides
    <3>2. r.err \in FsErrors \union {"Ok"}
      BY <3>1, ErrorsKnown
    <3>3. r.err = "Ok" /\ req[w].name \notin {".", ".."} => r.ino = Dirs[req[w].fh.ino][req[w].name]
      BY <3>1, LookupTruth
    <3> QED BY <2>1, <3>2, <3>3 DEF Truth
  <2>2. CASE req[w].op # "lookup"
    BY <1>2, <2>2 DEF Truth
  <2> QED BY <2>1, <2>2
<1> QED BY <1>1, <1>2, <1>3, HandlerReads

LEMMA OpenReads ==
    ASSUME HandleTypes, NfsReading, NEW w \in Workers, NfsOpen(w)
    PROVE  NfsReading'
<1>1. PICK r \in Results(OpenResult(req[w].fh.ino)) :
        /\ res' = [res EXCEPT ![w] = r]
        /\ IF r.err = "Ok" THEN UNCHANGED gen /\ pc' = [pc EXCEPT ![w] = "read"]
                           ELSE UNCHANGED gen /\ pc' = [pc EXCEPT ![w] = "attr"]
  BY DEF NfsOpen, Opened, fs
<1>2. /\ pc[w] = "decide" /\ req[w].op = "read"
      /\ UNCHANGED <<req, reqs, reps, app, nfsClient>>
  BY DEF NfsOpen
<1>3. CASE r.err = "Ok"
  BY <1>1, <1>2, <1>3, HandlerReads
<1>4. CASE r.err # "Ok"
  <2>1. r.err \in FsErrors \union {"Ok"}
    BY ErrorsKnown
  <2>2. Truth(req[w], r)
    BY <1>2, <1>4, <2>1 DEF Truth
  <2> QED BY <1>1, <1>2, <1>4, <2>2, HandlerReads
<1> QED BY <1>3, <1>4

\* A result of read_at is a record, and its error is known.
LEMMA ReadResults ==
    ASSUME NEW fh, NEW offset, NEW len, NEW r,
           r \in Results(ReadAt(fh, offset, len))
                   \union {Overclaims(fh, offset, ReadAt(fh, offset, len))}
    PROVE  \E e \in FsErrors \union {"Ok"} : \E i, d, n :
             r = [err |-> e, ino |-> i, data |-> d, n |-> n]
<1>1. \E e \in FsErrors \union {"Ok"} : \E i, d, n :
        ReadAt(fh, offset, len) = [err |-> e, ino |-> i, data |-> d, n |-> n]
  <2>1. CASE fh \notin DOMAIN open_files
    BY <2>1 DEF ReadAt, Err, FsErrors
  <2>2. CASE fh \in DOMAIN open_files
    <3>1. \E d, n : ReadAt(fh, offset, len) = [Ok(open_files[fh]) EXCEPT !.data = d, !.n = n]
      BY <2>2 DEF ReadAt
    <3> QED BY <3>1 DEF Ok
  <2> QED BY <2>1, <2>2
<1>2. PICK r0 : r0 = ReadAt(fh, offset, len)
  OBVIOUS
<1>3. PICK e0, i0, d0, n0 : /\ e0 \in FsErrors \union {"Ok"}
                            /\ r0 = [err |-> e0, ino |-> i0, data |-> d0, n |-> n0]
  BY <1>1, <1>2
<1>4. \E e \in FsErrors \union {"Ok"} : \E i, d, n :
             r = [err |-> e, ino |-> i, data |-> d, n |-> n]
  <2>1. CASE r = r0
    BY <1>3, <2>1
  <2>2. CASE r = Err("Io")
    BY <2>2 DEF Err, FsErrors
  <2>3. CASE r = Overclaims(fh, offset, r0)
    <3>1. r = r0 \/ \E x : r = [r0 EXCEPT !.n = x]
      BY <2>3 DEF Overclaims
    <3> QED BY <1>3, <3>1
  <2> QED BY <1>2, <2>1, <2>2, <2>3 DEF Results
<1> QED BY <1>4

LEMMA ReadAtReads ==
    ASSUME HandleTypes, NfsOwn, NfsReading, NEW w \in Workers, NfsReadAt(w)
    PROVE  NfsReading'
<1> DEFINE m == req[w]
           len == Min2(m.count, RTMAX)
           r0 == ReadAt(hnd[w], m.offset, len)
<1>1. PICK r \in Results(r0) \union {Overclaims(hnd[w], m.offset, r0)} :
        /\ res' = [res EXCEPT ![w] = [r EXCEPT !.n = Clamp(r.n, len)]]
        /\ pc' = [pc EXCEPT ![w] = "release"]
  BY DEF NfsReadAt, AfterRead
<1>2. pc[w] = "read" /\ UNCHANGED <<gen, req, reqs, reps, app, nfsClient>>
  BY DEF NfsReadAt, fs
<1>3. /\ m.op = "read" /\ m.fh.secret = gen
      /\ hnd[w] \in DOMAIN open_files /\ open_files[hnd[w]] = m.fh.ino
  BY <1>2 DEF NfsReading, ThreadOK, NfsOwn
<1>4. PICK q : q = [r EXCEPT !.n = Clamp(r.n, len)]
  OBVIOUS
<1>5. /\ r.err \in FsErrors \union {"Ok"}
      /\ q = [err |-> r.err, ino |-> r.ino, data |-> r.data, n |-> Clamp(r.n, len)]
  <2> HIDE DEF m, len
  <2>1. PICK e, i, d, n : /\ e \in FsErrors \union {"Ok"}
                          /\ r = [err |-> e, ino |-> i, data |-> d, n |-> n]
    BY <1>1, ReadResults
  <2> QED BY <1>4, <2>1
<1>6. ASSUME m.fh = First(TheFile), m.offset \in Nat, m.count \in Nat, r.err = "Ok"
      PROVE  Piece(m.offset, r.data) /\ Clamp(r.n, len) = Len(r.data)
  <2>1. gen = 1 /\ open_files[hnd[w]] = TheFile
    BY <1>3, <1>6 DEF First
  <2>2. len \in Nat
    BY <1>6, NfsProcAssumption DEF Min2
  <2> HIDE DEF len
  <2> QED BY <1>1, <1>3, <1>6, <2>1, <2>2, ReadsPiece DEF Clamp
<1>7. Truth(m, q)
  <2> HIDE DEF m, len, r0
  <2> QED BY <1>3, <1>5, <1>6 DEF Truth
<1> QED BY <1>1, <1>2, <1>4, <1>7, HandlerReads

LEMMA ReleaseReads ==
    ASSUME HandleTypes, NfsReading, NEW w \in Workers, NfsRelease(w)
    PROVE  NfsReading'
<1>1. DOMAIN pc = Workers
  BY DEF HandleTypes
<1>2. /\ pc[w] = "release" /\ pc' = [pc EXCEPT ![w] = "attr"]
      /\ UNCHANGED <<gen, req, res, reqs, reps, app, nfsClient>>
  BY DEF NfsRelease, Released
<1>3. pc'[w] = "attr" /\ \A v \in Workers : v # w => pc'[v] = pc[v]
  BY <1>1, <1>2
<1>4. InCall(req[w]) /\ req[w].fh.secret = gen /\ req[w].op \in TakesHandle /\ Truth(req[w], res[w])
  BY <1>2 DEF NfsReading, ThreadOK
<1> QED BY <1>2, <1>3, <1>4, ServeKeeps

\* eof is computed from the file that was read, and no sum that saturates reaches it.
LEMMA EofTrue ==
    ASSUME AppInv, gen = 1, NEW m, m.fh = First(TheFile), m.offset = Len(got),
           NEW r, r.n = Len(r.data), Piece(Len(got), r.data), NEW a, Eof(m, r, a)
    PROVE  Len(got) + Len(r.data) = Len(Content)
<1>1. FileSize(m.fh.ino) = Len(Content)
  BY FileFacts DEF FileSize, First
<1>2. Len(got) \in Nat /\ Len(r.data) \in Nat /\ Len(Content) \in Nat /\ Len(got) <= Len(Content)
  BY FileFacts DEF AppInv, Piece
<1>3. SaturatingAdd(Len(got), Len(r.data)) >= Len(Content)
  BY <1>1 DEF Eof
<1>4. Len(got) + Len(r.data) >= Len(Content)
  BY <1>2, <1>3, NfsProcAssumption DEF SaturatingAdd, Min2
<1>5. Len(got) + Len(r.data) <= Len(Content)
  <2>1. CASE r.data = << >>
    BY <1>2, <2>1
  <2>2. CASE r.data # << >>
    BY <2>2 DEF Piece
  <2> QED BY <2>1, <2>2
<1> QED BY <1>2, <1>4, <1>5

LEMMA ReplyReads ==
    ASSUME HandleTypes, AppInv, NfsReading, NEW w \in Workers, NfsReply(w)
    PROVE  NfsReading'
<1> DEFINE m == req[w]
           r == res[w]
           s == Status(m, StatusOf(r))
<1>1. PICK a :
        Send(w, CASE r.err = "Ok" /\ m.op = "lookup" -> [s EXCEPT !.fh = Encode(r.ino)]
                  [] r.err = "Ok" /\ m.op = "read" ->
                         [s EXCEPT !.data = r.data, !.count = r.n, !.eof = Eof(m, r, a)]
                  [] OTHER -> s)
  BY DEF NfsReply
<1>2. PICK x : x = CASE r.err = "Ok" /\ m.op = "lookup" -> [s EXCEPT !.fh = Encode(r.ino)]
                     [] r.err = "Ok" /\ m.op = "read" ->
                            [s EXCEPT !.data = r.data, !.count = r.n, !.eof = Eof(m, r, a)]
                     [] OTHER -> s
  OBVIOUS
<1>3. UNCHANGED <<gen, reqs, app, nfsClient>> /\ pc[w] = "attr"
  BY DEF NfsReply, fs
<1>4. InCall(m) /\ m.fh.secret = gen /\ m.op \in TakesHandle /\ Truth(m, r)
  BY <1>3 DEF NfsReading, ThreadOK
<1> HIDE DEF m, r
<1>6. x.xid = m.xid /\ x.status = StatusOf(r)
  BY <1>2 DEF Status, Answer
<1> HIDE DEF s
<1>7. ASSUME waiting, m.xid = xid, ~IsProbe(call), x.status = NFS3_OK PROVE GoodReply(x)
  <2>1. /\ m = call /\ m.op \in {"mnt", "lookup", "read"}
        /\ m.op = "lookup" => /\ cur = First(Here) /\ m.fh = cur
                              /\ todo # << >> /\ m.name = Head(todo)
        /\ m.op = "read" => /\ cur = First(Here) /\ m.fh = cur /\ todo = << >>
                            /\ m.offset = Len(got) /\ m.count \in Nat
    BY <1>4, <1>7, PendingCall
  <2>2. m.op # "mnt"
    BY <1>4 DEF TakesHandle
  <2>3. r.err = "Ok"
    <3>1. r.err \in FsErrors \union {"Ok"}
      BY <1>4, <2>1, <2>2 DEF Truth
    <3> QED BY <1>6, <1>7, <3>1, FailuresShow DEF StatusOf
  <2>4. gen = 1
    BY <1>4, <2>1, <2>2 DEF First
  <2>5. CASE m.op = "lookup"
    <3>1. x.fh = First(r.ino)
      BY <1>2, <2>3, <2>4, <2>5 DEF Encode, First, s, Status, Answer
    <3>2. m.name \notin {".", ".."}
      BY <2>1, <2>5, StepDown
    <3>3. r.ino = There
      <4>1. r.ino = Dirs[m.fh.ino][m.name]
        BY <1>4, <2>3, <2>5, <3>2 DEF Truth
      <4> QED BY <2>1, <2>5, <4>1 DEF There, First
    <3> QED BY <2>1, <2>5, <3>1, <3>3 DEF GoodReply
  <2>6. CASE m.op = "read"
    <3>1. /\ x.data = r.data /\ x.count = r.n /\ x.eof = Eof(m, r, a)
      BY <1>2, <2>3, <2>6 DEF s, Status, Answer
    <3>2. m.fh = First(TheFile) /\ m.offset = Len(got) /\ Len(got) \in Nat
      BY <2>1, <2>6, Arrived DEF AppInv
    <3>3. Piece(Len(got), r.data) /\ r.n = Len(r.data)
      BY <1>4, <2>1, <2>3, <2>6, <3>2 DEF Truth
    <3>4. x.eof => Len(got) + Len(x.data) = Len(Content)
      BY <2>4, <3>1, <3>2, <3>3, EofTrue
    <3> QED BY <2>1, <2>6, <3>1, <3>3, <3>4 DEF GoodReply
  <2> QED BY <2>1, <2>2, <2>5, <2>6
<1>8. ReplyOK(x)
  <2>1. x.status # NFS3_OK => GoodReply(x)
    BY DEF GoodReply
  <2> QED BY <1>4, <1>6, <1>7, <2>1 DEF ReplyOK, InCall
<1>9. Send(w, x)
  BY <1>1, <1>2
<1> QED BY <1>3, <1>8, <1>9, SendReads

LEMMA ProbeCall ==
    ASSUME NEW m \in ProbeCalls
    PROVE  m.xid = xid + 1 /\ m.name = ".."
<1>1. CASE \E p, h : m = [Request(p) EXCEPT !.fh = h, !.name = ".."]
  BY <1>1 DEF Request
<1>2. CASE \E p : m = [Request(p) EXCEPT !.name = "..", !.garbage = TRUE]
  BY <1>2 DEF Request
<1> QED BY <1>1, <1>2 DEF ProbeCalls

\* A new call has an xid of its own, and asks for what the application needs next.
LEMMA CallReads ==
    ASSUME AppInv, NfsReading, NfsCall
    PROVE  NfsReading'
<1> USE DEF app, fs, threads
<1>1. /\ ~waiting /\ outcome = "reading" /\ xid' = xid + 1 /\ waiting' = TRUE
      /\ reqs' = reqs \union {call'} /\ UNCHANGED <<gen, todo, got, outcome, reps, pc, req, res, cur>>
  BY DEF NfsCall
<1>2. Here' = Here /\ xid \in Nat /\ xid' \in Nat /\ Len(got) \in Nat
  BY <1>1, SamePlace DEF NfsReading, AppInv
<1>3. call'.xid = xid'
  <2>2. CASE call' \in NextCalls
    BY <1>1, <2>2 DEF NextCalls, Request
  <2>3. CASE call' \in ProbeCalls
    BY <1>1, <2>3, ProbeCall
  <2> QED BY <2>2, <2>3 DEF NfsCall
<1>4. CallOK(call)'
  <2>1. CASE call' \in ProbeCalls
    <3>1. call'.name = ".."
      BY <2>1, ProbeCall
    <3> QED BY <1>3, <3>1 DEF CallOK, IsProbe
  <2>2. CASE call' \in NextCalls /\ cur = NoHandle
    <3>1. PICK n \in FsNames : call' = [Request("mnt") EXCEPT !.path = ExportPathFor(HexOf(1), n)]
      BY <2>2 DEF NextCalls
    <3>2. call'.op = "mnt" /\ call'.path = ExportPathFor(HexOf(1), n)
      BY <3>1 DEF Request
    <3> QED BY <1>1, <1>3, <2>2, <3>2 DEF CallOK
  <2>3. CASE call' \in NextCalls /\ cur # NoHandle /\ todo # << >>
    <3>1. call' = [Request("lookup") EXCEPT !.name = Head(todo)]
      BY <2>3 DEF NextCalls
    <3>2. call'.op = "lookup" /\ call'.name = Head(todo) /\ call'.fh = cur
      BY <3>1 DEF Request
    <3> QED BY <1>1, <1>3, <2>3, <3>2 DEF CallOK
  <2>4. CASE call' \in NextCalls /\ cur # NoHandle /\ todo = << >>
    <3>1. PICK c \in Counts : call' = [Request("read") EXCEPT !.offset = Len(got), !.count = c]
      BY <2>4 DEF NextCalls
    <3>2. call'.op = "read" /\ call'.offset = Len(got) /\ call'.count = c /\ call'.fh = cur
      BY <3>1 DEF Request
    <3>3. c \in Nat
      BY NfsProcAssumption
    <3> QED BY <1>1, <1>3, <2>4, <3>2, <3>3 DEF CallOK
  <2> QED BY <2>1, <2>2, <2>3, <2>4 DEF NfsCall
<1>5. ASSUME NEW m, m.xid \in 0 .. xid PROVE m.xid \in 0 .. xid' /\ m.xid # xid'
  BY <1>1, <1>2, <1>5
<1>6. \A m \in reqs' : InCall(m)'
  <2>1. xid' \in 0 .. xid'
    BY <1>2
  <2>2. ASSUME NEW m, m = call' PROVE InCall(m)'
    BY <1>3, <2>1, <2>2 DEF InCall
  <2>3. ASSUME NEW m \in reqs PROVE InCall(m)'
    BY <1>5 DEF InCall, NfsReading
  <2> QED BY <1>1, <2>2, <2>3
<1>7. \A m \in reps' : ReplyOK(m)'
  BY <1>1, <1>5 DEF NfsReading, ReplyOK
<1>8. ASSUME NEW w \in Workers, pc'[w] # "idle" PROVE ThreadOK(w)'
  <2>1. ThreadOK(w)
    BY <1>1, <1>8 DEF NfsReading
  <2>2. PICK m : m = req[w]
    OBVIOUS
  <2>3. m.xid \in 0 .. xid
    BY <2>1, <2>2 DEF ThreadOK, InCall
  <2>4. m.xid \in 0 .. xid' /\ m.xid # xid'
    BY <1>5, <2>3
  <2> QED BY <1>1, <2>1, <2>2, <2>4 DEF ThreadOK, InCall
<1> QED BY <1>1, <1>2, <1>4, <1>6, <1>7, <1>8 DEF NfsReading

\* Nobody waits: what is still under way no longer matters.
LEMMA NobodyWaits ==
    ASSUME NfsReading, ~waiting', UNCHANGED <<gen, reqs, pc, req, res, xid>>,
           \A m \in reps' : m \in reps,
           cur' = First(Here') \/ (cur' = NoHandle /\ Here' = ROOT_INO)
    PROVE  NfsReading'
<1>1. \A m \in reqs' : InCall(m)'
  BY DEF NfsReading, InCall
<1>2. \A m \in reps' : ReplyOK(m)'
  BY DEF NfsReading, ReplyOK
<1>3. ASSUME NEW w \in Workers, pc'[w] # "idle" PROVE ThreadOK(w)'
  <2>1. ThreadOK(w)
    BY <1>3 DEF NfsReading
  <2> QED BY <2>1 DEF ThreadOK, InCall
<1> QED BY <1>1, <1>2, <1>3 DEF NfsReading

LEMMA AcceptReads ==
    ASSUME AppInv, NfsReading, waiting, NEW m \in reps, m.xid = xid, Accept(m),
           reps' = reps \ {m}, UNCHANGED <<gen, reqs, pc, req, res>>
    PROVE  AppInv' /\ NfsReading' /\ [F!RNext]_(F!rvars)
<1> USE DEF app, F!rvars
<1>1. ~waiting' /\ UNCHANGED xid /\ ReplyOK(m) /\ CallOK(call) /\ outcome = "reading"
  BY DEF Accept, NfsReading
<1>2. ASSUME UNCHANGED <<todo, got, cur>> PROVE AppInv' /\ NfsReading'
  <2>1. AppInv' /\ Here' = Here
    BY <1>2, SamePlace
  <2> QED BY <1>1, <1>2, <2>1, NobodyWaits DEF NfsReading
<1>3. CASE IsProbe(call)
  BY <1>2, <1>3 DEF Accept
<1>4. CASE ~IsProbe(call) /\ (m.rpc # "SUCCESS" \/ m.status # NFS3_OK)
  <2>1. outcome' = "failed" /\ UNCHANGED <<todo, got, cur>>
    BY <1>4 DEF Accept
  <2> QED BY <1>1, <1>2, <2>1 DEF F!RNext, F!Fail
<1>5. CASE ~IsProbe(call) /\ m.rpc = "SUCCESS" /\ m.status = NFS3_OK
  <2>1. GoodReply(m)
    BY <1>1, <1>5 DEF ReplyOK
  <2>2. call.op \in {"mnt", "lookup", "read"}
    BY <1>5 DEF IsProbe
  <2>3. CASE call.op = "read"
    <3>1. /\ got' = got \o [i \in 1 .. m.count |-> IF i <= Len(m.data) THEN m.data[i] ELSE "junk"]
          /\ outcome' = IF m.eof THEN "done" ELSE "reading"
          /\ UNCHANGED <<todo, cur>>
      BY <1>5, <2>3 DEF Accept
    <3>2. /\ Piece(Len(got), m.data) /\ m.count = Len(m.data) /\ m.data \in Seq(Bytes)
          /\ m.eof => Len(got) + Len(m.data) = Len(Content)
      BY <1>5, <2>1, <2>3 DEF GoodReply, Piece
    <3>3. [i \in 1 .. m.count |-> IF i <= Len(m.data) THEN m.data[i] ELSE "junk"] = m.data
      <4>1. PICK d : d = m.data
        OBVIOUS
      <4>2. d \in Seq(Bytes) /\ \A i \in 1 .. Len(d) : i <= Len(d)
        BY <3>2, <4>1
      <4>3. [i \in 1 .. Len(d) |-> IF i <= Len(d) THEN d[i] ELSE "junk"] = d
        BY <4>2
      <4> QED BY <3>2, <4>1, <4>3
    <3>4. got' = got \o m.data
      BY <3>1, <3>3
    <3>5. /\ AppInv' /\ Len(got') = Len(got) + Len(m.data)
      BY <3>1, <3>2, <3>4, TakePiece
    <3>6. outcome' \in {"reading", "done"} /\ (outcome' = "done" => Len(got') = Len(Content))
      BY <3>1, <3>2, <3>5
    <3>7. F!RNext
      BY <1>1, <3>1, <3>2, <3>4, <3>6, DeliverStep
    <3>8. Here' = Here
      BY <3>1 DEF Here
    <3>9. NfsReading'
      BY <1>1, <3>1, <3>8, NobodyWaits DEF NfsReading
    <3> QED BY <3>5, <3>7, <3>9
  <2>4. CASE call.op = "lookup"
    <3>1. cur' = m.fh /\ todo' = Tail(todo) /\ UNCHANGED <<got, outcome>>
      BY <1>5, <2>4 DEF Accept
    <3>2. todo # << >>
      BY <1>1, <1>5, <2>4 DEF CallOK
    <3>3. AppInv' /\ Here' = There
      BY <3>1, <3>2, StepDown
    <3>4. cur' = First(Here')
      BY <1>5, <2>1, <2>4, <3>1, <3>3 DEF GoodReply
    <3>5. NfsReading'
      BY <1>1, <3>4, NobodyWaits
    <3> QED BY <3>1, <3>3, <3>5
  <2>5. CASE call.op = "mnt"
    <3>1. cur' = m.fh /\ todo' = todo /\ UNCHANGED <<got, outcome>>
      BY <1>5, <2>5 DEF Accept
    <3>2. cur = NoHandle /\ Here = ROOT_INO
      <4>1. cur = NoHandle
        BY <1>1, <1>5, <2>5 DEF CallOK
      <4>2. First(Here) # NoHandle
        BY DEF First, NoHandle
      <4> QED BY <4>1, <4>2 DEF NfsReading
    <3>3. AppInv' /\ Here' = Here
      BY <3>1, SamePlace
    <3>4. cur' = First(Here')
      BY <1>5, <2>1, <2>5, <3>1, <3>2, <3>3 DEF GoodReply
    <3>5. NfsReading'
      BY <1>1, <3>4, NobodyWaits
    <3> QED BY <3>1, <3>3, <3>5
  <2> QED BY <2>2, <2>3, <2>4, <2>5
<1> QED BY <1>3, <1>4, <1>5

\* Whatever the transport, the server's threads and a second program do, a read over
\* NFS delivers the next bytes of the file, fails, or goes on unchanged.
LEMMA NfsReads ==
    ASSUME HandleTypes, NfsOwn, AppInv, NfsReading, NfsNext
    PROVE  AppInv' /\ NfsReading' /\ [F!RNext]_(F!rvars)
<1> USE DEF fs, threads, app, nfsClient, F!rvars
<1>1. ASSUME UNCHANGED <<todo, got, outcome>>, NfsReading'
      PROVE  AppInv' /\ NfsReading' /\ [F!RNext]_(F!rvars)
  BY <1>1, SamePlace
<1>2. ASSUME NEW w \in Workers, NfsServe(w) PROVE NfsReading' /\ UNCHANGED <<todo, got, outcome>>
  <2>1. UNCHANGED <<todo, got, outcome>>
    BY <1>2 DEF NfsServe, NfsDispatch, NfsGetattr, NfsDecide, NfsOpen, NfsReadAt, NfsRelease, NfsReply
  <2> QED BY <1>2, <2>1, DispatchReads, GetattrReads, DecideReads, OpenReads, ReadAtReads,
             ReleaseReads, ReplyReads DEF NfsServe
<1>3. CASE NfsCall
  <2>1. UNCHANGED <<todo, got, outcome>>
    BY <1>3 DEF NfsCall
  <2> QED BY <1>1, <1>3, <2>1, CallReads
<1>4. CASE NfsReceive
  <2>1. PICK m \in reps : /\ reps' = reps \ {m}
                          /\ \/ waiting /\ m.xid = xid /\ Accept(m)
                             \/ ~(waiting /\ m.xid = xid) /\ UNCHANGED <<app, nfsClient>>
    BY <1>4 DEF NfsReceive
  <2>2. UNCHANGED <<gen, reqs, pc, req, res>>
    BY <1>4 DEF NfsReceive
  <2>3. CASE waiting /\ m.xid = xid /\ Accept(m)
    BY <2>1, <2>2, <2>3, AcceptReads
  <2>4. CASE UNCHANGED <<app, nfsClient>>
    <3>1. PICK w \in Workers : TRUE
      BY ServingAssumption
    <3>2. \A n \in reps' : n \in reps
      BY <2>1
    <3>3. pc[w] # "idle" => ThreadOK(w)
      BY DEF NfsReading
    <3>4. NfsReading'
      BY <2>2, <2>4, <3>2, <3>3, ServeKeeps DEF ThreadOK
    <3> QED BY <1>1, <2>4, <3>4
  <2> QED BY <2>1, <2>3, <2>4
<1>5. CASE NfsRetransmit \/ NfsLose
  <2>1. /\ UNCHANGED <<gen, pc, req, res, app, nfsClient>>
        /\ \A m \in reqs' : m \in reqs \/ (waiting /\ m = call)
        /\ \A m \in reps' : m \in reps
    BY <1>5 DEF NfsRetransmit, NfsLose
  <2>2. Here' = Here /\ There' = There
    BY <2>1, SamePlace
  <2>3. waiting => InCall(call)
    <3>1. xid \in Nat /\ (waiting => CallOK(call))
      BY DEF NfsReading
    <3>2. xid \in 0 .. xid
      BY <3>1
    <3> QED BY <3>1, <3>2 DEF CallOK, InCall
  <2>4. \A m \in reqs' : InCall(m)'
    BY <2>1, <2>3 DEF NfsReading, InCall
  <2>5. \A m \in reps' : ReplyOK(m)'
    BY <2>1, <2>2 DEF NfsReading, ReplyOK, GoodReply
  <2>6. ASSUME NEW w \in Workers, pc'[w] # "idle" PROVE ThreadOK(w)'
    <3>1. ThreadOK(w)
      BY <2>1, <2>6 DEF NfsReading
    <3> QED BY <2>1, <3>1 DEF ThreadOK, InCall
  <2>7. waiting' => outcome' = "reading" /\ CallOK(call)'
    BY <2>1, <2>2 DEF NfsReading, CallOK
  <2>8. NfsReading'
    BY <2>1, <2>2, <2>4, <2>5, <2>6, <2>7 DEF NfsReading
  <2> QED BY <1>1, <2>1, <2>8
<1>6. CASE NfsGiveUp
  <2>1. /\ waiting /\ ~waiting' /\ outcome' = "failed"
        /\ UNCHANGED <<gen, reqs, reps, pc, req, res, xid, cur, todo, got>>
    BY <1>6 DEF NfsGiveUp
  <2>2. AppInv' /\ Here' = Here /\ outcome = "reading"
    BY <2>1, SamePlace DEF NfsReading
  <2>3. NfsReading'
    BY <2>1, <2>2, NobodyWaits DEF NfsReading
  <2> QED BY <2>1, <2>2, <2>3 DEF F!RNext, F!Fail
<1>7. CASE NfsRestart
  <2>1. /\ gen < MaxGen /\ gen' = gen + 1 /\ UNCHANGED <<reqs, reps, app, nfsClient>>
        /\ \A w \in Workers : pc'[w] = "idle"
    BY <1>7 DEF NfsRestart
  <2>2. Here' = Here /\ There' = There
    BY <2>1, SamePlace
  <2>3. gen' \in 1 .. MaxGen
    BY <2>1, NfsProcAssumption DEF NfsReading
  <2>4. \A m \in reqs' : InCall(m)'
    BY <2>1 DEF NfsReading, InCall
  <2>5. \A m \in reps' : ReplyOK(m)'
    BY <2>1, <2>2 DEF NfsReading, ReplyOK, GoodReply
  <2>6. waiting' => outcome' = "reading" /\ CallOK(call)'
    BY <2>1, <2>2 DEF NfsReading, CallOK
  <2>7. NfsReading'
    BY <2>1, <2>2, <2>3, <2>4, <2>5, <2>6 DEF NfsReading
  <2> QED BY <1>1, <2>1, <2>7
<1> QED BY <1>1, <1>2, <1>3, <1>4, <1>5, <1>6, <1>7 DEF NfsNext

------------------------------------------------------------------------------
(* Reading over FUSE *)

\* A handle the reader has or is about to get.
Wanted(h) ==
    \/ h = held
    \/ \E w \in Workers : pc[w] = "reply" /\ req[w].op = "open" /\ hnd[w] = h
    \/ \E m \in reps : m.op = "open" /\ m.errno = 0 /\ m.fh = h

\* What a reply to the reader has to be about.
Expected(m) ==
    m.who = "reader" => /\ m.op = "lookup" => todo # << >>
                        /\ m.op = "open" => todo = << >>
                        /\ m.op = "read" => m.offset = Len(got)

\* A callback leaves the reader alone, and the rest follows from what its thread now
\* holds and from what it sends.
LEMMA CallbackKeeps ==
    ASSUME FuseReading, NEW w \in Workers,
           UNCHANGED <<gen, app, node, held, ahead, busy>>,
           \A m \in reqs' : m \in reqs,
           \A m \in reps' :
             m \in reps \/ (Expected(m) /\ (m.errno = 0 => AnswerOK(m, m.ino, m.fh, m.data))),
           \A h : h # 0 /\ Wanted(h) => open_files'[h] = open_files[h],
           \A v \in Workers : v # w => /\ pc'[v] = pc[v] /\ req'[v] = req[v]
                                       /\ res'[v] = res[v] /\ hnd'[v] = hnd[v],
           pc'[w] = "reply" =>
             /\ RequestOK(req'[w]) /\ res'[w].err \in FsErrors \union {"Ok"}
             /\ res'[w].err = "Ok" => AnswerOK(req[w], res[w].ino, hnd[w], res[w].data)',
           (\A h : open_files'[h] = open_files[h]) \/ UNCHANGED reps
    PROVE  FuseReading'
<1> USE DEF app
<1>1. Here' = Here /\ There' = There
  BY SamePlace
<1>2. \A m : RequestOK(m) => RequestOK(m)'
  BY <1>1 DEF RequestOK
<1>3. ASSUME NEW m, NEW ino, NEW fh, NEW data, AnswerOK(m, ino, fh, data),
             m.op = "open" /\ fh # 0 => open_files'[fh] = open_files[fh]
      PROVE  AnswerOK(m, ino, fh, data)'
  BY <1>1, <1>3 DEF AnswerOK
<1>4. \A m \in reqs' : RequestOK(m)'
  BY <1>2 DEF FuseReading, FuseRequests
<1>5. ASSUME NEW v \in Workers, pc'[v] = "reply"
      PROVE  /\ RequestOK(req[v])' /\ res'[v].err \in FsErrors \union {"Ok"}
             /\ res'[v].err = "Ok" => AnswerOK(req[v], res[v].ino, hnd[v], res[v].data)'
  <2>1. CASE v = w
    <3>1. PICK m : m = req'[w]
      OBVIOUS
    <3>2. RequestOK(m)'
      BY <1>2, <1>5, <2>1, <3>1
    <3>3. RequestOK(req[w])'
      BY <3>1, <3>2 DEF RequestOK
    <3> QED BY <1>5, <2>1, <3>3
  <2>2. CASE v # w
    <3>1. pc'[v] = pc[v] /\ req'[v] = req[v] /\ res'[v] = res[v] /\ hnd'[v] = hnd[v]
      BY <2>2
    <3>2. /\ RequestOK(req[v]) /\ res[v].err \in FsErrors \union {"Ok"}
          /\ res[v].err = "Ok" => AnswerOK(req[v], res[v].ino, hnd[v], res[v].data)
      BY <1>5, <3>1 DEF FuseReading, FuseRequests
    <3>3. PICK m, r, h : m = req[v] /\ r = res[v] /\ h = hnd[v]
      OBVIOUS
    <3>4. RequestOK(m)' /\ (r.err = "Ok" => AnswerOK(m, r.ino, h, r.data)')
      <4>1. m.op = "open" /\ h # 0 => open_files'[h] = open_files[h]
        BY <1>5, <3>1, <3>3 DEF Wanted
      <4> QED BY <1>2, <1>3, <3>2, <3>3, <4>1
    <3>5. RequestOK(req[v])'
      BY <3>1, <3>3, <3>4 DEF RequestOK
    <3>6. res'[v].err = "Ok" => AnswerOK(req[v], res[v].ino, hnd[v], res[v].data)'
      BY <3>1, <3>3, <3>4 DEF AnswerOK
    <3> QED BY <3>1, <3>2, <3>5, <3>6
  <2> QED BY <2>1, <2>2
<1>6. ASSUME NEW m \in reps' PROVE Expected(m) /\ (m.errno = 0 => AnswerOK(m, m.ino, m.fh, m.data)')
  <2>1. Expected(m) /\ (m.errno = 0 => AnswerOK(m, m.ino, m.fh, m.data))
    BY DEF FuseReading, FuseReplies, Expected
  <2>2. m.errno = 0 /\ m.op = "open" /\ m.fh # 0 => open_files'[m.fh] = open_files[m.fh]
    BY DEF Wanted
  <2> QED BY <1>3, <2>1, <2>2
<1>7. FuseReplies'
  BY <1>6 DEF FuseReplies, FuseReading, Expected
<1>8. held' # 0 => todo' = << >> /\ open_files'[held'] = TheFile
  BY DEF FuseReading, Wanted
<1>9. FuseRequests'
  BY <1>4, <1>5 DEF FuseRequests
<1> QED BY <1>1, <1>7, <1>8, <1>9 DEF FuseReading

LEMMA AnsweringReads ==
    ASSUME HandleTypes, FuseReading, NEW w \in Workers, NEW m \in reqs, NEW r, NEW h,
           Take(w, m), Answering(w, m, r, h), UNCHANGED gen,
           \A g : g # 0 /\ Wanted(g) => open_files'[g] = open_files[g],
           r.err \in FsErrors \union {"Ok"},
           r.err = "Ok" => AnswerOK(m, r.ino, h, r.data)'
    PROVE  FuseReading'
<1>1. /\ hnd \in [Workers -> Nat]
      /\ DOMAIN pc = Workers /\ DOMAIN req = Workers /\ DOMAIN res = Workers
  BY DEF HandleTypes
<1>2. /\ pc' = [pc EXCEPT ![w] = "reply"] /\ req' = [req EXCEPT ![w] = m]
      /\ res' = [res EXCEPT ![w] = r] /\ hnd' = [hnd EXCEPT ![w] = h]
      /\ reqs' = reqs \ {m} /\ UNCHANGED <<reps, app, node, held, ahead, busy>>
  BY DEF Answering, Take, kernel
<1>3. req'[w] = m /\ res'[w] = r /\ hnd'[w] = h
  BY <1>1, <1>2
<1>4. \A v \in Workers : v # w => /\ pc'[v] = pc[v] /\ req'[v] = req[v]
                                  /\ res'[v] = res[v] /\ hnd'[v] = hnd[v]
  BY <1>1, <1>2
<1>5. RequestOK(m)
  BY DEF FuseReading, FuseRequests
<1>6. res'[w].err = "Ok" => AnswerOK(req[w], res[w].ino, hnd[w], res[w].data)'
  BY <1>3 DEF AnswerOK
<1>7. \A x \in reqs' : x \in reqs
  BY <1>2
<1> QED BY <1>2, <1>3, <1>4, <1>5, <1>6, <1>7, CallbackKeeps

LEMMA FuseLookupReads ==
    ASSUME HandleTypes, AppInv, FuseReading, NEW w \in Workers, FuseLookup(w)
    PROVE  FuseReading'
<1>1. PICK m \in reqs : /\ m.op = "lookup" /\ Take(w, m)
                        /\ \E r \in Results(Lookup(m.ino, m.name)) : Answering(w, m, r, 0)
  BY DEF FuseLookup
<1>2. PICK r \in Results(Lookup(m.ino, m.name)) : Answering(w, m, r, 0)
  BY <1>1
<1>3. UNCHANGED <<gen, open_files, todo, got>>
  BY <1>2 DEF FuseLookup, fs, Answering, app
<1>4. RequestOK(m) /\ r.err \in FsErrors \union {"Ok"}
  BY ErrorsKnown DEF FuseReading, FuseRequests
<1>5. ASSUME r.err = "Ok" PROVE AnswerOK(m, r.ino, 0, r.data)'
  <2>1. ASSUME m.who = "reader" PROVE r.ino = There
    <3>1. todo # << >> /\ m.ino = Here /\ m.name = Head(todo)
      BY <1>1, <1>4, <2>1 DEF RequestOK
    <3>2. m.name \notin {".", ".."}
      BY <3>1, StepDown
    <3> QED BY <1>5, <3>1, <3>2, LookupTruth DEF There
  <2>2. There' = There
    BY <1>3, SamePlace
  <2> QED BY <1>1, <2>1, <2>2 DEF AnswerOK
<1> QED BY <1>1, <1>2, <1>3, <1>4, <1>5, AnsweringReads

\* Callbacks whose answer the reader has no use for.
LEMMA OtherCallbacks ==
    ASSUME HandleTypes, FuseReading, NEW w \in Workers,
           FuseGetattr(w) \/ FuseReaddir(w) \/ FuseXattr(w)
    PROVE  FuseReading'
<1>1. ASSUME NEW m \in reqs, NEW r, m.op \notin {"lookup", "open", "read"}, Take(w, m),
             Answering(w, m, r, 0), UNCHANGED fs, r.err \in FsErrors \union {"Ok"}
      PROVE  FuseReading'
  <2>1. AnswerOK(m, r.ino, 0, r.data)'
    BY <1>1 DEF AnswerOK
  <2>2. UNCHANGED <<gen, open_files>>
    BY <1>1 DEF fs
  <2> QED BY <1>1, <2>1, <2>2, AnsweringReads
<1>2. /\ "Io" \in FsErrors /\ (Err("Io")).err = "Io"
      /\ "NoXattr" \in FsErrors /\ (Err("NoXattr")).err = "NoXattr"
  BY DEF FsErrors, Err
<1>3. \A ino : \A r \in Results(Ok(ino)) : r = Ok(ino) \/ r = Err("Io")
  BY DEF Results
<1>4. CASE FuseGetattr(w)
  <2>1. PICK m \in reqs : /\ m.op \in {"getattr", "statfs"} /\ Take(w, m)
                          /\ \E r \in Results(IF m.op = "getattr" THEN Attr(m.ino) ELSE Ok(0)) :
                               Answering(w, m, r, 0)
    BY <1>4 DEF FuseGetattr
  <2>2. PICK r \in Results(IF m.op = "getattr" THEN Attr(m.ino) ELSE Ok(0)) : Answering(w, m, r, 0)
    BY <2>1
  <2>3. r.err \in FsErrors \union {"Ok"}
    BY DEF Results, Attr, Ok, Err, FsErrors
  <2> QED BY <1>1, <1>4, <2>1, <2>2, <2>3 DEF FuseGetattr
<1>5. CASE FuseReaddir(w)
  <2>1. PICK m \in reqs : /\ m.op = "readdir" /\ Take(w, m)
                          /\ \E r \in Results(Ok(m.ino)) : Answering(w, m, r, 0)
    BY <1>5 DEF FuseReaddir
  <2>2. PICK r \in Results(Ok(m.ino)) : Answering(w, m, r, 0)
    BY <2>1
  <2>3. r.err \in FsErrors \union {"Ok"}
    BY <1>2, <1>3 DEF Ok
  <2> QED BY <1>1, <1>5, <2>1, <2>2, <2>3 DEF FuseReaddir
<1>6. CASE FuseXattr(w)
  <2>1. PICK m \in reqs :
          /\ m.op \in {"getxattr", "listxattr"} /\ Take(w, m)
          /\ \E r \in Results(Ok(m.ino))
                        \union (IF m.op = "getxattr" THEN {Err("NoXattr")} ELSE {}) :
               Answering(w, m, IF r.err = "Ok" THEN [r EXCEPT !.n = XattrLen] ELSE r, 0)
    BY <1>6 DEF FuseXattr
  <2>2. PICK r \in Results(Ok(m.ino)) \union {Err("NoXattr")} :
          Answering(w, m, IF r.err = "Ok" THEN [r EXCEPT !.n = XattrLen] ELSE r, 0)
    BY <2>1
  <2>3. PICK q : q = IF r.err = "Ok" THEN [r EXCEPT !.n = XattrLen] ELSE r
    OBVIOUS
  <2>4. q.err \in FsErrors \union {"Ok"}
    <3>1. CASE r = Ok(m.ino)
      BY <2>3, <3>1 DEF Ok
    <3>2. CASE r \in {Err("Io"), Err("NoXattr")}
      BY <1>2, <2>3, <3>2
    <3> QED BY <1>3, <2>2, <3>1, <3>2
  <2> QED BY <1>1, <1>6, <2>1, <2>2, <2>3, <2>4 DEF FuseXattr
<1> QED BY <1>4, <1>5, <1>6

LEMMA FuseOpenReads ==
    ASSUME HandleTypes, FuseOwn, FuseReading, NEW w \in Workers, FuseOpen(w)
    PROVE  FuseReading'
<1>1. PICK m \in reqs : /\ m.op = "open" /\ Take(w, m)
                        /\ \E r \in Results(OpenResult(m.ino)) :
                             /\ Answering(w, m, r, IF r.err = "Ok" THEN next_handle ELSE 0)
                             /\ IF r.err = "Ok" THEN Opened(r.ino) ELSE UNCHANGED fs
  BY DEF FuseOpen
<1>2. PICK r \in Results(OpenResult(m.ino)) :
        /\ Answering(w, m, r, IF r.err = "Ok" THEN next_handle ELSE 0)
        /\ IF r.err = "Ok" THEN Opened(r.ino) ELSE UNCHANGED fs
  BY <1>1
<1>3. RequestOK(m) /\ Asked(m) /\ r.err \in FsErrors \union {"Ok"}
  BY ErrorsKnown DEF FuseReading, FuseRequests, FuseOwn, FlightInv
<1>4. CASE r.err = "Ok"
  <2>1. /\ open_files'[next_handle] = r.ino /\ UNCHANGED gen
        /\ \A g \in DOMAIN open_files : open_files'[g] = open_files[g]
    BY <1>2, <1>4, OpenAdds DEF Opened
  <2>2. r.ino = TheFile
    <3>1. r.ino = m.ino
      BY <1>4, OpenResults
    <3>2. todo = << >> /\ m.ino = Here
      BY <1>1, <1>3 DEF RequestOK, Asked
    <3> QED BY <3>1, <3>2, Arrived
  <2>3. ASSUME NEW h, h = next_handle PROVE AnswerOK(m, r.ino, h, r.data)'
    BY <1>1, <2>1, <2>2, <2>3 DEF AnswerOK
  <2>4. \A g : g # 0 /\ Wanted(g) => open_files'[g] = open_files[g]
    BY <2>1 DEF Wanted, FuseOwn, PlaceInv
  <2> QED BY <1>1, <1>2, <1>3, <1>4, <2>1, <2>3, <2>4, AnsweringReads
<1>5. CASE r.err # "Ok"
  <2>1. UNCHANGED <<gen, open_files>>
    BY <1>2, <1>5 DEF fs
  <2> QED BY <1>1, <1>2, <1>3, <1>5, <2>1, AnsweringReads
<1> QED BY <1>4, <1>5

\* The buffer, cut to the count, is the bytes that were read.
LEMMA FuseReadReads ==
    ASSUME HandleTypes, FuseOwn, FuseReading, NEW w \in Workers, FuseRead(w)
    PROVE  FuseReading'
<1>1. PICK m \in reqs :
        /\ m.op = "read" /\ Take(w, m)
        /\ LET len == ReadBufferLen(m.size)
               r0  == ReadAt(m.fh, m.offset, len)
           IN  \E r \in Results(r0) \union {Overclaims(m.fh, m.offset, r0)} :
                 Answering(w, m, IF r.err = "Ok" THEN [r EXCEPT !.data = Truncated(r, len)] ELSE r, 0)
  BY DEF FuseRead
<1> DEFINE len == ReadBufferLen(m.size)
           r0 == ReadAt(m.fh, m.offset, len)
<1>2. PICK r \in Results(r0) \union {Overclaims(m.fh, m.offset, r0)} :
        Answering(w, m, IF r.err = "Ok" THEN [r EXCEPT !.data = Truncated(r, len)] ELSE r, 0)
  BY <1>1
<1>3. PICK q : q = IF r.err = "Ok" THEN [r EXCEPT !.data = Truncated(r, len)] ELSE r
  OBVIOUS
<1>4. /\ gen = 1 /\ RequestOK(m) /\ m.fh \in DOMAIN open_files /\ open_files[m.fh] = TheFile
  BY <1>1 DEF FuseReading, FuseRequests, FuseOwn, PlaceInv
<1>5. m.offset \in Nat /\ len \in Nat /\ len > 0
  <2>1. m.offset \in Nat /\ m.size \in Nat \ {0} /\ MAX_READ \in Nat \ {0}
    BY <1>1, <1>4, FuseAssumption DEF RequestOK
  <2> QED BY <2>1 DEF ReadBufferLen
<1> HIDE DEF len
<1>6. /\ r.err \in {"Ok", "Io"}
      /\ r.err = "Ok" => /\ Piece(m.offset, r.data) /\ r.n \in Nat /\ Min2(r.n, len) = Len(r.data)
                         /\ r.data = << >> => m.offset >= Len(Content)
  BY <1>2, <1>4, <1>5, ReadsPiece
<1>7. r.err = "Ok" => Truncated(r, len) = r.data
  <2>1. PICK d : d = r.data
    OBVIOUS
  <2>2. ASSUME r.err = "Ok" PROVE Truncated(r, len) = d
    <3>1. d \in Seq(Bytes) /\ (IF r.n < len THEN r.n ELSE len) = Len(d)
      BY <1>6, <2>1, <2>2 DEF Piece, Min2
    <3>2. Truncated(r, len) = [i \in 1 .. Len(d) |-> IF i <= Len(d) THEN d[i] ELSE "junk"]
      BY <2>1, <3>1 DEF Truncated
    <3>3. \A i \in 1 .. Len(d) : i <= Len(d)
      BY <3>1
    <3>4. [i \in 1 .. Len(d) |-> IF i <= Len(d) THEN d[i] ELSE "junk"] = d
      BY <3>1, <3>3
    <3> QED BY <3>2, <3>4
  <2> QED BY <2>1, <2>2
<1>8. q.err = r.err /\ (r.err = "Ok" => q.data = r.data)
  <2>1. PICK e, i, d, n : r = [err |-> e, ino |-> i, data |-> d, n |-> n]
    BY <1>2, ReadResults
  <2>2. CASE r.err = "Ok"
    <3>1. q = [r EXCEPT !.data = r.data]
      BY <1>3, <1>7, <2>2
    <3> QED BY <2>1, <3>1
  <2> QED BY <1>3, <2>2
<1>9. q.err = "Ok" => AnswerOK(m, q.ino, 0, q.data)'
  BY <1>1, <1>6, <1>8 DEF AnswerOK
<1>10. q.err \in FsErrors \union {"Ok"} /\ UNCHANGED <<gen, open_files>>
  BY <1>6, <1>8 DEF FsErrors, FuseRead, fs
<1> QED BY <1>1, <1>2, <1>3, <1>9, <1>10, AnsweringReads

LEMMA FuseReleaseReads ==
    ASSUME HandleTypes, FuseOwn, FuseReading, NEW w \in Workers, FuseRelease(w)
    PROVE  FuseReading'
<1>1. PICK m \in reqs : /\ m.op = "release" /\ Take(w, m)
                        /\ Answering(w, m, Ok(0), 0) /\ Released(m.fh)
  BY DEF FuseRelease
<1>2. UNCHANGED gen /\ \A g \in DOMAIN open_files \ {m.fh} : open_files'[g] = open_files[g]
  BY <1>1, ReleaseRemoves DEF Released
<1>3. ASSUME NEW g, g # 0, Wanted(g) PROVE open_files'[g] = open_files[g]
  <2>1. g # m.fh
    BY <1>1, <1>3 DEF Wanted, FuseOwn, PlaceInv
  <2>2. g \in DOMAIN open_files
    BY <1>3 DEF Wanted, FuseOwn, PlaceInv
  <2> QED BY <1>2, <2>1, <2>2
<1>4. PICK r : r = Ok(0)
  OBVIOUS
<1>5. r.err = "Ok" /\ AnswerOK(m, r.ino, 0, r.data)'
  BY <1>1, <1>4 DEF Ok, AnswerOK
<1> QED BY <1>1, <1>2, <1>3, <1>4, <1>5, AnsweringReads

LEMMA FuseForgetReads ==
    ASSUME FuseReading, NEW w \in Workers, FuseForget(w)
    PROVE  FuseReading'
<1>1. /\ \A m \in reqs' : m \in reqs
      /\ UNCHANGED <<gen, open_files, app, node, held, ahead, busy, reps, pc, req, res, hnd>>
  BY DEF FuseForget, Take, fs, threads, kernel
<1>2. pc[w] # "reply"
  BY DEF FuseForget, Take
<1> QED BY <1>1, <1>2, CallbackKeeps

\* The reply says what the callback found, and zero only when it found it.
LEMMA FuseReplyReads ==
    ASSUME HandleTypes, FuseReading, NEW w \in Workers, FuseReply(w)
    PROVE  FuseReading'
<1> DEFINE m == req[w]
           r == res[w]
           x == [who |-> m.who, op |-> m.op, errno |-> Errno(m, r), ino |-> r.ino,
                 fh |-> hnd[w], offset |-> m.offset, data |-> r.data]
<1>1. /\ pc[w] = "reply" /\ (reps' = reps \/ reps' = reps \union {x})
      /\ pc' = [pc EXCEPT ![w] = "idle"]
      /\ req' = [req EXCEPT ![w] = NoRequest]
      /\ res' = [res EXCEPT ![w] = Ok(0)]
      /\ hnd' = [hnd EXCEPT ![w] = 0]
      /\ UNCHANGED <<gen, open_files, reqs, app, node, held, ahead, busy>>
  BY DEF FuseReply, fs, fuseVars, kernel
<1>2. /\ hnd \in [Workers -> Nat]
      /\ DOMAIN pc = Workers /\ DOMAIN req = Workers /\ DOMAIN res = Workers
  BY DEF HandleTypes
<1>3. /\ RequestOK(m) /\ r.err \in FsErrors \union {"Ok"}
      /\ r.err = "Ok" => AnswerOK(m, r.ino, hnd[w], r.data)
  BY <1>1 DEF FuseReading, FuseRequests
<1>4. Expected(x)
  BY <1>3 DEF Expected, RequestOK
<1>5. ASSUME x.errno = 0 PROVE AnswerOK(x, x.ino, x.fh, x.data)
  <2>1. r.err = "Ok"
    BY <1>3, <1>5, FailuresShow DEF Errno
  <2> QED BY <1>3, <2>1 DEF AnswerOK
<1> HIDE DEF x
<1>6. \A n \in reps' :
        n \in reps \/ (Expected(n) /\ (n.errno = 0 => AnswerOK(n, n.ino, n.fh, n.data)))
  BY <1>1, <1>4, <1>5
<1>7. pc'[w] = "idle" /\ \A v \in Workers : v # w => /\ pc'[v] = pc[v] /\ req'[v] = req[v]
                                                   /\ res'[v] = res[v] /\ hnd'[v] = hnd[v]
  BY <1>1, <1>2
<1> QED BY <1>1, <1>6, <1>7, CallbackKeeps

LEMMA FuseServeReads ==
    ASSUME HandleTypes, FuseOwn, AppInv, FuseReading, NEW w \in Workers, FuseServe(w)
    PROVE  FuseReading'
BY FuseLookupReads, OtherCallbacks, FuseOpenReads, FuseReadReads, FuseReleaseReads,
   FuseForgetReads, FuseReplyReads DEF FuseServe

LEMMA FuseServeApp ==
    ASSUME NEW w \in Workers, FuseServe(w)
    PROVE  UNCHANGED <<app, life>>
<1>1. ASSUME NEW m, NEW r, NEW h, Answering(w, m, r, h) PROVE UNCHANGED <<app, life>>
  BY <1>1 DEF Answering, session
<1>2. CASE FuseLookup(w) \/ FuseGetattr(w) \/ FuseReaddir(w) \/ FuseXattr(w)
  BY <1>1, <1>2 DEF FuseLookup, FuseGetattr, FuseReaddir, FuseXattr
<1>3. CASE FuseOpen(w) \/ FuseRead(w) \/ FuseRelease(w)
  BY <1>1, <1>3 DEF FuseOpen, FuseRead, FuseRelease
<1> QED BY <1>2, <1>3 DEF FuseServe, FuseForget, FuseReply, session, fuseVars

\* A chunk that was read ahead.
ChunkOK(c) == Piece(c.offset, c.data) /\ (c.data = << >> => c.offset >= Len(Content))

\* The reader stays where it is; requests may be added and replies taken.
LEMMA FlightKeeps ==
    ASSUME FuseReading, UNCHANGED <<todo, got, open_files, pc, req, res, hnd>>,
           \A m \in reqs' : m \in reqs \/ RequestOK(m),
           \A m \in reps' : m \in reps,
           \A c \in ahead' : c \in ahead \/ ChunkOK(c)
    PROVE  FuseRequests' /\ FuseReplies'
<1>1. Here' = Here /\ There' = There
  BY SamePlace
<1>2. \A m \in reqs' : RequestOK(m)'
  BY <1>1 DEF FuseReading, FuseRequests, RequestOK
<1>3. ASSUME NEW w \in Workers, pc'[w] = "reply"
      PROVE  /\ RequestOK(req[w])' /\ res'[w].err \in FsErrors \union {"Ok"}
             /\ res'[w].err = "Ok" => AnswerOK(req[w], res[w].ino, hnd[w], res[w].data)'
  <2>1. /\ RequestOK(req[w]) /\ res[w].err \in FsErrors \union {"Ok"}
        /\ res[w].err = "Ok" => AnswerOK(req[w], res[w].ino, hnd[w], res[w].data)
    BY <1>3 DEF FuseReading, FuseRequests
  <2>2. RequestOK(req[w])'
    BY <1>1, <2>1 DEF RequestOK
  <2>3. res[w].err = "Ok" => AnswerOK(req[w], res[w].ino, hnd[w], res[w].data)'
    BY <1>1, <2>1 DEF AnswerOK
  <2> QED BY <2>1, <2>2, <2>3
<1>4. \A m \in reps' : m.errno = 0 => AnswerOK(m, m.ino, m.fh, m.data)'
  BY <1>1 DEF FuseReading, FuseReplies, AnswerOK
<1>5. FuseReplies'
  BY <1>4 DEF FuseReading, FuseReplies, ChunkOK
<1> QED BY <1>2, <1>3, <1>5 DEF FuseRequests

\* Nothing the reader asked for is under way, so that it may move on.
LEMMA ReaderFree ==
    ASSUME FuseReading, UNCHANGED <<open_files, reqs, pc, req, res, hnd>>,
           \A m \in reps' : m \in reps /\ m.who # "reader",
           \A m \in reqs : m.who # "reader",
           \A w \in Workers : pc[w] = "reply" => req[w].who # "reader",
           \A c \in ahead' : c \in ahead
    PROVE  FuseRequests' /\ FuseReplies'
<1>1. \A m \in reqs' : RequestOK(m)'
  BY DEF FuseReading, FuseRequests, RequestOK
<1>2. ASSUME NEW w \in Workers, pc'[w] = "reply"
      PROVE  /\ RequestOK(req[w])' /\ res'[w].err \in FsErrors \union {"Ok"}
             /\ res'[w].err = "Ok" => AnswerOK(req[w], res[w].ino, hnd[w], res[w].data)'
  <2>1. /\ RequestOK(req[w]) /\ res[w].err \in FsErrors \union {"Ok"} /\ req[w].who # "reader"
        /\ res[w].err = "Ok" => AnswerOK(req[w], res[w].ino, hnd[w], res[w].data)
    BY <1>2 DEF FuseReading, FuseRequests
  <2>2. RequestOK(req[w])'
    BY <2>1 DEF RequestOK
  <2>3. res[w].err = "Ok" => AnswerOK(req[w], res[w].ino, hnd[w], res[w].data)'
    BY <2>1 DEF AnswerOK
  <2> QED BY <2>1, <2>2, <2>3
<1>3. \A m \in reps' : m.errno = 0 => AnswerOK(m, m.ino, m.fh, m.data)'
  BY DEF FuseReading, FuseReplies, AnswerOK
<1>4. FuseReplies'
  BY <1>3 DEF FuseReading, FuseReplies
<1> QED BY <1>1, <1>2, <1>4 DEF FuseRequests

LEMMA SubmitReads ==
    ASSUME FuseReading, NEW m, Submit(m), RequestOK(m), UNCHANGED <<node, ahead>>,
           held' \in {held, 0}, "reader" \in busy' => outcome = "reading"
    PROVE  FuseReading' /\ UNCHANGED app
<1> USE DEF fs, threads, app
<1>1. /\ reqs' = reqs \union {m}
      /\ UNCHANGED <<gen, open_files, reps, pc, req, res, hnd, todo, got, outcome>>
  BY DEF Submit
<1>2. FuseRequests' /\ FuseReplies'
  BY <1>1, FlightKeeps
<1>3. Here' = Here
  BY <1>1, SamePlace
<1>4. held' # 0 => todo' = << >> /\ open_files'[held'] = TheFile
  BY <1>1 DEF FuseReading
<1> QED BY <1>1, <1>2, <1>3, <1>4 DEF FuseReading

LEMMA AsksRead ==
    ASSUME AppInv, FuseReading, ReaderAsks \/ Readahead \/ OtherAsks
    PROVE  FuseReading' /\ UNCHANGED app
<1>1. ASSUME NEW m, Ask(m), RequestOK(m), m.who = "reader" => outcome = "reading"
      PROVE  FuseReading' /\ UNCHANGED app
  <2>1. Submit(m) /\ UNCHANGED <<node, ahead, held>> /\ busy' = busy \union {m.who}
    BY <1>1 DEF Ask
  <2>2. "reader" \in busy' => outcome = "reading"
    BY <1>1, <2>1 DEF FuseReading
  <2> QED BY <1>1, <2>1, <2>2, SubmitReads
<1>2. node = Here /\ Len(got) \in Nat /\ ReadSizes \subseteq Nat
  BY FuseAssumption DEF FuseReading, AppInv
<1>3. CASE ReaderAsks
  <2>1. outcome = "reading"
    BY <1>3 DEF ReaderAsks
  <2>2. CASE todo # << >> /\ Ask([Req("reader", "lookup", node) EXCEPT !.name = Head(todo)])
    <3>1. PICK m : m = [Req("reader", "lookup", node) EXCEPT !.name = Head(todo)]
      OBVIOUS
    <3>2. m.who = "reader" /\ m.op = "lookup" /\ m.ino = Here /\ m.name = Head(todo)
      BY <1>2, <3>1 DEF Req
    <3>3. RequestOK(m)
      BY <2>2, <3>2 DEF RequestOK
    <3> QED BY <1>1, <2>1, <2>2, <3>1, <3>3
  <2>3. CASE todo = << >> /\ Ask(Req("reader", "open", node))
    <3>1. PICK m : m = Req("reader", "open", node)
      OBVIOUS
    <3>2. m.who = "reader" /\ m.op = "open" /\ m.ino = Here
      BY <1>2, <3>1 DEF Req
    <3>3. RequestOK(m)
      BY <2>3, <3>2 DEF RequestOK
    <3> QED BY <1>1, <2>1, <2>3, <3>1, <3>3
  <2>4. ASSUME NEW n \in ReadSizes,
               Ask([Req("reader", "read", node) EXCEPT !.fh = held, !.offset = Len(got), !.size = n])
        PROVE  FuseReading' /\ UNCHANGED app
    <3>1. PICK m : m = [Req("reader", "read", node) EXCEPT
                           !.fh = held, !.offset = Len(got), !.size = n]
      OBVIOUS
    <3>2. m.op = "read" /\ m.offset = Len(got) /\ m.size = n
      BY <3>1 DEF Req
    <3>3. RequestOK(m)
      BY <1>2, <3>2 DEF RequestOK
    <3> QED BY <1>1, <2>1, <2>4, <3>1, <3>3
  <2> QED BY <1>3, <2>2, <2>3, <2>4 DEF ReaderAsks
<1>4. CASE Readahead
  <2>1. PICK n \in ReadSizes :
          Ask([Req("readahead", "read", node) EXCEPT !.fh = held, !.offset = Len(got) + n, !.size = n])
    BY <1>4 DEF Readahead
  <2>2. PICK m : m = [Req("readahead", "read", node) EXCEPT
                         !.fh = held, !.offset = Len(got) + n, !.size = n]
    OBVIOUS
  <2>3. m.who = "readahead" /\ m.op = "read" /\ m.offset = Len(got) + n /\ m.size = n
    BY <2>2 DEF Req
  <2>4. Len(got) + n \in Nat
    BY <1>2
  <2>5. RequestOK(m)
    BY <2>3, <2>4 DEF RequestOK
  <2> QED BY <1>1, <2>1, <2>2, <2>3, <2>5
<1>5. CASE OtherAsks
  <2>1. PICK op \in Extras, n \in XattrSizes, cookie \in {0, 2} :
          Ask([Req("other", op, ROOT_INO) EXCEPT !.name = Path[1], !.size = n, !.offset = cookie])
    BY <1>5 DEF OtherAsks
  <2>2. PICK m : m = [Req("other", op, ROOT_INO) EXCEPT
                         !.name = Path[1], !.size = n, !.offset = cookie]
    OBVIOUS
  <2>3. m.who = "other" /\ m.op = op /\ op # "read"
    BY <2>2, FuseAssumption DEF Req
  <2>4. RequestOK(m)
    BY <2>3 DEF RequestOK
  <2> QED BY <1>1, <2>1, <2>2, <2>3, <2>4
<1> QED BY <1>3, <1>4, <1>5

\* The file is closed, or an inode forgotten.
LEMMA ClosesRead ==
    ASSUME FuseReading, Close \/ \E i \in Inos : Forget(i)
    PROVE  FuseReading' /\ UNCHANGED app
<1>1. ASSUME NEW m, Submit(m), m.who = "none", m.op \in {"release", "forget"},
             UNCHANGED <<node, ahead, busy>>, held' \in {held, 0}
      PROVE  FuseReading' /\ UNCHANGED app
  <2>1. RequestOK(m)
    BY <1>1 DEF RequestOK
  <2>2. "reader" \in busy' => outcome = "reading"
    BY <1>1 DEF FuseReading
  <2> QED BY <1>1, <2>1, <2>2, SubmitReads
<1>2. CASE Close
  <2>1. PICK m : m = [Req("none", "release", node) EXCEPT !.fh = held]
    OBVIOUS
  <2>2. m.who = "none" /\ m.op = "release"
    BY <2>1 DEF Req
  <2> QED BY <1>1, <1>2, <2>1, <2>2 DEF Close
<1>3. ASSUME NEW i \in Inos, Forget(i) PROVE FuseReading' /\ UNCHANGED app
  <2>1. PICK m : m = [Req("none", "forget", i) EXCEPT !.nlookup = refs[i]]
    OBVIOUS
  <2>2. m.who = "none" /\ m.op = "forget"
    BY <2>1 DEF Req
  <2>3. Submit(m) /\ UNCHANGED <<node, held, ahead, busy>>
    BY <1>3, <2>1 DEF Forget
  <2> QED BY <1>1, <2>2, <2>3
<1> QED BY <1>2, <1>3

\* Bytes for a reader that waits for nothing else; no bytes are the end.
LEMMA TookReads ==
    ASSUME AppInv, outcome = "reading", NEW d, Took(d), Piece(Len(got), d),
           d = << >> => Len(got) >= Len(Content)
    PROVE  AppInv' /\ F!RNext /\ Here' = Here /\ todo' = todo
<1>1. got' = got \o d /\ outcome' = (IF d = << >> THEN "done" ELSE "reading") /\ UNCHANGED todo
  BY DEF Took
<1>2. Len(got) \in Nat /\ Len(Content) \in Nat /\ Len(got) <= Len(Content)
  BY FileFacts DEF AppInv
<1>3. outcome' = "done" => Len(got') = Len(Content)
  <2>1. ASSUME d = << >> PROVE Len(got') = Len(Content)
    <3>1. Len(got') = Len(got) + Len(d) /\ Len(d) = 0
      BY <1>1, <2>1, TakePiece
    <3> QED BY <1>2, <2>1, <3>1
  <2> QED BY <1>1, <2>1
<1>4. outcome' \in {"reading", "done"}
  BY <1>1
<1>5. AppInv' /\ F!RNext
  BY <1>1, <1>3, <1>4, DeliverStep
<1> QED BY <1>1, <1>5 DEF Here

LEMMA ReaderReceives ==
    ASSUME FuseOwn, AppInv, FuseReading, FuseReceive("reader")
    PROVE  AppInv' /\ FuseReading' /\ [F!RNext]_(F!rvars)
<1> USE DEF fs, threads, app, F!rvars
<1>1. PICK m \in reps : m.who = "reader" /\ reps' = reps \ {m} /\ ReaderGets(m) /\ ahead' = ahead
  BY DEF FuseReceive
<1>2. UNCHANGED <<gen, open_files, reqs, pc, req, res, hnd>> /\ busy' = busy \ {"reader"}
  BY DEF FuseReceive
<1>3. Asked(m) /\ outcome = "reading" /\ m.op \in {"lookup", "open", "read"}
  BY <1>1 DEF FuseOwn, FlightInv, Asked, FuseReading
<1>4. /\ \A n \in reqs : n.who # "reader"
      /\ \A w \in Workers : pc[w] = "reply" => req[w].who # "reader"
      /\ \A n \in reps' : n \in reps /\ n.who # "reader"
  BY <1>1 DEF FuseOwn, OnceInv
<1>5. FuseRequests' /\ FuseReplies'
  BY <1>1, <1>2, <1>4, ReaderFree
<1>6. gen' = 1 /\ "reader" \notin busy'
  BY <1>2 DEF FuseReading
<1>7. /\ m.errno = 0 => AnswerOK(m, m.ino, m.fh, m.data)
      /\ m.op = "lookup" => todo # << >>
      /\ m.op = "open" => todo = << >>
      /\ m.op = "read" => m.offset = Len(got)
  BY <1>1 DEF FuseReading, FuseReplies
<1>8. CASE m.errno # 0
  <2>1. outcome' = "failed" /\ UNCHANGED <<todo, got, node, held>>
    BY <1>1, <1>8 DEF ReaderGets
  <2>2. AppInv' /\ Here' = Here
    BY <2>1, SamePlace
  <2>3. FuseReading'
    BY <1>2, <1>5, <1>6, <2>1, <2>2 DEF FuseReading
  <2> QED BY <1>3, <2>1, <2>2, <2>3 DEF F!RNext, F!Fail
<1>9. CASE m.errno = 0 /\ m.op = "lookup"
  <2>1. node' = m.ino /\ todo' = Tail(todo) /\ UNCHANGED <<got, outcome, held>>
    BY <1>1, <1>9 DEF ReaderGets
  <2>2. AppInv' /\ Here' = There
    BY <1>7, <1>9, <2>1, StepDown
  <2>3. m.ino = There /\ held = 0
    BY <1>1, <1>7, <1>9 DEF AnswerOK, FuseReading
  <2>4. FuseReading'
    BY <1>5, <1>6, <2>1, <2>2, <2>3 DEF FuseReading
  <2> QED BY <2>1, <2>2, <2>4
<1>10. CASE m.errno = 0 /\ m.op = "open"
  <2>1. held' = m.fh /\ UNCHANGED <<todo, got, outcome, node>>
    BY <1>1, <1>10 DEF ReaderGets
  <2>2. AppInv' /\ Here' = Here
    BY <2>1, SamePlace
  <2>3. held' # 0 => todo' = << >> /\ open_files'[held'] = TheFile
    BY <1>2, <1>7, <1>10, <2>1 DEF AnswerOK
  <2>4. FuseReading'
    BY <1>5, <1>6, <2>1, <2>2, <2>3 DEF FuseReading
  <2> QED BY <2>1, <2>2, <2>4
<1>11. CASE m.errno = 0 /\ m.op = "read"
  <2>1. Took(m.data) /\ UNCHANGED <<node, held>>
    BY <1>1, <1>11 DEF ReaderGets
  <2>2. Piece(Len(got), m.data) /\ (m.data = << >> => Len(got) >= Len(Content))
    BY <1>7, <1>11 DEF AnswerOK
  <2>3. AppInv' /\ F!RNext /\ Here' = Here /\ todo' = todo
    BY <1>3, <2>1, <2>2, TookReads
  <2>4. FuseReading'
    BY <1>2, <1>5, <1>6, <2>1, <2>3 DEF FuseReading
  <2> QED BY <2>3, <2>4
<1> QED BY <1>3, <1>8, <1>9, <1>10, <1>11

LEMMA OthersReceive ==
    ASSUME FuseOwn, AppInv, FuseReading, NEW who \in Procs \ {"reader"}, FuseReceive(who)
    PROVE  FuseReading' /\ UNCHANGED app
<1> USE DEF fs, threads, app
<1>1. PICK m \in reps :
        /\ m.who = who /\ reps' = reps \ {m} /\ UNCHANGED <<app, node, held>>
        /\ ahead' = IF who = "readahead" /\ m.errno = 0 /\ m.offset >= Len(got)
                    THEN {[offset |-> m.offset, data |-> m.data]} ELSE ahead
  BY DEF FuseReceive
<1>2. UNCHANGED <<gen, open_files, reqs, pc, req, res, hnd>> /\ busy' = busy \ {who}
  BY DEF FuseReceive
<1>3. ASSUME NEW c \in ahead' PROVE c \in ahead \/ ChunkOK(c)
  <2>1. CASE who = "readahead" /\ m.errno = 0
    <3>1. m.op = "read"
      BY <1>1, <2>1 DEF FuseOwn, FlightInv, Asked
    <3>2. Piece(m.offset, m.data) /\ (m.data = << >> => m.offset >= Len(Content))
      BY <2>1, <3>1 DEF FuseReading, FuseReplies, AnswerOK
    <3>3. c \in ahead \/ c = [offset |-> m.offset, data |-> m.data]
      BY <1>1
    <3> QED BY <3>2, <3>3 DEF ChunkOK
  <2> QED BY <1>1, <2>1
<1>4. \A n \in reps' : n \in reps
  BY <1>1
<1>5. FuseRequests' /\ FuseReplies'
  BY <1>1, <1>2, <1>3, <1>4, FlightKeeps
<1>6. Here' = Here
  BY <1>1, SamePlace
<1> QED BY <1>1, <1>2, <1>5, <1>6 DEF FuseReading

LEMMA UseAheadReads ==
    ASSUME FuseOwn, AppInv, FuseReading, UseAhead
    PROVE  AppInv' /\ FuseReading' /\ [F!RNext]_(F!rvars)
<1> USE DEF fs, threads, app, F!rvars
<1>1. /\ "reader" \notin busy /\ outcome = "reading" /\ ahead' = {}
      /\ UNCHANGED <<gen, open_files, reqs, reps, pc, req, res, hnd, node, held, busy>>
  BY DEF UseAhead
<1>2. PICK c \in ahead : \/ c.offset = Len(got) /\ Took(c.data)
                         \/ c.offset < Len(got) /\ UNCHANGED app
  BY DEF UseAhead
<1>3. /\ \A n \in reqs : n.who # "reader"
      /\ \A w \in Workers : pc[w] = "reply" => req[w].who # "reader"
      /\ \A n \in reps' : n \in reps /\ n.who # "reader"
  BY <1>1 DEF FuseOwn, FlightInv, Asked
<1>4. FuseRequests' /\ FuseReplies'
  BY <1>1, <1>3, ReaderFree
<1>5. CASE UNCHANGED app
  <2>1. AppInv' /\ Here' = Here
    BY <1>5, SamePlace
  <2> QED BY <1>1, <1>4, <1>5, <2>1 DEF FuseReading
<1>6. CASE c.offset = Len(got) /\ Took(c.data)
  <2>1. Piece(Len(got), c.data) /\ (c.data = << >> => Len(got) >= Len(Content))
    BY <1>6 DEF FuseReading, FuseReplies
  <2>2. AppInv' /\ F!RNext /\ Here' = Here /\ todo' = todo
    BY <1>1, <1>6, <2>1, TookReads
  <2> QED BY <1>1, <1>4, <2>2 DEF FuseReading
<1> QED BY <1>2, <1>5, <1>6

\* Whatever overtakes whatever, a read over FUSE delivers the next bytes of the file,
\* fails, or goes on unchanged.
LEMMA FuseReads ==
    ASSUME HandleTypes, Attached => FuseOwn, AppInv,
           IF Attached THEN FuseReading ELSE outcome # "reading", FuseNext
    PROVE  /\ AppInv' /\ [F!RNext]_(F!rvars)
           /\ IF Attached' THEN FuseReading' ELSE outcome' # "reading"
<1> USE DEF app, F!rvars
<1>1. ASSUME UNCHANGED app PROVE AppInv' /\ [F!RNext]_(F!rvars)
  BY <1>1, SamePlace
<1>2. CASE ~Attached
  <2>1. UNCHANGED app /\ ~Attached'
    <3>1. CASE \E w \in Workers : FuseServe(w)
      BY <1>2, <3>1, FuseServeApp DEF Attached
    <3>2. CASE FuseJoin
      BY <3>2 DEF FuseJoin, Attached
    <3>3. CASE \/ ReaderAsks \/ Readahead \/ OtherAsks \/ UseAhead \/ Close
               \/ (\E who \in Procs : FuseReceive(who)) \/ (\E i \in Inos : Forget(i)) \/ FuseUnmount
      BY <1>2, <3>3 DEF ReaderAsks, Readahead, OtherAsks, Ask, Submit, UseAhead, Close, FuseReceive,
                        Forget, FuseUnmount, Attached
    <3> QED BY <3>1, <3>2, <3>3 DEF FuseNext
  <2> QED BY <1>1, <1>2, <2>1
<1>3. CASE Attached
  <2>1. FuseOwn /\ FuseReading
    BY <1>3
  <2>2. ASSUME FuseReading', UNCHANGED <<app, life>>
        PROVE  /\ AppInv' /\ [F!RNext]_(F!rvars)
               /\ IF Attached' THEN FuseReading' ELSE outcome' # "reading"
    BY <1>1, <1>3, <2>2 DEF Attached
  <2>3. CASE \E w \in Workers : FuseServe(w)
    BY <2>1, <2>2, <2>3, FuseServeApp, FuseServeReads
  <2>4. CASE ReaderAsks \/ Readahead \/ OtherAsks
    <3>1. UNCHANGED life
      BY <2>4 DEF ReaderAsks, Readahead, OtherAsks, Ask, Submit, session
    <3> QED BY <2>1, <2>2, <2>4, <3>1, AsksRead
  <2>5. CASE Close \/ \E i \in Inos : Forget(i)
    <3>1. UNCHANGED life
      BY <2>5 DEF Close, Forget, Submit, session
    <3> QED BY <2>1, <2>2, <2>5, <3>1, ClosesRead
  <2>6. CASE UseAhead
    <3>1. Attached'
      BY <1>3, <2>6 DEF UseAhead, Attached, session
    <3> QED BY <2>1, <2>6, <3>1, UseAheadReads
  <2>7. ASSUME NEW who \in Procs, FuseReceive(who)
        PROVE  /\ AppInv' /\ [F!RNext]_(F!rvars)
               /\ IF Attached' THEN FuseReading' ELSE outcome' # "reading"
    <3>1. UNCHANGED life /\ Attached'
      BY <1>3, <2>7 DEF FuseReceive, Attached, session
    <3>2. CASE who = "reader"
      BY <2>1, <2>7, <3>1, <3>2, ReaderReceives
    <3>3. CASE who # "reader"
      BY <2>1, <2>2, <2>7, <3>1, <3>3, OthersReceive
    <3> QED BY <3>2, <3>3
  <2>8. CASE FuseUnmount
    <3>1. CASE life' = "detached" /\ UNCHANGED <<app, reqs>>
      <4>1. UNCHANGED <<gen, open_files, reqs, reps, pc, req, res, hnd, node, held, ahead, busy,
                        todo, got, outcome>>
        BY <2>8, <3>1 DEF FuseUnmount, fs, threads, kernel
      <4>2. FuseRequests' /\ FuseReplies'
        BY <2>1, <4>1, FlightKeeps
      <4>3. Here' = Here
        BY <4>1, SamePlace
      <4>4. FuseReading'
        BY <2>1, <4>1, <4>2, <4>3 DEF FuseReading
      <4> QED BY <1>1, <3>1, <4>4 DEF Attached
    <3>2. CASE /\ life' = "leaving" /\ UNCHANGED <<todo, got>>
               /\ outcome' = IF outcome = "reading" THEN "failed" ELSE outcome
      <4>1. AppInv'
        BY <3>2, SamePlace
      <4>2. [F!RNext]_(F!rvars)
        BY <3>2 DEF F!RNext, F!Fail
      <4> QED BY <3>2, <4>1, <4>2 DEF Attached
    <3> QED BY <2>8, <3>1, <3>2 DEF FuseUnmount
  <2>9. ~FuseJoin
    BY <1>3 DEF FuseJoin, Attached
  <2> QED BY <2>3, <2>4, <2>5, <2>6, <2>7, <2>8, <2>9 DEF FuseNext
<1> QED BY <1>2, <1>3

------------------------------------------------------------------------------
(* The two theorems *)

LEMMA ReadInit == Init => ReadInv /\ F!RInit
<1> SUFFICES ASSUME Init PROVE ReadInv /\ F!RInit
  OBVIOUS
<1>1. /\ todo = Path /\ got = << >> /\ outcome = "reading" /\ backend = "none" /\ gen = 1
      /\ cur = NoHandle /\ xid = 0 /\ waiting = FALSE
      /\ node = ROOT_INO /\ ahead = {} /\ life = "none"
  BY DEF Init, ServingInit, FsInit, NfsClientInit, FuseInit
<1>2. Path \in Seq(STRING) /\ Len(Path) \in Nat /\ Walk[0] = ROOT_INO /\ Len(Content) \in Nat
  BY FileFacts
<1>3. AppInv
  <2>1. /\ got \in Seq(Bytes) /\ Len(got) = 0
    BY <1>1
  <2>2. \A i \in 1 .. Len(todo) : todo[i] = Path[Len(Path) - Len(todo) + i]
    <3>1. \A i \in 1 .. Len(Path) : Len(Path) - Len(Path) + i = i
      BY <1>2
    <3> QED BY <1>1, <3>1
  <2> QED BY <1>1, <1>2, <2>1, <2>2 DEF AppInv
<1>4. Start
  <2>1. Len(Path) - Len(todo) = 0
    BY <1>1, <1>2
  <2> QED BY <1>1, <1>2, <2>1 DEF Start, Here
<1>5. F!RInit
  BY <1>1 DEF F!RInit
<1> QED BY <1>1, <1>3, <1>4, <1>5, HandleInit DEF ReadInv

LEMMA ReadNext == ReadInv /\ [Next]_vars => ReadInv' /\ [F!RNext]_(F!rvars)
<1> SUFFICES ASSUME ReadInv, [Next]_vars PROVE ReadInv' /\ [F!RNext]_(F!rvars)
  OBVIOUS
<1> USE DEF app, F!rvars
<1>1. HandleInv /\ AppInv /\ HandleInv' /\ HandleTypes
  BY HandleNext DEF ReadInv, HandleInv
<1>2. CASE Nfs
  <2>1. backend = "Nfs" /\ backend' = "Nfs" /\ NfsNext
    BY <1>2 DEF Nfs, NfsStep, mountVars
  <2>2. NfsOwn /\ NfsReading
    BY <1>1, <2>1 DEF HandleInv, ReadInv
  <2>3. AppInv' /\ NfsReading' /\ [F!RNext]_(F!rvars)
    BY <1>1, <2>1, <2>2, NfsReads
  <2> QED BY <1>1, <2>1, <2>3 DEF ReadInv
<1>3. CASE Fuse
  <2>1. backend = "Fuse" /\ backend' = "Fuse" /\ FuseNext
    BY <1>3 DEF Fuse, FuseStep, mountVars
  <2>2. (Attached => FuseOwn) /\ IF Attached THEN FuseReading ELSE outcome # "reading"
    BY <1>1, <2>1 DEF HandleInv, ReadInv
  <2>3. /\ AppInv' /\ [F!RNext]_(F!rvars)
        /\ IF Attached' THEN FuseReading' ELSE outcome' # "reading"
    BY <1>1, <2>1, <2>2, FuseReads
  <2> QED BY <1>1, <2>1, <2>3 DEF ReadInv
<1>4. CASE Mount
  <2>1. /\ backend = "none" /\ Start /\ Quiet
        /\ UNCHANGED <<gen, open_files, reqs, reps, pc, req, res, hnd, todo, got, xid, waiting,
                       node, held, ahead, busy>>
    BY <1>1, <1>4 DEF Mount, MountFuse, MountNfs, MountCfApi, Refused, Becomes, ReadInv, HandleInv,
                      fs, threads
  <2>2. AppInv' /\ Here' = Here
    BY <1>1, <2>1, SamePlace
  <2>3. CASE Refused
    <3>1. backend' = "refused" /\ outcome' = "failed"
      BY <2>3 DEF Refused, Becomes
    <3> QED BY <1>1, <2>1, <2>2, <3>1 DEF ReadInv, Start, F!RNext, F!Fail
  <2>4. CASE \E p \in Mountpoints : MountFuse(p)
    <3>1. backend' = "Fuse" /\ life' = "up" /\ UNCHANGED outcome
      BY <2>4 DEF MountFuse, Becomes
    <3>2. FuseRequests' /\ FuseReplies'
      BY <2>1 DEF Quiet, Start, FuseRequests, FuseReplies
    <3>3. FuseReading'
      BY <2>1, <2>2, <3>2 DEF Quiet, Start, FuseReading
    <3> QED BY <1>1, <2>1, <2>2, <3>1, <3>3 DEF ReadInv, Attached
  <2>5. CASE \E p \in Mountpoints : MountNfs(p)
    <3>1. backend' = "Nfs" /\ UNCHANGED outcome /\ (cur' = Encode(ROOT_INO) \/ cur' = NoHandle)
      BY <2>5 DEF MountNfs, Becomes
    <3>2. Encode(ROOT_INO) = First(ROOT_INO)
      BY <2>1 DEF Encode, First, Start
    <3>3. 1 \in 1 .. MaxGen
      BY NfsProcAssumption
    <3>4. NfsReading'
      BY <2>1, <2>2, <3>1, <3>2, <3>3 DEF Quiet, Start, NfsReading
    <3> QED BY <1>1, <2>1, <2>2, <3>1, <3>4 DEF ReadInv
  <2>6. CASE \E p \in Mountpoints : MountCfApi(p)
    <3>1. backend' = "CfApi" /\ UNCHANGED outcome
      BY <2>6 DEF MountCfApi, Becomes
    <3> QED BY <1>1, <2>1, <2>2, <3>1 DEF ReadInv
  <2> QED BY <1>4, <2>3, <2>4, <2>5, <2>6 DEF Mount
<1>5. CASE Configure \/ UNCHANGED vars
  <2>1. UNCHANGED <<serving, nfsClient, fuseVars, backend>>
    BY <1>5 DEF Configure, vars, mountVars
  <2>2. /\ UNCHANGED <<gen, open_files, reqs, reps, pc, req, res, hnd>>
        /\ UNCHANGED <<todo, got, outcome, cur, xid, call, waiting>>
        /\ UNCHANGED <<node, held, ahead, busy, life, backend>>
    BY <2>1 DEF serving, fs, threads, nfsClient, fuseVars, kernel, session
  <2>3. AppInv' /\ Here' = Here /\ There' = There
    BY <1>1, <2>2, SamePlace
  <2>4. Start => Start'
    BY <2>2, <2>3 DEF Start
  <2>5. backend = "Nfs" => NfsReading'
    <3>1. PICK w \in Workers : TRUE
      BY ServingAssumption
    <3>2. ASSUME NfsReading PROVE NfsReading'
      <4>1. pc[w] # "idle" => ThreadOK(w)
        BY <3>2 DEF NfsReading
      <4>2. UNCHANGED <<gen, app, nfsClient>>
        BY <2>1, <2>2
      <4> QED BY <2>2, <3>2, <4>1, <4>2, ServeKeeps DEF ThreadOK
    <3> QED BY <3>2 DEF ReadInv
  <2>6. FuseReading => FuseReading'
    <3>1. ASSUME FuseReading PROVE FuseRequests' /\ FuseReplies'
      BY <2>2, <3>1, FlightKeeps
    <3> QED BY <2>2, <2>3, <3>1 DEF FuseReading
  <2>7. Attached' = Attached
    BY <2>2 DEF Attached
  <2> QED BY <1>1, <2>2, <2>3, <2>4, <2>5, <2>6, <2>7 DEF ReadInv
<1> QED BY <1>2, <1>3, <1>4, <1>5 DEF Next

\* Over either backend the application sees the bytes of the file in order, the end
\* only behind the last of them, or an error: the threads of the server, a transport
\* that loses, repeats and reorders, a program that was replaced, reads that overtake
\* one another and excessive byte counts show it nothing else.
THEOREM ReadImplementsFileRead == Spec => ImplementsFileRead
BY ReadInit, ReadNext, PTL DEF Spec, ImplementsFileRead, F!RSpec

\* A MNT call that is no probe has the path that the first program made.
MntPath(m) ==
    (m.op = "mnt" /\ ~IsProbe(m)) => \E n \in FsNames : m.path = ExportPathFor(HexOf(1), n)

PathInv ==
    /\ gen \in 1 .. MaxGen
    /\ waiting => MntPath(call)
    /\ \A m \in reqs : MntPath(m)

LEMMA PathNext == PathInv /\ [Next]_vars => PathInv'
<1> SUFFICES ASSUME PathInv, [Next]_vars PROVE PathInv'
  OBVIOUS
<1> USE DEF fs, threads, serving, app, kernel, session, counts, fuseVars, mountVars, nfsClient
<1>1. ASSUME UNCHANGED <<gen, call, waiting>>,
             \A m \in reqs' : m \in reqs \/ m.op # "mnt" \/ (waiting /\ m = call)
      PROVE  PathInv'
  BY <1>1 DEF PathInv, MntPath
<1>2. CASE Configure \/ UNCHANGED vars
  BY <1>1, <1>2 DEF Configure, vars
<1>3. CASE Mount
  <2>1. UNCHANGED <<gen, call, waiting, reqs>>
    BY <1>3 DEF Mount, MountFuse, MountNfs, MountCfApi, Refused, Becomes
  <2> QED BY <1>1, <2>1
<1>4. ASSUME NfsNext PROVE PathInv'
  <2>1. ASSUME NEW w \in Workers, NfsServe(w) PROVE PathInv'
    <3>1. UNCHANGED <<gen, call, waiting>>
      BY <2>1 DEF NfsServe, NfsDispatch, NfsGetattr, NfsDecide, NfsOpen, NfsReadAt, NfsRelease,
                  NfsReply, Opened, Released
    <3>2. \A m \in reqs' : m \in reqs
      BY <2>1 DEF NfsServe, NfsDispatch, NfsGetattr, NfsDecide, NfsOpen, NfsReadAt, NfsRelease, NfsReply
    <3> QED BY <1>1, <3>1, <3>2
  <2>2. CASE NfsCall
    <3>1. UNCHANGED gen /\ reqs' = reqs \union {call'}
      BY <2>2 DEF NfsCall
    <3>2. MntPath(call')
      <4>1. CASE call' \in ProbeCalls
        BY <4>1, ProbeCall DEF MntPath, IsProbe
      <4>2. CASE call' \in NextCalls
        BY <4>2 DEF NextCalls, Request, MntPath
      <4> QED BY <2>2, <4>1, <4>2 DEF NfsCall
    <3>3. \A m \in reqs' : MntPath(m)
      BY <3>1, <3>2 DEF PathInv
    <3> QED BY <3>1, <3>2, <3>3 DEF PathInv, MntPath
  <2>3. CASE NfsReceive
    <3>1. UNCHANGED <<gen, reqs>> /\ (UNCHANGED <<call, waiting>> \/ ~waiting')
      BY <2>3 DEF NfsReceive, Accept
    <3> QED BY <3>1 DEF PathInv, MntPath
  <2>4. CASE NfsRetransmit \/ NfsLose
    BY <1>1, <2>4 DEF NfsRetransmit, NfsLose
  <2>5. CASE NfsGiveUp
    BY <2>5 DEF NfsGiveUp, PathInv, MntPath
  <2>6. CASE NfsRestart
    <3>1. gen < MaxGen /\ gen' = gen + 1 /\ UNCHANGED <<reqs, call, waiting>>
      BY <2>6 DEF NfsRestart
    <3>2. gen' \in 1 .. MaxGen
      BY <3>1, NfsProcAssumption DEF PathInv
    <3> QED BY <3>1, <3>2 DEF PathInv, MntPath
  <2> QED BY <1>4, <2>1, <2>2, <2>3, <2>4, <2>5, <2>6 DEF NfsNext
<1>5. ASSUME FuseNext, UNCHANGED nfsClient PROVE PathInv'
  <2>1. ASSUME NEW w \in Workers, FuseServe(w) PROVE UNCHANGED gen /\ \A m \in reqs' : m \in reqs
    <3>1. ASSUME NEW m, Take(w, m) PROVE \A n \in reqs' : n \in reqs
      BY <3>1 DEF Take
    <3>2. CASE FuseLookup(w) \/ FuseGetattr(w) \/ FuseReaddir(w) \/ FuseXattr(w)
      BY <3>1, <3>2 DEF FuseLookup, FuseGetattr, FuseReaddir, FuseXattr
    <3>3. CASE FuseOpen(w) \/ FuseRead(w) \/ FuseRelease(w) \/ FuseForget(w)
      BY <3>1, <3>3 DEF FuseOpen, FuseRead, FuseRelease, FuseForget, Opened, Released
    <3>4. CASE FuseReply(w)
      BY <3>4 DEF FuseReply
    <3> QED BY <2>1, <3>2, <3>3, <3>4 DEF FuseServe
  <2>2. ASSUME NEW m, Submit(m), m.op # "mnt" PROVE PathInv'
    BY <1>1, <1>5, <2>2 DEF Submit
  <2>3. ASSUME NEW m, Ask(m), m.op # "mnt" PROVE PathInv'
    BY <2>2, <2>3 DEF Ask
  <2>4. CASE ReaderAsks
    <3>1. ([Req("reader", "lookup", node) EXCEPT !.name = Head(todo)]).op # "mnt"
      BY DEF Req
    <3>2. (Req("reader", "open", node)).op # "mnt"
      BY DEF Req
    <3>3. \A n : ([Req("reader", "read", node) EXCEPT
                     !.fh = held, !.offset = Len(got), !.size = n]).op # "mnt"
      BY DEF Req
    <3> QED BY <2>3, <2>4, <3>1, <3>2, <3>3 DEF ReaderAsks
  <2>5. CASE Readahead
    <3>1. \A n : ([Req("readahead", "read", node) EXCEPT
                     !.fh = held, !.offset = Len(got) + n, !.size = n]).op # "mnt"
      BY DEF Req
    <3> QED BY <2>3, <2>5, <3>1 DEF Readahead
  <2>6. CASE OtherAsks
    <3>1. PICK op \in Extras, n \in XattrSizes, cookie \in {0, 2} :
            Ask([Req("other", op, ROOT_INO) EXCEPT !.name = Path[1], !.size = n, !.offset = cookie])
      BY <2>6 DEF OtherAsks
    <3>2. op # "mnt"
      BY FuseAssumption
    <3>3. ([Req("other", op, ROOT_INO) EXCEPT !.name = Path[1], !.size = n, !.offset = cookie]).op = op
      BY DEF Req
    <3> QED BY <2>3, <3>1, <3>2, <3>3
  <2>7. CASE Close \/ \E i \in Inos : Forget(i)
    <3>1. ([Req("none", "release", node) EXCEPT !.fh = held]).op # "mnt"
      BY DEF Req
    <3>2. \A i : ([Req("none", "forget", i) EXCEPT !.nlookup = refs[i]]).op # "mnt"
      BY DEF Req
    <3> QED BY <2>2, <2>7, <3>1, <3>2 DEF Close, Forget
  <2>8. CASE UseAhead \/ (\E who \in Procs : FuseReceive(who)) \/ FuseUnmount \/ FuseJoin
    <3>1. UNCHANGED gen /\ \A m \in reqs' : m \in reqs
      BY <2>8 DEF UseAhead, FuseReceive, FuseUnmount, FuseJoin
    <3> QED BY <1>1, <1>5, <3>1
  <2> QED BY <1>1, <1>5, <2>1, <2>4, <2>5, <2>6, <2>7, <2>8 DEF FuseNext
<1> QED BY <1>2, <1>3, <1>4, <1>5 DEF Next, Nfs, NfsStep, Fuse, FuseStep

\* Whatever the filesystem is called, however long its name, the path handed to
\* mount_nfs opens the program it was made for, none that comes after it, and ends in
\* a volume name with nothing in it that the label must not have.
THEOREM ExportPathOpens == Spec => []ExportPathHolds
<1>1. Init => PathInv
  <2>1. 1 \in 1 .. MaxGen
    BY NfsProcAssumption
  <2> QED BY <2>1 DEF Init, ServingInit, FsInit, NfsClientInit, PathInv
<1>2. ASSUME PathInv PROVE ExportPathHolds
  <2>1. ASSUME NEW m \in reqs, m.op = "mnt", ~IsProbe(m)
        PROVE  /\ Mnt(m.path, HexOf(gen)) = IF gen = 1 THEN "MNT3_OK" ELSE "MNT3ERR_ACCES"
               /\ Len(m.path) > 2
               /\ \A i \in 3 .. Len(m.path) : ~Rejected(m.path[i])
               /\ ~Trimmed(m.path[3]) /\ ~Trimmed(m.path[Len(m.path)])
    <3>1. PICK n \in FsNames : m.path = ExportPathFor(HexOf(1), n)
      BY <1>2, <2>1 DEF PathInv, MntPath
    <3>2. HexOf(1) \in Hex /\ n \in Seq(STRING) /\ (HexOf(1) = HexOf(gen) => gen = 1)
      BY <1>2, NfsProcAssumption DEF HexOf, PathInv
    <3>3. PICK path : path = m.path
      OBVIOUS
    <3>4. /\ Len(path) > 2
          /\ \A i \in 3 .. Len(path) : ~Rejected(path[i])
          /\ ~Trimmed(path[3]) /\ ~Trimmed(path[Len(path)])
          /\ Mnt(path, HexOf(gen)) = IF HexOf(1) = HexOf(gen) THEN "MNT3_OK" ELSE "MNT3ERR_ACCES"
      BY <3>1, <3>2, <3>3, PathFacts
    <3> QED BY <3>2, <3>3, <3>4
  <2> QED BY <2>1 DEF ExportPathHolds
<1>3. PathInv => ExportPathHolds
  BY <1>2
<1> QED BY <1>1, <1>3, PathNext, PTL DEF Spec
==============================================================================
