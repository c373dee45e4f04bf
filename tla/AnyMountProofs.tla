--------------------------- MODULE AnyMountProofs ----------------------------
(***************************************************************************)
(* Reading through a mount, for every tree, file, path, number of threads, *)
(* of programs and of faults: who holds the filesystem's open handles.     *)
(***************************************************************************)
EXTENDS AnyMount, TLAPS

HandleTypes ==
    /\ next_handle \in Nat \ {0}
    /\ DOMAIN open_files \subseteq 1 .. next_handle - 1
    /\ hnd \in [Workers -> Nat]
    /\ DOMAIN pc = Workers /\ DOMAIN req = Workers /\ DOMAIN res = Workers

\* Before there is a mount, and without one, nothing is open or on its way.
Quiet ==
    /\ DOMAIN open_files = {} /\ reqs = {} /\ reps = {} /\ held = 0 /\ busy = {}
    /\ \A w \in Workers : pc[w] = "idle" /\ hnd[w] = 0

\* NFS: a thread has a handle between its open and its release, and no other does.
NfsOwn ==
    /\ \A w \in Workers : hnd[w] # 0 <=> pc[w] \in {"read", "release"}
    /\ \A w \in Workers : hnd[w] # 0 => /\ hnd[w] \in DOMAIN open_files
                                        /\ open_files[hnd[w]] = req[w].fh.ino
    /\ \A h \in DOMAIN open_files : \E w \in Workers : hnd[w] = h
    /\ \A v, w \in Workers : hnd[v] = hnd[w] /\ hnd[v] # 0 => v = w

\* FUSE: what a request, a callback or a reply is about.  The process that asked is
\* waiting for it; while an open is on its way the reader has no file.
Asked(m) ==
    /\ \/ m.who = "reader" /\ m.op \in {"lookup", "open", "read"}
       \/ m.who = "readahead" /\ m.op = "read"
       \/ m.who = "other" /\ m.op \in {"lookup", "getattr", "statfs", "readdir", "getxattr",
                                       "listxattr"}
       \/ m.who = "none" /\ m.op \in {"release", "forget"}
    /\ m.who # "none" => m.who \in busy
    /\ m.op = "open" => held = 0 /\ outcome = "reading"

FlightInv ==
    /\ \A m \in reqs : Asked(m)
    /\ \A w \in Workers : pc[w] = "reply" => Asked(req[w])
    /\ \A m \in reps : Asked(m) /\ m.who # "none"

\* A process has one request on its way, in one place.
OnceInv ==
    /\ \A m, n \in reqs : m.who = n.who /\ m.who # "none" => m = n
    /\ \A m \in reqs, w \in Workers : pc[w] = "reply" /\ m.who # "none" => req[w].who # m.who
    /\ \A m \in reqs, n \in reps : m.who # n.who
    /\ \A v, w \in Workers :
         (pc[v] = "reply" /\ pc[w] = "reply" /\ req[v].who = req[w].who /\ req[v].who # "none")
            => v = w
    /\ \A w \in Workers, n \in reps : pc[w] = "reply" => req[w].who # n.who
    /\ \A m, n \in reps : m.who = n.who => m = n

\* Every open handle is in one of four places, and no handle that is to be released
\* is in another.
PlaceInv ==
    /\ held \in Nat /\ (held # 0 => held \in DOMAIN open_files)
    /\ \A w \in Workers : hnd[w] # 0 => /\ pc[w] = "reply" /\ req[w].op = "open"
                                        /\ res[w].err = "Ok" /\ hnd[w] \in DOMAIN open_files
    /\ \A m \in reps : m.op = "open" /\ m.fh # 0 => m.errno = 0 /\ m.fh \in DOMAIN open_files
    /\ \A m \in reqs : m.op = "release" => m.fh \in DOMAIN open_files
    /\ \A m \in reqs : m.op = "read" => m.fh = held /\ held # 0
    /\ \A h \in DOMAIN open_files :
         \/ h = held
         \/ \E w \in Workers : hnd[w] = h
         \/ \E m \in reps : m.op = "open" /\ m.fh = h
         \/ \E m \in reqs : m.op = "release" /\ m.fh = h
    /\ \A m \in reqs : m.op = "release" =>
         /\ m.fh # held
         /\ \A w \in Workers : hnd[w] # m.fh
         /\ \A n \in reps : n.op = "open" => n.fh # m.fh
         /\ \A n \in reqs : n.op = "release" /\ n.fh = m.fh => n = m

FuseOwn == FlightInv /\ OnceInv /\ PlaceInv

HandleInv ==
    /\ HandleTypes
    /\ backend \notin {"Nfs", "Fuse"} => Quiet
    /\ backend = "Nfs" => NfsOwn
    /\ backend = "Fuse" /\ Attached => FuseOwn

------------------------------------------------------------------------------
(* Opening and releasing *)

LEMMA ZeroIsNoHandle == HandleTypes => 0 \notin DOMAIN open_files
BY DEF HandleTypes

LEMMA OpenAdds ==
    ASSUME HandleTypes, NEW ino, Opened(ino)
    PROVE  /\ DOMAIN open_files' = DOMAIN open_files \union {next_handle}
           /\ next_handle \notin DOMAIN open_files /\ next_handle # 0
           /\ open_files'[next_handle] = ino
           /\ \A h \in DOMAIN open_files : open_files'[h] = open_files[h]
           /\ next_handle' \in Nat \ {0} /\ DOMAIN open_files' \subseteq 1 .. next_handle' - 1
<1>1. next_handle \in Nat \ {0} /\ DOMAIN open_files \subseteq 1 .. next_handle - 1
  BY DEF HandleTypes
<1>2. /\ open_files' = [h \in DOMAIN open_files \union {next_handle} |->
                          IF h = next_handle THEN ino ELSE open_files[h]]
      /\ next_handle' = next_handle + 1
  BY DEF Opened
<1>3. next_handle \notin DOMAIN open_files
  BY <1>1
<1>4. DOMAIN open_files' = DOMAIN open_files \union {next_handle}
  BY <1>2
<1>5. open_files'[next_handle] = ino /\ \A h \in DOMAIN open_files : open_files'[h] = open_files[h]
  BY <1>2, <1>3
<1>6. next_handle' \in Nat \ {0} /\ DOMAIN open_files' \subseteq 1 .. next_handle' - 1
  BY <1>1, <1>2, <1>4
<1> QED BY <1>1, <1>3, <1>4, <1>5, <1>6

LEMMA ReleaseRemoves ==
    ASSUME HandleTypes, NEW fh, Released(fh)
    PROVE  /\ DOMAIN open_files' = DOMAIN open_files \ {fh}
           /\ \A h \in DOMAIN open_files \ {fh} : open_files'[h] = open_files[h]
           /\ next_handle' = next_handle
BY DEF Released

LEMMA HandleTypesNext ==
    ASSUME HandleTypes, Next
    PROVE  HandleTypes'
<1> USE DEF fs, threads, serving, nfsClient, fuseVars, mountVars, kernel, session, counts, app
<1>0. /\ next_handle \in Nat \ {0} /\ DOMAIN open_files \subseteq 1 .. next_handle - 1
      /\ hnd \in [Workers -> Nat]
      /\ DOMAIN pc = Workers /\ DOMAIN req = Workers /\ DOMAIN res = Workers
  BY DEF HandleTypes
<1>1. ASSUME UNCHANGED <<fs, threads>> PROVE HandleTypes'
  BY <1>1 DEF HandleTypes
<1>2. CASE Configure \/ Mount
  <2>1. UNCHANGED <<fs, threads>>
    BY <1>2 DEF Configure, Mount, MountFuse, MountNfs, MountCfApi, Refused, Becomes
  <2> QED BY <1>1, <2>1
<1>3. ASSUME NEW w \in Workers, NfsServe(w) PROVE HandleTypes'
  <2>1. CASE NfsDispatch(w)
    BY <1>0, <2>1 DEF NfsDispatch, HandleTypes
  <2>2. CASE NfsGetattr(w) \/ NfsReply(w)
    <3>1. UNCHANGED fs /\ \E m : Send(w, m)
      BY <2>2 DEF NfsGetattr, NfsReply
    <3> QED BY <1>0, <3>1 DEF Send, HandleTypes
  <2>3. CASE NfsDecide(w) \/ NfsReadAt(w)
    BY <1>0, <2>3 DEF NfsDecide, NfsReadAt, HandleTypes
  <2>4. CASE NfsOpen(w)
    <3>1. CASE UNCHANGED <<fs, hnd>>
      BY <1>0, <2>4, <3>1 DEF NfsOpen, HandleTypes
    <3>2. ASSUME NEW r, Opened(r.ino), hnd' = [hnd EXCEPT ![w] = next_handle] PROVE HandleTypes'
      <4>1. next_handle' \in Nat \ {0} /\ DOMAIN open_files' \subseteq 1 .. next_handle' - 1
        BY <3>2, OpenAdds
      <4>2. hnd' \in [Workers -> Nat]
        BY <1>0, <3>2
      <4>3. DOMAIN pc' = Workers /\ DOMAIN req' = Workers /\ DOMAIN res' = Workers
        BY <1>0, <2>4 DEF NfsOpen
      <4> QED BY <4>1, <4>2, <4>3 DEF HandleTypes
    <3> QED BY <2>4, <3>1, <3>2 DEF NfsOpen
  <2>5. CASE NfsRelease(w)
    <3>1. DOMAIN open_files' \subseteq DOMAIN open_files /\ UNCHANGED next_handle
      BY <2>5, ReleaseRemoves DEF NfsRelease
    <3> QED BY <1>0, <2>5, <3>1 DEF NfsRelease, HandleTypes
  <2> QED BY <1>3, <2>1, <2>2, <2>3, <2>4, <2>5 DEF NfsServe
<1>4. CASE NfsCall \/ NfsReceive \/ NfsRetransmit \/ NfsLose \/ NfsGiveUp
  <2>1. UNCHANGED <<fs, threads>>
    BY <1>4 DEF NfsCall, NfsReceive, NfsRetransmit, NfsLose, NfsGiveUp
  <2> QED BY <1>1, <2>1
<1>5. CASE NfsRestart
  BY <1>5 DEF NfsRestart, HandleTypes
<1>6. ASSUME NEW w \in Workers, NEW m, NEW r, NEW h \in Nat, Answering(w, m, r, h)
      PROVE  /\ hnd' \in [Workers -> Nat]
             /\ DOMAIN pc' = Workers /\ DOMAIN req' = Workers /\ DOMAIN res' = Workers
  BY <1>0, <1>6 DEF Answering
<1>7. ASSUME NEW w \in Workers, FuseServe(w) PROVE HandleTypes'
  <2>1. ASSUME UNCHANGED fs, NEW m, NEW r, Answering(w, m, r, 0) PROVE HandleTypes'
    BY <1>0, <1>6, <2>1 DEF HandleTypes
  <2>2. CASE FuseLookup(w) \/ FuseGetattr(w) \/ FuseRead(w) \/ FuseReaddir(w) \/ FuseXattr(w)
    BY <2>1, <2>2 DEF FuseLookup, FuseGetattr, FuseRead, FuseReaddir, FuseXattr
  <2>3. CASE FuseOpen(w)
    <3>1. ASSUME NEW m, NEW r, Answering(w, m, r, next_handle), Opened(r.ino) PROVE HandleTypes'
      <4>1. next_handle' \in Nat \ {0} /\ DOMAIN open_files' \subseteq 1 .. next_handle' - 1
        BY <3>1, OpenAdds
      <4> QED BY <1>0, <1>6, <3>1, <4>1 DEF HandleTypes
    <3> QED BY <2>1, <2>3, <3>1 DEF FuseOpen
  <2>4. CASE FuseRelease(w)
    <3>1. PICK m : Answering(w, m, Ok(0), 0) /\ Released(m.fh)
      BY <2>4 DEF FuseRelease
    <3>2. DOMAIN open_files' \subseteq DOMAIN open_files /\ UNCHANGED next_handle
      BY <3>1, ReleaseRemoves
    <3> QED BY <1>0, <1>6, <3>1, <3>2 DEF HandleTypes
  <2>5. CASE FuseForget(w)
    BY <1>1, <2>5 DEF FuseForget
  <2>6. CASE FuseReply(w)
    BY <1>0, <2>6 DEF FuseReply, HandleTypes
  <2> QED BY <1>7, <2>2, <2>3, <2>4, <2>5, <2>6 DEF FuseServe
<1>8. CASE \/ ReaderAsks \/ Readahead \/ OtherAsks \/ UseAhead \/ Close
           \/ (\E who \in Procs : FuseReceive(who)) \/ (\E i \in Inos : Forget(i))
           \/ FuseUnmount \/ FuseJoin
  <2>1. UNCHANGED <<fs, threads>>
    BY <1>8 DEF ReaderAsks, Readahead, OtherAsks, Ask, Submit, UseAhead, Close, FuseReceive,
                Forget, FuseUnmount, FuseJoin
  <2> QED BY <1>1, <2>1
<1> QED BY <1>2, <1>3, <1>4, <1>5, <1>7, <1>8
        DEF Next, Nfs, NfsStep, NfsNext, Fuse, FuseStep, FuseNext

------------------------------------------------------------------------------
(* Handles over NFS *)

LEMMA OpenResults ==
    ASSUME NEW ino, NEW r \in Results(OpenResult(ino)), r.err = "Ok"
    PROVE  r.ino = ino
BY DEF Results, OpenResult, Attr, Ok, Err

LEMMA NfsOwnNext ==
    ASSUME HandleTypes, NfsOwn, NfsNext
    PROVE  NfsOwn'
<1> USE DEF fs, threads, nfsClient, app
<1>0. /\ hnd \in [Workers -> Nat]
      /\ DOMAIN pc = Workers /\ DOMAIN req = Workers /\ DOMAIN res = Workers
  BY DEF HandleTypes
<1>1. ASSUME UNCHANGED <<fs, threads>> PROVE NfsOwn'
  BY <1>1 DEF NfsOwn
<1>2. ASSUME NEW w \in Workers, hnd[w] = 0, UNCHANGED fs,
             \A v \in Workers : hnd'[v] = hnd[v],
             \A v \in Workers : v # w => pc'[v] = pc[v] /\ req'[v] = req[v],
             pc'[w] \notin {"read", "release"}
      PROVE  NfsOwn'
  BY <1>2 DEF NfsOwn
<1>3. ASSUME NEW w \in Workers, NfsServe(w) PROVE NfsOwn'
  <2>1. CASE NfsDispatch(w)
    <3>1. hnd[w] = 0 /\ UNCHANGED fs /\ UNCHANGED hnd
      BY <2>1 DEF NfsDispatch, NfsOwn
    <3>2. pc'[w] \notin {"read", "release"}
      BY <1>0, <2>1 DEF NfsDispatch
    <3>3. \A v \in Workers : v # w => pc'[v] = pc[v] /\ req'[v] = req[v]
      BY <1>0, <2>1 DEF NfsDispatch
    <3> QED BY <1>2, <3>1, <3>2, <3>3
  <2>2. CASE NfsGetattr(w) \/ NfsReply(w)
    <3>1. UNCHANGED fs /\ \E m : Send(w, m)
      BY <2>2 DEF NfsGetattr, NfsReply
    <3>2. hnd[w] = 0
      BY <2>2 DEF NfsGetattr, NfsReply, NfsOwn
    <3>3. /\ \A v \in Workers : hnd'[v] = hnd[v]
          /\ \A v \in Workers : v # w => pc'[v] = pc[v] /\ req'[v] = req[v]
          /\ pc'[w] = "idle"
      BY <1>0, <3>1, <3>2 DEF Send
    <3> QED BY <1>2, <3>1, <3>2, <3>3
  <2>3. CASE NfsDecide(w)
    <3>1. hnd[w] = 0 /\ UNCHANGED <<fs, hnd, req>>
      BY <2>3 DEF NfsDecide, NfsOwn
    <3>2. pc'[w] = "attr" /\ \A v \in Workers : v # w => pc'[v] = pc[v]
      BY <1>0, <2>3 DEF NfsDecide
    <3> QED BY <1>2, <3>1, <3>2
  <2>4. CASE NfsOpen(w)
    <3>1. hnd[w] = 0 /\ UNCHANGED req
      BY <2>4 DEF NfsOpen, NfsOwn
    <3>2. CASE UNCHANGED <<fs, hnd>> /\ pc' = [pc EXCEPT ![w] = "attr"]
      BY <1>0, <1>2, <3>1, <3>2
    <3>3. ASSUME NEW r \in Results(OpenResult(req[w].fh.ino)), r.err = "Ok", Opened(r.ino),
                 hnd' = [hnd EXCEPT ![w] = next_handle], pc' = [pc EXCEPT ![w] = "read"]
          PROVE  NfsOwn'
      <4>1. r.ino = req[w].fh.ino
        BY <3>3, OpenResults
      <4>2. /\ DOMAIN open_files' = DOMAIN open_files \union {next_handle}
            /\ next_handle \notin DOMAIN open_files /\ next_handle # 0
            /\ open_files'[next_handle] = req[w].fh.ino
            /\ \A h \in DOMAIN open_files : open_files'[h] = open_files[h]
        BY <3>3, <4>1, OpenAdds
      <4>3. /\ hnd'[w] = next_handle /\ pc'[w] = "read"
            /\ \A v \in Workers : v # w => hnd'[v] = hnd[v] /\ pc'[v] = pc[v]
        BY <1>0, <3>3
      <4>4. \A v \in Workers : hnd'[v] # 0 <=> pc'[v] \in {"read", "release"}
        BY <4>2, <4>3 DEF NfsOwn
      <4>5. \A v \in Workers : hnd'[v] # 0 => /\ hnd'[v] \in DOMAIN open_files'
                                              /\ open_files'[hnd'[v]] = req'[v].fh.ino
        BY <3>1, <4>2, <4>3 DEF NfsOwn
      <4>6. \A h \in DOMAIN open_files' : \E v \in Workers : hnd'[v] = h
        BY <3>1, <4>2, <4>3, ZeroIsNoHandle DEF NfsOwn
      <4>7. \A u, v \in Workers : hnd'[u] = hnd'[v] /\ hnd'[u] # 0 => u = v
        BY <4>2, <4>3 DEF NfsOwn
      <4> QED BY <4>4, <4>5, <4>6, <4>7 DEF NfsOwn
    <3> QED BY <2>4, <3>2, <3>3 DEF NfsOpen
  <2>5. CASE NfsReadAt(w)
    <3>1. UNCHANGED <<fs, hnd, req>> /\ pc[w] = "read" /\ pc' = [pc EXCEPT ![w] = "release"]
      BY <2>5 DEF NfsReadAt, AfterRead
    <3>2. \A v \in Workers : pc'[v] \in {"read", "release"} <=> pc[v] \in {"read", "release"}
      BY <1>0, <3>1
    <3> QED BY <3>1, <3>2 DEF NfsOwn
  <2>6. CASE NfsRelease(w)
    <3>1. /\ pc[w] = "release" /\ hnd[w] # 0 /\ hnd[w] \in DOMAIN open_files
          /\ UNCHANGED req
      BY <2>6 DEF NfsRelease, NfsOwn
    <3>2. /\ DOMAIN open_files' = DOMAIN open_files \ {hnd[w]}
          /\ \A h \in DOMAIN open_files \ {hnd[w]} : open_files'[h] = open_files[h]
      BY <2>6, ReleaseRemoves DEF NfsRelease
    <3>3. /\ hnd'[w] = 0 /\ pc'[w] = "attr"
          /\ \A v \in Workers : v # w => hnd'[v] = hnd[v] /\ pc'[v] = pc[v]
      BY <1>0, <2>6 DEF NfsRelease
    <3>4. \A v \in Workers : hnd'[v] # 0 <=> pc'[v] \in {"read", "release"}
      BY <3>3 DEF NfsOwn
    <3>5. \A v \in Workers : hnd'[v] # 0 => /\ hnd'[v] \in DOMAIN open_files'
                                            /\ open_files'[hnd'[v]] = req'[v].fh.ino
      BY <3>1, <3>2, <3>3 DEF NfsOwn
    <3>6. \A h \in DOMAIN open_files' : \E v \in Workers : hnd'[v] = h
      BY <3>1, <3>2, <3>3 DEF NfsOwn
    <3>7. \A u, v \in Workers : hnd'[u] = hnd'[v] /\ hnd'[u] # 0 => u = v
      BY <3>3 DEF NfsOwn
    <3> QED BY <3>4, <3>5, <3>6, <3>7 DEF NfsOwn
  <2> QED BY <1>3, <2>1, <2>2, <2>3, <2>4, <2>5, <2>6 DEF NfsServe
<1>4. CASE NfsCall \/ NfsReceive \/ NfsRetransmit \/ NfsLose \/ NfsGiveUp
  <2>1. UNCHANGED <<fs, threads>>
    BY <1>4 DEF NfsCall, NfsReceive, NfsRetransmit, NfsLose, NfsGiveUp
  <2> QED BY <1>1, <2>1
<1>5. CASE NfsRestart
  <2>1. DOMAIN open_files' = {} /\ \A w \in Workers : hnd'[w] = 0 /\ pc'[w] = "idle"
    BY <1>5 DEF NfsRestart
  <2> QED BY <2>1 DEF NfsOwn
<1> QED BY <1>3, <1>4, <1>5 DEF NfsNext

------------------------------------------------------------------------------
(* Handles over FUSE *)

\* A callback takes a request off the queue.
LEMMA TakeFlight ==
    ASSUME HandleTypes, FlightInv, OnceInv, NEW w \in Workers, NEW m \in reqs,
           pc[w] = "idle", reqs' = reqs \ {m},
           pc' = [pc EXCEPT ![w] = "reply"], req' = [req EXCEPT ![w] = m],
           UNCHANGED <<reps, busy, held, outcome>>
    PROVE  FlightInv' /\ OnceInv'
<1>1. /\ pc'[w] = "reply" /\ req'[w] = m
      /\ \A v \in Workers : v # w => pc'[v] = pc[v] /\ req'[v] = req[v]
  BY DEF HandleTypes
<1>2. \A x : Asked(x) => Asked(x)'
  BY DEF Asked
<1>3. FlightInv'
  <2>1. Asked(m)
    BY DEF FlightInv
  <2>2. \A n \in reqs' : Asked(n)'
    BY <1>2 DEF FlightInv
  <2>3. \A n \in reps' : Asked(n)' /\ n.who # "none"
    BY <1>2 DEF FlightInv
  <2>4. \A v \in Workers : pc'[v] = "reply" => Asked(req[v])'
    BY <1>1, <1>2, <2>1 DEF FlightInv, Asked
  <2> QED BY <2>2, <2>3, <2>4 DEF FlightInv
<1>4. OnceInv'
  BY <1>1 DEF OnceInv
<1> QED BY <1>3, <1>4

\* One that is not about a handle leaves the handles where they are.
LEMMA TakePlain ==
    ASSUME HandleTypes, FuseOwn, NEW w \in Workers, NEW m \in reqs, NEW r,
           m.op \notin {"open", "release"}, Take(w, m), Answering(w, m, r, 0), UNCHANGED fs
    PROVE  FuseOwn'
<1> USE DEF fs, app, kernel, session
<1>1. /\ pc[w] = "idle" /\ reqs' = reqs \ {m} /\ pc' = [pc EXCEPT ![w] = "reply"]
      /\ req' = [req EXCEPT ![w] = m] /\ res' = [res EXCEPT ![w] = r]
      /\ hnd' = [hnd EXCEPT ![w] = 0] /\ UNCHANGED <<reps, busy, held, outcome, open_files>>
  BY DEF Take, Answering
<1>2. FlightInv' /\ OnceInv'
  BY <1>1, TakeFlight DEF FuseOwn
<1>3. hnd[w] = 0
  BY <1>1 DEF FuseOwn, PlaceInv
<1>4. /\ \A v \in Workers : hnd'[v] = hnd[v]
      /\ \A v \in Workers : v # w => pc'[v] = pc[v] /\ req'[v] = req[v] /\ res'[v] = res[v]
  BY <1>1, <1>3 DEF HandleTypes
<1>5. PlaceInv'
  BY <1>1, <1>3, <1>4 DEF FuseOwn, PlaceInv
<1> QED BY <1>2, <1>5 DEF FuseOwn

LEMMA TakeOpen ==
    ASSUME HandleTypes, FuseOwn, NEW w \in Workers, FuseOpen(w)
    PROVE  FuseOwn'
<1> USE DEF fs, app, kernel, session
<1>0. PICK m \in reqs :
        /\ m.op = "open" /\ Take(w, m)
        /\ \E r \in Results(OpenResult(m.ino)) :
             /\ Answering(w, m, r, IF r.err = "Ok" THEN next_handle ELSE 0)
             /\ IF r.err = "Ok" THEN Opened(r.ino) ELSE UNCHANGED fs
  BY DEF FuseOpen
<1>1. PICK r :
        /\ m.op = "open" /\ Take(w, m)
        /\ Answering(w, m, r, IF r.err = "Ok" THEN next_handle ELSE 0)
        /\ IF r.err = "Ok" THEN Opened(r.ino) ELSE UNCHANGED fs
  BY <1>0
<1>2. /\ pc[w] = "idle" /\ reqs' = reqs \ {m} /\ pc' = [pc EXCEPT ![w] = "reply"]
      /\ req' = [req EXCEPT ![w] = m] /\ res' = [res EXCEPT ![w] = r]
      /\ hnd' = [hnd EXCEPT ![w] = IF r.err = "Ok" THEN next_handle ELSE 0]
      /\ UNCHANGED <<reps, busy, held, outcome>>
  BY <1>1 DEF Take, Answering
<1>3. FlightInv' /\ OnceInv'
  BY <1>2, TakeFlight DEF FuseOwn
<1>4. hnd[w] = 0
  BY <1>2 DEF FuseOwn, PlaceInv
<1>5. /\ pc'[w] = "reply" /\ req'[w] = m /\ res'[w] = r
      /\ \A v \in Workers : v # w => /\ pc'[v] = pc[v] /\ req'[v] = req[v] /\ res'[v] = res[v]
                                     /\ hnd'[v] = hnd[v]
  BY <1>2 DEF HandleTypes
<1>6. CASE r.err = "Ok"
  <2>1. /\ DOMAIN open_files' = DOMAIN open_files \union {next_handle}
        /\ next_handle \notin DOMAIN open_files /\ next_handle # 0
    BY <1>1, <1>6, OpenAdds
  <2>2. hnd'[w] = next_handle
    BY <1>2, <1>6 DEF HandleTypes
  <2>3. PlaceInv'
    BY <1>1, <1>2, <1>4, <1>5, <1>6, <2>1, <2>2, ZeroIsNoHandle DEF FuseOwn, PlaceInv
  <2> QED BY <1>3, <2>3 DEF FuseOwn
<1>7. CASE r.err # "Ok"
  <2>1. hnd'[w] = 0 /\ UNCHANGED open_files
    BY <1>1, <1>2, <1>7 DEF HandleTypes
  <2>2. PlaceInv'
    BY <1>1, <1>2, <1>4, <1>5, <2>1 DEF FuseOwn, PlaceInv
  <2> QED BY <1>3, <2>2 DEF FuseOwn
<1> QED BY <1>6, <1>7

LEMMA TakeRelease ==
    ASSUME HandleTypes, FuseOwn, NEW w \in Workers, FuseRelease(w)
    PROVE  FuseOwn'
<1> USE DEF fs, app, kernel, session
<1>1. PICK m \in reqs :
        m.op = "release" /\ Take(w, m) /\ Answering(w, m, Ok(0), 0) /\ Released(m.fh)
  BY DEF FuseRelease
<1>2. /\ pc[w] = "idle" /\ reqs' = reqs \ {m} /\ pc' = [pc EXCEPT ![w] = "reply"]
      /\ req' = [req EXCEPT ![w] = m] /\ hnd' = [hnd EXCEPT ![w] = 0]
      /\ res' = [res EXCEPT ![w] = Ok(0)]
      /\ UNCHANGED <<reps, busy, held, outcome>>
  BY <1>1 DEF Take, Answering
<1>3. FlightInv' /\ OnceInv'
  BY <1>2, TakeFlight DEF FuseOwn
<1>4. hnd[w] = 0
  BY <1>2 DEF FuseOwn, PlaceInv
<1>5. /\ \A v \in Workers : hnd'[v] = hnd[v]
      /\ \A v \in Workers : v # w => pc'[v] = pc[v] /\ req'[v] = req[v] /\ res'[v] = res[v]
  BY <1>2, <1>4 DEF HandleTypes
<1>6. DOMAIN open_files' = DOMAIN open_files \ {m.fh}
  BY <1>1, ReleaseRemoves
<1>7. PlaceInv'
  BY <1>1, <1>2, <1>4, <1>5, <1>6 DEF FuseOwn, PlaceInv
<1> QED BY <1>3, <1>7 DEF FuseOwn

LEMMA TakeForget ==
    ASSUME HandleTypes, FuseOwn, NEW w \in Workers, FuseForget(w)
    PROVE  FuseOwn'
<1> USE DEF fs, app, kernel, session, threads
<1>1. PICK m \in reqs : m.op = "forget" /\ reqs' = reqs \ {m}
  BY DEF FuseForget, Take
<1>2. UNCHANGED <<open_files, reps, busy, held, outcome, pc, req, res, hnd>>
  BY DEF FuseForget
<1>3. \A x : Asked(x) => Asked(x)'
  BY <1>2 DEF Asked
<1>4. FlightInv'
  <2>1. \A n \in reqs' : Asked(n)'
    BY <1>1, <1>3 DEF FuseOwn, FlightInv
  <2>2. \A n \in reps' : Asked(n)' /\ n.who # "none"
    BY <1>2, <1>3 DEF FuseOwn, FlightInv
  <2>3. \A v \in Workers : pc'[v] = "reply" => Asked(req[v])'
    BY <1>2 DEF FuseOwn, FlightInv, Asked
  <2> QED BY <2>1, <2>2, <2>3 DEF FlightInv
<1>5. OnceInv'
  BY <1>1, <1>2 DEF FuseOwn, OnceInv
<1>6. PlaceInv'
  BY <1>1, <1>2 DEF FuseOwn, PlaceInv
<1> QED BY <1>4, <1>5, <1>6 DEF FuseOwn

\* The reply to an open carries the handle from the thread to the kernel.
LEMMA ReplyMoves ==
    ASSUME HandleTypes, FuseOwn, NEW w \in Workers, FuseReply(w)
    PROVE  FuseOwn'
<1> USE DEF fs, app, kernel, session, fuseVars
<1> DEFINE a == [who |-> req[w].who, op |-> req[w].op, errno |-> Errno(req[w], res[w]),
                 ino |-> res[w].ino, fh |-> hnd[w], offset |-> req[w].offset,
                 data |-> res[w].data]
<1>1. /\ pc[w] = "reply" /\ UNCHANGED <<open_files, reqs, busy, held, outcome>>
      /\ reps' = IF req[w].who = "none" THEN reps ELSE reps \union {a}
  BY DEF FuseReply
<1>2. /\ pc'[w] = "idle" /\ hnd'[w] = 0
      /\ \A v \in Workers : v # w => /\ pc'[v] = pc[v] /\ req'[v] = req[v] /\ res'[v] = res[v]
                                     /\ hnd'[v] = hnd[v]
  BY DEF FuseReply, HandleTypes
<1>3. a.who = req[w].who /\ a.op = req[w].op /\ a.fh = hnd[w] /\ a.errno = Errno(req[w], res[w])
  OBVIOUS
<1>4. hnd[w] # 0 => a.errno = 0
  BY <1>3 DEF Errno, FuseOwn, PlaceInv
<1> HIDE DEF a
<1>5. FlightInv'
  <2>1. \A x : Asked(x) => Asked(x)'
    BY <1>1 DEF Asked
  <2>2. \A n \in reqs' : Asked(n)'
    BY <1>1, <2>1 DEF FuseOwn, FlightInv
  <2>3. Asked(req[w])
    BY <1>1 DEF FuseOwn, FlightInv
  <2>4. Asked(a)
    BY <1>3, <2>3 DEF Asked
  <2>5. \A n \in reps' : Asked(n)' /\ n.who # "none"
    BY <1>1, <1>3, <2>1, <2>4 DEF FuseOwn, FlightInv
  <2>6. \A v \in Workers : pc'[v] = "reply" => Asked(req[v])'
    BY <1>1, <1>2 DEF FuseOwn, FlightInv, Asked
  <2> QED BY <2>2, <2>5, <2>6 DEF FlightInv
<1>6. OnceInv'
  <2>1. OnceInv
    BY DEF FuseOwn
  <2>2. \A v \in Workers : pc'[v] = "reply" => v # w /\ pc[v] = "reply" /\ req'[v] = req[v]
    BY <1>2
  <2>3. \A n \in reps' : n \in reps \/ (n = a /\ n.who = req[w].who /\ n.who # "none")
    BY <1>1, <1>3
  <2>4. /\ \A m, n \in reqs' : m.who = n.who /\ m.who # "none" => m = n
        /\ \A m \in reqs', v \in Workers : pc'[v] = "reply" /\ m.who # "none" => req'[v].who # m.who
        /\ \A u, v \in Workers :
             (/\ pc'[u] = "reply" /\ pc'[v] = "reply"
              /\ req'[u].who = req'[v].who /\ req'[u].who # "none") => u = v
    BY <1>1, <2>1, <2>2 DEF OnceInv
  <2>5. \A m \in reqs', n \in reps' : m.who # n.who
    BY <1>1, <2>1, <2>3 DEF OnceInv
  <2>6. \A v \in Workers, n \in reps' : pc'[v] = "reply" => req'[v].who # n.who
    BY <1>1, <2>1, <2>2, <2>3 DEF OnceInv
  <2>7. \A m, n \in reps' : m.who = n.who => m = n
    BY <1>1, <2>1, <2>3 DEF OnceInv
  <2> QED BY <2>4, <2>5, <2>6, <2>7 DEF OnceInv
<1>7. PlaceInv'
  <2>1. PlaceInv
    BY DEF FuseOwn
  <2>2. Asked(req[w])
    BY <1>1 DEF FuseOwn, FlightInv
  <2>3. CASE hnd[w] = 0
    <3>1. \A v \in Workers : hnd'[v] = hnd[v]
      BY <1>2, <2>3
    <3>2. \A n \in reps' : n \in reps \/ n.fh = 0
      BY <1>1, <1>3, <2>3
    <3>3. 0 \notin DOMAIN open_files
      BY ZeroIsNoHandle
    <3>4. \A n \in reps : n \in reps'
      BY <1>1
    <3>5. /\ held' \in Nat /\ (held' # 0 => held' \in DOMAIN open_files')
          /\ \A v \in Workers : hnd'[v] # 0 => /\ pc'[v] = "reply" /\ req'[v].op = "open"
                                        /\ res'[v].err = "Ok" /\ hnd'[v] \in DOMAIN open_files'
      BY <1>1, <1>2, <2>1 DEF PlaceInv
    <3>6. /\ \A m \in reps' : m.op = "open" /\ m.fh # 0 => m.errno = 0 /\ m.fh \in DOMAIN open_files'
          /\ \A m \in reqs' : m.op = "release" => m.fh \in DOMAIN open_files'
          /\ \A m \in reqs' : m.op = "read" => m.fh = held' /\ held' # 0
      BY <1>1, <2>1, <3>2 DEF PlaceInv
    <3>7. \A h \in DOMAIN open_files' :
             \/ h = held'
             \/ \E v \in Workers : hnd'[v] = h
             \/ \E m \in reps' : m.op = "open" /\ m.fh = h
             \/ \E m \in reqs' : m.op = "release" /\ m.fh = h
      BY <1>1, <2>1, <3>1, <3>4 DEF PlaceInv
    <3>8. \A m \in reqs' : m.op = "release" =>
             /\ m.fh # held'
             /\ \A v \in Workers : hnd'[v] # m.fh
             /\ \A n \in reps' : n.op = "open" => n.fh # m.fh
             /\ \A n \in reqs' : n.op = "release" /\ n.fh = m.fh => n = m
      BY <1>1, <2>1, <3>1, <3>2, <3>3 DEF PlaceInv
    <3> QED BY <3>5, <3>6, <3>7, <3>8 DEF PlaceInv
  <2>4. CASE hnd[w] # 0
    <3>1. req[w].op = "open" /\ hnd[w] \in DOMAIN open_files /\ a.errno = 0
      BY <1>4, <2>1, <2>4 DEF PlaceInv
    <3>2. req[w].who = "reader"
      BY <2>2, <3>1 DEF Asked
    <3>3. reps' = reps \union {a} /\ a.op = "open" /\ a.fh = hnd[w]
      BY <1>1, <1>3, <3>1, <3>2
    <3>5. /\ held' \in Nat /\ (held' # 0 => held' \in DOMAIN open_files')
          /\ \A v \in Workers : hnd'[v] # 0 => /\ pc'[v] = "reply" /\ req'[v].op = "open"
                                        /\ res'[v].err = "Ok" /\ hnd'[v] \in DOMAIN open_files'
      BY <1>1, <1>2, <2>1 DEF PlaceInv
    <3>6. /\ \A m \in reps' : m.op = "open" /\ m.fh # 0 => m.errno = 0 /\ m.fh \in DOMAIN open_files'
          /\ \A m \in reqs' : m.op = "release" => m.fh \in DOMAIN open_files'
          /\ \A m \in reqs' : m.op = "read" => m.fh = held' /\ held' # 0
      BY <1>1, <2>1, <3>1, <3>3 DEF PlaceInv
    <3>7. \A h \in DOMAIN open_files' :
             \/ h = held'
             \/ \E v \in Workers : hnd'[v] = h
             \/ \E m \in reps' : m.op = "open" /\ m.fh = h
             \/ \E m \in reqs' : m.op = "release" /\ m.fh = h
      BY <1>1, <1>2, <2>1, <3>3 DEF PlaceInv
    <3>8. \A m \in reqs' : m.op = "release" =>
             /\ m.fh # held'
             /\ \A v \in Workers : hnd'[v] # m.fh
             /\ \A n \in reps' : n.op = "open" => n.fh # m.fh
             /\ \A n \in reqs' : n.op = "release" /\ n.fh = m.fh => n = m
      BY <1>1, <1>2, <2>1, <3>3, ZeroIsNoHandle DEF PlaceInv
    <3> QED BY <3>5, <3>6, <3>7, <3>8 DEF PlaceInv
  <2> QED BY <2>3, <2>4
<1> QED BY <1>5, <1>6, <1>7 DEF FuseOwn

\* A request of a process that is not waiting.
LEMMA AskAdds ==
    ASSUME HandleTypes, FuseOwn, NEW m, Ask(m), m.who # "none", Asked(m)',
           m.op = "read" => m.fh = held /\ held # 0
    PROVE  FuseOwn'
<1> USE DEF fs, app, session, threads
<1>1. /\ m.who \notin busy /\ busy' = busy \union {m.who} /\ reqs' = reqs \union {m}
      /\ UNCHANGED <<open_files, reps, held, outcome, pc, req, res, hnd>>
  BY DEF Ask, Submit
<1>2. \A x : Asked(x) => Asked(x)'
  BY <1>1 DEF Asked
<1>3. FlightInv'
  <2>1. \A n \in reqs' : Asked(n)'
    BY <1>1, <1>2 DEF FuseOwn, FlightInv
  <2>2. \A n \in reps' : Asked(n)' /\ n.who # "none"
    BY <1>1, <1>2 DEF FuseOwn, FlightInv
  <2>3. \A v \in Workers : pc'[v] = "reply" => Asked(req[v])'
    BY <1>1 DEF FuseOwn, FlightInv, Asked
  <2> QED BY <2>1, <2>2, <2>3 DEF FlightInv
<1>4. /\ \A n \in reqs : n.who # m.who
      /\ \A w \in Workers : pc[w] = "reply" => req[w].who # m.who
      /\ \A n \in reps : n.who # m.who
  BY <1>1 DEF FuseOwn, FlightInv, Asked
<1>5. OnceInv'
  BY <1>1, <1>4 DEF FuseOwn, OnceInv
<1>6. m.op # "release"
  BY DEF Asked
<1>7. PlaceInv'
  BY <1>1, <1>6 DEF FuseOwn, PlaceInv
<1> QED BY <1>3, <1>5, <1>7 DEF FuseOwn

LEMMA AsksOwn ==
    ASSUME HandleTypes, FuseOwn, ReaderAsks \/ Readahead \/ OtherAsks
    PROVE  FuseOwn'
<1>1. ASSUME NEW m, Ask(m), m.who # "none", Asked(m)', m.op = "read" => m.fh = held /\ held # 0
      PROVE  FuseOwn'
  BY <1>1, AskAdds
<1>2. ASSUME NEW m, Ask(m) PROVE m.who \in busy' /\ UNCHANGED <<held, outcome>>
  BY <1>2 DEF Ask, Submit, app
<1>3. CASE ReaderAsks
  <2>1. CASE /\ todo # << >>
             /\ Ask([Req("reader", "lookup", node) EXCEPT !.name = Head(todo)])
    <3> DEFINE m == [Req("reader", "lookup", node) EXCEPT !.name = Head(todo)]
    <3>1. m.who = "reader" /\ m.op = "lookup"
      BY DEF Req
    <3> HIDE DEF m
    <3>2. Ask(m)
      BY <2>1 DEF m
    <3> QED BY <1>1, <1>2, <3>1, <3>2 DEF Asked
  <2>2. CASE outcome = "reading" /\ held = 0 /\ Ask(Req("reader", "open", node))
    <3> DEFINE m == Req("reader", "open", node)
    <3>1. m.who = "reader" /\ m.op = "open"
      BY DEF Req
    <3> HIDE DEF m
    <3>2. Ask(m)
      BY <2>2 DEF m
    <3> QED BY <1>1, <1>2, <2>2, <3>1, <3>2 DEF Asked
  <2>3. ASSUME NEW n, held # 0,
               Ask([Req("reader", "read", node) EXCEPT !.fh = held, !.offset = Len(got), !.size = n])
        PROVE  FuseOwn'
    <3> DEFINE m == [Req("reader", "read", node) EXCEPT !.fh = held, !.offset = Len(got), !.size = n]
    <3>1. m.who = "reader" /\ m.op = "read" /\ m.fh = held
      BY DEF Req
    <3> HIDE DEF m
    <3>2. Ask(m)
      BY <2>3 DEF m
    <3> QED BY <1>1, <1>2, <2>3, <3>1, <3>2 DEF Asked
  <2> QED BY <1>3, <2>1, <2>2, <2>3 DEF ReaderAsks
<1>4. CASE Readahead
  <2>1. PICK n \in ReadSizes :
          Ask([Req("readahead", "read", node) EXCEPT !.fh = held, !.offset = Len(got) + n, !.size = n])
    BY <1>4 DEF Readahead
  <2> DEFINE m == [Req("readahead", "read", node) EXCEPT
                      !.fh = held, !.offset = Len(got) + n, !.size = n]
  <2>2. m.who = "readahead" /\ m.op = "read" /\ m.fh = held
    BY DEF Req
  <2>3. held # 0
    BY <1>4 DEF Readahead
  <2> HIDE DEF m
  <2>4. Ask(m)
    BY <2>1 DEF m
  <2> QED BY <1>1, <1>2, <2>2, <2>3, <2>4 DEF Asked
<1>5. CASE OtherAsks
  <2>1. PICK op \in Extras, n \in XattrSizes, cookie \in {0, 2} :
          Ask([Req("other", op, ROOT_INO) EXCEPT !.name = Path[1], !.size = n, !.offset = cookie])
    BY <1>5 DEF OtherAsks
  <2> DEFINE m == [Req("other", op, ROOT_INO) EXCEPT
                      !.name = Path[1], !.size = n, !.offset = cookie]
  <2>2. m.who = "other" /\ m.op = op
    BY DEF Req
  <2>3. op \in {"lookup", "getattr", "statfs", "readdir", "getxattr", "listxattr"}
    BY FuseAssumption
  <2> HIDE DEF m
  <2>4. Ask(m)
    BY <2>1 DEF m
  <2> QED BY <1>1, <1>2, <2>2, <2>3, <2>4 DEF Asked
<1> QED BY <1>3, <1>4, <1>5

\* The handle of an open arrives with a reader that has none.
LEMMA ReceiveMoves ==
    ASSUME HandleTypes, FuseOwn, NEW who \in Procs, FuseReceive(who)
    PROVE  FuseOwn'
<1> USE DEF fs, app, session, threads
<1>1. PICK m \in reps :
        /\ m.who = who /\ reps' = reps \ {m}
        /\ IF who = "reader" THEN ReaderGets(m) ELSE UNCHANGED <<app, node, held>>
  BY DEF FuseReceive
<1>2. busy' = busy \ {who} /\ UNCHANGED <<open_files, reqs, pc, req, res, hnd>>
  BY DEF FuseReceive
<1>3. Asked(m)
  BY DEF FuseOwn, FlightInv
<1>4. /\ \A n \in reqs : n.who # who
      /\ \A w \in Workers : pc[w] = "reply" => req[w].who # who
      /\ \A n \in reps' : n.who # who
  BY <1>1 DEF FuseOwn, OnceInv
<1>5. who = "reader" => \/ m.errno # 0 /\ UNCHANGED held
                        \/ m.op \in {"lookup", "read"} /\ UNCHANGED held
                        \/ m.op = "open" /\ m.errno = 0 /\ held' = m.fh
  BY <1>1, <1>3 DEF ReaderGets, Asked
<1>6. who # "reader" => UNCHANGED <<held, outcome>> /\ m.op # "open"
  BY <1>1, <1>3 DEF Asked
<1>7. ASSUME NEW x, Asked(x), x.who # who PROVE Asked(x)'
  <2>1. x.op = "open" => x.who = "reader"
    BY <1>7 DEF Asked
  <2>2. x.op = "open" => UNCHANGED <<held, outcome>>
    BY <1>6, <1>7, <2>1
  <2> QED BY <1>2, <1>7, <2>2 DEF Asked
<1>8. FlightInv'
  <2>1. \A n \in reqs' : Asked(n)'
    BY <1>2, <1>4, <1>7 DEF FuseOwn, FlightInv
  <2>2. \A n \in reps' : Asked(n)' /\ n.who # "none"
    BY <1>1, <1>4, <1>7 DEF FuseOwn, FlightInv
  <2>3. ASSUME NEW w \in Workers, pc'[w] = "reply" PROVE Asked(req[w])'
    <3>1. Asked(req[w]) /\ req[w].who # who
      BY <1>2, <1>4, <2>3 DEF FuseOwn, FlightInv
    <3>2. ASSUME NEW x, x = req[w] PROVE Asked(x)'
      BY <1>7, <3>1, <3>2
    <3> QED BY <1>2, <3>2 DEF Asked
  <2> QED BY <2>1, <2>2, <2>3 DEF FlightInv
<1>9. OnceInv'
  BY <1>1, <1>2 DEF FuseOwn, OnceInv
<1>10. PlaceInv'
  <2>1. CASE m.op = "open" /\ m.fh # 0
    <3>1. m.errno = 0 /\ m.fh \in DOMAIN open_files /\ held = 0
      BY <1>3, <2>1 DEF FuseOwn, PlaceInv, Asked
    <3>2. who = "reader"
      BY <1>6, <2>1
    <3>3. held' = m.fh
      BY <1>5, <2>1, <3>1, <3>2
    <3>4. m.fh \in Nat
      BY <3>1 DEF HandleTypes
    <3>5. \A n \in reqs : n.op = "read" => FALSE
      BY <3>1 DEF FuseOwn, PlaceInv
    <3> QED BY <1>1, <1>2, <2>1, <3>1, <3>3, <3>4, <3>5, ZeroIsNoHandle DEF FuseOwn, PlaceInv
  <2>2. CASE ~(m.op = "open" /\ m.fh # 0)
    <3>1. held' = held
      BY <1>3, <1>5, <1>6, <2>2 DEF Asked
    <3> QED BY <1>1, <1>2, <2>2, <3>1, ZeroIsNoHandle DEF FuseOwn, PlaceInv
  <2> QED BY <2>1, <2>2
<1> QED BY <1>8, <1>9, <1>10 DEF FuseOwn

LEMMA CloseMoves ==
    ASSUME HandleTypes, FuseOwn, Close
    PROVE  FuseOwn'
<1> USE DEF fs, app, session, threads
<1> DEFINE m == [Req("none", "release", node) EXCEPT !.fh = held]
<1>1. /\ held # 0 /\ outcome # "reading" /\ "reader" \notin busy /\ "readahead" \notin busy
      /\ held' = 0 /\ reqs' = reqs \union {m}
      /\ UNCHANGED <<open_files, reps, busy, outcome, pc, req, res, hnd>>
  BY DEF Close, Submit
<1>2. m.who = "none" /\ m.op = "release" /\ m.fh = held
  BY DEF Req
<1> HIDE DEF m
<1>3. /\ \A n \in reqs : n.op \notin {"open", "read"}
      /\ \A w \in Workers : pc[w] = "reply" => req[w].op # "open"
      /\ \A n \in reps : n.op # "open"
  BY <1>1 DEF FuseOwn, FlightInv, Asked
<1>4. FlightInv'
  <2>1. \A n \in reqs' : Asked(n)'
    BY <1>1, <1>2, <1>3 DEF FuseOwn, FlightInv, Asked
  <2>2. \A n \in reps' : Asked(n)' /\ n.who # "none"
    BY <1>1, <1>3 DEF FuseOwn, FlightInv, Asked
  <2>3. \A v \in Workers : pc'[v] = "reply" => Asked(req[v])'
    BY <1>1, <1>3 DEF FuseOwn, FlightInv, Asked
  <2> QED BY <2>1, <2>2, <2>3 DEF FlightInv
<1>5. OnceInv'
  <2>1. \A n \in reps : n.who # "none"
    BY DEF FuseOwn, FlightInv
  <2> QED BY <1>1, <1>2, <2>1 DEF FuseOwn, OnceInv
<1>6. PlaceInv'
  <2>1. \A w \in Workers : hnd[w] = 0
    BY <1>3 DEF FuseOwn, PlaceInv
  <2>2. held \in DOMAIN open_files
    BY <1>1 DEF FuseOwn, PlaceInv
  <2>3. \A n \in reqs : n.op = "release" => n.fh # held
    BY DEF FuseOwn, PlaceInv
  <2> QED BY <1>1, <1>2, <1>3, <2>1, <2>2, <2>3, ZeroIsNoHandle DEF FuseOwn, PlaceInv
<1> QED BY <1>4, <1>5, <1>6 DEF FuseOwn

LEMMA ForgetAdds ==
    ASSUME HandleTypes, FuseOwn, NEW i \in Inos, Forget(i)
    PROVE  FuseOwn'
<1> USE DEF fs, app, session, threads
<1> DEFINE m == [Req("none", "forget", i) EXCEPT !.nlookup = refs[i]]
<1>1. /\ reqs' = reqs \union {m}
      /\ UNCHANGED <<open_files, reps, busy, held, outcome, pc, req, res, hnd>>
  BY DEF Forget, Submit
<1>2. m.who = "none" /\ m.op = "forget"
  BY DEF Req
<1> HIDE DEF m
<1>4. FlightInv'
  <2>1. \A n \in reqs' : Asked(n)'
    BY <1>1, <1>2 DEF FuseOwn, FlightInv, Asked
  <2>2. \A n \in reps' : Asked(n)' /\ n.who # "none"
    BY <1>1 DEF FuseOwn, FlightInv, Asked
  <2>3. \A v \in Workers : pc'[v] = "reply" => Asked(req[v])'
    BY <1>1 DEF FuseOwn, FlightInv, Asked
  <2> QED BY <2>1, <2>2, <2>3 DEF FlightInv
<1>5. OnceInv'
  <2>1. \A n \in reps : n.who # "none"
    BY DEF FuseOwn, FlightInv
  <2> QED BY <1>1, <1>2, <2>1 DEF FuseOwn, OnceInv
<1>6. PlaceInv'
  BY <1>1, <1>2 DEF FuseOwn, PlaceInv
<1> QED BY <1>4, <1>5, <1>6 DEF FuseOwn

LEMMA FuseOwnNext ==
    ASSUME HandleTypes, FuseOwn, FuseNext, Attached'
    PROVE  FuseOwn'
<1> USE DEF fs, threads, app, kernel, session, counts, fuseVars
<1>1. ASSUME NEW w \in Workers, FuseServe(w) PROVE FuseOwn'
  <2>1. CASE FuseLookup(w) \/ FuseGetattr(w) \/ FuseRead(w) \/ FuseReaddir(w) \/ FuseXattr(w)
    <3>1. \E m \in reqs : \E r : /\ m.op \notin {"open", "release"} /\ Take(w, m)
                                 /\ Answering(w, m, r, 0) /\ UNCHANGED fs
      <4>1. CASE FuseLookup(w)
        BY <4>1 DEF FuseLookup
      <4>2. CASE FuseGetattr(w)
        BY <4>2 DEF FuseGetattr
      <4>3. CASE FuseRead(w)
        BY <4>3 DEF FuseRead
      <4>4. CASE FuseReaddir(w)
        BY <4>4 DEF FuseReaddir
      <4>5. CASE FuseXattr(w)
        BY <4>5 DEF FuseXattr
      <4> QED BY <2>1, <4>1, <4>2, <4>3, <4>4, <4>5
    <3> QED BY <3>1, TakePlain
  <2> QED BY <1>1, <2>1, TakeOpen, TakeRelease, TakeForget, ReplyMoves DEF FuseServe
<1>2. CASE ReaderAsks \/ Readahead \/ OtherAsks
  BY <1>2, AsksOwn
<1>3. CASE UseAhead
  <2>1. UNCHANGED <<open_files, reqs, reps, pc, req, res, hnd, held, busy>> /\ "reader" \notin busy
    BY <1>3 DEF UseAhead
  <2>2. \A x : Asked(x) => Asked(x)'
    BY <2>1 DEF Asked
  <2>3. FlightInv'
    <3>1. \A n \in reqs' : Asked(n)'
      BY <2>1, <2>2 DEF FuseOwn, FlightInv
    <3>2. \A n \in reps' : Asked(n)' /\ n.who # "none"
      BY <2>1, <2>2 DEF FuseOwn, FlightInv
    <3>3. \A v \in Workers : pc'[v] = "reply" => Asked(req[v])'
      BY <2>1 DEF FuseOwn, FlightInv, Asked
    <3> QED BY <3>1, <3>2, <3>3 DEF FlightInv
  <2>4. OnceInv' /\ PlaceInv'
    BY <2>1 DEF FuseOwn, OnceInv, PlaceInv
  <2> QED BY <2>3, <2>4 DEF FuseOwn
<1>4. CASE Close
  BY <1>4, CloseMoves
<1>5. ASSUME NEW who \in Procs, FuseReceive(who) PROVE FuseOwn'
  BY <1>5, ReceiveMoves
<1>6. ASSUME NEW i \in Inos, Forget(i) PROVE FuseOwn'
  BY <1>6, ForgetAdds
<1>7. CASE FuseUnmount \/ FuseJoin
  <2>1. UNCHANGED <<open_files, reqs, reps, pc, req, res, hnd, held, busy, outcome>>
    BY <1>7 DEF FuseUnmount, FuseJoin, Attached
  <2> QED BY <2>1 DEF FuseOwn, FlightInv, Asked, OnceInv, PlaceInv
<1> QED BY <1>1, <1>2, <1>3, <1>4, <1>5, <1>6, <1>7 DEF FuseNext

LEMMA HandleInit == Init => HandleInv
<1> SUFFICES ASSUME Init PROVE HandleInv
  OBVIOUS
<1> USE DEF Init, ServingInit, FsInit, FuseInit
<1>1. HandleTypes
  BY DEF HandleTypes
<1>2. Quiet
  BY DEF Quiet
<1> QED BY <1>1, <1>2 DEF HandleInv

LEMMA HandleNext == HandleInv /\ [Next]_vars => HandleInv'
<1> SUFFICES ASSUME HandleInv, [Next]_vars PROVE HandleInv'
  OBVIOUS
<1> USE DEF fs, threads, serving, app, kernel, session, counts, fuseVars, mountVars, nfsClient
<1>1. HandleTypes'
  <2>1. CASE UNCHANGED vars
    BY <2>1 DEF vars, HandleInv, HandleTypes
  <2> QED BY <2>1, HandleTypesNext DEF HandleInv
<1>2. CASE UNCHANGED <<fs, threads, reqs, reps, held, busy, outcome, backend, life>>
  BY <1>2 DEF HandleInv, HandleTypes, Quiet, NfsOwn, FuseOwn, FlightInv, Asked, OnceInv, PlaceInv,
              Attached
<1>3. CASE Configure \/ UNCHANGED vars
  BY <1>2, <1>3 DEF Configure, vars
<1>4. CASE Mount
  <2>1. backend = "none" /\ UNCHANGED <<fs, threads, reqs, reps, held, busy>>
    BY <1>4 DEF Mount, MountFuse, MountNfs, MountCfApi, Refused, Becomes
  <2>2. Quiet /\ Quiet'
    BY <2>1 DEF HandleInv, Quiet
  <2>3. NfsOwn' /\ FuseOwn'
    <3>1. NfsOwn'
      BY <2>2 DEF Quiet, NfsOwn
    <3>2. FuseOwn'
      BY <2>2 DEF Quiet, FuseOwn, FlightInv, OnceInv, PlaceInv
    <3> QED BY <3>1, <3>2
  <2> QED BY <1>1, <2>2, <2>3 DEF HandleInv
<1>5. CASE Nfs
  <2>1. backend = "Nfs" /\ backend' = "Nfs" /\ NfsNext
    BY <1>5 DEF Nfs, NfsStep
  <2>2. NfsOwn'
    BY <2>1, NfsOwnNext DEF HandleInv
  <2> QED BY <1>1, <2>1, <2>2 DEF HandleInv
<1>6. CASE Fuse
  <2>1. backend = "Fuse" /\ backend' = "Fuse" /\ FuseNext
    BY <1>6 DEF Fuse, FuseStep
  <2>2. Attached' => Attached
    <3>1. ASSUME NEW w \in Workers, FuseServe(w) PROVE UNCHANGED life
      <4>1. ASSUME NEW m, NEW r, NEW h, Answering(w, m, r, h) PROVE UNCHANGED life
        BY <4>1 DEF Answering
      <4>2. CASE FuseLookup(w) \/ FuseGetattr(w) \/ FuseReaddir(w) \/ FuseXattr(w)
        BY <4>1, <4>2 DEF FuseLookup, FuseGetattr, FuseReaddir, FuseXattr
      <4>3. CASE FuseOpen(w) \/ FuseRead(w) \/ FuseRelease(w)
        BY <4>1, <4>3 DEF FuseOpen, FuseRead, FuseRelease
      <4> QED BY <3>1, <4>2, <4>3 DEF FuseServe, FuseForget, FuseReply
    <3>2. CASE ReaderAsks \/ Readahead \/ OtherAsks
      BY <3>2 DEF ReaderAsks, Readahead, OtherAsks, Ask, Submit, Attached
    <3>3. CASE \/ UseAhead \/ Close \/ (\E who \in Procs : FuseReceive(who))
               \/ (\E i \in Inos : Forget(i))
      BY <3>3 DEF UseAhead, Close, FuseReceive, Forget, Submit, Attached
    <3>4. CASE FuseUnmount \/ FuseJoin
      BY <3>4 DEF FuseUnmount, FuseJoin, Attached
    <3> QED BY <2>1, <3>1, <3>2, <3>3, <3>4 DEF FuseNext, Attached
  <2>3. Attached' => FuseOwn'
    BY <2>1, <2>2, FuseOwnNext DEF HandleInv
  <2> QED BY <1>1, <2>1, <2>3 DEF HandleInv
<1> QED BY <1>3, <1>4, <1>5, <1>6 DEF Next

\* READ3's open, read_at and release, on any number of threads, with any failures and
\* restarts in between, and FUSE's open, read and release, whose replies and requests
\* overtake one another: no handle is lost, shared or used when it is gone.
THEOREM HandlesAccountedFor == Spec => []HandlesAccounted
<1>1. ASSUME HandleInv PROVE HandlesAccounted
  <2>1. ASSUME backend = "Nfs" PROVE NfsHandlesAccounted
    <3>1. NfsOwn /\ HandleTypes
      BY <1>1, <2>1 DEF HandleInv
    <3>2. DOMAIN open_files = {hnd[w] : w \in {w \in Workers : hnd[w] # 0}}
      <4>1. ASSUME NEW h \in DOMAIN open_files
            PROVE  h \in {hnd[w] : w \in {w \in Workers : hnd[w] # 0}}
        BY <3>1, ZeroIsNoHandle DEF NfsOwn
      <4>2. ASSUME NEW w \in Workers, hnd[w] # 0 PROVE hnd[w] \in DOMAIN open_files
        BY <3>1, <4>2 DEF NfsOwn
      <4> QED BY <4>1, <4>2
    <3> QED BY <3>1, <3>2 DEF NfsOwn, NfsHandlesAccounted
  <2>2. ASSUME backend = "Fuse", Attached PROVE FuseHandlesAccounted
    <3>1. PlaceInv /\ HandleTypes /\ 0 \notin DOMAIN open_files
      BY <1>1, <2>2, ZeroIsNoHandle DEF HandleInv, FuseOwn
    <3> DEFINE opening   == {m.fh : m \in {m \in reps : m.op = "open"}}
                              \union {hnd[w] : w \in Workers}
               releasing == {m.fh : m \in {m \in reqs : m.op = "release"}}
    <3>2. DOMAIN open_files \subseteq (opening \union releasing \union {held}) \ {0}
      BY <3>1 DEF PlaceInv
    <3>3. (opening \union releasing \union {held}) \ {0} \subseteq DOMAIN open_files
      BY <3>1 DEF PlaceInv
    <3>4. \A m \in reqs : m.op = "read" => m.fh \in DOMAIN open_files
      BY <3>1 DEF PlaceInv
    <3> QED BY <3>2, <3>3, <3>4 DEF FuseHandlesAccounted
  <2> QED BY <2>1, <2>2 DEF HandlesAccounted, FuseHandlesAccounted
<1>2. HandleInv => HandlesAccounted
  BY <1>1
<1> QED BY HandleInit, HandleNext, <1>2, PTL DEF Spec
==============================================================================
