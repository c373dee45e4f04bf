---------------------------- MODULE LookupProofs -----------------------------
(***************************************************************************)
(* For every tree, path, number of threads and of faults: the lookups that *)
(* a FUSE filesystem has counted are all accounted for, and the state of   *)
(* the whole system keeps its type.                                        *)
(***************************************************************************)
EXTENDS FileReadProofs

\* The forget of n lookups of inode i.
ForgetOf(i, n) == [Req("none", "forget", i) EXCEPT !.nlookup = n]

CountTypes ==
    refs \in [Inos -> Nat] /\ count \in [Inos -> Nat] /\ owed \in [Inos -> Nat]

\* A thread has a request only while it owes the reply, and the inode of a lookup
\* that succeeded exists.
LookupThreads ==
    \A w \in Workers :
        /\ pc[w] # "reply" => req[w] = NoRequest
        /\ pc[w] = "reply" /\ req[w].op = "lookup" /\ res[w].err = "Ok" => res[w].ino \in Inos

LookupReplies ==
    \A m \in reps : m.op = "lookup" /\ m.errno = 0 => m.ino \in Inos

ForgetRequests ==
    \A m \in reqs : m.op = "forget" =>
        m.ino \in Inos /\ m.nlookup \in Nat /\ m = ForgetOf(m.ino, m.nlookup)

\* What is on its way is finite and makes up the difference.
Balanced(i) ==
    /\ IsFiniteSet(Told(i)) /\ IsFiniteSet(Found(i)) /\ IsFiniteSet(GivenBack(i))
    /\ count[i] = refs[i] + Cardinality(Told(i)) + Cardinality(Found(i))
                    + Cardinality(GivenBack(i)) + owed[i]

LookupFlow ==
    /\ LookupThreads /\ LookupReplies /\ ForgetRequests
    /\ \A i \in Inos : Balanced(i)

LookupInv ==
    /\ CountTypes
    /\ life # "none" => backend = "Fuse"
    /\ backend = "none" => /\ refs = Zero /\ count = Zero /\ owed = Zero
                           /\ \A w \in Workers : req[w] = NoRequest
    /\ backend = "Fuse" => /\ life # "none"
                           /\ IF Attached THEN LookupFlow ELSE reqs = {}

------------------------------------------------------------------------------
(* Forgets on their way *)

LEMMA BackMember ==
    ASSUME NEW i, NEW x
    PROVE  x \in GivenBack(i) <=>
             \E m \in reqs : /\ m.op = "forget" /\ m.ino = i
                             /\ x \in {m.nlookup} \X (1 .. m.nlookup)
BY DEF GivenBack

\* The units of one forget.
LEMMA Units ==
    ASSUME NEW n \in Nat
    PROVE  IsFiniteSet({n} \X (1 .. n)) /\ Cardinality({n} \X (1 .. n)) = n
<1> DEFINE S == {n}
           T == 1 .. n
<1>1. IsFiniteSet(S) /\ Cardinality(S) = 1
  BY FS_Singleton
<1>2. IsFiniteSet(T) /\ Cardinality(T) = n
  BY FS_Interval
<1> HIDE DEF S, T
<1>3. IsFiniteSet(S \X T) /\ Cardinality(S \X T) = Cardinality(S) * Cardinality(T)
  BY <1>1, <1>2, FS_Product
<1>4. Cardinality(S) * Cardinality(T) = n
  BY <1>1, <1>2
<1> QED BY <1>3, <1>4 DEF S, T

\* A forget more is n lookups more, on its own inode only.
LEMMA BackAdds ==
    ASSUME ForgetRequests, NEW k \in Inos, NEW n \in Nat, ForgetOf(k, n) \notin reqs,
           reqs' = reqs \union {ForgetOf(k, n)}, NEW i \in Inos, IsFiniteSet(GivenBack(i))
    PROVE  /\ IsFiniteSet(GivenBack(i)')
           /\ Cardinality(GivenBack(i)') = Cardinality(GivenBack(i)) + (IF i = k THEN n ELSE 0)
<1> DEFINE f == ForgetOf(k, n)
           U == {n} \X (1 .. n)
<1>1. f.op = "forget" /\ f.ino = k /\ f.nlookup = n
  BY DEF ForgetOf, Req
<1>2. \A x : x \in GivenBack(i)' <=>
             \E m \in reqs' : m.op = "forget" /\ m.ino = i /\ x \in {m.nlookup} \X (1 .. m.nlookup)
  BY DEF GivenBack
<1>3. CASE i # k
  <2>1. \A x : x \in GivenBack(i)' <=> x \in GivenBack(i)
    BY <1>1, <1>2, <1>3, BackMember
  <2>2. GivenBack(i)' = GivenBack(i)
    BY <2>1
  <2> QED BY <1>3, <2>2, FS_CardinalityType
<1>4. CASE i = k
  <2>1. GivenBack(i)' = GivenBack(i) \union U
    BY <1>1, <1>2, <1>4, BackMember
  <2>2. GivenBack(i) \intersect U = {}
    <3> SUFFICES ASSUME NEW x \in U, NEW m \in reqs, m.op = "forget", m.ino = i,
                        x \in {m.nlookup} \X (1 .. m.nlookup)
                 PROVE  FALSE
      BY BackMember
    <3>1. m.nlookup = n
      OBVIOUS
    <3>2. m = f
      BY <1>4, <3>1 DEF ForgetRequests
    <3> QED BY <3>2
  <2>3. IsFiniteSet(U) /\ Cardinality(U) = n
    BY Units
  <2> HIDE DEF U
  <2>4. /\ IsFiniteSet(GivenBack(i) \union U)
        /\ Cardinality(GivenBack(i) \union U) = Cardinality(GivenBack(i)) + n - Cardinality({})
    BY <2>2, <2>3, FS_Union
  <2>5. Cardinality({}) = 0 /\ Cardinality(GivenBack(i)) \in Nat
    BY FS_EmptySet, FS_CardinalityType
  <2> QED BY <1>4, <2>1, <2>4, <2>5
<1> QED BY <1>3, <1>4

\* A forget that is taken off the queue takes its lookups with it.
LEMMA BackRemoves ==
    ASSUME ForgetRequests, NEW f \in reqs, f.op = "forget", reqs' = reqs \ {f},
           NEW i \in Inos, IsFiniteSet(GivenBack(i))
    PROVE  /\ IsFiniteSet(GivenBack(i)')
           /\ i = f.ino => f.nlookup <= Cardinality(GivenBack(i))
           /\ Cardinality(GivenBack(i)') =
                Cardinality(GivenBack(i)) - (IF i = f.ino THEN f.nlookup ELSE 0)
<1> DEFINE n == f.nlookup
           U == {n} \X (1 .. n)
<1>1. n \in Nat /\ f = ForgetOf(f.ino, n)
  BY DEF ForgetRequests
<1>2. \A x : x \in GivenBack(i)' <=>
             \E m \in reqs' : m.op = "forget" /\ m.ino = i /\ x \in {m.nlookup} \X (1 .. m.nlookup)
  BY DEF GivenBack
<1>3. CASE i # f.ino
  <2>1. \A x : x \in GivenBack(i)' <=> x \in GivenBack(i)
    BY <1>2, <1>3, BackMember
  <2>2. GivenBack(i)' = GivenBack(i)
    BY <2>1
  <2> QED BY <1>3, <2>2, FS_CardinalityType
<1>4. CASE i = f.ino
  <2>1. U \subseteq GivenBack(i)
    BY <1>4, BackMember
  <2>2. GivenBack(i)' = GivenBack(i) \ U
    <3>1. ASSUME NEW m \in reqs', m.op = "forget", m.ino = i, NEW x,
                 x \in {m.nlookup} \X (1 .. m.nlookup)
          PROVE  x \notin U
      <4> SUFFICES ASSUME x \in U PROVE FALSE
        OBVIOUS
      <4>1. m.nlookup = n
        BY <3>1
      <4>2. m = f
        BY <1>1, <1>4, <3>1, <4>1 DEF ForgetRequests
      <4> QED BY <4>2
    <3>2. ASSUME NEW x \in GivenBack(i), x \notin U PROVE x \in GivenBack(i)'
      BY <1>2, <3>2, BackMember
    <3>3. ASSUME NEW x \in GivenBack(i)' PROVE x \in GivenBack(i) \ U
      BY <1>2, <3>1, BackMember
    <3> HIDE DEF U
    <3> QED BY <3>2, <3>3
  <2>3. IsFiniteSet(U) /\ Cardinality(U) = n
    BY <1>1, Units
  <2> HIDE DEF U
  <2>4. GivenBack(i) \intersect U = U
    BY <2>1
  <2>5. /\ IsFiniteSet(GivenBack(i) \ U)
        /\ Cardinality(GivenBack(i) \ U) =
             Cardinality(GivenBack(i)) - Cardinality(GivenBack(i) \intersect U)
    BY FS_Difference
  <2>6. Cardinality(U) <= Cardinality(GivenBack(i))
    BY <2>1, FS_Subset
  <2> QED BY <1>4, <2>2, <2>3, <2>4, <2>5, <2>6
<1> QED BY <1>3, <1>4

\* Requests of another kind do not matter.
LEMMA BackKeeps ==
    ASSUME \A m : m.op = "forget" => (m \in reqs' <=> m \in reqs), NEW i
    PROVE  GivenBack(i)' = GivenBack(i)
<1>1. \A x : x \in GivenBack(i)' <=>
             \E m \in reqs' : m.op = "forget" /\ m.ino = i /\ x \in {m.nlookup} \X (1 .. m.nlookup)
  BY DEF GivenBack
<1> QED BY <1>1, BackMember

------------------------------------------------------------------------------
(* What a callback does to the lookups on their way *)

LEMMA CardNat ==
    ASSUME NEW i, Balanced(i)
    PROVE  /\ Cardinality(Told(i)) \in Nat /\ Cardinality(Found(i)) \in Nat
           /\ Cardinality(GivenBack(i)) \in Nat
BY FS_CardinalityType DEF Balanced

\* Nothing on its way changes, and what is counted changes on both sides.
LEMMA SameFlow ==
    ASSUME LookupFlow, CountTypes, LookupThreads', LookupReplies', ForgetRequests', CountTypes',
           \A i \in Inos : /\ Told(i)' = Told(i) /\ Found(i)' = Found(i)
                           /\ GivenBack(i)' = GivenBack(i),
           UNCHANGED refs,
           \A i \in Inos : count'[i] - owed'[i] = count[i] - owed[i]
    PROVE  LookupFlow'
<1>1. ASSUME NEW i \in Inos PROVE Balanced(i)'
  <2>1. Balanced(i)
    BY DEF LookupFlow
  <2>2. /\ Cardinality(Told(i)) \in Nat /\ Cardinality(Found(i)) \in Nat
        /\ Cardinality(GivenBack(i)) \in Nat
    BY <2>1, CardNat
  <2>3. /\ count[i] \in Nat /\ owed[i] \in Nat /\ refs[i] \in Nat
        /\ count'[i] \in Nat /\ owed'[i] \in Nat
    BY DEF CountTypes
  <2> QED BY <2>1, <2>2, <2>3 DEF Balanced
<1> QED BY <1>1 DEF LookupFlow

\* A callback for another request.
LEMMA OtherFlow ==
    ASSUME HandleTypes, LookupFlow, NEW w \in Workers, NEW m \in reqs, NEW r, NEW h,
           m.op \notin {"lookup", "forget"}, Take(w, m), Answering(w, m, r, h)
    PROVE  /\ LookupThreads' /\ LookupReplies' /\ ForgetRequests'
           /\ \A i \in Inos : /\ Told(i)' = Told(i) /\ Found(i)' = Found(i)
                              /\ GivenBack(i)' = GivenBack(i)
<1>1. /\ pc[w] = "idle" /\ reqs' = reqs \ {m} /\ pc' = [pc EXCEPT ![w] = "reply"]
      /\ req' = [req EXCEPT ![w] = m] /\ res' = [res EXCEPT ![w] = r] /\ UNCHANGED reps
  BY DEF Take, Answering
<1>2. /\ pc'[w] = "reply" /\ req'[w] = m
      /\ \A v \in Workers : v # w => pc'[v] = pc[v] /\ req'[v] = req[v] /\ res'[v] = res[v]
  BY <1>1 DEF HandleTypes
<1>3. LookupThreads'
  BY <1>2 DEF LookupFlow, LookupThreads
<1>4. LookupReplies' /\ ForgetRequests'
  BY <1>1 DEF LookupFlow, LookupReplies, ForgetRequests
<1>5. ASSUME NEW i \in Inos PROVE Told(i)' = Told(i) /\ GivenBack(i)' = GivenBack(i)
  <2>1. GivenBack(i)' = GivenBack(i)
    BY <1>1, BackKeeps
  <2> QED BY <1>1, <2>1 DEF Told
<1>6. ASSUME NEW i \in Inos PROVE Found(i)' = Found(i)
  <2>1. req[w].op # "lookup"
    BY <1>1 DEF LookupFlow, LookupThreads, NoRequest
  <2> QED BY <1>2, <2>1 DEF Found
<1> QED BY <1>3, <1>4, <1>5, <1>6

\* Inodes that a lookup finds exist.
LEMMA LookupExists ==
    ASSUME NEW parent, NEW name, Lookup(parent, name).err = "Ok"
    PROVE  Lookup(parent, name).ino \in Inos
<1>1. \A k : Attr(k).err = "Ok" => Attr(k).ino \in Inos
  BY DEF Attr, Ok, Err
<1> QED BY <1>1 DEF Lookup, Err

LEMMA FuseLookupFlow ==
    ASSUME HandleTypes, CountTypes, LookupFlow, NEW w \in Workers, FuseLookup(w)
    PROVE  CountTypes' /\ LookupFlow'
<1>0. PICK m \in reqs : /\ m.op = "lookup" /\ Take(w, m)
                        /\ \E r \in Results(Lookup(m.ino, m.name)) :
                             Answering(w, m, r, 0) /\ count' = Counted(count, r)
                        /\ UNCHANGED owed
  BY DEF FuseLookup
<1>1. PICK r \in Results(Lookup(m.ino, m.name)) : Answering(w, m, r, 0) /\ count' = Counted(count, r)
  BY <1>0
<1>2. r.err = "Ok" => r.ino \in Inos
  BY LookupExists DEF Results, Err
<1>3. /\ pc[w] = "idle" /\ reqs' = reqs \ {m} /\ pc' = [pc EXCEPT ![w] = "reply"]
      /\ req' = [req EXCEPT ![w] = m] /\ res' = [res EXCEPT ![w] = r] /\ UNCHANGED <<reps, refs>>
  BY <1>0, <1>1 DEF Take, Answering, kernel
<1>4. /\ pc'[w] = "reply" /\ req'[w] = m /\ res'[w] = r
      /\ \A v \in Workers : v # w => pc'[v] = pc[v] /\ req'[v] = req[v] /\ res'[v] = res[v]
  BY <1>3 DEF HandleTypes
<1>5. CountTypes'
  <2>1. count' \in [Inos -> Nat]
    BY <1>1, <1>2 DEF CountTypes, Counted
  <2> QED BY <1>0, <1>3, <2>1 DEF CountTypes
<1>6. LookupThreads'
  BY <1>2, <1>4 DEF LookupFlow, LookupThreads
<1>7. LookupReplies' /\ ForgetRequests'
  BY <1>3 DEF LookupFlow, LookupReplies, ForgetRequests
<1>8. ASSUME NEW i \in Inos PROVE Balanced(i)'
  <2>1. Told(i)' = Told(i) /\ GivenBack(i)' = GivenBack(i)
    <3>1. GivenBack(i)' = GivenBack(i)
      BY <1>0, <1>3, BackKeeps
    <3> QED BY <1>3, <3>1 DEF Told
  <2>2. w \notin Found(i)
    BY <1>3 DEF LookupFlow, LookupThreads, NoRequest, Found
  <2>3. Found(i)' = IF r.err = "Ok" /\ r.ino = i THEN Found(i) \union {w} ELSE Found(i)
    BY <1>0, <1>4, <2>2 DEF Found
  <2>4. count'[i] = IF r.err = "Ok" /\ r.ino = i THEN count[i] + 1 ELSE count[i]
    BY <1>1 DEF Counted, CountTypes
  <2>5. Balanced(i) /\ count[i] \in Nat /\ refs[i] \in Nat /\ owed[i] \in Nat
    BY DEF LookupFlow, CountTypes
  <2>6. /\ Cardinality(Told(i)) \in Nat /\ Cardinality(Found(i)) \in Nat
        /\ Cardinality(GivenBack(i)) \in Nat
    BY <2>5, CardNat
  <2>7. /\ IsFiniteSet(Found(i) \union {w})
        /\ Cardinality(Found(i) \union {w}) = Cardinality(Found(i)) + 1
    BY <2>2, <2>5, FS_AddElement DEF Balanced
  <2> QED BY <1>0, <1>3, <2>1, <2>3, <2>4, <2>5, <2>6, <2>7 DEF Balanced
<1> QED BY <1>5, <1>6, <1>7, <1>8 DEF LookupFlow

LEMMA FuseReaddirFlow ==
    ASSUME HandleTypes, CountTypes, LookupFlow, NEW w \in Workers, FuseReaddir(w)
    PROVE  CountTypes' /\ LookupFlow'
<1>0. PICK m \in reqs :
        /\ m.op = "readdir" /\ Take(w, m)
        /\ \E parent \in IF m.offset <= 1 THEN {Lookup(m.ino, ".."), Err("Io")}
                                           ELSE {Err("NotFound")} :
             count' = Counted(count, parent) /\ owed' = Counted(owed, parent)
        /\ \E r \in Results(Ok(m.ino)) : Answering(w, m, r, 0)
  BY DEF FuseReaddir
<1>1. PICK parent \in {Lookup(m.ino, ".."), Err("Io"), Err("NotFound")} :
        count' = Counted(count, parent) /\ owed' = Counted(owed, parent)
  BY <1>0
<1>2. parent.err = "Ok" => parent.ino \in Inos
  BY LookupExists DEF Err
<1>3. UNCHANGED refs
  BY <1>0 DEF Answering, kernel
<1>4. CountTypes'
  BY <1>1, <1>2, <1>3 DEF CountTypes, Counted
<1>5. \A i \in Inos : count'[i] - owed'[i] = count[i] - owed[i]
  BY <1>1, <1>2 DEF CountTypes, Counted
<1> QED BY <1>0, <1>3, <1>4, <1>5, OtherFlow, SameFlow

LEMMA FuseForgetFlow ==
    ASSUME HandleTypes, CountTypes, LookupFlow, NEW w \in Workers, FuseForget(w)
    PROVE  CountTypes' /\ LookupFlow'
<1>1. PICK f \in reqs : /\ f.op = "forget" /\ reqs' = reqs \ {f}
                        /\ count' = [count EXCEPT ![f.ino] = @ - f.nlookup]
                        /\ UNCHANGED <<reps, pc, req, res, refs, owed>>
  BY DEF FuseForget, Take, Forgotten, threads, kernel
<1>2. f.ino \in Inos /\ f.nlookup \in Nat
  BY <1>1 DEF LookupFlow, ForgetRequests
<1>3. ASSUME NEW i \in Inos
      PROVE  Balanced(i)' /\ count'[i] \in Nat
  <2>1. Told(i)' = Told(i) /\ Found(i)' = Found(i)
    BY <1>1 DEF Told, Found
  <2>2. Balanced(i) /\ count[i] \in Nat /\ refs[i] \in Nat /\ owed[i] \in Nat
    BY DEF LookupFlow, CountTypes
  <2>3. /\ Cardinality(Told(i)) \in Nat /\ Cardinality(Found(i)) \in Nat
        /\ Cardinality(GivenBack(i)) \in Nat
    BY <2>2, CardNat
  <2>4. /\ IsFiniteSet(GivenBack(i)')
        /\ i = f.ino => f.nlookup <= Cardinality(GivenBack(i))
        /\ Cardinality(GivenBack(i)') =
             Cardinality(GivenBack(i)) - (IF i = f.ino THEN f.nlookup ELSE 0)
    BY <1>1, <2>2, BackRemoves DEF LookupFlow, Balanced
  <2>5. count'[i] = count[i] - (IF i = f.ino THEN f.nlookup ELSE 0)
    BY <1>1, <1>2, <2>2 DEF CountTypes
  <2> QED BY <1>1, <1>2, <2>1, <2>2, <2>3, <2>4, <2>5 DEF Balanced
<1>4. CountTypes'
  BY <1>1, <1>3 DEF CountTypes
<1>5. LookupThreads' /\ LookupReplies' /\ ForgetRequests'
  BY <1>1 DEF LookupFlow, LookupThreads, LookupReplies, ForgetRequests
<1> QED BY <1>3, <1>4, <1>5 DEF LookupFlow

\* A reply that leaves is one lookup less with the threads and one more on its way.
LEMMA FuseReplyFlow ==
    ASSUME HandleTypes, FuseOwn, CountTypes, LookupFlow, NEW w \in Workers, FuseReply(w),
           \A v \in Workers : pc[v] = "reply" => res[v].err \in FsErrors \union {"Ok"}
    PROVE  CountTypes' /\ LookupFlow'
<1> DEFINE x == [who |-> req[w].who, op |-> req[w].op, errno |-> Errno(req[w], res[w]),
                 ino |-> res[w].ino, fh |-> hnd[w], offset |-> req[w].offset,
                 data |-> res[w].data]
<1>1. /\ pc[w] = "reply" /\ reps' = IF req[w].who = "none" THEN reps ELSE reps \union {x}
      /\ pc' = [pc EXCEPT ![w] = "idle"] /\ req' = [req EXCEPT ![w] = NoRequest]
      /\ res' = [res EXCEPT ![w] = Ok(0)] /\ UNCHANGED <<reqs, refs, count, owed>>
  BY DEF FuseReply, fuseVars, kernel, counts
<1>2. /\ pc'[w] = "idle" /\ req'[w] = NoRequest
      /\ \A v \in Workers : v # w => pc'[v] = pc[v] /\ req'[v] = req[v] /\ res'[v] = res[v]
  BY <1>1 DEF HandleTypes
<1>3. x \notin reps
  BY <1>1 DEF FuseOwn, OnceInv
<1>4. req[w].op = "lookup" => req[w].who # "none"
  BY <1>1 DEF FuseOwn, FlightInv, Asked
<1>5. req[w].op = "lookup" => (x.errno = 0 <=> res[w].err = "Ok")
  BY <1>1, FailuresShow DEF Errno
<1>6. x.op = req[w].op /\ x.ino = res[w].ino
  OBVIOUS
<1> HIDE DEF x
<1>7. CountTypes'
  BY <1>1 DEF CountTypes
<1>8. LookupThreads'
  BY <1>2 DEF LookupFlow, LookupThreads
<1>9. LookupReplies'
  BY <1>1, <1>5, <1>6 DEF LookupFlow, LookupReplies, LookupThreads
<1>10. ForgetRequests'
  BY <1>1 DEF LookupFlow, ForgetRequests
<1>11. ASSUME NEW i \in Inos PROVE Balanced(i)'
  <2>1. Balanced(i) /\ count[i] \in Nat /\ refs[i] \in Nat /\ owed[i] \in Nat
    BY DEF LookupFlow, CountTypes
  <2>2. /\ Cardinality(Told(i)) \in Nat /\ Cardinality(Found(i)) \in Nat
        /\ Cardinality(GivenBack(i)) \in Nat
    BY <2>1, CardNat
  <2>3. GivenBack(i)' = GivenBack(i)
    BY <1>1 DEF GivenBack
  <2>4. w \in Found(i) <=> req[w].op = "lookup" /\ res[w].err = "Ok" /\ res[w].ino = i
    BY DEF Found
  <2>5. Found(i)' = Found(i) \ {w}
    BY <1>2 DEF Found, NoRequest
  <2>6. Told(i)' = IF w \in Found(i) THEN Told(i) \union {x} ELSE Told(i)
    BY <1>1, <1>4, <1>5, <1>6, <2>4 DEF Told
  <2>7. x \notin Told(i)
    BY <1>3 DEF Told
  <2>8. /\ IsFiniteSet(Told(i) \union {x})
        /\ Cardinality(Told(i) \union {x}) = Cardinality(Told(i)) + 1
    BY <2>1, <2>7, FS_AddElement DEF Balanced
  <2>9. /\ IsFiniteSet(Found(i) \ {w})
        /\ Cardinality(Found(i) \ {w}) =
             IF w \in Found(i) THEN Cardinality(Found(i)) - 1 ELSE Cardinality(Found(i))
    BY <2>1, FS_RemoveElement DEF Balanced
  <2> QED BY <1>1, <2>1, <2>2, <2>3, <2>5, <2>6, <2>8, <2>9 DEF Balanced
<1> QED BY <1>7, <1>8, <1>9, <1>10, <1>11 DEF LookupFlow

LEMMA FuseServeFlow ==
    ASSUME HandleTypes, FuseOwn, CountTypes, LookupFlow, NEW w \in Workers, FuseServe(w),
           \A v \in Workers : pc[v] = "reply" => res[v].err \in FsErrors \union {"Ok"}
    PROVE  CountTypes' /\ LookupFlow'
<1>1. ASSUME NEW m \in reqs, NEW r, NEW h, m.op \notin {"lookup", "forget"}, Take(w, m),
             Answering(w, m, r, h), UNCHANGED counts
      PROVE  CountTypes' /\ LookupFlow'
  <2>1. UNCHANGED <<refs, count, owed>>
    BY <1>1 DEF Answering, kernel, counts
  <2>2. CountTypes'
    BY <2>1 DEF CountTypes
  <2>3. \A i \in Inos : count'[i] - owed'[i] = count[i] - owed[i]
    BY <2>1
  <2> QED BY <1>1, <2>1, <2>2, <2>3, OtherFlow, SameFlow
<1>2. CASE FuseGetattr(w) \/ FuseOpen(w) \/ FuseRead(w) \/ FuseRelease(w) \/ FuseXattr(w)
  BY <1>1, <1>2 DEF FuseGetattr, FuseOpen, FuseRead, FuseRelease, FuseXattr
<1> QED BY <1>2, FuseLookupFlow, FuseReaddirFlow, FuseForgetFlow, FuseReplyFlow DEF FuseServe

------------------------------------------------------------------------------
(* What the kernel does to them *)

LEMMA AskFlow ==
    ASSUME CountTypes, LookupFlow, NEW m, m.op # "forget", Submit(m), UNCHANGED refs
    PROVE  CountTypes' /\ LookupFlow'
<1>1. reqs' = reqs \union {m} /\ UNCHANGED <<reps, pc, req, res, refs, count, owed>>
  BY DEF Submit, threads, counts
<1>2. CountTypes'
  BY <1>1 DEF CountTypes
<1>3. LookupThreads' /\ LookupReplies' /\ ForgetRequests'
  BY <1>1 DEF LookupFlow, LookupThreads, LookupReplies, ForgetRequests
<1>4. ASSUME NEW i \in Inos
      PROVE  Told(i)' = Told(i) /\ Found(i)' = Found(i) /\ GivenBack(i)' = GivenBack(i)
  <2>1. GivenBack(i)' = GivenBack(i)
    BY <1>1, BackKeeps
  <2> QED BY <1>1, <2>1 DEF Told, Found
<1>5. \A i \in Inos : count'[i] - owed'[i] = count[i] - owed[i]
  BY <1>1
<1> QED BY <1>1, <1>2, <1>3, <1>4, <1>5, SameFlow

\* A reply that arrives: the kernel remembers what it was told.
LEMMA ReceiveFlow ==
    ASSUME CountTypes, LookupFlow, NEW who, FuseReceive(who)
    PROVE  CountTypes' /\ LookupFlow'
<1>1. PICK m \in reps :
        /\ reps' = reps \ {m}
        /\ refs' = IF m.op = "lookup" /\ m.errno = 0 THEN [refs EXCEPT ![m.ino] = @ + 1] ELSE refs
  BY DEF FuseReceive
<1>2. UNCHANGED <<reqs, pc, req, res, count, owed>>
  BY DEF FuseReceive, threads, counts
<1>3. m.op = "lookup" /\ m.errno = 0 => m.ino \in Inos
  BY DEF LookupFlow, LookupReplies
<1>4. CountTypes'
  <2>1. refs' \in [Inos -> Nat]
    BY <1>1, <1>3 DEF CountTypes
  <2> QED BY <1>2, <2>1 DEF CountTypes
<1>5. LookupThreads' /\ LookupReplies' /\ ForgetRequests'
  BY <1>1, <1>2 DEF LookupFlow, LookupThreads, LookupReplies, ForgetRequests
<1>6. ASSUME NEW i \in Inos PROVE Balanced(i)'
  <2>1. Balanced(i) /\ count[i] \in Nat /\ refs[i] \in Nat /\ owed[i] \in Nat
    BY DEF LookupFlow, CountTypes
  <2>2. /\ Cardinality(Told(i)) \in Nat /\ Cardinality(Found(i)) \in Nat
        /\ Cardinality(GivenBack(i)) \in Nat
    BY <2>1, CardNat
  <2>3. Found(i)' = Found(i) /\ GivenBack(i)' = GivenBack(i)
    BY <1>2 DEF Found, GivenBack
  <2>4. m \in Told(i) <=> m.op = "lookup" /\ m.errno = 0 /\ m.ino = i
    BY DEF Told
  <2>5. Told(i)' = Told(i) \ {m}
    BY <1>1 DEF Told
  <2>6. refs'[i] = IF m \in Told(i) THEN refs[i] + 1 ELSE refs[i]
    BY <1>1, <2>4 DEF CountTypes
  <2>7. /\ IsFiniteSet(Told(i) \ {m})
        /\ Cardinality(Told(i) \ {m}) =
             IF m \in Told(i) THEN Cardinality(Told(i)) - 1 ELSE Cardinality(Told(i))
    BY <2>1, FS_RemoveElement DEF Balanced
  <2> QED BY <1>2, <2>1, <2>2, <2>3, <2>5, <2>6, <2>7 DEF Balanced
<1> QED BY <1>4, <1>5, <1>6 DEF LookupFlow

\* A forget: what the kernel remembered is on its way back.
LEMMA ForgetFlow ==
    ASSUME CountTypes, LookupFlow, NEW k \in Inos, Forget(k)
    PROVE  CountTypes' /\ LookupFlow'
<1>1. /\ ForgetOf(k, refs[k]) \notin reqs /\ reqs' = reqs \union {ForgetOf(k, refs[k])}
      /\ refs' = [refs EXCEPT ![k] = 0] /\ UNCHANGED <<reps, pc, req, res, count, owed>>
  BY DEF Forget, Submit, ForgetOf, threads, counts
<1>2. refs[k] \in Nat
  BY DEF CountTypes
<1>3. CountTypes'
  BY <1>1 DEF CountTypes
<1>4. LookupThreads' /\ LookupReplies'
  BY <1>1 DEF LookupFlow, LookupThreads, LookupReplies
<1>5. ForgetRequests'
  <2>1. LET f == ForgetOf(k, refs[k])
        IN  f.ino = k /\ f.nlookup = refs[k]
    BY DEF ForgetOf, Req
  <2> QED BY <1>1, <1>2, <2>1 DEF LookupFlow, ForgetRequests
<1>6. ASSUME NEW i \in Inos PROVE Balanced(i)'
  <2>1. Balanced(i) /\ count[i] \in Nat /\ refs[i] \in Nat /\ owed[i] \in Nat
    BY DEF LookupFlow, CountTypes
  <2>2. /\ Cardinality(Told(i)) \in Nat /\ Cardinality(Found(i)) \in Nat
        /\ Cardinality(GivenBack(i)) \in Nat
    BY <2>1, CardNat
  <2>3. Told(i)' = Told(i) /\ Found(i)' = Found(i)
    BY <1>1 DEF Told, Found
  <2>4. /\ IsFiniteSet(GivenBack(i)')
        /\ Cardinality(GivenBack(i)') =
             Cardinality(GivenBack(i)) + (IF i = k THEN refs[k] ELSE 0)
    BY <1>1, <1>2, <2>1, BackAdds DEF LookupFlow, Balanced
  <2>5. refs'[i] = IF i = k THEN 0 ELSE refs[i]
    BY <1>1 DEF CountTypes
  <2> QED BY <1>1, <2>1, <2>2, <2>3, <2>4, <2>5 DEF Balanced
<1> QED BY <1>3, <1>4, <1>5, <1>6 DEF LookupFlow

------------------------------------------------------------------------------
(* Every step *)

LEMMA FuseFlow ==
    ASSUME HandleTypes, FuseOwn, Attached, CountTypes, LookupFlow, FuseNext,
           \A v \in Workers : pc[v] = "reply" => res[v].err \in FsErrors \union {"Ok"}
    PROVE  CountTypes' /\ life' # "none" /\ IF Attached' THEN LookupFlow' ELSE reqs' = {}
<1> USE DEF threads, counts, kernel, session
<1>1. ASSUME UNCHANGED <<reqs, reps, pc, req, res, refs, count, owed>>
      PROVE  CountTypes' /\ LookupFlow'
  <2>1. CountTypes' /\ LookupThreads' /\ LookupReplies' /\ ForgetRequests'
    BY <1>1 DEF CountTypes, LookupFlow, LookupThreads, LookupReplies, ForgetRequests
  <2>2. \A i \in Inos : /\ Told(i)' = Told(i) /\ Found(i)' = Found(i)
                        /\ GivenBack(i)' = GivenBack(i)
    BY <1>1 DEF Told, Found, GivenBack
  <2>3. \A i \in Inos : count'[i] - owed'[i] = count[i] - owed[i]
    BY <1>1
  <2> QED BY <1>1, <2>1, <2>2, <2>3, SameFlow
<1>2. ASSUME life' = life, LookupFlow', CountTypes'
      PROVE  CountTypes' /\ life' # "none" /\ IF Attached' THEN LookupFlow' ELSE reqs' = {}
  BY <1>2 DEF Attached
<1>3. ASSUME NEW w \in Workers, FuseServe(w) PROVE CountTypes' /\ LookupFlow' /\ life' = life
  <2>1. life' = life
    BY <1>3 DEF FuseServe, FuseLookup, FuseGetattr, FuseOpen, FuseRead, FuseRelease, FuseForget,
                FuseReaddir, FuseXattr, FuseReply, Answering, fuseVars
  <2> QED BY <1>3, <2>1, FuseServeFlow
<1>4. CASE ReaderAsks \/ Readahead \/ OtherAsks \/ Close
  <2>1. PICK m : m.op # "forget" /\ Submit(m) /\ UNCHANGED refs
    <3>1. \A who, op, ino : (Req(who, op, ino)).op = op
      BY DEF Req
    <3>2. CASE ReaderAsks \/ Readahead
      BY <3>2 DEF ReaderAsks, Readahead, Ask, Req
    <3>3. CASE OtherAsks
      <4>1. PICK op \in Extras, n \in XattrSizes, cookie \in {0, 2} :
              Ask([Req("other", op, ROOT_INO) EXCEPT !.name = Path[1], !.size = n,
                                                     !.offset = cookie])
        BY <3>3 DEF OtherAsks
      <4>2. op # "forget"
        BY FuseAssumption
      <4> QED BY <4>1, <4>2 DEF Ask, Req
    <3>4. CASE Close
      BY <3>4 DEF Close, Req
    <3> QED BY <1>4, <3>2, <3>3, <3>4
  <2> QED BY <1>2, <2>1, AskFlow DEF Submit
<1>5. CASE UseAhead
  BY <1>1, <1>2, <1>5 DEF UseAhead
<1>6. CASE \E who \in Procs : FuseReceive(who)
  BY <1>2, <1>6, ReceiveFlow DEF FuseReceive
<1>7. CASE \E i \in Inos : Forget(i)
  BY <1>2, <1>7, ForgetFlow DEF Forget, Submit
<1>8. CASE FuseUnmount
  <2>1. UNCHANGED <<reps, pc, req, res, refs, count, owed>>
    BY <1>8 DEF FuseUnmount
  <2>2. CASE life' = "detached"
    BY <1>1, <1>8, <2>1, <2>2 DEF FuseUnmount, Attached
  <2>3. CASE life' = "leaving"
    <3>1. CountTypes'
      BY <2>1 DEF CountTypes
    <3> QED BY <1>8, <2>3, <3>1 DEF FuseUnmount, Attached
  <2> QED BY <1>8, <2>2, <2>3 DEF FuseUnmount
<1>9. CASE FuseJoin
  BY <1>9 DEF FuseJoin, Attached
<1> QED BY <1>2, <1>3, <1>4, <1>5, <1>6, <1>7, <1>8, <1>9 DEF FuseNext

\* Behind an unmount nothing is asked and nothing counted any more.
LEMMA FuseOver ==
    ASSUME ~Attached, life # "none", reqs = {}, CountTypes, FuseNext
    PROVE  ~Attached' /\ life' # "none" /\ reqs' = {} /\ CountTypes'
<1> USE DEF threads, counts, kernel, session
<1>1. \/ (\E w \in Workers : FuseReply(w)) \/ UseAhead \/ FuseJoin
  BY DEF FuseNext, FuseServe, FuseLookup, FuseGetattr, FuseOpen, FuseRead, FuseRelease,
         FuseForget, FuseReaddir, FuseXattr, ReaderAsks, Readahead, OtherAsks, Ask, Close,
         Submit, FuseReceive, Forget, FuseUnmount, Attached
<1>2. UNCHANGED <<reqs, refs, count, owed>> /\ (life' = life \/ life' = "down")
  BY <1>1 DEF FuseReply, UseAhead, FuseJoin, fuseVars
<1> QED BY <1>2 DEF Attached, CountTypes

LEMMA LookupInit == Init => LookupInv
<1> SUFFICES ASSUME Init PROVE LookupInv
  OBVIOUS
<1>1. /\ refs = Zero /\ count = Zero /\ owed = Zero /\ life = "none" /\ backend = "none"
      /\ \A w \in Workers : req[w] = NoRequest
  BY DEF Init, ServingInit, FuseInit
<1>2. Zero \in [Inos -> Nat]
  BY DEF Zero
<1> QED BY <1>1, <1>2 DEF LookupInv, CountTypes

LEMMA LookupNext ==
    ReadInv /\ LookupInv /\ [Next]_vars => LookupInv'
<1> SUFFICES ASSUME ReadInv, LookupInv, [Next]_vars PROVE LookupInv'
  OBVIOUS
<1> USE DEF fs, threads, serving, app, kernel, session, counts, fuseVars, mountVars
<1>1. ASSUME UNCHANGED <<refs, count, owed, life, reqs, reps, pc, req, res, backend>>
      PROVE  LookupInv'
  <2>1. CountTypes' = CountTypes /\ Attached' = Attached
    BY <1>1 DEF CountTypes, Attached
  <2>2. LookupThreads' = LookupThreads /\ LookupReplies' = LookupReplies
        /\ ForgetRequests' = ForgetRequests
    BY <1>1 DEF LookupThreads, LookupReplies, ForgetRequests
  <2>3. \A i \in Inos : Balanced(i) => Balanced(i)'
    BY <1>1 DEF Balanced, Told, Found, GivenBack
  <2> QED BY <1>1, <2>1, <2>2, <2>3 DEF LookupInv, LookupFlow
<1>2. CASE Configure \/ UNCHANGED vars
  BY <1>1, <1>2 DEF Configure, vars
<1>3. CASE Mount
  <2>1. backend = "none" /\ UNCHANGED <<refs, count, owed, reqs, reps, pc, req, res>>
    BY <1>3 DEF Mount, MountFuse, MountNfs, MountCfApi, Refused, Becomes
  <2>2. \/ backend' = "Fuse" /\ life' = "up"
        \/ backend' \in {"Nfs", "CfApi", "refused"} /\ life' = life
    BY <1>3 DEF Mount, MountFuse, MountNfs, MountCfApi, Refused, Becomes
  <2>3. /\ reqs = {} /\ reps = {} /\ refs = Zero /\ count = Zero /\ owed = Zero
        /\ \A w \in Workers : req[w] = NoRequest /\ pc[w] = "idle"
    BY <2>1 DEF LookupInv, ReadInv, HandleInv, Quiet
  <2>4. CountTypes' /\ life = "none"
    BY <2>1 DEF LookupInv, CountTypes
  <2>5. CASE backend' # "Fuse"
    BY <2>2, <2>4, <2>5 DEF LookupInv
  <2>6. CASE backend' = "Fuse"
    <3>1. LookupThreads' /\ LookupReplies' /\ ForgetRequests'
      BY <2>1, <2>3 DEF LookupThreads, LookupReplies, ForgetRequests
    <3>2. ASSUME NEW i \in Inos PROVE Balanced(i)'
      <4>1. Told(i)' = {} /\ Found(i)' = {} /\ GivenBack(i)' = {}
        BY <2>1, <2>3 DEF Told, Found, GivenBack, NoRequest
      <4>2. count'[i] = 0 /\ refs'[i] = 0 /\ owed'[i] = 0
        BY <2>1, <2>3 DEF Zero
      <4> QED BY <4>1, <4>2, FS_EmptySet DEF Balanced
    <3>3. Attached'
      BY <2>2, <2>6 DEF Attached
    <3>4. LookupFlow' /\ life' # "none"
      BY <2>2, <2>6, <3>1, <3>2 DEF LookupFlow
    <3> QED BY <2>4, <2>6, <3>3, <3>4 DEF LookupInv
  <2> QED BY <2>5, <2>6
<1>4. CASE Nfs
  <2>1. backend = "Nfs" /\ UNCHANGED <<refs, count, owed, life, backend>>
    BY <1>4 DEF Nfs, NfsStep
  <2> QED BY <2>1 DEF LookupInv, CountTypes
<1>5. CASE Fuse
  <2>1. backend = "Fuse" /\ FuseNext /\ backend' = "Fuse"
    BY <1>5 DEF Fuse, FuseStep
  <2>2. CASE Attached
    <3>1. /\ HandleTypes /\ FuseOwn /\ CountTypes /\ LookupFlow
          /\ \A v \in Workers : pc[v] = "reply" => res[v].err \in FsErrors \union {"Ok"}
      BY <2>1, <2>2 DEF ReadInv, HandleInv, FuseReading, FuseRequests, LookupInv
    <3>2. CountTypes' /\ life' # "none" /\ IF Attached' THEN LookupFlow' ELSE reqs' = {}
      BY <2>1, <2>2, <3>1, FuseFlow
    <3> QED BY <2>1, <3>2 DEF LookupInv
  <2>3. CASE ~Attached /\ life # "none"
    <3>1. reqs = {} /\ CountTypes
      BY <2>1, <2>3 DEF LookupInv
    <3>2. ~Attached' /\ life' # "none" /\ reqs' = {} /\ CountTypes'
      BY <2>1, <2>3, <3>1, FuseOver
    <3> QED BY <2>1, <3>2 DEF LookupInv
  <2> QED BY <2>1, <2>2, <2>3 DEF LookupInv
<1> QED BY <1>2, <1>3, <1>4, <1>5 DEF Next

\* A filesystem that frees an inode when its lookups are forgotten never frees one
\* that the kernel knows, however lookups and forgets of one inode overtake one another
\* on the session's threads.
THEOREM LookupsAccountedFor == Spec => []LookupsConserved
<1>1. LookupInv => LookupsConserved
  BY DEF LookupInv, LookupFlow, Balanced, LookupsConserved, Attached
<1> QED BY ReadInit, ReadNext, LookupInit, LookupNext, <1>1, PTL DEF Spec

------------------------------------------------------------------------------
(* Types *)

ErrorNames == FsErrors \union {"Ok"}

ServeTypes ==
    /\ gen \in 1 .. MaxGen /\ faults \in 0 .. MaxFaults
    /\ \A h \in DOMAIN open_files : open_files[h] \in Files
    /\ pc \in [Workers -> {"idle", "decide", "read", "release", "attr", "reply"}]
    /\ \A w \in Workers : res[w].err \in ErrorNames

ClientTypes ==
    /\ outcome \in {"reading", "done", "failed"} /\ waiting \in BOOLEAN
    /\ busy \subseteq Procs /\ \A c, d \in ahead : c = d

MountTypes ==
    /\ life \in {"none", "up", "detached", "leaving", "down"}
    /\ backend \in {"none", "Fuse", "Nfs", "CfApi", "refused"}
    /\ builder \in [backend : {"Auto", "Fuse", "Nfs", "CfApi"}, options : SUBSET Options,
                    threads : Workers \union {0}]
    /\ nthreads \in Workers \union {0}
    /\ backend # "Nfs" => cur = NoHandle
    /\ node \in Inos

\* What the filesystem itself answers is no i/o error, and its errors are known.
Genuine(x) == x.err \in ErrorNames \ {"Io"}

LEMMA GenuineResults ==
    /\ \A k : Genuine(Ok(k)) /\ Genuine(Attr(k)) /\ Genuine(OpenResult(k)) /\ Genuine(ReaddirResult(k))
    /\ \A parent, name : Genuine(Lookup(parent, name))
    /\ \A fh, o, len : Genuine(ReadAt(fh, o, len)) /\ Genuine(Overclaims(fh, o, ReadAt(fh, o, len)))
<1>1. \A k : Genuine(Ok(k))
  BY DEF Genuine, Ok, ErrorNames
<1>2. /\ Genuine(Err("NotFound")) /\ Genuine(Err("NotADirectory"))
      /\ Genuine(Err("IsADirectory")) /\ Genuine(Err("InvalidArgument"))
  BY DEF Genuine, Err, ErrorNames, FsErrors
<1>3. \A k : Genuine(Attr(k))
  BY <1>1, <1>2 DEF Attr
<1>4. \A k : Genuine(OpenResult(k)) /\ Genuine(ReaddirResult(k))
  BY <1>2, <1>3 DEF OpenResult, ReaddirResult
<1>5. \A parent, name : Genuine(Lookup(parent, name))
  BY <1>2, <1>3 DEF Lookup
<1>6. ASSUME NEW fh, NEW o, NEW len
      PROVE  Genuine(ReadAt(fh, o, len)) /\ Genuine(Overclaims(fh, o, ReadAt(fh, o, len)))
  <2>1. CASE fh \notin DOMAIN open_files
    <3>1. ReadAt(fh, o, len) = Err("InvalidArgument")
      BY <2>1 DEF ReadAt
    <3>2. Overclaims(fh, o, Err("InvalidArgument")) = Err("InvalidArgument")
      BY DEF Overclaims, Err
    <3> QED BY <1>2, <3>1, <3>2
  <2>2. CASE fh \in DOMAIN open_files
    <3>1. PICK d, n : ReadAt(fh, o, len) = [Ok(open_files[fh]) EXCEPT !.data = d, !.n = n]
      BY <2>2 DEF ReadAt
    <3>2. ReadAt(fh, o, len) = [err |-> "Ok", ino |-> open_files[fh], data |-> d, n |-> n]
      BY <3>1 DEF Ok
    <3>3. (ReadAt(fh, o, len)).err = "Ok"
      BY <3>2
    <3>4. (Overclaims(fh, o, ReadAt(fh, o, len))).err = "Ok"
      BY <3>2 DEF Overclaims
    <3> QED BY <3>3, <3>4 DEF Genuine, ErrorNames
  <2> QED BY <2>1, <2>2
<1> QED BY <1>1, <1>3, <1>4, <1>5, <1>6

\* An i/o error is charged, and only as long as the bound allows one.
LEMMA Charged ==
    ASSUME faults \in 0 .. MaxFaults, NEW x, Genuine(x), NEW r \in Results(x) \union {x}, Charge(r)
    PROVE  faults' \in 0 .. MaxFaults /\ r.err \in ErrorNames
<1>1. CASE r = x
  BY <1>1 DEF Genuine, Charge
<1>2. CASE r = Err("Io") /\ faults < MaxFaults
  BY <1>2, MemFsAssumption DEF Charge, Err, ErrorNames, FsErrors
<1> QED BY <1>1, <1>2 DEF Results

LEMMA OpensFile ==
    ASSUME NEW ino, NEW r \in Results(OpenResult(ino)), r.err = "Ok"
    PROVE  r.ino \in Files
BY DEF Results, OpenResult, Attr, Ok, Err, Inos

LEMMA OpenedTypes ==
    ASSUME HandleTypes, ServeTypes, NEW ino \in Files, Opened(ino)
    PROVE  UNCHANGED gen /\ \A h \in DOMAIN open_files' : open_files'[h] \in Files
BY OpenAdds DEF ServeTypes, Opened

LEMMA ReleasedTypes ==
    ASSUME HandleTypes, ServeTypes, NEW fh, Released(fh)
    PROVE  UNCHANGED gen /\ \A h \in DOMAIN open_files' : open_files'[h] \in Files
BY ReleaseRemoves DEF ServeTypes, Released

LEMMA NfsServeTypes ==
    ASSUME HandleTypes, ServeTypes, NEW w \in Workers, NfsServe(w)
    PROVE  ServeTypes'
<1> USE DEF fs, threads
<1>0. /\ gen \in 1 .. MaxGen /\ faults \in 0 .. MaxFaults
      /\ \A h \in DOMAIN open_files : open_files[h] \in Files
      /\ pc \in [Workers -> {"idle", "decide", "read", "release", "attr", "reply"}]
      /\ DOMAIN res = Workers /\ \A v \in Workers : res[v].err \in ErrorNames
  BY DEF ServeTypes, HandleTypes
<1>1. \A k : (Ok(k)).err \in ErrorNames
  BY DEF Ok, ErrorNames
<1>2. ASSUME NEW m, Send(w, m)
      PROVE  /\ pc' \in [Workers -> {"idle", "decide", "read", "release", "attr", "reply"}]
             /\ \A v \in Workers : res'[v].err \in ErrorNames
  BY <1>0, <1>1, <1>2 DEF Send
<1>3. CASE NfsDispatch(w)
  BY <1>0, <1>3 DEF NfsDispatch, ServeTypes
<1>4. CASE NfsGetattr(w) \/ NfsReply(w)
  <2>1. PICK r \in Results(Attr(req[w].fh.ino)) : Charge(r)
    BY <1>4 DEF NfsGetattr, NfsReply
  <2>2. UNCHANGED fs /\ \E m : Send(w, m)
    BY <1>4 DEF NfsGetattr, NfsReply
  <2>3. faults' \in 0 .. MaxFaults
    BY <1>0, <2>1, Charged, GenuineResults
  <2> QED BY <1>0, <1>2, <2>2, <2>3 DEF ServeTypes
<1>5. CASE NfsDecide(w)
  <2> DEFINE x == Decides(req[w])
  <2>1. PICK r \in Results(x) : Charge(r) /\ res' = [res EXCEPT ![w] = r]
    BY <1>5 DEF NfsDecide
  <2>2. Genuine(x)
    BY GenuineResults DEF Decides
  <2> HIDE DEF x
  <2>3. faults' \in 0 .. MaxFaults /\ r.err \in ErrorNames
    BY <1>0, <2>1, <2>2, Charged
  <2> QED BY <1>0, <1>5, <2>1, <2>3 DEF NfsDecide, ServeTypes
<1>6. CASE NfsOpen(w)
  <2>1. PICK r \in Results(OpenResult(req[w].fh.ino)) :
          /\ Charge(r) /\ res' = [res EXCEPT ![w] = r]
          /\ IF r.err = "Ok" THEN Opened(r.ino) /\ pc' = [pc EXCEPT ![w] = "read"]
             ELSE pc' = [pc EXCEPT ![w] = "attr"] /\ UNCHANGED fs
    BY <1>6 DEF NfsOpen
  <2>2. faults' \in 0 .. MaxFaults /\ r.err \in ErrorNames
    BY <1>0, <2>1, Charged, GenuineResults
  <2>3. UNCHANGED gen /\ \A h \in DOMAIN open_files' : open_files'[h] \in Files
    BY <1>0, <2>1, OpensFile, OpenedTypes
  <2> QED BY <1>0, <2>1, <2>2, <2>3 DEF ServeTypes
<1>7. CASE NfsReadAt(w)
  <2> DEFINE len == Min2(req[w].count, RTMAX)
             r0  == ReadAt(hnd[w], req[w].offset, len)
             r1  == Overclaims(hnd[w], req[w].offset, r0)
  <2>1. PICK r \in Results(r0) \union {r1} :
          /\ Charge(r) /\ res' = [res EXCEPT ![w] = [r EXCEPT !.n = Clamp(r.n, len)]]
          /\ pc' = [pc EXCEPT ![w] = AfterRead(r)]
    BY <1>7 DEF NfsReadAt
  <2>2. Genuine(r0) /\ Genuine(r1)
    BY GenuineResults
  <2> HIDE DEF r0, r1
  <2>3. faults' \in 0 .. MaxFaults /\ r.err \in ErrorNames
    BY <1>0, <2>1, <2>2, Charged
  <2>4. ([r EXCEPT !.n = Clamp(r.n, len)]).err = r.err
    OBVIOUS
  <2> HIDE DEF len
  <2>5. pc' = [pc EXCEPT ![w] = "release"] /\ UNCHANGED fs
    BY <1>7, <2>1 DEF NfsReadAt, AfterRead
  <2> QED BY <1>0, <2>1, <2>3, <2>4, <2>5 DEF ServeTypes
<1>8. CASE NfsRelease(w)
  <2>1. UNCHANGED gen /\ \A h \in DOMAIN open_files' : open_files'[h] \in Files
    BY <1>8, ReleasedTypes DEF NfsRelease
  <2> QED BY <1>0, <1>8, <2>1 DEF NfsRelease, ServeTypes
<1> QED BY <1>3, <1>4, <1>5, <1>6, <1>7, <1>8 DEF NfsServe

LEMMA FuseServeTypes ==
    ASSUME HandleTypes, ServeTypes, NEW w \in Workers, FuseServe(w)
    PROVE  ServeTypes'
<1> USE DEF fs, threads
<1>0. /\ gen \in 1 .. MaxGen /\ faults \in 0 .. MaxFaults
      /\ \A h \in DOMAIN open_files : open_files[h] \in Files
      /\ pc \in [Workers -> {"idle", "decide", "read", "release", "attr", "reply"}]
      /\ DOMAIN res = Workers /\ \A v \in Workers : res[v].err \in ErrorNames
  BY DEF ServeTypes, HandleTypes
<1>1. ASSUME NEW m, NEW r, NEW h, Answering(w, m, r, h), r.err \in ErrorNames,
             faults' \in 0 .. MaxFaults, UNCHANGED gen,
             \A k \in DOMAIN open_files' : open_files'[k] \in Files
      PROVE  ServeTypes'
  BY <1>0, <1>1 DEF Answering, ServeTypes
<1>2. ASSUME NEW m, NEW x, Genuine(x), NEW r \in Results(x) \union {x}, NEW h,
             Answering(w, m, r, h), UNCHANGED fs
      PROVE  ServeTypes'
  <2>1. faults' \in 0 .. MaxFaults /\ r.err \in ErrorNames
    BY <1>0, <1>2, Charged DEF Answering
  <2> QED BY <1>0, <1>1, <1>2, <2>1
<1>3. CASE FuseLookup(w) \/ FuseReaddir(w)
  BY <1>2, <1>3, GenuineResults DEF FuseLookup, FuseReaddir
<1>4. CASE FuseGetattr(w)
  <2>1. PICK m \in reqs : \E r \in Results(IF m.op = "getattr" THEN Attr(m.ino) ELSE Ok(0)) :
          Answering(w, m, r, 0)
    BY <1>4 DEF FuseGetattr
  <2>2. Genuine(IF m.op = "getattr" THEN Attr(m.ino) ELSE Ok(0))
    BY GenuineResults
  <2>3. UNCHANGED fs
    BY <1>4 DEF FuseGetattr
  <2> QED BY <1>2, <2>1, <2>2, <2>3
<1>5. CASE FuseOpen(w)
  <2>1. PICK m \in reqs : \E r \in Results(OpenResult(m.ino)) :
          /\ Answering(w, m, r, IF r.err = "Ok" THEN next_handle ELSE 0)
          /\ IF r.err = "Ok" THEN Opened(r.ino) ELSE UNCHANGED fs
    BY <1>5 DEF FuseOpen
  <2>2. PICK r \in Results(OpenResult(m.ino)) :
          /\ Answering(w, m, r, IF r.err = "Ok" THEN next_handle ELSE 0)
          /\ IF r.err = "Ok" THEN Opened(r.ino) ELSE UNCHANGED fs
    BY <2>1
  <2>3. faults' \in 0 .. MaxFaults /\ r.err \in ErrorNames
    BY <1>0, <2>2, Charged, GenuineResults DEF Answering
  <2>4. UNCHANGED gen /\ \A h \in DOMAIN open_files' : open_files'[h] \in Files
    BY <1>0, <2>2, OpensFile, OpenedTypes
  <2> QED BY <1>1, <2>2, <2>3, <2>4
<1>6. CASE FuseRead(w)
  <2>1. PICK m \in reqs : \E r \in Results(ReadAt(m.fh, m.offset, ReadBufferLen(m.size)))
              \union {Overclaims(m.fh, m.offset, ReadAt(m.fh, m.offset, ReadBufferLen(m.size)))} :
          Answering(w, m, IF r.err = "Ok"
                          THEN [r EXCEPT !.data = Truncated(r, ReadBufferLen(m.size))] ELSE r, 0)
    BY <1>6 DEF FuseRead
  <2> DEFINE len == ReadBufferLen(m.size)
             r0  == ReadAt(m.fh, m.offset, len)
             r1  == Overclaims(m.fh, m.offset, r0)
  <2>2. PICK r \in Results(r0) \union {r1} :
          Answering(w, m, IF r.err = "Ok" THEN [r EXCEPT !.data = Truncated(r, len)] ELSE r, 0)
    BY <2>1
  <2>3. Genuine(r0) /\ Genuine(r1)
    BY GenuineResults
  <2>4. ([r EXCEPT !.data = Truncated(r, len)]).err = r.err
    OBVIOUS
  <2> HIDE DEF len, r0, r1
  <2>5. Charge(r)
    BY <2>2, <2>4 DEF Answering, Charge
  <2>6. faults' \in 0 .. MaxFaults /\ r.err \in ErrorNames
    BY <1>0, <2>2, <2>3, <2>5, Charged
  <2>7. UNCHANGED fs
    BY <1>6 DEF FuseRead
  <2> QED BY <1>0, <1>1, <2>2, <2>4, <2>6, <2>7
<1>7. CASE FuseRelease(w)
  <2>1. PICK m \in reqs : Answering(w, m, Ok(0), 0) /\ Released(m.fh)
    BY <1>7 DEF FuseRelease
  <2>2. UNCHANGED gen /\ \A h \in DOMAIN open_files' : open_files'[h] \in Files
    BY <2>1, ReleasedTypes
  <2>3. faults' \in 0 .. MaxFaults /\ (Ok(0)).err \in ErrorNames
    BY <1>0, <2>1, Charged, GenuineResults DEF Answering
  <2> QED BY <1>1, <2>1, <2>2, <2>3
<1>8. CASE FuseForget(w)
  BY <1>0, <1>8 DEF FuseForget, ServeTypes
<1>9. CASE FuseXattr(w)
  <2>1. PICK m \in reqs : \E r \in Results(Ok(m.ino))
              \union (IF m.op = "getxattr" THEN {Err("NoXattr")} ELSE {}) :
          Answering(w, m, IF r.err = "Ok" THEN [r EXCEPT !.n = XattrLen] ELSE r, 0)
    BY <1>9 DEF FuseXattr
  <2>2. PICK r \in Results(Ok(m.ino)) \union {Err("NoXattr")} :
          Answering(w, m, IF r.err = "Ok" THEN [r EXCEPT !.n = XattrLen] ELSE r, 0)
    BY <2>1
  <2>3. ([r EXCEPT !.n = XattrLen]).err = r.err
    OBVIOUS
  <2>4. Charge(r)
    BY <2>2, <2>3 DEF Answering, Charge
  <2>5. Genuine(Err("NoXattr"))
    BY DEF Genuine, Err, ErrorNames, FsErrors
  <2>6. faults' \in 0 .. MaxFaults /\ r.err \in ErrorNames
    BY <1>0, <2>2, <2>4, <2>5, Charged, GenuineResults
  <2>7. UNCHANGED fs
    BY <1>9 DEF FuseXattr
  <2> QED BY <1>0, <1>1, <2>2, <2>3, <2>6, <2>7
<1>10. CASE FuseReply(w)
  <2>1. (Ok(0)).err \in ErrorNames
    BY DEF Ok, ErrorNames
  <2> QED BY <1>0, <1>10, <2>1 DEF FuseReply, ServeTypes
<1> QED BY <1>3, <1>4, <1>5, <1>6, <1>7, <1>8, <1>9, <1>10 DEF FuseServe

LEMMA ServeTypesNext ==
    ASSUME HandleTypes, ServeTypes, [Next]_vars
    PROVE  ServeTypes'
<1> USE DEF fs, threads, serving, app, kernel, session, counts, fuseVars, mountVars, nfsClient
<1>1. ASSUME UNCHANGED <<fs, faults, pc, res>> PROVE ServeTypes'
  BY <1>1 DEF ServeTypes
<1>2. CASE Configure \/ Mount \/ UNCHANGED vars
  <2>1. UNCHANGED <<fs, faults, pc, res>>
    BY <1>2 DEF Configure, vars, Mount, MountFuse, MountNfs, MountCfApi, Refused, Becomes
  <2> QED BY <1>1, <2>1
<1>3. CASE NfsNext
  <2>1. CASE NfsCall \/ NfsReceive \/ NfsGiveUp
    <3>1. UNCHANGED <<fs, faults, pc, res>>
      BY <2>1 DEF NfsCall, NfsReceive, NfsGiveUp
    <3> QED BY <1>1, <3>1
  <2>2. CASE NfsRetransmit \/ NfsLose
    <3>1. UNCHANGED <<fs, pc, res>> /\ (faults' = faults \/ (faults < MaxFaults /\ faults' = faults + 1))
      BY <2>2 DEF NfsRetransmit, NfsLose
    <3>2. faults' \in 0 .. MaxFaults
      BY <3>1, MemFsAssumption DEF ServeTypes
    <3> QED BY <3>1, <3>2 DEF ServeTypes
  <2>3. CASE NfsRestart
    <3>1. gen' \in 1 .. MaxGen
      BY <2>3, NfsProcAssumption DEF NfsRestart, ServeTypes
    <3>2. (Ok(0)).err \in ErrorNames
      BY DEF Ok, ErrorNames
    <3>3. DOMAIN open_files' = {}
      BY <2>3 DEF NfsRestart
    <3>4. /\ pc' \in [Workers -> {"idle", "decide", "read", "release", "attr", "reply"}]
          /\ \A w \in Workers : res'[w].err \in ErrorNames
      BY <2>3, <3>2 DEF NfsRestart
    <3> QED BY <2>3, <3>1, <3>3, <3>4 DEF NfsRestart, ServeTypes
  <2> QED BY <1>3, <2>1, <2>2, <2>3, NfsServeTypes DEF NfsNext
<1>4. CASE FuseNext
  <2>1. CASE \/ ReaderAsks \/ Readahead \/ OtherAsks \/ UseAhead \/ Close
             \/ (\E who \in Procs : FuseReceive(who)) \/ (\E i \in Inos : Forget(i))
             \/ FuseUnmount \/ FuseJoin
    <3>1. UNCHANGED <<fs, faults, pc, res>>
      BY <2>1 DEF ReaderAsks, Readahead, OtherAsks, Ask, Submit, UseAhead, Close, FuseReceive,
                  Forget, FuseUnmount, FuseJoin
    <3> QED BY <1>1, <3>1
  <2> QED BY <1>4, <2>1, FuseServeTypes DEF FuseNext
<1> QED BY <1>2, <1>3, <1>4 DEF Next, Nfs, NfsStep, Fuse, FuseStep

LEMMA ClientTypesNext ==
    ASSUME HandleInv, ClientTypes, [Next]_vars
    PROVE  ClientTypes'
<1> USE DEF fs, threads, serving, app, kernel, session, counts, fuseVars, mountVars, nfsClient
<1>1. ASSUME outcome' \in {outcome, "reading", "done", "failed"},
             waiting' \in {waiting, TRUE, FALSE},
             busy' \subseteq busy \union Procs, ahead' = ahead \/ ahead' = {} \/ \E c : ahead' = {c}
      PROVE  ClientTypes'
  BY <1>1 DEF ClientTypes
<1>2. CASE Configure \/ Mount \/ UNCHANGED vars
  <2>1. UNCHANGED <<waiting, busy, ahead>> /\ outcome' \in {outcome, "failed"}
    BY <1>2 DEF Configure, vars, Mount, MountFuse, MountNfs, MountCfApi, Refused, Becomes
  <2> QED BY <1>1, <2>1
<1>3. CASE NfsNext /\ UNCHANGED fuseVars
  <2>1. ASSUME NEW w \in Workers, NfsServe(w) PROVE UNCHANGED <<outcome, waiting>>
    BY <2>1 DEF NfsServe, NfsDispatch, NfsGetattr, NfsDecide, NfsOpen, NfsReadAt, NfsRelease, NfsReply
  <2>2. CASE NfsCall \/ NfsRetransmit \/ NfsLose \/ NfsGiveUp \/ NfsRestart
    <3>1. outcome' \in {outcome, "failed"} /\ waiting' \in {waiting, TRUE, FALSE}
      BY <2>2 DEF NfsCall, NfsRetransmit, NfsLose, NfsGiveUp, NfsRestart
    <3> QED BY <1>1, <1>3, <3>1
  <2>3. CASE NfsReceive
    <3>1. outcome' \in {outcome, "reading", "done", "failed"} /\ waiting' \in {waiting, FALSE}
      BY <2>3 DEF NfsReceive, Accept
    <3> QED BY <1>1, <1>3, <3>1
  <2> QED BY <1>1, <1>3, <2>1, <2>2, <2>3 DEF NfsNext
<1>4. CASE FuseNext /\ UNCHANGED nfsClient /\ backend = "Fuse"
  <2>1. ASSUME NEW w \in Workers, FuseServe(w) PROVE UNCHANGED <<outcome, busy, ahead>>
    BY <2>1 DEF FuseServe, FuseLookup, FuseGetattr, FuseOpen, FuseRead, FuseRelease, FuseForget,
                FuseReaddir, FuseXattr, FuseReply, Answering
  <2>2. CASE ReaderAsks \/ Readahead \/ OtherAsks
    <3>1. UNCHANGED <<outcome, ahead>>
      BY <2>2 DEF ReaderAsks, Readahead, OtherAsks, Ask, Submit
    <3>2. CASE ReaderAsks
      <4>1. busy' = busy \union {"reader"}
        BY <3>2 DEF ReaderAsks, Ask, Req
      <4> QED BY <1>1, <1>4, <3>1, <4>1 DEF Procs
    <3>3. CASE Readahead
      <4>1. busy' = busy \union {"readahead"}
        BY <3>3 DEF Readahead, Ask, Req
      <4> QED BY <1>1, <1>4, <3>1, <4>1 DEF Procs
    <3>4. CASE OtherAsks
      <4>1. busy' = busy \union {"other"}
        BY <3>4 DEF OtherAsks, Ask, Req
      <4> QED BY <1>1, <1>4, <3>1, <4>1 DEF Procs
    <3> QED BY <2>2, <3>2, <3>3, <3>4
  <2>3. CASE Close \/ (\E i \in Inos : Forget(i)) \/ FuseUnmount \/ FuseJoin
    <3>1. UNCHANGED <<busy, ahead>> /\ outcome' \in {outcome, "failed"}
      BY <2>3 DEF Close, Forget, FuseUnmount, FuseJoin, Submit
    <3> QED BY <1>1, <1>4, <3>1
  <2>4. CASE UseAhead
    <3>1. ahead' = {} /\ UNCHANGED busy /\ outcome' \in {outcome, "reading", "done"}
      BY <2>4 DEF UseAhead, Took
    <3> QED BY <1>1, <1>4, <3>1
  <2>5. ASSUME NEW who \in Procs, FuseReceive(who) PROVE ClientTypes'
    <3>1. PICK m \in reps :
            /\ IF who = "reader" THEN ReaderGets(m) ELSE UNCHANGED <<app, node, held>>
            /\ ahead' = IF who = "readahead" /\ m.errno = 0 /\ m.offset >= Len(got)
                        THEN {[offset |-> m.offset, data |-> m.data]} ELSE ahead
            /\ m.who = who
      BY <2>5 DEF FuseReceive
    <3>2. busy' = busy \ {who}
      BY <2>5 DEF FuseReceive
    <3>3. ahead' = ahead \/ \E c : ahead' = {c}
      BY <3>1
    <3>4. who = "reader" => m.op \in {"lookup", "open", "read"}
      <4>1. FlightInv
        BY <1>4, <2>5 DEF FuseReceive, HandleInv, FuseOwn
      <4> QED BY <3>1, <4>1 DEF FlightInv, Asked
    <3>5. outcome' \in {outcome, "reading", "done", "failed"}
      BY <3>1, <3>4 DEF ReaderGets, Took
    <3> QED BY <1>1, <1>4, <3>2, <3>3, <3>5
  <2> QED BY <1>1, <1>4, <2>1, <2>2, <2>3, <2>4, <2>5 DEF FuseNext
<1> QED BY <1>2, <1>3, <1>4 DEF Next, Nfs, NfsStep, Fuse, FuseStep

LEMMA HereExists ==
    ASSUME NEW t \in Seq(STRING), Len(t) <= Len(Path)
    PROVE  Walk[Len(Path) - Len(t)] \in Inos
<1> DEFINE k == Len(Path) - Len(t)
<1>1. k \in 0 .. Len(Path)
  BY FileFacts
<1>2. CASE k = 0
  BY <1>2, FileFacts, MemFsAssumption DEF Inos
<1>3. CASE k # 0
  <2>1. k \in 1 .. Len(Path)
    BY <1>1, <1>3
  <2> HIDE DEF k
  <2>2. /\ Walk[k - 1] \in DOMAIN Dirs /\ Path[k] \in DOMAIN Dirs[Walk[k - 1]]
        /\ Walk[k] = Dirs[Walk[k - 1]][Path[k]]
    BY <2>1, PathAssumption
  <2>3. Walk[k] \in Inos
    BY <2>2, MemFsAssumption
  <2> QED BY <2>3 DEF k
<1> QED BY <1>2, <1>3

LEMMA MountTypesNext ==
    ASSUME ReadInv, ReadInv', LookupInv, LookupInv', MountTypes, [Next]_vars
    PROVE  MountTypes'
<1> USE DEF fs, threads, serving, app, kernel, session, counts, fuseVars, mountVars, nfsClient
<1>1. 1 \in Workers /\ Workers \subseteq Nat
  BY ServingAssumption
<1>2. CASE UNCHANGED vars
  BY <1>2 DEF vars, MountTypes
<1>3. CASE Configure
  <2>1. builder' \in [backend : {"Auto", "Fuse", "Nfs", "CfApi"}, options : SUBSET Options,
                       threads : Workers \union {0}]
    <3>1. CASE \E b \in {"Fuse", "Nfs", "CfApi"} : SetBackend(b)
      BY <3>1 DEF MountTypes, SetBackend
    <3>2. CASE \E o \in Options \ {"threads"}, yes \in BOOLEAN : SetOption(o, yes)
      BY <3>2 DEF MountTypes, SetOption
    <3>3. ASSUME NEW n \in ThreadCounts, SetThreads(n)
          PROVE  builder' \in [backend : {"Auto", "Fuse", "Nfs", "CfApi"}, options : SUBSET Options,
                               threads : Workers \union {0}]
      <4>1. ThreadsClamped(n) \in Workers
        BY <1>1, AnyMountAssumption DEF ThreadsClamped
      <4>2. "threads" \in Options
        BY DEF Options
      <4> QED BY <3>3, <4>1, <4>2 DEF MountTypes, SetThreads
    <3> QED BY <1>3, <3>1, <3>2, <3>3 DEF Configure
  <2> QED BY <1>3, <2>1 DEF Configure, MountTypes
<1>4. CASE Mount
  <2>1. builder' = NewBuilder /\ UNCHANGED node
    BY <1>4 DEF Mount, MountFuse, MountNfs, MountCfApi, Refused, Becomes
  <2>2. NewBuilder \in [backend : {"Auto", "Fuse", "Nfs", "CfApi"}, options : SUBSET Options,
                        threads : Workers \union {0}]
    BY DEF NewBuilder
  <2>3. NThreads \in Workers \union {0}
    BY FuseAssumption DEF NThreads, MountTypes
  <2>4. /\ life' \in {life, "up"} /\ backend' \in {"Fuse", "Nfs", "CfApi", "refused"}
        /\ nthreads' \in {nthreads, NThreads} /\ (backend' # "Nfs" => cur' = cur)
    BY <1>4 DEF Mount, MountFuse, MountNfs, MountCfApi, Refused, Becomes
  <2>5. backend # "Nfs"
    BY <1>4 DEF Mount
  <2> QED BY <2>1, <2>2, <2>3, <2>4, <2>5 DEF MountTypes
<1>5. CASE Nfs
  <2>1. backend = "Nfs" /\ UNCHANGED <<fuseVars, mountVars>>
    BY <1>5 DEF Nfs, NfsStep
  <2> QED BY <2>1 DEF MountTypes
<1>6. CASE Fuse
  <2>1. backend = "Fuse" /\ FuseNext /\ UNCHANGED <<nfsClient, mountVars>>
    BY <1>6 DEF Fuse, FuseStep
  <2> DEFINE Later == /\ nthreads' = nthreads /\ life' \in {life, "detached", "leaving", "down"}
                      /\ ~Attached' => node' = node
  <2>2. Later
    <3>1. ASSUME NEW w \in Workers, FuseServe(w) PROVE UNCHANGED <<nthreads, life, node>>
      BY <3>1 DEF FuseServe, FuseLookup, FuseGetattr, FuseOpen, FuseRead, FuseRelease,
                  FuseForget, FuseReaddir, FuseXattr, FuseReply, Answering
    <3>2. CASE ReaderAsks \/ Readahead \/ OtherAsks \/ Close \/ UseAhead \/ \E i \in Inos : Forget(i)
      BY <3>2 DEF ReaderAsks, Readahead, OtherAsks, Ask, Submit, UseAhead, Close, Forget
    <3>3. CASE \E who \in Procs : FuseReceive(who)
      BY <3>3 DEF FuseReceive, Attached
    <3>4. CASE FuseUnmount \/ FuseJoin
      BY <3>4 DEF FuseUnmount, FuseJoin
    <3> QED BY <2>1, <3>1, <3>2, <3>3, <3>4 DEF FuseNext
  <2>3. node' \in Inos
    <3>1. CASE Attached'
      <4>1. node' = Here' /\ AppInv'
        BY <2>1, <3>1 DEF ReadInv, FuseReading
      <4> QED BY <4>1, HereExists DEF AppInv, Here
    <3> QED BY <2>2, <3>1 DEF MountTypes
  <2> QED BY <2>1, <2>2, <2>3 DEF MountTypes
<1> QED BY <1>2, <1>3, <1>4, <1>5, <1>6 DEF Next

TypeInv == ReadInv /\ LookupInv /\ ServeTypes /\ ClientTypes /\ MountTypes

LEMMA TypesInit == Init => TypeInv
<1> SUFFICES ASSUME Init PROVE TypeInv
  OBVIOUS
<1>1. /\ gen = 1 /\ faults = 0 /\ open_files = << >> /\ pc = [w \in Workers |-> "idle"]
      /\ res = [w \in Workers |-> Ok(0)] /\ outcome = "reading" /\ waiting = FALSE
      /\ busy = {} /\ ahead = {} /\ life = "none" /\ backend = "none" /\ builder = NewBuilder
      /\ nthreads = 0 /\ cur = NoHandle /\ node = ROOT_INO
  BY DEF Init, ServingInit, FsInit, NfsClientInit, FuseInit
<1>2. ServeTypes
  <2>1. 1 \in 1 .. MaxGen /\ 0 \in 0 .. MaxFaults /\ (Ok(0)).err \in ErrorNames
    BY NfsProcAssumption, MemFsAssumption DEF Ok, ErrorNames
  <2> QED BY <1>1, <2>1 DEF ServeTypes
<1>3. ClientTypes
  BY <1>1 DEF ClientTypes
<1>4. MountTypes
  BY <1>1, MemFsAssumption DEF MountTypes, NewBuilder, Inos
<1> QED BY <1>2, <1>3, <1>4, ReadInit, LookupInit DEF TypeInv

LEMMA TypesNext == TypeInv /\ [Next]_vars => TypeInv'
<1> SUFFICES ASSUME TypeInv, [Next]_vars PROVE TypeInv'
  OBVIOUS
<1>1. ReadInv' /\ LookupInv'
  BY ReadNext, LookupNext DEF TypeInv
<1>2. HandleInv /\ HandleTypes
  BY DEF TypeInv, ReadInv, HandleInv
<1>3. ServeTypes' /\ ClientTypes' /\ MountTypes'
  BY <1>1, <1>2, ServeTypesNext, ClientTypesNext, MountTypesNext DEF TypeInv
<1> QED BY <1>1, <1>3 DEF TypeInv

\* What the application has still to walk is the end of its path.
LEMMA TodoType ==
    ASSUME AppInv
    PROVE  todo \in {SubSeq(Path, i, Len(Path)) : i \in 1 .. Len(Path) + 1}
<1> DEFINE n == Len(Path)
           i == n - Len(todo) + 1
           t == SubSeq(Path, i, n)
<1>1. n \in Nat /\ Len(todo) \in Nat /\ i \in 1 .. n + 1 /\ Path \in Seq(STRING)
  BY FileFacts DEF AppInv
<1>2. t \in Seq(STRING) /\ Len(t) = Len(todo)
  BY <1>1
<1>3. \A k \in 1 .. Len(todo) : t[k] = todo[k]
  <2> SUFFICES ASSUME NEW k \in 1 .. Len(todo) PROVE t[k] = todo[k]
    OBVIOUS
  <2>1. t[k] = Path[i + k - 1] /\ i + k - 1 = n - Len(todo) + k
    BY <1>1
  <2> QED BY <2>1 DEF AppInv
<1>4. todo \in Seq(STRING)
  BY DEF AppInv
<1> HIDE DEF t
<1>5. todo = t
  BY <1>2, <1>3, <1>4, SeqEqual
<1> QED BY <1>1, <1>5 DEF t

\* The state of the whole system keeps its type, whichever backend serves: the bounds
\* on faults and programs hold, files are what is open, the kernel reaches inodes that
\* exist, no count of lookups falls below zero, and every mount has threads that exist.
THEOREM AnyMountTypeCorrect == Spec => []TypeOK
<1>1. ASSUME TypeInv PROVE TypeOK
  <2>1. /\ AppInv /\ CountTypes /\ ServeTypes /\ ClientTypes /\ MountTypes /\ HandleTypes
    BY <1>1 DEF TypeInv, ReadInv, LookupInv, HandleInv
  <2>2. Here \in Inos
    BY <2>1, HereExists DEF AppInv, Here
  <2>3. cur.ino \in Inos \union {0}
    <3>1. cur = NoHandle \/ cur = First(Here)
      BY <1>1, <2>1 DEF TypeInv, ReadInv, NfsReading, MountTypes
    <3> QED BY <2>2, <3>1 DEF NoHandle, First
  <2>4. Cardinality(ahead) <= 1
    <3>1. ahead = {} \/ \E c : ahead = {c}
      BY <2>1 DEF ClientTypes
    <3> QED BY <3>1, FS_EmptySet, FS_Singleton
  <2>5. builder.options \subseteq Options
    BY <2>1 DEF MountTypes
  <2>6. todo \in {SubSeq(Path, i, Len(Path)) : i \in 1 .. Len(Path) + 1} /\ Len(got) <= Len(Content)
    BY <2>1, TodoType DEF AppInv
  <2>7. DOMAIN open_files \subseteq 1 .. next_handle - 1
    BY <2>1 DEF HandleTypes
  <2> QED BY <2>1, <2>3, <2>4, <2>5, <2>6, <2>7
          DEF CountTypes, ServeTypes, ClientTypes, MountTypes, TypeOK, ErrorNames
<1>2. TypeInv => TypeOK
  BY <1>1
<1> QED BY TypesInit, TypesNext, <1>2, PTL DEF Spec
==============================================================================
