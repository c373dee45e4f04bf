---------------------------- MODULE ReaddirProofs ----------------------------
(***************************************************************************)
(* For every directory, paging, entry size, budget, number of workers and  *)
(* of faults: type correctness, nothing skipped or repeated, the end of a  *)
(* listing, the agreement and the size of replies, and the refinement of   *)
(* Listing.                                                                *)
(***************************************************************************)
EXTENDS Readdir, SequenceTheorems, FiniteSetTheorems, TLAPS

\* How many entries of Full are synthesized.
Dots == IF Synthesize THEN DOTDOT ELSE 0

\* The cookie of the i-th entry of Full.
CookieAt(i) == i - Dots + DOTDOT

\* s holds the entries of Full that follow the first k, with their cookies.
Follows(k, s) ==
    /\ k + Len(s) <= Len(Full)
    /\ \A i \in 1 .. Len(s) :
        s[i].name = Full[k + i] /\ s[i].cookie = CookieAt(k + i)

\* A request asks for what follows a position of the listing, and a request of
\* the pending call asks for what follows the client's own entries.
RequestInv(m) ==
    /\ m.xid <= xid
    /\ m.count \in Counts[protocol]
    /\ m.cookie <= Len(Full)
    /\ ~Synthesize => m.cookie = 0
    /\ waiting /\ m.xid = xid => m.cookie = Len(got)

\* emit has accepted what follows the request's cookie, and its next offer is
\* the entry after that.
WorkerInv(w) ==
    LET k == req[w].cookie + Len(acc[w])
    IN  /\ RequestInv(req[w])
        /\ Follows(req[w].cookie, acc[w])
        /\ protocol = "fuse" /\ acc[w] = << >> => rem[w] = req[w].count
        /\ pc[w] = "dots" => cookie[w] = k /\ (~Synthesize => acc[w] = << >>)
        /\ pc[w] # "dots" => offset[w] + Dots = k
        /\ pc[w] = "entries" =>
             /\ page[w] # << >>
             /\ offset[w] + Len(page[w]) <= Len(Dir)
             /\ \A j \in 1 .. Len(page[w]) : page[w][j] = Dir[offset[w] + j]

\* A successful reply to the pending call continues the client's entries, and
\* reaches the end of Full if it claims to.
ReplyInv(m) ==
    /\ m.xid <= xid
    /\ waiting /\ m.xid = xid /\ m.status = "ok" =>
         /\ Follows(Len(got), m.entries)
         /\ m.eof => Len(got) + Len(m.entries) = Len(Full)
         /\ protocol = "cfapi" => m.eof
         /\ protocol = "fuse" /\ m.entries = << >> => m.eof

ClientInv ==
    /\ NothingSkippedOrRepeated
    /\ Synthesize => pos = Len(got)
    /\ ~Synthesize /\ ~done => got = << >>
    /\ waiting => ~done
    /\ done => Len(got) = Len(Full)

IInv ==
    /\ TypeOK
    /\ ClientInv
    /\ \A m \in reqs : RequestInv(m)
    /\ \A w \in Workers : pc[w] # "idle" => WorkerInv(w)
    /\ \A m \in reps : ReplyInv(m)

------------------------------------------------------------------------------
(* Facts about the protocol, the listing and the cookies *)

\* The protocol says whether emit synthesizes the dots, and its client has a
\* count to declare.
LEMMA ProtocolFacts ==
    ASSUME protocol \in Protocols
    PROVE  /\ protocol \in {"nfs", "fuse", "cfapi"}
           /\ Synthesize <=> protocol # "cfapi"
           /\ Counts[protocol] \subseteq Nat
           /\ Counts[protocol] # {}
BY ReaddirAssumption

\* Full is the dots followed by the directory's own entries.
LEMMA FullFacts ==
    /\ Dots \in 0 .. 2
    /\ Synthesize => Dots = 2 /\ Full[1] = "." /\ Full[2] = ".."
    /\ ~Synthesize => Dots = 0
    /\ Full \in Seq(Names)
    /\ Len(Full) = Len(Dir) + Dots
    /\ \A j \in 1 .. Len(Dir) : Full[Dots + j] = Dir[j] /\ Dir[j] \in Names
    /\ Synthesize => "." \in Names /\ ".." \in Names
<1> DEFINE S == EntryNames \union {".", ".."}
<1>1. Dir \in Seq(S)
  BY ReaddirAssumption
<1>2. CASE Synthesize
  <2>1. Full = <<".", "..">> \o Dir /\ Dots = 2
    BY <1>2 DEF Full, Dots, DOTDOT
  <2>2. <<".", "..">> \in Seq(S) /\ Len(<<".", "..">>) = 2
    <3>1. "." \in S /\ ".." \in S
      OBVIOUS
    <3> QED
      BY <3>1
  <2>3. /\ Full \in Seq(S) /\ Len(Full) = Len(Dir) + 2
        /\ \A i \in 1 .. Len(Dir) + 2 :
             Full[i] = IF i <= 2 THEN <<".", "..">>[i] ELSE Dir[i - 2]
    <3> HIDE DEF S
    <3> QED
      BY <1>1, <2>1, <2>2, ConcatProperties
  <2>4. Len(Dir) \in Nat
    BY <1>1
  <2>5. Full[1] = "." /\ Full[2] = ".."
    BY <2>3, <2>4
  <2>6. \A j \in 1 .. Len(Dir) : Full[2 + j] = Dir[j] /\ 2 + j \in 1 .. Len(Full)
    BY <2>3, <2>4
  <2>7. \A i \in 1 .. Len(Full) : Full[i] \in Names
    BY DEF Names
  <2>8. Full \in Seq(Names)
    BY <2>3, <2>7
  <2>9. 1 \in 1 .. Len(Full) /\ 2 \in 1 .. Len(Full)
    BY <2>3, <2>4
  <2> QED
    BY <1>2, <2>1, <2>3, <2>5, <2>6, <2>7, <2>8, <2>9
<1>3. CASE ~Synthesize
  <2>1. Full = Dir /\ Dots = 0
    BY <1>3 DEF Full, Dots
  <2>2. \A i \in 1 .. Len(Full) : Full[i] \in Names
    BY DEF Names
  <2>3. Full \in Seq(Names)
    BY <1>1, <2>1, <2>2
  <2> QED
    BY <1>1, <1>3, <2>1, <2>2, <2>3
<1> QED
  BY <1>2, <1>3

\* Resuming after the cookie of entry k lands on trait offset k - Dots.
LEMMA ResumeOffset ==
    ASSUME NEW k \in Nat, Synthesize => k >= DOTDOT, ~Synthesize => k = 0
    PROVE  TraitOffset(k) \in Nat /\ TraitOffset(k) + Dots = k
BY DEF TraitOffset, Dots, DOTDOT

\* A page is a non-empty run of the directory's entries.
LEMMA PageFacts ==
    ASSUME NEW o \in Nat, NEW n \in 1 .. Len(Dir) - o,
           NEW p, p = SubSeq(Dir, o + 1, o + n)
    PROVE  /\ p \in Seq(Names) /\ p # << >> /\ o + Len(p) <= Len(Dir)
           /\ \A j \in 1 .. Len(p) : p[j] = Dir[o + j]
<1>1. Dir \in Seq(EntryNames) /\ Len(Dir) \in Nat
  BY ReaddirAssumption
<1>2. n \in Nat /\ n >= 1 /\ o + n <= Len(Dir)
  BY <1>1
<1>3. Len(p) = n /\ p \in Seq(EntryNames)
  BY <1>1, <1>2
<1>4. \A j \in 1 .. n : p[j] = Dir[o + j] /\ o + j \in 1 .. Len(Dir)
  BY <1>1, <1>2
<1>5. p \in Seq(Names)
  BY <1>3, <1>4, FullFacts
<1>6. p # << >>
  BY <1>2, <1>3
<1> QED
  BY <1>2, <1>3, <1>4, <1>5, <1>6

\* What the sink has packed stays contiguous when the next entry is packed.
LEMMA FollowsAppend ==
    ASSUME NEW k \in Nat, NEW s \in Seq(Entries), NEW e \in Entries,
           Follows(k, s), k + Len(s) + 1 <= Len(Full),
           e.name = Full[k + Len(s) + 1], e.cookie = CookieAt(k + Len(s) + 1)
    PROVE  Follows(k, Append(s, e))
<1> DEFINE t == Append(s, e)
<1>1. Len(t) = Len(s) + 1 /\ t[Len(s) + 1] = e /\ \A i \in 1 .. Len(s) : t[i] = s[i]
  OBVIOUS
<1>2. Len(s) \in Nat /\ Len(Full) \in Nat
  BY FullFacts
<1>3. ASSUME NEW i \in 1 .. Len(t)
      PROVE  t[i].name = Full[k + i] /\ t[i].cookie = CookieAt(k + i)
  <2>1. CASE i \in 1 .. Len(s)
    BY <1>1, <2>1 DEF Follows
  <2>2. CASE i = Len(s) + 1
    <3>1. k + i = k + Len(s) + 1
      BY <1>2, <2>2
    <3> QED
      BY <1>1, <2>2, <3>1
  <2> QED
    BY <1>1, <1>2, <2>1, <2>2
<1> QED
  BY <1>1, <1>2, <1>3 DEF Follows

------------------------------------------------------------------------------
(* The invariant is inductive: one lemma per action *)

LEMMA InitIInv == Init => IInv
<1> SUFFICES ASSUME Init PROVE IInv
  OBVIOUS
<1>1. TypeOK
  <2>1. NoRequest \in Requests
    BY DEF NoRequest, Requests
  <2>2. << >> \in Seq(Names) /\ << >> \in Seq(Entries)
    OBVIOUS
  <2>3. faults \in 0 .. MaxFaults
    BY ReaddirAssumption DEF Init
  <2> QED
    BY <2>1, <2>2, <2>3 DEF Init, TypeOK
<1>2. ClientInv
  BY FullFacts DEF Init, ClientInv, NothingSkippedOrRepeated
<1> QED
  BY <1>1, <1>2 DEF Init, IInv

\* A worker starts with an empty reply at the request's cookie.
LEMMA BeginIInv ==
    ASSUME IInv, NEW w \in Workers, Begin(w) PROVE IInv'
<1> USE DEF IInv
<1>1. PICK m \in reqs :
        /\ reqs' = reqs \ {m}
        /\ req' = [req EXCEPT ![w] = m]
        /\ cookie' = [cookie EXCEPT ![w] = m.cookie]
        /\ rem' = [rem EXCEPT ![w] = Budget(m.count)]
  BY DEF Begin
<1>2. m \in Requests /\ RequestInv(m) /\ m.count \in Nat /\ m.cookie \in Nat
  BY DEF TypeOK, Requests
<1>3. Budget(m.count) \in Nat /\ (protocol = "fuse" => Budget(m.count) = m.count)
  BY <1>2, ReaddirAssumption DEF Budget
<1>4. TypeOK'
  BY <1>1, <1>2, <1>3 DEF TypeOK, Begin, client
<1>5. ClientInv'
  BY DEF Begin, client, ClientInv, NothingSkippedOrRepeated
<1>6. \A n \in reqs' : RequestInv(n)'
  BY <1>1 DEF Begin, client, RequestInv
<1>7. \A n \in reps' : ReplyInv(n)'
  BY DEF Begin, client, ReplyInv
<1>8. ASSUME NEW v \in Workers, pc'[v] # "idle" PROVE WorkerInv(v)'
  <2>1. CASE v = w
    <3>1. /\ req'[w] = m /\ cookie'[w] = m.cookie /\ acc'[w] = << >>
          /\ pc'[w] = "dots" /\ rem'[w] = Budget(m.count)
      BY <1>1 DEF Begin, TypeOK
    <3>2. RequestInv(m)'
      BY <1>2 DEF Begin, client, RequestInv
    <3>3. m.cookie <= Len(Full)
      BY <1>2 DEF RequestInv
    <3>4. Follows(m.cookie, << >>) /\ m.cookie + Len(<< >>) = m.cookie
      BY <1>2, <3>3 DEF Follows
    <3>5. protocol' = protocol
      BY DEF Begin, client
    <3> QED
      BY <2>1, <3>1, <3>2, <3>4, <3>5, <1>3 DEF WorkerInv
  <2>2. CASE v # w
    <3>1. WorkerInv(v)
      BY <1>8, <2>2 DEF Begin, TypeOK
    <3> QED
      BY <3>1, <1>1, <2>2 DEF Begin, TypeOK, WorkerInv, RequestInv, client
  <2> QED
    BY <2>1, <2>2
<1> QED
  BY <1>4, <1>5, <1>6, <1>7, <1>8

\* emit returns and the worker replies: if emit reports the end of the
\* directory, the reply reaches the end of Full.
LEMMA ReplyIInv ==
    ASSUME IInv, NEW w \in Workers, NEW ok \in BOOLEAN, NEW eof \in BOOLEAN,
           pc[w] # "idle", Reply(w, ok, eof),
           UNCHANGED <<client, reqs, req, cookie, offset, page, rem, acc>>,
           faults' \in 0 .. MaxFaults,
           ok /\ eof => req[w].cookie + Len(acc[w]) = Len(Full),
           ok /\ protocol = "cfapi" => eof,
           ok /\ protocol = "fuse" /\ acc[w] = << >> => eof
    PROVE  IInv'
<1> USE DEF IInv
<1> DEFINE m == Outcome(w, ok, eof)
<1>1. /\ reps' = reps \union {m}
      /\ pc' = [pc EXCEPT ![w] = "idle"]
  BY DEF Reply
<1>2. WorkerInv(w) /\ req[w] \in Requests /\ acc[w] \in Seq(Entries)
  BY DEF TypeOK
<1>3. /\ m.xid = req[w].xid /\ m.eof = eof
      /\ m.status = "ok" => ok
      /\ ok => m.entries = acc[w]
      /\ m \in Replies
  <2>1. req[w].xid \in Nat
    BY <1>2 DEF Requests
  <2>2. (IF ok THEN acc[w] ELSE << >>) \in Seq(Entries)
    BY <1>2
  <2> QED
    BY <2>1, <2>2 DEF Outcome, Replies
<1> HIDE DEF m
<1>4. TypeOK'
  BY <1>1, <1>3 DEF TypeOK, client
<1>5. ClientInv'
  BY DEF client, ClientInv, NothingSkippedOrRepeated
<1>6. \A n \in reqs' : RequestInv(n)'
  BY DEF client, RequestInv
<1>7. ReplyInv(m)
  <2>1. RequestInv(req[w]) /\ Follows(req[w].cookie, acc[w])
    BY <1>2 DEF WorkerInv
  <2> QED
    BY <1>3, <2>1 DEF RequestInv, ReplyInv
<1>8. \A n \in reps' : ReplyInv(n)'
  BY <1>1, <1>7 DEF client, ReplyInv
<1>9. ASSUME NEW v \in Workers, pc'[v] # "idle" PROVE WorkerInv(v)'
  <2>1. v # w /\ pc'[v] = pc[v]
    BY <1>1, <1>9 DEF TypeOK
  <2> QED
    BY <1>9, <2>1 DEF WorkerInv, RequestInv, client
<1> QED
  BY <1>4, <1>5, <1>6, <1>8, <1>9

\* Every length an entry can have is a number.
LEMMA LengthIsNat ==
    ASSUME NEW name \in Names, NEW len \in Size[name] PROVE len \in Nat
<1>1. Size[name] \in (SUBSET (Nat \ {0})) \ {{}}
  BY ReaddirAssumption
<1> QED
  BY <1>1

\* The sink packs the entry after the ones it has.
LEMMA TakeFacts ==
    ASSUME IInv, NEW w \in Workers, pc[w] # "idle", NEW name \in Names, NEW c \in Nat,
           NEW len \in Nat, Fits(w, len), Take(w, name, len, c),
           req[w].cookie + Len(acc[w]) + 1 <= Len(Full),
           name = Full[req[w].cookie + Len(acc[w]) + 1],
           c = CookieAt(req[w].cookie + Len(acc[w]) + 1)
    PROVE  /\ acc' \in [Workers -> Seq(Entries)]
           /\ rem' \in [Workers -> Nat]
           /\ Len(acc'[w]) = Len(acc[w]) + 1
           /\ acc'[w] # << >>
           /\ Follows(req[w].cookie, acc'[w])
           /\ \A v \in Workers : v # w => acc'[v] = acc[v] /\ rem'[v] = rem[v]
<1> USE DEF IInv
<1> DEFINE e == [name |-> name, cookie |-> c]
<1>1. e \in Entries /\ e.name = name /\ e.cookie = c
  BY DEF Entries
<1> HIDE DEF e
<1>2. acc[w] \in Seq(Entries) /\ req[w].cookie \in Nat /\ WorkerInv(w)
  BY DEF TypeOK, Requests
<1>3. acc' = [acc EXCEPT ![w] = Append(acc[w], e)]
  BY DEF Take, TypeOK, e
<1>4. acc'[w] = Append(acc[w], e)
  BY <1>3 DEF TypeOK
<1>5. Follows(req[w].cookie, Append(acc[w], e))
  <2>1. Follows(req[w].cookie, acc[w])
    BY <1>2 DEF WorkerInv
  <2> HIDE DEF IInv
  <2> QED
    BY <1>1, <1>2, <2>1, FollowsAppend
<1>6. Append(acc[w], e) \in Seq(Entries) /\ Len(Append(acc[w], e)) = Len(acc[w]) + 1
  BY <1>1, <1>2
<1>7. rem' \in [Workers -> Nat]
  <2>2. rem[w] \in Nat /\ rem \in [Workers -> Nat]
    BY DEF TypeOK
  <2>3. CASE protocol = "cfapi"
    BY <2>2, <2>3 DEF Take
  <2>4. CASE protocol # "cfapi"
    <3>1. rem' = [rem EXCEPT ![w] = rem[w] - len] /\ len <= rem[w]
      BY <2>2, <2>4 DEF Take, Fits
    <3>2. rem[w] - len \in Nat
      BY <2>2, <3>1
    <3> QED
      BY <2>2, <3>1, <3>2
  <2> QED
    BY <2>3, <2>4
<1>8. acc' \in [Workers -> Seq(Entries)]
  BY <1>3, <1>6 DEF TypeOK
<1>9. Append(acc[w], e) # << >>
  BY <1>2, <1>6
<1> QED
  BY <1>3, <1>4, <1>5, <1>6, <1>7, <1>8, <1>9 DEF Take, TypeOK

\* A full sink ends emit without the end of the directory.  FUSE's sink is
\* never full while it is empty, and cfapi's never is.
LEMMA SinkFullIInv ==
    ASSUME IInv, NEW w \in Workers, pc[w] # "idle", NEW name \in Names,
           NEW len \in Size[name], ~Fits(w, len), SinkFull(w)
    PROVE  IInv'
<1>1. protocol # "cfapi"
  BY DEF Fits
<1>2. protocol = "fuse" => acc[w] # << >>
  <2> SUFFICES ASSUME protocol = "fuse", acc[w] = << >> PROVE FALSE
    OBVIOUS
  <2>1. rem[w] = req[w].count /\ req[w].count \in Counts[protocol]
    BY DEF IInv, WorkerInv, RequestInv
  <2>2. len <= rem[w]
    BY <2>1, FuseBufferAssumption DEF IInv, TypeOK
  <2> QED
    BY <2>2 DEF Fits
<1>3. faults' \in 0 .. MaxFaults
  BY DEF SinkFull, IInv, TypeOK
<1> QED
  BY <1>1, <1>2, <1>3, ReplyIInv DEF SinkFull

LEMMA OfferDotIInv ==
    ASSUME IInv, NEW w \in Workers, NEW at \in {0, 1}, NEW name,
           name = IF at = 0 THEN "." ELSE "..", OfferDot(w, at, name)
    PROVE  IInv'
<1> DEFINE k == req[w].cookie + Len(acc[w])
<1>1. pc[w] = "dots" /\ Synthesize /\ cookie[w] = at
  BY DEF OfferDot
<1>2. PICK len \in Size[name] :
      IF Fits(w, len)
      THEN /\ Take(w, name, len, at + 1)
           /\ cookie' = [cookie EXCEPT ![w] = at + 1]
           /\ UNCHANGED <<client, net, pc, req, offset, page>>
      ELSE SinkFull(w)
  BY DEF OfferDot
<1>3. WorkerInv(w) /\ k = at /\ at \in Nat /\ at <= 1
  BY <1>1 DEF IInv, WorkerInv
<1>4. name \in Names /\ k + 1 <= Len(Full) /\ name = Full[k + 1] /\ at + 1 = CookieAt(k + 1)
  <2>1. Len(Full) >= 2
    BY <1>1, FullFacts, ReaddirAssumption
  <2> QED
    BY <1>1, <1>3, <2>1, FullFacts DEF CookieAt, DOTDOT
<1>5. CASE ~Fits(w, len)
  BY <1>1, <1>2, <1>4, <1>5, SinkFullIInv
<1>6. CASE Fits(w, len)
  <2>1. /\ Take(w, name, len, at + 1)
        /\ cookie' = [cookie EXCEPT ![w] = at + 1]
        /\ UNCHANGED <<client, net, pc, req, offset, page>>
    BY <1>2, <1>6
  <2>2. /\ acc' \in [Workers -> Seq(Entries)]
        /\ rem' \in [Workers -> Nat]
        /\ Len(acc'[w]) = Len(acc[w]) + 1
        /\ acc'[w] # << >>
        /\ Follows(req[w].cookie, acc'[w])
        /\ \A v \in Workers : v # w => acc'[v] = acc[v] /\ rem'[v] = rem[v]
    <3>1. at + 1 \in Nat /\ pc[w] # "idle" /\ len \in Nat
      BY <1>1, <1>3, <1>4, LengthIsNat
    <3> HIDE DEF k
    <3> QED
      BY <1>4, <1>6, <2>1, <3>1, TakeFacts DEF k
  <2>3. TypeOK'
    <3>1. cookie' \in [Workers -> Nat]
      BY <1>3, <2>1 DEF IInv, TypeOK
    <3> QED
      BY <2>1, <2>2, <3>1 DEF IInv, TypeOK, client, net
  <2>4. ClientInv' /\ (\A n \in reqs' : RequestInv(n)') /\ (\A n \in reps' : ReplyInv(n)')
    BY <2>1 DEF IInv, ClientInv, NothingSkippedOrRepeated, RequestInv, ReplyInv, client, net
  <2>5. ASSUME NEW v \in Workers, pc'[v] # "idle" PROVE WorkerInv(v)'
    <3>1. CASE v = w
      <4>1. cookie'[w] = req[w].cookie + Len(acc'[w])
        <5> DEFINE c == req[w].cookie
                   l == Len(acc[w])
        <5>1. cookie'[w] = at + 1
          BY <2>1 DEF IInv, TypeOK
        <5>2. c \in Nat /\ acc[w] \in Seq(Entries)
          BY DEF IInv, TypeOK, Requests
        <5>3. l \in Nat
          BY <5>2
        <5>4. c + l = at /\ Len(acc'[w]) = l + 1
          BY <1>3, <2>2
        <5> HIDE DEF c, l
        <5>5. at + 1 = c + (l + 1)
          BY <5>2, <5>3, <5>4
        <5> QED
          BY <5>1, <5>4, <5>5 DEF c
      <4>2. RequestInv(req[w])'
        BY <1>3, <2>1 DEF WorkerInv, RequestInv, client
      <4> QED
        BY <1>1, <2>1, <2>2, <3>1, <4>1, <4>2 DEF WorkerInv
    <3>2. CASE v # w
      BY <2>1, <2>2, <2>5, <3>2 DEF IInv, TypeOK, WorkerInv, RequestInv, client
    <3> QED
      BY <3>1, <3>2
  <2> QED
    BY <2>3, <2>4, <2>5 DEF IInv
<1> QED
  BY <1>5, <1>6

LEMMA StartPagesIInv ==
    ASSUME IInv, NEW w \in Workers, StartPages(w) PROVE IInv'
<1> DEFINE k == req[w].cookie + Len(acc[w])
<1>1. WorkerInv(w) /\ pc[w] = "dots" /\ cookie[w] = k /\ cookie[w] \in Nat
  BY DEF IInv, StartPages, WorkerInv, TypeOK
<1>2. ~Synthesize => cookie[w] = 0
  BY <1>1 DEF WorkerInv, RequestInv
<1>3. TraitOffset(cookie[w]) \in Nat /\ TraitOffset(cookie[w]) + Dots = k
  BY <1>1, <1>2, ResumeOffset DEF StartPages
<1>4. TypeOK'
  BY <1>3 DEF IInv, TypeOK, StartPages, client, net
<1>5. ClientInv' /\ (\A n \in reqs' : RequestInv(n)') /\ (\A n \in reps' : ReplyInv(n)')
  BY DEF StartPages, IInv, ClientInv, NothingSkippedOrRepeated, RequestInv, ReplyInv, client, net
<1>6. ASSUME NEW v \in Workers, pc'[v] # "idle" PROVE WorkerInv(v)'
  <2>1. CASE v = w
    BY <1>1, <1>3, <2>1 DEF StartPages, IInv, TypeOK, WorkerInv, RequestInv, client
  <2>2. CASE v # w
    BY <1>6, <2>2 DEF StartPages, IInv, TypeOK, WorkerInv, RequestInv, client
  <2> QED
    BY <2>1, <2>2
<1> QED
  BY <1>4, <1>5, <1>6 DEF IInv

LEMMA ReadPageIInv ==
    ASSUME IInv, NEW w \in Workers, ReadPage(w) PROVE IInv'
<1> DEFINE k == req[w].cookie + Len(acc[w])
<1>1. pc[w] = "page" /\ WorkerInv(w) /\ offset[w] + Dots = k /\ k <= Len(Full)
  BY DEF IInv, ReadPage, WorkerInv, Follows
<1>2. offset[w] \in Nat /\ Len(Dir) \in Nat /\ Len(Full) = Len(Dir) + Dots /\ Dots \in Nat
  BY FullFacts, ReaddirAssumption DEF IInv, TypeOK
<1>3. CASE offset[w] >= Len(Dir) /\ Reply(w, TRUE, TRUE) /\ UNCHANGED <<faults, page>>
  <2>1. k = Len(Full)
    <3>1. k \in Nat
      <4>1. req[w].cookie \in Nat /\ acc[w] \in Seq(Entries)
        BY DEF IInv, TypeOK, Requests
      <4> QED
        BY <4>1
    <3> QED
      BY <1>1, <1>2, <1>3, <3>1
  <2>2. faults' \in 0 .. MaxFaults
    BY <1>3 DEF IInv, TypeOK
  <2> QED
    BY <1>1, <1>3, <2>1, <2>2, ReplyIInv DEF ReadPage
<1>4. CASE faults < MaxFaults /\ faults' = faults + 1 /\ Reply(w, FALSE, FALSE) /\ UNCHANGED page
  <2>1. faults' \in 0 .. MaxFaults
    BY <1>4, ReaddirAssumption DEF IInv, TypeOK
  <2> QED
    BY <1>1, <1>4, <2>1, ReplyIInv DEF ReadPage
<1>5. ASSUME NEW n \in 1 .. Len(Dir) - offset[w],
             page' = [page EXCEPT ![w] = SubSeq(Dir, offset[w] + 1, offset[w] + n)],
             pc' = [pc EXCEPT ![w] = "entries"],
             UNCHANGED <<reps, faults>>
      PROVE  IInv'
  <2> DEFINE p == SubSeq(Dir, offset[w] + 1, offset[w] + n)
  <2>1. /\ p \in Seq(Names) /\ p # << >> /\ offset[w] + Len(p) <= Len(Dir)
        /\ \A j \in 1 .. Len(p) : p[j] = Dir[offset[w] + j]
    <3>1. offset[w] \in Nat /\ p = SubSeq(Dir, offset[w] + 1, offset[w] + n)
      BY <1>2
    <3> HIDE DEF p
    <3> QED
      BY <1>5, <3>1, PageFacts
  <2> HIDE DEF p
  <2>5. page'[w] = p /\ pc'[w] = "entries" /\ page' \in [Workers -> Seq(Names)]
    BY <1>5, <2>1 DEF IInv, TypeOK, p
  <2>6. TypeOK'
    BY <1>5, <2>5 DEF ReadPage, IInv, TypeOK, client
  <2>7. ClientInv' /\ (\A m \in reqs' : RequestInv(m)') /\ (\A m \in reps' : ReplyInv(m)')
    BY <1>5 DEF ReadPage, IInv, ClientInv, NothingSkippedOrRepeated, RequestInv, ReplyInv, client
  <2>8. ASSUME NEW v \in Workers, pc'[v] # "idle" PROVE WorkerInv(v)'
    <3>1. CASE v = w
      <4>1. offset'[w] = offset[w] /\ UNCHANGED <<client, req, cookie, rem, acc>>
        BY DEF ReadPage
      <4> QED
        BY <1>1, <2>1, <2>5, <3>1, <4>1 DEF WorkerInv, RequestInv, client
    <3>2. CASE v # w
      BY <1>5, <2>8, <3>2 DEF ReadPage, IInv, TypeOK, WorkerInv, RequestInv, client
    <3> QED
      BY <3>1, <3>2
  <2> QED
    BY <2>6, <2>7, <2>8 DEF IInv
<1> QED
  BY <1>3, <1>4, <1>5 DEF ReadPage

LEMMA OfferEntryIInv ==
    ASSUME IInv, NEW w \in Workers, OfferEntry(w) PROVE IInv'
<1> DEFINE k == req[w].cookie + Len(acc[w])
           name == Head(page[w])
<1>1. pc[w] = "entries" /\ WorkerInv(w) /\ offset[w] + Dots = k
  BY DEF IInv, OfferEntry, WorkerInv
<1>2. /\ page[w] # << >> /\ offset[w] + Len(page[w]) <= Len(Dir)
      /\ \A j \in 1 .. Len(page[w]) : page[w][j] = Dir[offset[w] + j]
  BY <1>1 DEF WorkerInv
<1>3. /\ offset[w] \in Nat /\ Len(Dir) \in Nat /\ Len(Full) = Len(Dir) + Dots
      /\ Dots \in Nat /\ page[w] \in Seq(Names)
  BY FullFacts, ReaddirAssumption DEF IInv, TypeOK
<1>4. /\ Len(page[w]) \in Nat /\ Len(page[w]) >= 1 /\ name = page[w][1]
      /\ Tail(page[w]) \in Seq(Names) /\ Len(Tail(page[w])) = Len(page[w]) - 1
      /\ \A j \in 1 .. Len(page[w]) - 1 : Tail(page[w])[j] = page[w][j + 1]
  BY <1>2, <1>3
<1>5. name \in Names /\ name = Dir[offset[w] + 1] /\ offset[w] + 1 \in 1 .. Len(Dir)
  BY <1>2, <1>3, <1>4
<1>6. k + 1 <= Len(Full) /\ name = Full[k + 1] /\ ForEntry(offset[w]) = CookieAt(k + 1)
  <2>1. k + 1 = Dots + (offset[w] + 1)
    BY <1>1, <1>3
  <2>2. Full[Dots + (offset[w] + 1)] = Dir[offset[w] + 1]
    BY <1>5, FullFacts
  <2> HIDE DEF k, name
  <2>3. ForEntry(offset[w]) = CookieAt(k + 1)
    BY <1>3, <2>1 DEF ForEntry, CookieAt, DOTDOT
  <2> QED
    BY <1>3, <1>5, <2>1, <2>2, <2>3
<1>7. PICK len \in Size[name] :
      IF Fits(w, len)
      THEN /\ Take(w, name, len, ForEntry(offset[w]))
           /\ offset' = [offset EXCEPT ![w] = @ + 1]
           /\ page' = [page EXCEPT ![w] = Tail(@)]
           /\ pc' = [pc EXCEPT ![w] = IF Len(page[w]) = 1 THEN "page" ELSE "entries"]
           /\ UNCHANGED <<client, net, req, cookie>>
      ELSE SinkFull(w)
  BY DEF OfferEntry
<1>8. CASE ~Fits(w, len)
  <2>1. SinkFull(w)
    BY <1>8, <1>7
  <2> HIDE DEF name
  <2> QED
    BY <1>1, <1>5, <1>8, <2>1, SinkFullIInv
<1>9. CASE Fits(w, len)
  <2>1. /\ Take(w, name, len, ForEntry(offset[w]))
        /\ offset' = [offset EXCEPT ![w] = @ + 1]
        /\ page' = [page EXCEPT ![w] = Tail(@)]
        /\ pc' = [pc EXCEPT ![w] = IF Len(page[w]) = 1 THEN "page" ELSE "entries"]
        /\ UNCHANGED <<client, net, req, cookie>>
    BY <1>9, <1>7
  <2>2. /\ acc' \in [Workers -> Seq(Entries)]
        /\ rem' \in [Workers -> Nat]
        /\ Len(acc'[w]) = Len(acc[w]) + 1
        /\ acc'[w] # << >>
        /\ Follows(req[w].cookie, acc'[w])
        /\ \A v \in Workers : v # w => acc'[v] = acc[v] /\ rem'[v] = rem[v]
    <3>1. ForEntry(offset[w]) \in Nat /\ pc[w] # "idle"
      BY <1>1, <1>3 DEF ForEntry, DOTDOT
    <3> HIDE DEF k, name
    <3>2. len \in Nat
      BY <1>5, LengthIsNat
    <3> QED
      BY <1>5, <1>6, <1>9, <2>1, <3>1, <3>2, TakeFacts DEF k
  <2>3. /\ offset'[w] = offset[w] + 1 /\ page'[w] = Tail(page[w])
        /\ pc'[w] = IF Len(page[w]) = 1 THEN "page" ELSE "entries"
    BY <2>1 DEF IInv, TypeOK
  <2>4. TypeOK'
    <3>1. offset' \in [Workers -> Nat] /\ page' \in [Workers -> Seq(Names)]
      BY <1>4, <2>1 DEF IInv, TypeOK
    <3> QED
      BY <2>1, <2>2, <3>1 DEF IInv, TypeOK, client, net
  <2>5. ClientInv' /\ (\A m \in reqs' : RequestInv(m)') /\ (\A m \in reps' : ReplyInv(m)')
    BY <2>1 DEF IInv, ClientInv, NothingSkippedOrRepeated, RequestInv, ReplyInv, client, net
  <2>6. ASSUME NEW v \in Workers, pc'[v] # "idle" PROVE WorkerInv(v)'
    <3>1. CASE v = w
      <4>1. offset'[w] + Dots = req[w].cookie + Len(acc'[w])
        <5>1. req[w].cookie \in Nat /\ acc[w] \in Seq(Entries)
          BY DEF IInv, TypeOK, Requests
        <5>2. Len(acc[w]) \in Nat
          BY <5>1
        <5>3. Len(acc'[w]) = Len(acc[w]) + 1 /\ offset'[w] = offset[w] + 1
          BY <2>2, <2>3
        <5> DEFINE c == req[w].cookie
                   l == Len(acc[w])
        <5>4. offset[w] + Dots = c + l /\ offset[w] \in Nat /\ Dots \in Nat /\ c \in Nat /\ l \in Nat
          BY <1>1, <1>3, <5>1, <5>2
        <5> HIDE DEF c, l
        <5>5. (offset[w] + 1) + Dots = c + (l + 1)
          BY <5>4
        <5> QED
          BY <5>3, <5>5 DEF c, l
      <4>2. RequestInv(req[w])'
        BY <1>1, <2>1 DEF WorkerInv, RequestInv, client
      <4>3. pc'[w] = "entries" =>
              /\ page'[w] # << >>
              /\ offset'[w] + Len(page'[w]) <= Len(Dir)
              /\ \A j \in 1 .. Len(page'[w]) : page'[w][j] = Dir[offset'[w] + j]
        <5>1. \A j \in 1 .. Len(page[w]) - 1 : page[w][j + 1] = Dir[offset[w] + 1 + j]
          <6> TAKE j \in 1 .. Len(page[w]) - 1
          <6>1. j + 1 \in 1 .. Len(page[w]) /\ offset[w] + (j + 1) = offset[w] + 1 + j
            <7> DEFINE l == Len(page[w])
                       o == offset[w]
            <7>1. l \in Nat /\ o \in Nat /\ j \in 1 .. l - 1
              BY <1>3, <1>4
            <7> HIDE DEF l, o, name, k
            <7>2. j + 1 \in 1 .. l /\ o + (j + 1) = o + 1 + j
              BY <7>1
            <7> QED
              BY <7>2 DEF l, o
          <6> QED
            BY <1>2, <6>1
        <5>2. pc'[w] = "entries" => Tail(page[w]) # << >>
          <6>1. pc'[w] = "entries" => Len(Tail(page[w])) # 0
            BY <1>4, <2>3
          <6> QED
            BY <6>1
        <5> QED
          BY <1>2, <1>3, <1>4, <2>3, <5>1, <5>2
      <4>4. pc'[w] # "dots"
        BY <2>3
      <4> QED
        BY <2>1, <2>2, <3>1, <4>1, <4>2, <4>3, <4>4 DEF WorkerInv
    <3>2. CASE v # w
      BY <2>1, <2>2, <2>6, <3>2 DEF IInv, TypeOK, WorkerInv, RequestInv, client
    <3> QED
      BY <3>1, <3>2
  <2> QED
    BY <2>4, <2>5, <2>6 DEF IInv
<1> QED
  BY <1>8, <1>9

LEMMA CallIInv == ASSUME IInv, Call PROVE IInv'
<1>0. PICK m : m = CallFrom(xid + 1)
  OBVIOUS
<1>1. /\ xid \in Nat /\ pos \in Nat /\ count \in Counts[protocol] /\ count \in Nat
      /\ got \in Seq(Names) /\ Len(got) <= Len(Full) /\ ~done
  BY ReaddirAssumption DEF IInv, TypeOK, Call, ClientInv, NothingSkippedOrRepeated
<1>2. /\ m.xid = xid + 1 /\ m.count = count /\ m \in Requests
      /\ m.cookie = Len(got) /\ (~Synthesize => m.cookie = 0)
  <2>1. CASE Synthesize
    BY <1>0, <1>1, <2>1, ProtocolFacts DEF CallFrom, Requests, IInv, ClientInv, TypeOK
  <2>2. CASE ~Synthesize
    <3>1. got = << >> /\ Len(got) = 0
      BY <1>1, <2>2 DEF IInv, ClientInv
    <3> QED
      BY <1>0, <1>1, <2>2, <3>1, ProtocolFacts DEF CallFrom, Requests, IInv, TypeOK
  <2> QED
    BY <2>1, <2>2
<1>3. reqs' = reqs \union {m} /\ xid' = xid + 1 /\ waiting' = TRUE
  BY <1>0 DEF Call
<1>4. TypeOK'
  BY <1>1, <1>2, <1>3 DEF Call, IInv, TypeOK, locals
<1>5. ClientInv'
  BY <1>1 DEF Call, IInv, ClientInv, NothingSkippedOrRepeated
<1>6. ASSUME NEW n \in Requests, RequestInv(n) PROVE RequestInv(n)'
  <2>1. n.xid \in Nat
    BY DEF Requests
  <2> QED
    BY <1>1, <1>3, <1>6, <2>1 DEF Call, RequestInv
<1>7. RequestInv(m)'
  BY <1>1, <1>2, <1>3 DEF Call, RequestInv
<1>8. \A n \in reqs' : RequestInv(n)'
  BY <1>3, <1>6, <1>7 DEF IInv, TypeOK
<1>9. ASSUME NEW n \in reps' PROVE ReplyInv(n)'
  <2>1. n \in reps /\ n \in Replies /\ ReplyInv(n)
    BY DEF Call, IInv, TypeOK
  <2>2. n.xid \in Nat /\ n.xid <= xid
    BY <2>1 DEF Replies, ReplyInv
  <2> QED
    BY <1>1, <1>3, <2>2 DEF Call, ReplyInv
<1>10. ASSUME NEW v \in Workers, pc'[v] # "idle" PROVE WorkerInv(v)'
  <2>1. WorkerInv(v) /\ req[v] \in Requests
    BY <1>10 DEF Call, locals, IInv, TypeOK
  <2>2. RequestInv(req[v])'
    BY <1>6, <2>1 DEF WorkerInv, Call, locals, RequestInv
  <2> QED
    BY <2>1, <2>2 DEF WorkerInv, Call, locals
<1> QED
  BY <1>4, <1>5, <1>8, <1>9, <1>10 DEF IInv

\* A reply to the pending call extends the client's entries along Full.
LEMMA ExtendFacts ==
    ASSUME IInv, NEW m \in reps, waiting, m.xid = xid, m.status = "ok",
           NEW g, g = got \o [i \in 1 .. Len(m.entries) |-> m.entries[i].name]
    PROVE  /\ m.entries \in Seq(Entries)
           /\ g \in Seq(Names)
           /\ Len(g) = Len(got) + Len(m.entries)
           /\ Len(g) <= Len(Full)
           /\ \A i \in 1 .. Len(g) : g[i] = Full[i]
<1> DEFINE t == [i \in 1 .. Len(m.entries) |-> m.entries[i].name]
<1>1. m \in Replies /\ ReplyInv(m) /\ got \in Seq(Names)
  BY DEF IInv, TypeOK
<1>2. m.entries \in Seq(Entries) /\ Follows(Len(got), m.entries)
  BY <1>1 DEF Replies, ReplyInv
<1>3. \A i \in 1 .. Len(m.entries) : m.entries[i].name \in Names
  <2>1. \A i \in 1 .. Len(m.entries) : m.entries[i] \in Entries
    BY <1>2
  <2> QED
    BY <2>1 DEF Entries
<1>4. Len(m.entries) \in Nat
  BY <1>2
<1>5. t \in Seq(Names) /\ Len(t) = Len(m.entries)
  BY <1>3, <1>4
<1>6. \A i \in 1 .. Len(t) : t[i] = Full[Len(got) + i]
  BY <1>2, <1>5 DEF Follows
<1> HIDE DEF t
<1>7. g = got \o t
  BY DEF t
<1>8. /\ g \in Seq(Names) /\ Len(g) = Len(got) + Len(t)
      /\ \A i \in 1 .. Len(got) + Len(t) :
           g[i] = IF i <= Len(got) THEN got[i] ELSE t[i - Len(got)]
  <2>1. /\ got \o t \in Seq(Names) /\ Len(got \o t) = Len(got) + Len(t)
        /\ \A i \in 1 .. Len(got) + Len(t) :
             (got \o t)[i] = IF i <= Len(got) THEN got[i] ELSE t[i - Len(got)]
    <3>1. got \in Seq(Names) /\ t \in Seq(Names)
      BY <1>1, <1>5
    <3> QED
      BY ONLY <3>1, ConcatProperties
  <2> QED
    BY <1>7, <2>1
<1>9. Len(got) + Len(m.entries) <= Len(Full)
  BY <1>2 DEF Follows
<1>10. ASSUME NEW i \in 1 .. Len(g) PROVE g[i] = Full[i]
  <2>1. Len(got) \in Nat /\ Len(t) \in Nat
    BY <1>1, <1>5
  <2>2. CASE i <= Len(got)
    BY <1>8, <2>1, <2>2 DEF IInv, ClientInv, NothingSkippedOrRepeated
  <2>3. CASE ~(i <= Len(got))
    <3>1. i - Len(got) \in 1 .. Len(t) /\ Len(got) + (i - Len(got)) = i
      BY <1>8, <2>1, <2>3
    <3> QED
      BY <1>6, <1>8, <2>1, <2>3, <3>1
  <2> QED
    BY <2>2, <2>3
<1> QED
  BY <1>2, <1>5, <1>8, <1>9, <1>10

\* What a step that accepts a reply leaves for the client.
LEMMA AcceptClient ==
    ASSUME IInv, NEW m \in reps, Accept(m)
    PROVE  /\ got' \in Seq(Names) /\ pos' \in Nat /\ done' \in BOOLEAN
           /\ xid' = xid /\ waiting' = FALSE /\ count' \in Counts[protocol]
           /\ protocol' = protocol
           /\ ClientInv'
<1>1. waiting /\ m.xid = xid /\ waiting' = FALSE /\ xid' = xid /\ protocol' = protocol
  BY DEF Accept
<1>2. count' \in Counts[protocol]
  BY DEF Accept, IInv, TypeOK
<1>3. CASE m.status = "ok"
  <2>1. /\ got' = got \o [i \in 1 .. Len(m.entries) |-> m.entries[i].name]
        /\ pos' = IF m.entries = << >> THEN pos ELSE m.entries[Len(m.entries)].cookie
        /\ done' = CASE protocol = "nfs"   -> m.eof
                     [] protocol = "fuse"  -> m.entries = << >>
                     [] protocol = "cfapi" -> TRUE
    BY <1>3 DEF Accept
  <2>2. /\ m.entries \in Seq(Entries) /\ got' \in Seq(Names)
        /\ Len(got') = Len(got) + Len(m.entries)
        /\ Len(got') <= Len(Full)
        /\ \A i \in 1 .. Len(got') : got'[i] = Full[i]
    BY <1>1, <1>3, <2>1, ExtendFacts
  <2>3. ReplyInv(m) /\ m.eof \in BOOLEAN /\ got \in Seq(Names) /\ pos \in Nat
    BY DEF IInv, TypeOK, Replies
  <2>4. Len(got) \in Nat /\ Len(m.entries) \in Nat
    BY <2>2, <2>3
  <2>5. m.entries # << >> =>
          /\ m.entries[Len(m.entries)].cookie \in Nat
          /\ m.entries[Len(m.entries)].cookie = CookieAt(Len(got) + Len(m.entries))
    <3> SUFFICES ASSUME m.entries # << >>
                 PROVE  /\ m.entries[Len(m.entries)].cookie \in Nat
                        /\ m.entries[Len(m.entries)].cookie = CookieAt(Len(got) + Len(m.entries))
      OBVIOUS
    <3>1. Len(m.entries) \in 1 .. Len(m.entries)
      BY <2>2
    <3>2. m.entries[Len(m.entries)] \in Entries
      BY <2>2, <3>1
    <3>3. Follows(Len(got), m.entries)
      BY <1>1, <1>3, <2>3 DEF ReplyInv
    <3> QED
      BY <3>1, <3>2, <3>3 DEF Follows, Entries
  <2>6. pos' \in Nat
    BY <2>1, <2>3, <2>5
  <2>7. Synthesize => pos' = Len(got')
    <3> SUFFICES ASSUME Synthesize PROVE pos' = Len(got')
      OBVIOUS
    <3>1. CASE m.entries = << >>
      <4>1. Len(m.entries) = 0 /\ pos = Len(got) /\ pos' = pos
        BY <2>1, <3>1 DEF IInv, ClientInv
      <4> QED
        BY <2>2, <2>4, <4>1
    <3>2. CASE m.entries # << >>
      <4>1. pos' = CookieAt(Len(got) + Len(m.entries))
        BY <2>1, <2>5, <3>2
      <4> QED
        BY <2>2, <2>4, <4>1, FullFacts DEF CookieAt, DOTDOT
    <3> QED
      BY <3>1, <3>2
  <2>8. done' \in BOOLEAN /\ (done' => m.eof) /\ (~Synthesize => done')
    <3>1. CASE protocol = "nfs"
      BY <2>1, <2>3, <3>1, ProtocolFacts DEF IInv, TypeOK
    <3>2. CASE protocol = "fuse"
      BY <1>1, <1>3, <2>1, <2>3, <3>2, ProtocolFacts DEF ReplyInv, IInv, TypeOK
    <3>3. CASE protocol = "cfapi"
      BY <1>1, <1>3, <2>1, <2>3, <3>3, ProtocolFacts DEF ReplyInv, IInv, TypeOK
    <3> QED
      BY <3>1, <3>2, <3>3, ProtocolFacts DEF IInv, TypeOK
  <2>9. done' => Len(got') = Len(Full)
    BY <1>1, <1>3, <2>2, <2>3, <2>8 DEF ReplyInv
  <2> QED
    BY <1>1, <1>2, <2>2, <2>6, <2>7, <2>8, <2>9 DEF ClientInv, NothingSkippedOrRepeated
<1>4. CASE m.status # "ok"
  BY <1>1, <1>2, <1>4 DEF Accept, IInv, TypeOK, ClientInv, NothingSkippedOrRepeated
<1> QED
  BY <1>3, <1>4

\* Steps that only take away messages or send the pending call again keep the
\* invariant, and so does the acceptance of a reply: no call is pending after.
LEMMA ReceiveIInv == ASSUME IInv, Receive PROVE IInv'
<1>1. PICK m \in reps : /\ reps' = reps \ {m}
                        /\ Accept(m) \/ UNCHANGED client
  BY DEF Receive
<1>2. UNCHANGED <<reqs, faults, pc, req, cookie, offset, page, rem, acc>>
  BY DEF Receive, locals
<1>3. CASE Accept(m)
  <2>1. /\ got' \in Seq(Names) /\ pos' \in Nat /\ done' \in BOOLEAN
        /\ xid' = xid /\ waiting' = FALSE /\ count' \in Counts[protocol]
        /\ protocol' = protocol
        /\ ClientInv'
    BY <1>3, AcceptClient
  <2>2. TypeOK'
    BY <1>1, <1>2, <2>1 DEF IInv, TypeOK
  <2>3. \A n \in reqs' : RequestInv(n)'
    BY <1>2, <2>1 DEF IInv, RequestInv
  <2>4. \A n \in reps' : ReplyInv(n)'
    BY <1>1, <2>1 DEF IInv, ReplyInv
  <2>5. \A v \in Workers : pc'[v] # "idle" => WorkerInv(v)'
    BY <1>2, <2>1 DEF IInv, WorkerInv, RequestInv
  <2> QED
    BY <2>1, <2>2, <2>3, <2>4, <2>5 DEF IInv
<1>4. CASE UNCHANGED client
  BY <1>1, <1>2, <1>4 DEF client, IInv, TypeOK, ClientInv, NothingSkippedOrRepeated,
     RequestInv, ReplyInv, WorkerInv
<1> QED
  BY <1>1, <1>3, <1>4

LEMMA RetransmitIInv == ASSUME IInv, Retransmit PROVE IInv'
<1>0. PICK m : m = CallFrom(xid)
  OBVIOUS
<1>1. /\ xid \in Nat /\ pos \in Nat /\ count \in Counts[protocol] /\ count \in Nat /\ waiting
      /\ Synthesize /\ protocol # "cfapi"
      /\ got \in Seq(Names) /\ Len(got) <= Len(Full) /\ pos = Len(got)
  BY ReaddirAssumption
     DEF IInv, TypeOK, Retransmit, ClientInv, NothingSkippedOrRepeated
<1>2. m \in Requests /\ RequestInv(m)
  BY <1>0, <1>1 DEF CallFrom, Requests, RequestInv
<1>3. reqs' = reqs \union {m} /\ faults' \in 0 .. MaxFaults
  BY <1>0, ReaddirAssumption DEF Retransmit, CurrentCall, IInv, TypeOK
<1>4. UNCHANGED <<client, reps, pc, req, cookie, offset, page, rem, acc>>
  BY DEF Retransmit, locals
<1>5. TypeOK' /\ ClientInv'
  BY <1>2, <1>3, <1>4 DEF client, IInv, TypeOK, ClientInv, NothingSkippedOrRepeated
<1>6. (\A n \in reqs' : RequestInv(n)') /\ (\A n \in reps' : ReplyInv(n)')
  BY <1>2, <1>3, <1>4 DEF client, IInv, RequestInv, ReplyInv
<1>7. \A v \in Workers : pc'[v] # "idle" => WorkerInv(v)'
  BY <1>4 DEF client, IInv, WorkerInv, RequestInv
<1> QED
  BY <1>5, <1>6, <1>7 DEF IInv

LEMMA LoseIInv == ASSUME IInv, Lose PROVE IInv'
<1>1. reqs' \subseteq reqs /\ reps' \subseteq reps /\ faults' \in 0 .. MaxFaults
  BY ReaddirAssumption DEF Lose, IInv, TypeOK
<1>2. UNCHANGED <<client, pc, req, cookie, offset, page, rem, acc>>
  BY DEF Lose, locals
<1> QED
  BY <1>1, <1>2 DEF client, IInv, TypeOK, ClientInv, NothingSkippedOrRepeated,
     RequestInv, ReplyInv, WorkerInv

LEMMA NextIInv == IInv /\ [Next]_vars => IInv'
<1> SUFFICES ASSUME IInv, [Next]_vars PROVE IInv'
  OBVIOUS
<1>1. ASSUME NEW w \in Workers, Emit(w) PROVE IInv'
  <2>1. CASE OfferDots(w)
    BY <2>1, OfferDotIInv DEF OfferDots, DOT
  <2> QED
    BY <1>1, <2>1, BeginIInv, StartPagesIInv, ReadPageIInv, OfferEntryIInv DEF Emit
<1>2. CASE UNCHANGED vars
  BY <1>2 DEF vars, client, net, locals, IInv, TypeOK, ClientInv, NothingSkippedOrRepeated,
     RequestInv, ReplyInv, WorkerInv
<1> QED
  BY <1>1, <1>2, CallIInv, ReceiveIInv, RetransmitIInv, LoseIInv DEF Next

\* Every variable of emit, the client and the transport keeps its type; in
\* particular the sink's remaining bytes never go below zero.
THEOREM ReaddirTypeCorrect == Spec => []TypeOK
<1>1. IInv => TypeOK
  BY DEF IInv
<1> QED
  BY <1>1, InitIInv, NextIInv, PTL DEF Spec

\* No interleaving of pages, full replies, errors, losses and retransmissions
\* makes the client skip, repeat or reorder an entry.
THEOREM NothingSkippedOrRepeatedTheorem == Spec => []NothingSkippedOrRepeated
<1>1. IInv => NothingSkippedOrRepeated
  BY DEF IInv, ClientInv
<1> QED
  BY <1>1, InitIInv, NextIInv, PTL DEF Spec

\* A listing that the client believes complete is complete.
THEOREM EndMeansCompleteTheorem == Spec => []EndMeansComplete
<1>1. IInv => EndMeansComplete
  <2> SUFFICES ASSUME IInv, done PROVE got = Full
    BY DEF EndMeansComplete
  <2>1. got \in Seq(Names) /\ Full \in Seq(Names) /\ Len(got) = Len(Full)
    BY FullFacts DEF IInv, TypeOK, ClientInv
  <2>2. \A i \in 1 .. Len(got) : got[i] = Full[i]
    BY DEF IInv, ClientInv, NothingSkippedOrRepeated
  <2> QED
    BY <2>1, <2>2
<1> QED
  BY <1>1, InitIInv, NextIInv, PTL DEF Spec

------------------------------------------------------------------------------
(* Repeated calls *)

\* Whatever is on its way for call x asks for, or answers with, the entries after the
\* first k; an answer claims the end exactly when it reaches it.
AnswersAt(x, k) ==
    /\ \A m \in reqs : m.xid = x => m.cookie = k
    /\ \A w \in Workers : pc[w] # "idle" /\ req[w].xid = x => req[w].cookie = k
    /\ \A m \in reps : m.xid = x /\ m.status = "ok" =>
         Follows(k, m.entries) /\ (m.eof = TRUE <=> k + Len(m.entries) = Len(Full))

\* Every call, the pending one and those that are over, has one such position.
AgreeInv ==
    \A x \in 0 .. xid : \E k \in 0 .. Len(Full) :
        AnswersAt(x, k) /\ (waiting /\ x = xid => k = Len(got))

\* What a worker replies continues the request's cookie, and claims the end exactly
\* when it is there.
LEMMA ReplyAgrees ==
    ASSUME IInv, AgreeInv, NEW w \in Workers, NEW ok \in BOOLEAN, NEW eof \in BOOLEAN,
           pc[w] # "idle", Reply(w, ok, eof), UNCHANGED <<client, reqs, req>>,
           ok => (eof <=> req[w].cookie + Len(acc[w]) = Len(Full))
    PROVE  AgreeInv'
<1> DEFINE m == Outcome(w, ok, eof)
<1>1. /\ reps' = reps \union {m}
      /\ pc' = [pc EXCEPT ![w] = "idle"]
  BY DEF Reply
<1>2. /\ m.xid = req[w].xid /\ m.eof = eof
      /\ m.status = "ok" => ok /\ m.entries = acc[w]
  BY DEF Outcome
<1>3. Follows(req[w].cookie, acc[w])
  BY DEF IInv, WorkerInv
<1> HIDE DEF m
<1>4. \A v \in Workers : pc'[v] # "idle" => pc[v] # "idle"
  BY <1>1 DEF IInv, TypeOK
<1>5. ASSUME NEW x, NEW k, AnswersAt(x, k) PROVE AnswersAt(x, k)'
  <2>1. \A n \in reqs' : n.xid = x => n.cookie = k
    BY <1>5 DEF AnswersAt
  <2>2. \A v \in Workers : pc'[v] # "idle" /\ req'[v].xid = x => req'[v].cookie = k
    BY <1>4, <1>5 DEF AnswersAt
  <2>3. m.xid = x => req[w].cookie = k
    BY <1>2, <1>5 DEF AnswersAt
  <2>4. ASSUME NEW n \in reps', n.xid = x, n.status = "ok"
        PROVE  Follows(k, n.entries) /\ (n.eof = TRUE <=> k + Len(n.entries) = Len(Full))
    BY <1>1, <1>2, <1>3, <1>5, <2>3, <2>4 DEF AnswersAt
  <2> QED BY <2>1, <2>2, <2>4 DEF AnswersAt
<1> QED BY <1>5 DEF AgreeInv, client

\* Fewer messages on their way, or the same.
LEMMA FewerAgree ==
    ASSUME AgreeInv, reqs' \subseteq reqs, reps' \subseteq reps, UNCHANGED xid,
           waiting' => waiting /\ UNCHANGED got,
           \A w \in Workers : pc'[w] # "idle" =>
               \/ pc[w] # "idle" /\ req'[w] = req[w]
               \/ req'[w] \in reqs
    PROVE  AgreeInv'
<1>1. ASSUME NEW x, NEW k, AnswersAt(x, k) PROVE AnswersAt(x, k)'
  BY <1>1 DEF AnswersAt
<1> QED BY <1>1 DEF AgreeInv

LEMMA EmitAgrees ==
    ASSUME IInv, AgreeInv, NEW w \in Workers, Emit(w)
    PROVE  AgreeInv'
<1> USE DEF client, net
<1>0. /\ DOMAIN pc = Workers /\ DOMAIN req = Workers
      /\ offset[w] \in Nat /\ Len(Dir) \in Nat /\ Len(Full) = Len(Dir) + Dots /\ Dots \in 0 .. 2
      /\ Synthesize => Dots = 2
      /\ pc[w] # "idle" => WorkerInv(w)
  BY FullFacts, ReaddirAssumption DEF IInv, TypeOK
<1>1. CASE Begin(w)
  BY <1>0, <1>1, FewerAgree DEF Begin
<1>2. ASSUME pc[w] # "idle", UNCHANGED <<client, reqs, reps, req>>,
             \A v \in Workers : v # w => pc'[v] = pc[v]
      PROVE  AgreeInv'
  BY <1>2, FewerAgree
<1>3. ASSUME pc[w] # "idle", SinkFull(w), req[w].cookie + Len(acc[w]) < Len(Full)
      PROVE  AgreeInv'
  <2>1. Reply(w, TRUE, FALSE) /\ UNCHANGED <<client, reqs, req>>
    BY <1>3 DEF SinkFull
  <2>2. req[w].cookie + Len(acc[w]) # Len(Full)
    BY <1>3
  <2> QED BY <1>3, <2>1, <2>2, ReplyAgrees
<1>4. ASSUME NEW at \in {0, 1}, NEW name, OfferDot(w, at, name) PROVE AgreeInv'
  <2>1. pc[w] = "dots" /\ Synthesize /\ cookie[w] = at /\ cookie[w] = req[w].cookie + Len(acc[w])
    BY <1>0, <1>4 DEF OfferDot, WorkerInv
  <2>2. req[w].cookie + Len(acc[w]) < Len(Full)
    BY <1>0, <2>1
  <2>3. CASE UNCHANGED <<client, net, pc, req, offset, page>>
    BY <1>2, <2>1, <2>3
  <2> QED BY <1>3, <1>4, <2>1, <2>2, <2>3 DEF OfferDot
<1>5. CASE StartPages(w)
  BY <1>0, <1>2, <1>5 DEF StartPages
<1>6. CASE ReadPage(w)
  <2>1. pc[w] = "page" /\ offset[w] + Dots = req[w].cookie + Len(acc[w])
    BY <1>0, <1>6 DEF ReadPage, WorkerInv
  <2>2. UNCHANGED <<client, reqs, req>>
    BY <1>6 DEF ReadPage
  <2>3. CASE offset[w] >= Len(Dir) /\ Reply(w, TRUE, TRUE)
    <3>1. req[w].cookie + Len(acc[w]) = Len(Full)
      <4>1. req[w].cookie + Len(acc[w]) <= Len(Full)
        BY <1>0, <2>1 DEF WorkerInv, Follows
      <4> QED BY <1>0, <2>1, <2>3, <4>1
    <3> QED BY <2>1, <2>2, <2>3, <3>1, ReplyAgrees
  <2>4. CASE Reply(w, FALSE, FALSE)
    BY <2>1, <2>2, <2>4, ReplyAgrees
  <2>5. CASE pc' = [pc EXCEPT ![w] = "entries"] /\ UNCHANGED <<reps, faults>>
    BY <1>0, <1>2, <2>1, <2>2, <2>5
  <2> QED BY <1>6, <2>3, <2>4, <2>5 DEF ReadPage
<1>7. CASE OfferEntry(w)
  <2>1. /\ pc[w] = "entries" /\ offset[w] + Dots = req[w].cookie + Len(acc[w])
        /\ page[w] # << >> /\ offset[w] + Len(page[w]) <= Len(Dir)
    BY <1>0, <1>7 DEF OfferEntry, WorkerInv
  <2>2. page[w] \in Seq(Names)
    BY DEF IInv, TypeOK
  <2>3. Len(page[w]) \in Nat /\ Len(page[w]) > 0
    BY <2>1, <2>2
  <2>4. req[w].cookie + Len(acc[w]) < Len(Full)
    BY <1>0, <2>1, <2>3
  <2>5. CASE /\ UNCHANGED <<client, net, req, cookie>>
             /\ pc' = [pc EXCEPT ![w] = IF Len(page[w]) = 1 THEN "page" ELSE "entries"]
    BY <1>0, <1>2, <2>1, <2>5
  <2> QED BY <1>3, <1>7, <2>1, <2>4, <2>5 DEF OfferEntry
<1> QED BY <1>1, <1>4, <1>5, <1>6, <1>7 DEF Emit, OfferDots, DOT

LEMMA AgreeNext == IInv /\ AgreeInv /\ [Next]_vars => AgreeInv'
<1> SUFFICES ASSUME IInv, AgreeInv, [Next]_vars PROVE AgreeInv'
  OBVIOUS
<1> USE DEF client, net, locals
<1>1. CASE Lose \/ UNCHANGED vars
  BY <1>1, FewerAgree DEF Lose, vars
<1>2. CASE Receive
  <2>1. PICK m \in reps : /\ reps' = reps \ {m}
                          /\ Accept(m) \/ UNCHANGED client
    BY <1>2 DEF Receive
  <2>2. UNCHANGED <<reqs, locals>>
    BY <1>2 DEF Receive
  <2>3. UNCHANGED xid /\ (waiting' => waiting /\ UNCHANGED got)
    <3>1. CASE Accept(m)
      <4>1. waiting' = FALSE /\ UNCHANGED xid
        BY <3>1 DEF Accept
      <4> QED BY <4>1
    <3> QED BY <2>1, <3>1
  <2> QED BY <2>1, <2>2, <2>3, FewerAgree
<1>3. /\ xid \in Nat /\ got \in Seq(Names) /\ Len(got) \in 0 .. Len(Full)
      /\ Full \in Seq(Names) /\ Len(Full) \in Nat
  BY FullFacts DEF IInv, TypeOK, ClientInv, NothingSkippedOrRepeated
<1>4. ASSUME NEW x, (CallFrom(x)).cookie # Len(got), ~done PROVE FALSE
  <2>1. CASE Synthesize
    BY <1>4, <2>1, ProtocolFacts DEF CallFrom, IInv, ClientInv, TypeOK
  <2>2. CASE ~Synthesize
    BY <1>4, <2>2, ProtocolFacts DEF CallFrom, IInv, ClientInv, TypeOK
  <2> QED BY <2>1, <2>2
<1>5. CASE Call
  <2> DEFINE c == CallFrom(xid + 1)
  <2>1. /\ ~waiting /\ ~done /\ xid' = xid + 1 /\ waiting' = TRUE /\ reqs' = reqs \union {c}
        /\ UNCHANGED <<got, reps, pc, req>>
    BY <1>5 DEF Call
  <2>2. c.xid = xid + 1 /\ c.cookie = Len(got)
    BY <1>4, <2>1 DEF CallFrom
  <2> HIDE DEF c
  <2>3. ASSUME NEW x \in 0 .. xid, NEW k, AnswersAt(x, k) PROVE AnswersAt(x, k)'
    BY <1>3, <2>1, <2>2, <2>3 DEF AnswersAt
  <2>4. ASSUME NEW x, x = xid + 1, NEW k, k = Len(got) PROVE AnswersAt(x, k)'
    <3>1. \A m \in reqs : m.xid \in Nat /\ m.xid <= xid
      BY DEF IInv, TypeOK, Requests, RequestInv
    <3>2. \A m \in reps : m.xid \in Nat /\ m.xid <= xid
      BY DEF IInv, TypeOK, Replies, ReplyInv
    <3>3. \A w \in Workers : pc[w] # "idle" => req[w].xid \in Nat /\ req[w].xid <= xid
      BY DEF IInv, TypeOK, Requests, WorkerInv, RequestInv
    <3>4. \A n \in Nat : n <= xid => n # xid + 1
      BY <1>3
    <3>5. \A n \in reqs' : n.xid = x => n.cookie = k
      BY <2>1, <2>2, <2>4, <3>1, <3>4
    <3> QED BY <2>1, <2>4, <3>2, <3>3, <3>4, <3>5 DEF AnswersAt
  <2>5. ASSUME NEW x \in 0 .. xid'
        PROVE  \E k \in 0 .. Len(Full) : AnswersAt(x, k)' /\ (waiting' /\ x = xid' => k = Len(got'))
    <3>1. CASE x = xid + 1
      <4>1. PICK k : k = Len(got)
        OBVIOUS
      <4>2. AnswersAt(x, k)' /\ got' = got
        BY <2>1, <2>4, <3>1, <4>1
      <4> QED BY <1>3, <4>1, <4>2
    <3>2. CASE x # xid + 1
      <4>1. x \in 0 .. xid /\ x # xid'
        BY <1>3, <2>1, <3>2
      <4>2. PICK k \in 0 .. Len(Full) : AnswersAt(x, k)
        BY <4>1 DEF AgreeInv
      <4> QED BY <2>3, <4>1, <4>2
    <3> QED BY <3>1, <3>2
  <2> QED BY <2>5 DEF AgreeInv
<1>6. CASE Retransmit
  <2> DEFINE c == CallFrom(xid)
  <2>1. /\ waiting /\ reqs' = reqs \union {c} /\ UNCHANGED <<client, reps, pc, req>>
    BY <1>6 DEF Retransmit, CurrentCall
  <2>2. c.xid = xid /\ c.cookie = Len(got)
    <3>1. ~done
      BY <2>1 DEF IInv, ClientInv
    <3> QED BY <1>4, <3>1 DEF CallFrom
  <2> HIDE DEF c
  <2>3. ASSUME NEW x, NEW k, AnswersAt(x, k), x = xid => k = Len(got) PROVE AnswersAt(x, k)'
    BY <2>1, <2>2, <2>3 DEF AnswersAt
  <2> QED BY <2>1, <2>3 DEF AgreeInv
<1> QED BY <1>1, <1>2, <1>5, <1>6, EmitAgrees DEF Next

\* However a call is repeated, and whatever its executions find out about the entries'
\* attributes, its successful replies list the same entries as far as each goes, and
\* the one that claims the end is the longest.
THEOREM RetransmissionsAgreeTheorem == Spec => []RetransmissionsAgree
<1>1. Init => AgreeInv
  <2> SUFFICES ASSUME Init PROVE AgreeInv
    OBVIOUS
  <2>1. 0 \in 0 .. Len(Full)
    BY FullFacts
  <2>2. \A x : AnswersAt(x, 0)
    BY DEF Init, AnswersAt
  <2> QED BY <2>1, <2>2 DEF Init, AgreeInv
<1>2. IInv /\ AgreeInv => RetransmissionsAgree
  <2> SUFFICES ASSUME IInv, AgreeInv, NEW m \in reps, NEW n \in reps,
                      m.xid = n.xid, m.status = "ok", n.status = "ok",
                      Len(n.entries) <= Len(m.entries)
               PROVE  /\ n.entries = SubSeq(m.entries, 1, Len(n.entries))
                      /\ n.eof => m = n
    BY DEF RetransmissionsAgree
  <2>1. /\ m \in Replies /\ n \in Replies /\ m.xid \in 0 .. xid
    BY DEF IInv, TypeOK, ReplyInv, Replies
  <2>2. PICK k \in 0 .. Len(Full) : AnswersAt(m.xid, k)
    BY <2>1 DEF AgreeInv
  <2>3. /\ Follows(k, m.entries) /\ (m.eof = TRUE <=> k + Len(m.entries) = Len(Full))
        /\ Follows(k, n.entries) /\ (n.eof = TRUE <=> k + Len(n.entries) = Len(Full))
    BY <2>2 DEF AnswersAt
  <2> DEFINE a == m.entries
             b == n.entries
  <2>4. a \in Seq(Entries) /\ b \in Seq(Entries) /\ Len(a) \in Nat /\ Len(b) \in Nat
    BY <2>1 DEF Replies
  <2>5. \A i \in 1 .. Len(b) : b[i] = a[i]
    <3> SUFFICES ASSUME NEW i \in 1 .. Len(b) PROVE b[i] = a[i]
      OBVIOUS
    <3>1. i \in 1 .. Len(a)
      BY <2>4
    <3>2. a[i].name = b[i].name /\ a[i].cookie = b[i].cookie
      BY <2>3, <3>1 DEF Follows
    <3>3. a[i] \in Entries /\ b[i] \in Entries
      BY <2>4, <3>1
    <3> QED BY <3>2, <3>3 DEF Entries
  <2>6. b = SubSeq(a, 1, Len(b))
    <3>1. /\ SubSeq(a, 1, Len(b)) \in Seq(Entries) /\ Len(SubSeq(a, 1, Len(b))) = Len(b)
          /\ \A i \in 1 .. Len(b) : SubSeq(a, 1, Len(b))[i] = a[i]
      BY <2>4
    <3> QED BY <2>4, <2>5, <3>1
  <2>7. ASSUME n.eof PROVE m = n
    <3>1. n.eof = TRUE /\ m.eof \in BOOLEAN
      BY <2>1, <2>7 DEF Replies
    <3>2. k + Len(a) <= Len(Full) /\ k + Len(b) = Len(Full) /\ Len(Full) \in Nat
      BY <2>3, <3>1, FullFacts DEF Follows
    <3>3. Len(a) = Len(b)
      BY <2>4, <3>2
    <3>4. m.eof = n.eof
      BY <2>3, <3>1, <3>3
    <3>5. a = b
      BY <2>4, <2>5, <3>3
    <3> QED BY <2>1, <3>4, <3>5 DEF Replies
  <2> QED BY <2>6, <2>7
<1> QED BY <1>1, <1>2, InitIInv, NextIInv, AgreeNext, PTL DEF Spec

------------------------------------------------------------------------------
(* What a reply packs *)

\* A request of the pending call declares the client's count.
FitRequest(m) == waiting /\ m.xid = xid => m.count = count

\* What is packed and what is left are the request's budget, which is not empty once
\* something is packed.
FitWorker(w) ==
    /\ FitRequest(req[w])
    /\ IsFiniteSet(PackedBytes(acc[w]))
    /\ Cardinality(PackedBytes(acc[w])) + rem[w] <= Budget(req[w].count)
    /\ acc[w] # << >> => Overhead < req[w].count

FitReply(m) ==
    waiting /\ m.xid = xid /\ m.entries # << >>
        => Cardinality(PackedBytes(m.entries)) + Overhead <= count

FitInv ==
    protocol = "nfs" =>
        /\ \A m \in reqs : FitRequest(m)
        /\ \A w \in Workers : pc[w] # "idle" => FitWorker(w)
        /\ \A m \in reps : FitReply(m)

LEMMA PackedNothing ==
    IsFiniteSet(PackedBytes(<< >>)) /\ Cardinality(PackedBytes(<< >>)) = 0
<1>1. PackedBytes(<< >>) = {}
  BY DEF PackedBytes
<1> QED BY <1>1, FS_EmptySet

\* An entry packed at one of its lengths adds no more than that length.
LEMMA PackedAppend ==
    ASSUME NEW s \in Seq(Entries), NEW e \in Entries, NEW len \in Size[e.name],
           IsFiniteSet(PackedBytes(s))
    PROVE  /\ IsFiniteSet(PackedBytes(Append(s, e)))
           /\ Cardinality(PackedBytes(s)) \in Nat
           /\ Cardinality(PackedBytes(Append(s, e))) \in Nat
           /\ Cardinality(PackedBytes(Append(s, e))) <= Cardinality(PackedBytes(s)) + len
<1> DEFINE t == Append(s, e)
           n == Len(s) + 1
           P == PackedBytes(s)
           B == SureBytes(e.name)
           T == 1 .. len
           O == {n}
           U == O \X B
<1>1. /\ Len(t) = n /\ t[n] = e /\ \A i \in 1 .. Len(s) : t[i] = s[i]
      /\ Len(s) \in Nat
  OBVIOUS
<1>2. len \in Nat
  BY LengthIsNat DEF Entries
<1>3. B \subseteq T
  <2>1. \A k \in B : k \in Nat /\ k >= 1 /\ k <= len
    <3> SUFFICES ASSUME NEW k \in B PROVE k \in Nat /\ k >= 1 /\ k <= len
      OBVIOUS
    <3>1. PICK l \in Size[e.name] : k \in 1 .. l
      BY DEF SureBytes
    <3>2. k <= len
      BY DEF SureBytes
    <3>3. l \in Nat
      BY LengthIsNat DEF Entries
    <3> QED BY <3>1, <3>2, <3>3
  <2> QED BY <1>2, <2>1
<1>4. PackedBytes(t) = P \union U
  <2>1. \A x : x \in PackedBytes(t) <=> \E i \in 1 .. Len(t) : x \in {i} \X SureBytes(t[i].name)
    BY DEF PackedBytes
  <2>2. \A x : x \in P <=> \E i \in 1 .. Len(s) : x \in {i} \X SureBytes(s[i].name)
    BY DEF PackedBytes
  <2>3. \A i : i \in 1 .. Len(t) <=> i \in 1 .. Len(s) \/ i = n
    BY <1>1
  <2> HIDE DEF t, n, P
  <2>4. \A x : x \in PackedBytes(t) <=> x \in P \/ x \in U
    <3> SUFFICES ASSUME NEW x PROVE x \in PackedBytes(t) <=> x \in P \/ x \in U
      OBVIOUS
    <3>1. ASSUME x \in PackedBytes(t) PROVE x \in P \/ x \in U
      <4>1. PICK i \in 1 .. Len(t) : x \in {i} \X SureBytes(t[i].name)
        BY <2>1, <3>1
      <4>2. CASE i = n
        BY <1>1, <4>1, <4>2
      <4>3. CASE i \in 1 .. Len(s)
        BY <1>1, <2>2, <4>1, <4>3
      <4> QED BY <2>3, <4>2, <4>3
    <3>2. ASSUME x \in P PROVE x \in PackedBytes(t)
      <4>1. PICK i \in 1 .. Len(s) : x \in {i} \X SureBytes(s[i].name)
        BY <2>2, <3>2
      <4> QED BY <1>1, <2>1, <2>3, <4>1
    <3>3. ASSUME x \in U PROVE x \in PackedBytes(t)
      BY <1>1, <2>1, <2>3, <3>3
    <3> QED BY <3>1, <3>2, <3>3
  <2> QED BY <2>4
<1>5. IsFiniteSet(O) /\ Cardinality(O) = 1
  BY FS_Singleton
<1>6. IsFiniteSet(T) /\ Cardinality(T) = len
  BY <1>2, FS_Interval
<1> HIDE DEF B, T, O, P, t
<1>7. IsFiniteSet(B) /\ Cardinality(B) \in Nat /\ Cardinality(B) <= len
  BY <1>3, <1>6, FS_Subset, FS_CardinalityType
<1>8. IsFiniteSet(U) /\ Cardinality(U) = Cardinality(B)
  <2>1. IsFiniteSet(U) /\ Cardinality(U) = Cardinality(O) * Cardinality(B)
    BY <1>5, <1>7, FS_Product
  <2> QED BY <1>5, <1>7, <2>1
<1> HIDE DEF U
<1>9. IsFiniteSet(P) /\ Cardinality(P) \in Nat
  BY FS_CardinalityType DEF P
<1>10. /\ IsFiniteSet(P \union U) /\ IsFiniteSet(P \intersect U)
       /\ Cardinality(P \union U) = Cardinality(P) + Cardinality(U) - Cardinality(P \intersect U)
  <2>1. P \intersect U \in SUBSET P
    OBVIOUS
  <2> QED BY <1>8, <1>9, <2>1, FS_Union, FS_Subset
<1>11. Cardinality(P \union U) \in Nat /\ Cardinality(P \intersect U) \in Nat
  BY <1>10, FS_CardinalityType
<1>12. Cardinality(P \union U) <= Cardinality(P) + len
  BY <1>2, <1>7, <1>8, <1>9, <1>10, <1>11
<1> QED BY <1>4, <1>9, <1>10, <1>11, <1>12 DEF P, t

\* The NFS budget is what the overhead leaves of the count.
LEMMA BudgetFacts ==
    ASSUME protocol = "nfs", NEW n \in Nat
    PROVE  /\ Budget(n) \in Nat
           /\ Budget(n) > 0 => Overhead < n
           /\ Overhead < n => Budget(n) = n - Overhead
BY ReaddirAssumption DEF Budget

\* Fewer messages on their way, or the same, and what a worker packs fits.
LEMMA FewerFit ==
    ASSUME FitInv, protocol = "nfs", reqs' \subseteq reqs, reps' \subseteq reps,
           UNCHANGED <<protocol, xid>>, waiting' => waiting /\ UNCHANGED count,
           \A w \in Workers : pc'[w] # "idle" =>
               \/ pc[w] # "idle" /\ req'[w] = req[w] /\ acc'[w] = acc[w] /\ rem'[w] = rem[w]
               \/ FitWorker(w)'
    PROVE  FitInv'
<1>1. \A m : FitRequest(m) => FitRequest(m)'
  BY DEF FitRequest
<1>2. \A m : FitReply(m) => FitReply(m)'
  BY DEF FitReply
<1>3. ASSUME NEW w \in Workers, pc'[w] # "idle" PROVE FitWorker(w)'
  <2>1. CASE pc[w] # "idle" /\ req'[w] = req[w] /\ acc'[w] = acc[w] /\ rem'[w] = rem[w]
    <3>1. FitWorker(w)
      BY <2>1 DEF FitInv
    <3>2. FitRequest(req[w])'
      BY <2>1, <3>1 DEF FitWorker, FitRequest
    <3> QED BY <2>1, <3>1, <3>2 DEF FitWorker, Budget
  <2> QED BY <1>3, <2>1
<1> QED BY <1>1, <1>2, <1>3 DEF FitInv

LEMMA BeginFits ==
    ASSUME IInv, FitInv, protocol = "nfs", NEW w \in Workers, Begin(w)
    PROVE  FitInv'
<1>1. PICK m \in reqs :
        /\ reqs' = reqs \ {m}
        /\ req' = [req EXCEPT ![w] = m]
        /\ rem' = [rem EXCEPT ![w] = Budget(m.count)]
  BY DEF Begin
<1>2. m \in Requests /\ m.count \in Nat /\ FitRequest(m)
  BY DEF IInv, TypeOK, Requests, FitInv
<1>3. req'[w] = m /\ rem'[w] = Budget(m.count) /\ acc'[w] = << >> /\ Budget(m.count) \in Nat
  BY <1>1, <1>2, BudgetFacts DEF IInv, TypeOK, Begin
<1>4. FitRequest(req[w])'
  BY <1>2, <1>3 DEF FitRequest, Begin, client
<1>5. Cardinality(PackedBytes(<< >>)) + Budget(m.count) <= Budget(m.count)
  BY <1>3, PackedNothing
<1>6. FitWorker(w)'
  BY <1>3, <1>4, <1>5, PackedNothing DEF FitWorker, Budget, Begin, client
<1>7. \A v \in Workers : v # w =>
        pc'[v] = pc[v] /\ req'[v] = req[v] /\ acc'[v] = acc[v] /\ rem'[v] = rem[v]
  BY <1>1 DEF IInv, TypeOK, Begin
<1>8. UNCHANGED <<client, reps>>
  BY DEF Begin
<1> QED BY <1>1, <1>6, <1>7, <1>8, FewerFit DEF client

\* The sink packs an entry at a length that is left of its budget.
LEMMA TakeFits ==
    ASSUME IInv, FitInv, protocol = "nfs", NEW w \in Workers, pc[w] # "idle",
           NEW name \in Names, NEW c \in Nat, NEW len \in Size[name],
           Fits(w, len), Take(w, name, len, c), UNCHANGED <<client, net, req>>,
           \A v \in Workers : v # w => pc'[v] = pc[v]
    PROVE  FitInv'
<1> DEFINE e == [name |-> name, cookie |-> c]
<1>1. e \in Entries /\ e.name = name
  BY DEF Entries
<1>2. /\ acc' = [acc EXCEPT ![w] = Append(acc[w], e)]
      /\ rem' = [rem EXCEPT ![w] = rem[w] - len]
      /\ len <= rem[w]
  BY DEF Take, Fits, IInv, TypeOK
<1> HIDE DEF e
<1>3. /\ acc[w] \in Seq(Entries) /\ rem[w] \in Nat /\ req[w] \in Requests
      /\ acc'[w] = Append(acc[w], e) /\ rem'[w] = rem[w] - len
  BY <1>2 DEF IInv, TypeOK
<1>4. /\ FitRequest(req[w]) /\ IsFiniteSet(PackedBytes(acc[w]))
      /\ Cardinality(PackedBytes(acc[w])) + rem[w] <= Budget(req[w].count)
  BY DEF FitInv, FitWorker
<1>5. len \in Nat /\ len # 0
  <2>1. Size[name] \in (SUBSET (Nat \ {0})) \ {{}}
    BY ReaddirAssumption
  <2> QED BY <2>1
<1>6. req[w].count \in Nat
  BY <1>3 DEF Requests
<1>7. /\ IsFiniteSet(PackedBytes(acc'[w]))
      /\ Cardinality(PackedBytes(acc[w])) \in Nat
      /\ Cardinality(PackedBytes(acc'[w])) \in Nat
      /\ Cardinality(PackedBytes(acc'[w])) <= Cardinality(PackedBytes(acc[w])) + len
  BY <1>1, <1>3, <1>4, PackedAppend
<1>8. Cardinality(PackedBytes(acc'[w])) + rem'[w] <= Budget(req[w].count)
  <2>1. Budget(req[w].count) \in Nat
    BY <1>6, BudgetFacts
  <2> QED BY <1>2, <1>3, <1>4, <1>5, <1>7, <2>1
<1>9. Overhead < req[w].count
  <2>1. Budget(req[w].count) \in Nat /\ Budget(req[w].count) > 0
    <3>1. Budget(req[w].count) \in Nat
      BY <1>6, BudgetFacts
    <3> QED BY <1>2, <1>3, <1>4, <1>5, <1>7, <3>1
  <2> QED BY <1>6, <2>1, BudgetFacts
<1>10. FitRequest(req[w])'
  BY <1>4 DEF FitRequest, client
<1>11. FitWorker(w)'
  <2>1. req'[w] = req[w] /\ Budget(req[w].count)' = Budget(req[w].count)
    BY DEF Budget, client
  <2> QED BY <1>7, <1>8, <1>9, <1>10, <2>1 DEF FitWorker
<1>12. \A v \in Workers : v # w =>
        pc'[v] = pc[v] /\ req'[v] = req[v] /\ acc'[v] = acc[v] /\ rem'[v] = rem[v]
  BY <1>2 DEF IInv, TypeOK
<1> QED BY <1>11, <1>12, FewerFit DEF client, net

\* A reply that packs something leaves room for the overhead.
LEMMA ReplyFits ==
    ASSUME IInv, FitInv, protocol = "nfs", NEW w \in Workers, NEW ok \in BOOLEAN,
           NEW eof \in BOOLEAN, pc[w] # "idle", Reply(w, ok, eof),
           UNCHANGED <<client, reqs, req, rem, acc>>
    PROVE  FitInv'
<1> DEFINE m == Outcome(w, ok, eof)
<1>1. /\ reps' = reps \union {m}
      /\ pc' = [pc EXCEPT ![w] = "idle"]
  BY DEF Reply
<1>2. m.xid = req[w].xid /\ (m.entries # << >> => m.entries = acc[w])
  BY DEF Outcome
<1> HIDE DEF m
<1>3. FitWorker(w) /\ req[w].count \in Nat /\ rem[w] \in Nat /\ Overhead \in Nat
  BY ReaddirAssumption DEF FitInv, IInv, TypeOK, Requests
<1>4. FitReply(m)
  <2> SUFFICES ASSUME waiting, m.xid = xid, m.entries # << >>
               PROVE  Cardinality(PackedBytes(m.entries)) + Overhead <= count
    BY DEF FitReply
  <2>1. m.entries = acc[w] /\ req[w].count = count
    BY <1>2, <1>3 DEF FitWorker, FitRequest
  <2>2. Budget(count) = count - Overhead
    BY <1>2, <1>3, <2>1, BudgetFacts DEF FitWorker
  <2>3. /\ Cardinality(PackedBytes(acc[w])) \in Nat
        /\ Cardinality(PackedBytes(acc[w])) + rem[w] <= count - Overhead
    BY <1>3, <2>1, <2>2, FS_CardinalityType DEF FitWorker
  <2> QED BY <1>3, <2>1, <2>3
<1>5. \A n \in reps' : FitReply(n)'
  <2>1. \A n \in reps' : FitReply(n)
    BY <1>1, <1>4 DEF FitInv
  <2> QED BY <2>1 DEF FitReply, client
<1>6. \A n \in reqs' : FitRequest(n)'
  BY DEF FitInv, FitRequest, client
<1>7. ASSUME NEW v \in Workers, pc'[v] # "idle" PROVE FitWorker(v)'
  <2>1. FitWorker(v)
    BY <1>1, <1>7 DEF FitInv, IInv, TypeOK
  <2>2. FitRequest(req[v])'
    BY <2>1 DEF FitWorker, FitRequest, client
  <2> QED BY <2>1, <2>2 DEF FitWorker, Budget, client
<1> QED BY <1>5, <1>6, <1>7 DEF FitInv

LEMMA EmitFits ==
    ASSUME IInv, FitInv, protocol = "nfs", NEW w \in Workers, Emit(w)
    PROVE  FitInv'
<1> USE DEF client, net
<1>0. DOMAIN pc = Workers /\ offset[w] \in Nat /\ (pc[w] # "idle" => WorkerInv(w))
  BY DEF IInv, TypeOK
<1>1. ASSUME pc[w] # "idle", UNCHANGED <<client, reqs, reps, req, acc, rem>>,
             \A v \in Workers : v # w => pc'[v] = pc[v]
      PROVE  FitInv'
  BY <1>1, FewerFit
<1>2. ASSUME pc[w] # "idle", SinkFull(w) PROVE FitInv'
  BY <1>2, ReplyFits DEF SinkFull
<1>3. ASSUME NEW at \in {0, 1}, NEW name, name \in {".", ".."}, OfferDot(w, at, name) PROVE FitInv'
  <2>1. pc[w] = "dots" /\ Synthesize
    BY <1>3 DEF OfferDot
  <2>2. PICK len \in Size[name] :
        IF Fits(w, len)
        THEN Take(w, name, len, at + 1) /\ UNCHANGED <<client, net, pc, req, offset, page>>
        ELSE SinkFull(w)
    BY <1>3 DEF OfferDot
  <2>3. name \in Names /\ at + 1 \in Nat
    BY <1>3, <2>1, FullFacts
  <2>4. CASE Fits(w, len)
    <3>1. Take(w, name, len, at + 1) /\ UNCHANGED <<client, net, pc, req>>
      BY <2>2, <2>4
    <3>2. pc[w] # "idle"
      BY <2>1
    <3> QED BY <2>3, <2>4, <3>1, <3>2, TakeFits
  <2> QED BY <1>2, <2>1, <2>2, <2>4
<1>4. CASE StartPages(w)
  BY <1>0, <1>1, <1>4 DEF StartPages
<1>5. CASE ReadPage(w)
  <2>1. pc[w] # "idle" /\ UNCHANGED <<client, reqs, req, rem, acc>>
    BY <1>5 DEF ReadPage
  <2>2. CASE \E eof \in BOOLEAN : Reply(w, eof, eof)
    BY <2>1, <2>2, ReplyFits
  <2>3. CASE pc' = [pc EXCEPT ![w] = "entries"] /\ UNCHANGED reps
    BY <1>0, <1>1, <2>1, <2>3
  <2> QED BY <1>5, <2>2, <2>3 DEF ReadPage
<1>6. CASE OfferEntry(w)
  <2>1. pc[w] = "entries" /\ page[w] # << >> /\ page[w] \in Seq(Names)
    BY <1>0, <1>6 DEF OfferEntry, WorkerInv, IInv, TypeOK
  <2> DEFINE name == Head(page[w])
             c == ForEntry(offset[w])
  <2>2. PICK len \in Size[name] :
        IF Fits(w, len)
        THEN /\ Take(w, name, len, c)
             /\ pc' = [pc EXCEPT ![w] = IF Len(page[w]) = 1 THEN "page" ELSE "entries"]
             /\ UNCHANGED <<client, net, req, cookie>>
        ELSE SinkFull(w)
    BY <1>6 DEF OfferEntry
  <2>3. name \in Names /\ c \in Nat
    BY <1>0, <2>1 DEF ForEntry, DOTDOT
  <2> HIDE DEF name, c
  <2>4. CASE Fits(w, len)
    <3>1. Take(w, name, len, c) /\ UNCHANGED <<client, net, req>>
      BY <2>2, <2>4
    <3>2. pc[w] # "idle" /\ \A v \in Workers : v # w => pc'[v] = pc[v]
      BY <1>0, <2>1, <2>2, <2>4
    <3> QED BY <2>3, <2>4, <3>1, <3>2, TakeFits
  <2> QED BY <1>2, <2>1, <2>2, <2>4
<1> QED BY <1>3, <1>4, <1>5, <1>6, BeginFits DEF Emit, OfferDots, DOT

\* No step changes the protocol.
LEMMA ProtocolFixed == ASSUME [Next]_vars PROVE protocol' = protocol
BY DEF Next, vars, client, Emit, Begin, OfferDots, OfferDot, SinkFull, StartPages, ReadPage,
       OfferEntry, Call, Receive, Accept, Retransmit, Lose

LEMMA FitNext == IInv /\ FitInv /\ [Next]_vars => FitInv'
<1> SUFFICES ASSUME IInv, FitInv, [Next]_vars, protocol = "nfs" PROVE FitInv'
  BY ProtocolFixed DEF FitInv
<1> USE DEF client, net, locals
<1>1. CASE Lose \/ UNCHANGED vars
  BY <1>1, FewerFit DEF Lose, vars
<1>2. CASE Receive
  <2>1. PICK m \in reps : /\ reps' = reps \ {m}
                          /\ Accept(m) \/ UNCHANGED client
    BY <1>2 DEF Receive
  <2>2. UNCHANGED <<reqs, locals>>
    BY <1>2 DEF Receive
  <2>3. UNCHANGED <<protocol, xid>> /\ (waiting' => waiting /\ UNCHANGED count)
    <3>1. CASE Accept(m)
      <4>1. waiting' = FALSE /\ UNCHANGED <<protocol, xid>>
        BY <3>1 DEF Accept
      <4> QED BY <4>1
    <3> QED BY <2>1, <3>1
  <2> QED BY <2>1, <2>2, <2>3, FewerFit
<1>3. CASE Call
  <2> DEFINE c == CallFrom(xid + 1)
  <2>1. /\ ~waiting /\ xid' = xid + 1 /\ reqs' = reqs \union {c}
        /\ UNCHANGED <<count, reps, pc, req, acc, rem>>
    BY <1>3 DEF Call
  <2>2. c.count = count
    BY DEF CallFrom
  <2> HIDE DEF c
  <2>3. xid \in Nat /\ \A n \in Nat : n <= xid => n # xid + 1
    <3>1. xid \in Nat
      BY DEF IInv, TypeOK
    <3> QED BY <3>1
  <2>4. \A m \in reqs : m.xid # xid'
    BY <2>1, <2>3 DEF IInv, TypeOK, Requests, RequestInv
  <2>5. \A m \in reps : m.xid # xid'
    BY <2>1, <2>3 DEF IInv, TypeOK, Replies, ReplyInv
  <2>6. \A w \in Workers : pc[w] # "idle" => req[w].xid # xid'
    BY <2>1, <2>3 DEF IInv, TypeOK, Requests, WorkerInv, RequestInv
  <2>7. \A m \in reqs' : FitRequest(m)'
    BY <2>1, <2>2, <2>4 DEF FitRequest
  <2>8. \A m \in reps' : FitReply(m)'
    BY <2>1, <2>5 DEF FitReply
  <2>9. ASSUME NEW w \in Workers, pc'[w] # "idle" PROVE FitWorker(w)'
    <3>1. FitRequest(req[w])'
      BY <2>1, <2>6, <2>9 DEF FitRequest
    <3>2. protocol' = protocol
      BY ProtocolFixed
    <3> QED BY <2>1, <2>9, <3>1, <3>2 DEF FitInv, FitWorker, Budget
  <2> QED BY <2>7, <2>8, <2>9 DEF FitInv
<1>4. CASE Retransmit
  <2> DEFINE c == CallFrom(xid)
  <2>1. reqs' = reqs \union {c} /\ UNCHANGED <<client, reps, pc, req, acc, rem>>
    BY <1>4 DEF Retransmit, CurrentCall
  <2>2. c.count = count
    BY DEF CallFrom
  <2> HIDE DEF c
  <2>3. \A m \in reqs' : FitRequest(m)'
    BY <2>1, <2>2 DEF FitRequest, FitInv
  <2>4. \A m \in reps' : FitReply(m)'
    BY <2>1 DEF FitReply, FitInv
  <2>5. ASSUME NEW w \in Workers, pc'[w] # "idle" PROVE FitWorker(w)'
    BY <2>1, <2>5 DEF FitInv, FitWorker, FitRequest, Budget
  <2> QED BY <2>3, <2>4, <2>5 DEF FitInv
<1> QED BY <1>1, <1>2, <1>3, <1>4, EmitFits DEF Next

\* Whatever the lengths of the entries and the counts that the client declares, the
\* entries of a reply and the overhead fit in the count of the call it answers.
THEOREM ReplyWithinCountTheorem == Spec => []ReplyWithinCount
<1>1. Init => FitInv
  BY DEF Init, FitInv
<1>2. FitInv => ReplyWithinCount
  BY DEF FitInv, FitReply, ReplyWithinCount
<1> QED BY <1>1, <1>2, InitIInv, NextIInv, FitNext, PTL DEF Spec

------------------------------------------------------------------------------
(* The protocol implements Listing *)

\* An accepted reply is a delivery of the next entries of the directory.
LEMMA AcceptDelivers ==
    ASSUME IInv, NEW m \in reps, Accept(m) PROVE [L!LNext]_(L!lvars)
<1>1. waiting /\ m.xid = xid /\ ~done
  BY DEF Accept, IInv, ClientInv
<1>2. CASE m.status # "ok"
  BY <1>2 DEF Accept, L!lvars
<1>3. CASE m.status = "ok"
  <2>1. /\ m.entries \in Seq(Entries) /\ got' \in Seq(Names)
        /\ Len(got') = Len(got) + Len(m.entries)
        /\ Len(got') <= Len(Full)
        /\ \A i \in 1 .. Len(got') : got'[i] = Full[i]
    BY <1>1, <1>3, ExtendFacts DEF Accept
  <2>2. ClientInv' /\ done' \in BOOLEAN
    BY AcceptClient
  <2>3. got \in Seq(Names) /\ Full \in Seq(Names)
    BY FullFacts DEF IInv, TypeOK
  <2>4. Len(m.entries) \in Nat /\ Len(got) \in Nat /\ Len(Full) \in Nat
    BY <2>1, <2>3
  <2>5. Len(m.entries) \in 0 .. Len(Full)
    BY <2>1, <2>4
  <2>6. got' = SubSeq(Full, 1, Len(got'))
    <3>1. Len(got') \in 0 .. Len(Full)
      BY <2>1, <2>4
    <3>2. /\ SubSeq(Full, 1, Len(got')) \in Seq(Names)
          /\ Len(SubSeq(Full, 1, Len(got'))) = Len(got')
          /\ \A i \in 1 .. Len(got') : SubSeq(Full, 1, Len(got'))[i] = Full[i]
      BY <2>3, <3>1
    <3> QED
      BY <2>1, <3>2
  <2>7. L!Deliver(Len(m.entries))
    BY <1>1, <2>1, <2>6 DEF L!Deliver
  <2>8. done' => Len(got') = Len(Full)
    BY <2>2 DEF ClientInv
  <2> QED
    BY <2>2, <2>5, <2>7, <2>8 DEF L!LNext
<1> QED
  BY <1>2, <1>3

\* Whatever the pages, budgets, errors, losses and retransmissions, the reader
\* of a listing sees exactly what Listing promises.
THEOREM ReaddirImplementsListing == Spec => ImplementsListing
<1>1. Init => L!LInit
  BY DEF Init, L!LInit
<1>2. IInv /\ [Next]_vars => [L!LNext]_(L!lvars)
  <2> SUFFICES ASSUME IInv, [Next]_vars PROVE [L!LNext]_(L!lvars)
    OBVIOUS
  <2>1. ASSUME NEW w \in Workers, Emit(w) PROVE UNCHANGED <<got, done>>
    BY <2>1 DEF Emit, Begin, OfferDots, OfferDot, StartPages, ReadPage, OfferEntry,
       SinkFull, client
  <2>2. CASE Receive
    <3>1. PICK m \in reps : Accept(m) \/ UNCHANGED client
      BY <2>2 DEF Receive
    <3>2. CASE Accept(m)
      BY <3>2, AcceptDelivers
    <3> QED
      BY <3>1, <3>2 DEF client, L!lvars
  <2>3. CASE Call \/ Retransmit \/ Lose \/ UNCHANGED vars
    BY <2>3 DEF Call, Retransmit, Lose, vars, client, L!lvars
  <2> QED
    BY <2>1, <2>2, <2>3 DEF Next, L!lvars
<1> QED
  BY <1>1, <1>2, InitIInv, NextIInv, PTL DEF Spec, ImplementsListing, L!LSpec
==============================================================================
