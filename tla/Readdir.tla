------------------------------- MODULE Readdir -------------------------------
(***************************************************************************)
(* backend/readdir.rs: one directory listing, driven to its end by a       *)
(* client that resumes after the cookie of the last entry it accepted.     *)
(*                                                                         *)
(* A worker runs emit for one request: it offers ".", ".." and then the    *)
(* pages of the filesystem's own readdir to a sink with a byte budget.     *)
(* The filesystem splits the directory into pages as it likes and may fail *)
(* any call.  Over NFS the request or the reply can be lost, the client    *)
(* retransmits with the same xid, and a retransmission may be served by a  *)
(* second worker while the first is still running.                         *)
(***************************************************************************)
EXTENDS Naturals, Sequences, FiniteSets

CONSTANTS
    EntryNames,  \* the names a filesystem may give its entries
    Dir,         \* the directory's own entries in trait order
    Size,        \* Size[name]: lengths an encoded entry can have; READDIRPLUS leaves
                 \* out the attributes of one whose getattr fails
    Synthesize,  \* Dots::Synthesize (FUSE and NFS) rather than Dots::Omit (cfapi)
    Protocols,   \* whose sink and whose client it may be
    Counts,      \* Counts[p]: the reply budgets a client of p may declare, in bytes
    Overhead,    \* DIRLIST_OVERHEAD
    Workers,     \* the threads that can run emit at the same time
    MaxFaults,   \* bound: filesystem errors, losses and early retransmissions
    MaxCalls     \* bound: calls issued by the client

DOT == 1
DOTDOT == 2

\* The listing a reader must end up with.
Full == IF Synthesize THEN <<".", "..">> \o Dir ELSE Dir

Names == {Full[i] : i \in 1 .. Len(Full)}

ASSUME ReaddirAssumption ==
    /\ Dir \in Seq(EntryNames)
    /\ "." \notin EntryNames /\ ".." \notin EntryNames
    /\ Size \in [Names -> (SUBSET (Nat \ {0})) \ {{}}]
    /\ Synthesize \in BOOLEAN
    /\ Protocols \subseteq IF Synthesize THEN {"nfs", "fuse"} ELSE {"cfapi"}
    /\ Counts \in [Protocols -> (SUBSET Nat) \ {{}}]
    /\ Overhead \in Nat
    /\ MaxFaults \in Nat
    /\ MaxCalls \in Nat

\* The FUSE kernel's reply buffer holds any single entry: an empty reply is how
\* it learns that a directory has ended.
ASSUME FuseBufferAssumption ==
    "fuse" \in Protocols => \A c \in Counts["fuse"] : \A n \in Names : \A s \in Size[n] : s <= c

\* Mutants of the cookie arithmetic: resuming on the entry instead of past it, and
\* taking the cookie for the offset.
TraitOffsetOnEntry(cookie) == IF cookie > DOTDOT + 1 THEN cookie - DOTDOT - 1 ELSE 0
TraitOffsetSkips(cookie) == cookie

\* Trait offset to resume fs.readdir from: resume_after.saturating_sub(DOTDOT).
TraitOffset(cookie) == IF cookie > DOTDOT THEN cookie - DOTDOT ELSE 0

\* Cookie of the trait's entry at this offset.
ForEntry(offset) == offset + DOTDOT + 1

VARIABLES
    protocol,    \* whose mount this is; it never changes
    \* The client (kernel NFS client, kernel FUSE client, Windows).
    got,         \* names accepted so far
    pos,         \* cookie of the last accepted entry, 0 on a fresh listing
    done,        \* the client considers the listing complete
    xid,         \* the current call
    waiting,     \* a reply to it is outstanding
    count,       \* the budget declared in it
    \* The transport.
    reqs,        \* requests on their way to the server
    reps,        \* replies on their way to the client
    faults,      \* how many faults have happened
    \* The locals of emit, per worker.
    pc,          \* "idle", "dots" (the synthesized entries), "page", "entries"
    req,         \* the request being served
    cookie,      \* let mut cookie
    offset,      \* let mut offset
    page,        \* what is left of the current page
    rem,         \* bytes left in the sink
    acc          \* entries the sink accepted: sequence of name and cookie

client == <<protocol, got, pos, done, xid, waiting, count>>
net    == <<reqs, reps, faults>>
locals == <<pc, req, cookie, offset, page, rem, acc>>
vars   == <<client, net, locals>>

Entries  == [name : Names, cookie : Nat]
Requests == [xid : Nat, cookie : Nat, count : Nat]
Replies  == [xid : Nat, status : {"ok", "toosmall", "error"},
             entries : Seq(Entries), eof : BOOLEAN]

NoRequest == [xid |-> 0, cookie |-> 0, count |-> 0]

Init ==
    /\ protocol \in Protocols
    /\ got = << >> /\ pos = 0 /\ done = FALSE
    /\ xid = 0 /\ waiting = FALSE
    /\ count \in Counts[protocol]
    /\ reqs = {} /\ reps = {} /\ faults = 0
    /\ pc = [w \in Workers |-> "idle"]
    /\ req = [w \in Workers |-> NoRequest]
    /\ cookie = [w \in Workers |-> 0]
    /\ offset = [w \in Workers |-> 0]
    /\ page = [w \in Workers |-> << >>]
    /\ rem = [w \in Workers |-> 0]
    /\ acc = [w \in Workers |-> << >>]

------------------------------------------------------------------------------
(* The worker: readdir_common / Adapter::readdir / list_placeholders around emit *)

\* Mutant: the reply's fixed part is not charged to the client's count.
BudgetWithoutOverhead(n) == n

\* The sink's budget: NFS reserves DIRLIST_OVERHEAD with saturating_sub.
Budget(n) ==
    IF protocol = "nfs" THEN IF n > Overhead THEN n - Overhead ELSE 0
                        ELSE n

\* Mutant: an entry one byte too long is taken.
FitsOffByOne(w, len) == protocol = "cfapi" \/ len <= rem[w] + 1

\* The sink takes an entry that fits; cfapi's sink takes every entry.
Fits(w, len) == protocol = "cfapi" \/ len <= rem[w]

\* A request is taken up: emit starts from its cookie with an empty reply.
Begin(w) ==
    /\ pc[w] = "idle"
    /\ \E m \in reqs :
        /\ reqs' = reqs \ {m}
        /\ req' = [req EXCEPT ![w] = m]
        /\ cookie' = [cookie EXCEPT ![w] = m.cookie]
        /\ rem' = [rem EXCEPT ![w] = Budget(m.count)]
    /\ acc' = [acc EXCEPT ![w] = << >>]
    /\ pc' = [pc EXCEPT ![w] = "dots"]
    /\ UNCHANGED <<client, reps, faults, offset, page>>

\* Mutants: no NFS3ERR_TOOSMALL, and a failed readdir taken for the end.
OutcomeNeverTooSmall(w, ok, eof) ==
    [xid |-> req[w].xid, status |-> IF ok THEN "ok" ELSE "error",
     entries |-> IF ok THEN acc[w] ELSE << >>, eof |-> eof]
OutcomeSwallowsErrors(w, ok, eof) ==
    [xid |-> req[w].xid, status |-> "ok", entries |-> acc[w], eof |-> TRUE]

\* The reply for emit's outcome.  An NFS reply that packed nothing and is not
\* at the end becomes NFS3ERR_TOOSMALL; an error discards what was packed.
Outcome(w, ok, eof) ==
    LET small == protocol = "nfs" /\ acc[w] = << >> /\ ~eof
    IN  [xid     |-> req[w].xid,
         status  |-> IF ~ok THEN "error" ELSE IF small THEN "toosmall" ELSE "ok",
         entries |-> IF ok THEN acc[w] ELSE << >>,
         eof     |-> eof]

Reply(w, ok, eof) ==
    /\ reps' = reps \union {Outcome(w, ok, eof)}
    /\ pc' = [pc EXCEPT ![w] = "idle"]

\* Sink::Accepted: the entry is in the reply and its bytes are spent.
Take(w, name, len, c) ==
    /\ acc' = [acc EXCEPT ![w] = Append(@, [name |-> name, cookie |-> c])]
    /\ rem' = [rem EXCEPT ![w] = IF protocol = "cfapi" THEN @ ELSE @ - len]

\* Mutants: a full sink reported as the end of the listing, always or when the
\* entry that did not fit is the last of its page.
SinkFullIsEnd(w) ==
    /\ Reply(w, TRUE, TRUE)
    /\ UNCHANGED <<client, reqs, faults, req, cookie, offset, page, rem, acc>>
SinkFullEndsPage(w) ==
    /\ Reply(w, TRUE, Len(page[w]) = 1)
    /\ UNCHANGED <<client, reqs, faults, req, cookie, offset, page, rem, acc>>

\* Sink::Full: emit stops without consuming the entry, Ok(false).
SinkFull(w) ==
    /\ Reply(w, TRUE, FALSE)
    /\ UNCHANGED <<client, reqs, faults, req, cookie, offset, page, rem, acc>>

\* Offer the synthesized entry that follows cookie at.
OfferDot(w, at, name) ==
    /\ pc[w] = "dots" /\ Synthesize
    /\ cookie[w] = at
    /\ \E len \in Size[name] :
        IF Fits(w, len)
        THEN /\ Take(w, name, len, at + 1)
             /\ cookie' = [cookie EXCEPT ![w] = at + 1]
             /\ UNCHANGED <<client, net, pc, req, offset, page>>
        ELSE SinkFull(w)

OfferDots(w) == OfferDot(w, 0, ".") \/ OfferDot(w, DOT, "..")

StartPages(w) ==
    /\ pc[w] = "dots"
    /\ Synthesize => cookie[w] >= DOTDOT
    /\ offset' = [offset EXCEPT ![w] = TraitOffset(cookie[w])]
    /\ pc' = [pc EXCEPT ![w] = "page"]
    /\ UNCHANGED <<client, net, req, cookie, page, rem, acc>>

\* fs.readdir(dir, offset): an error ends emit, an empty page is the end of the
\* directory, and a non-empty page holds any number of the entries left.
ReadPage(w) ==
    /\ pc[w] = "page"
    /\ \/ /\ offset[w] >= Len(Dir)
          /\ Reply(w, TRUE, TRUE)
          /\ UNCHANGED <<faults, page>>
       \/ \E n \in 1 .. Len(Dir) - offset[w] :
          /\ page' = [page EXCEPT ![w] = SubSeq(Dir, offset[w] + 1, offset[w] + n)]
          /\ pc' = [pc EXCEPT ![w] = "entries"]
          /\ UNCHANGED <<reps, faults>>
       \/ /\ faults < MaxFaults
          /\ faults' = faults + 1
          /\ Reply(w, FALSE, FALSE)
          /\ UNCHANGED page
    /\ UNCHANGED <<client, reqs, req, cookie, offset, rem, acc>>

OfferEntry(w) ==
    /\ pc[w] = "entries"
    /\ \E len \in Size[Head(page[w])] :
        IF Fits(w, len)
        THEN /\ Take(w, Head(page[w]), len, ForEntry(offset[w]))
             /\ offset' = [offset EXCEPT ![w] = @ + 1]
             /\ page' = [page EXCEPT ![w] = Tail(@)]
             /\ pc' = [pc EXCEPT ![w] = IF Len(page[w]) = 1 THEN "page" ELSE "entries"]
             /\ UNCHANGED <<client, net, req, cookie>>
        ELSE SinkFull(w)

------------------------------------------------------------------------------
(* The client and the transport (external) *)

\* cfapi enumerates in one call from the start; the others resume.
CallFrom(x) == [xid    |-> x,
                cookie |-> IF protocol = "cfapi" THEN 0 ELSE pos,
                count  |-> count]

CurrentCall == CallFrom(xid)

Call ==
    /\ ~waiting /\ ~done /\ xid < MaxCalls
    /\ xid' = xid + 1
    /\ waiting' = TRUE
    /\ reqs' = reqs \union {CallFrom(xid + 1)}
    /\ UNCHANGED <<protocol, got, pos, done, count, reps, faults, locals>>

\* A reply counts once; one that does not answer the current call is dropped.
\* NFS trusts eof, the FUSE kernel stops at an empty reply, cfapi at the first
\* success.  After TOOSMALL or an error the client calls again, after TOOSMALL
\* with a larger budget.
Accept(m) ==
    /\ waiting /\ m.xid = xid
    /\ waiting' = FALSE
    /\ IF m.status = "ok"
       THEN /\ got' = got \o [i \in 1 .. Len(m.entries) |-> m.entries[i].name]
            /\ pos' = IF m.entries = << >> THEN pos ELSE m.entries[Len(m.entries)].cookie
            /\ done' = CASE protocol = "nfs"   -> m.eof
                         [] protocol = "fuse"  -> m.entries = << >>
                         [] protocol = "cfapi" -> TRUE
       ELSE UNCHANGED <<got, pos, done>>
    /\ IF m.status = "toosmall"
       THEN \E c \in Counts[protocol] : c > count /\ count' = c
       ELSE UNCHANGED count
    /\ UNCHANGED <<protocol, xid>>

Receive ==
    /\ \E m \in reps :
        /\ reps' = reps \ {m}
        /\ \/ Accept(m)
           \/ ~(waiting /\ m.xid = xid) /\ UNCHANGED client
    /\ UNCHANGED <<reqs, faults, locals>>

\* Nothing of the current call is left anywhere: only a retransmission helps.
Lost ==
    /\ CurrentCall \notin reqs
    /\ \A w \in Workers : pc[w] # "idle" => req[w].xid # xid
    /\ \A m \in reps : m.xid # xid

\* The client's timer fires: the call is sent again with the same xid.
Retransmit ==
    /\ protocol = "nfs" /\ waiting
    /\ CurrentCall \notin reqs
    /\ reqs' = reqs \union {CurrentCall}
    /\ \/ Lost /\ UNCHANGED faults
       \/ ~Lost /\ faults < MaxFaults /\ faults' = faults + 1
    /\ UNCHANGED <<client, reps, locals>>

\* A connection dies with a request or a reply in it.
Lose ==
    /\ protocol = "nfs" /\ faults < MaxFaults
    /\ faults' = faults + 1
    /\ \/ \E m \in reqs : reqs' = reqs \ {m} /\ UNCHANGED reps
       \/ \E m \in reps : reps' = reps \ {m} /\ UNCHANGED reqs
    /\ UNCHANGED <<client, locals>>

Emit(w) == Begin(w) \/ OfferDots(w) \/ StartPages(w) \/ ReadPage(w) \/ OfferEntry(w)

Next ==
    \/ \E w \in Workers : Emit(w)
    \/ Call \/ Receive \/ Retransmit \/ Lose

Spec == Init /\ [][Next]_vars

\* Threads run, the client keeps listing, and its retransmission timer fires.
Fairness ==
    /\ \A w \in Workers : WF_vars(Emit(w))
    /\ WF_vars(Call) /\ WF_vars(Receive) /\ WF_vars(Retransmit)

FairSpec == Spec /\ Fairness

------------------------------------------------------------------------------
(* What makes a listing correct *)

TypeOK ==
    /\ protocol \in Protocols
    /\ got \in Seq(Names) /\ pos \in Nat /\ done \in BOOLEAN
    /\ xid \in Nat /\ waiting \in BOOLEAN /\ count \in Counts[protocol]
    /\ reqs \subseteq Requests /\ reps \subseteq Replies /\ faults \in 0 .. MaxFaults
    /\ pc \in [Workers -> {"idle", "dots", "page", "entries"}]
    /\ req \in [Workers -> Requests]
    /\ cookie \in [Workers -> Nat] /\ offset \in [Workers -> Nat]
    /\ page \in [Workers -> Seq(Names)]
    /\ rem \in [Workers -> Nat]
    /\ acc \in [Workers -> Seq(Entries)]

\* Across any paging by the filesystem, full replies, failed calls and
\* retransmissions, the client has accepted a prefix of the directory: no entry
\* is skipped, repeated or out of order when emit resumes after a cookie.
NothingSkippedOrRepeated ==
    /\ Len(got) <= Len(Full)
    /\ \A i \in 1 .. Len(got) : got[i] = Full[i]

\* The client is told that the listing is over only when it holds every entry:
\* neither a partial page nor a full reply is taken for the end of the
\* directory.
EndMeansComplete == done => got = Full

\* READDIR and READDIRPLUS can be repeated: two successful answers to one call,
\* computed by two workers over different pages and, when a getattr failed for one
\* of them, with entries of different lengths, agree as far as both go, and one
\* that claims the end is not outdone by the other.
RetransmissionsAgree ==
    \A m, n \in reps :
        /\ m.xid = n.xid /\ m.status = "ok" /\ n.status = "ok"
        /\ Len(n.entries) <= Len(m.entries)
        => /\ n.entries = SubSeq(m.entries, 1, Len(n.entries))
           /\ n.eof => m = n

\* The bytes that an entry has at whatever length it is encoded, and those of a
\* sequence of entries.
SureBytes(name) ==
    {k \in UNION {1 .. len : len \in Size[name]} : \A len \in Size[name] : k <= len}
PackedBytes(s) == UNION {{i} \X SureBytes(s[i].name) : i \in 1 .. Len(s)}

\* The entries packed into the reply to a pending READDIR never outgrow the
\* count the client declared, once DIRLIST_OVERHEAD is set aside: each counts with
\* the least length it can have.
ReplyWithinCount ==
    protocol = "nfs" =>
        \A m \in reps :
            waiting /\ m.xid = xid /\ m.entries # << >>
                => Cardinality(PackedBytes(m.entries)) + Overhead <= count

L == INSTANCE Listing WITH Full <- Full, got <- got, done <- done

\* Every step of the protocol is a delivery to the reader or invisible to it.
ImplementsListing == L!LSpec

\* A client that keeps calling gets to the end of the directory: no reply
\* leaves it where it was for ever.
ListingEnds == <>done
==============================================================================
