------------------------------ MODULE NfsServer ------------------------------
(***************************************************************************)
(* backend/nfs/server.rs over backend/nfs/rpc.rs: the accept loop, one     *)
(* worker thread per connection, record-marked RPC messages read under a   *)
(* 50 ms timeout, and the routing of a call by program and version.        *)
(*                                                                         *)
(* A message is HdrLen cells of record mark followed by BodyLen cells of   *)
(* call; a cell stands for one or more bytes and is <<number, part>>.      *)
(***************************************************************************)
EXTENDS Naturals, Sequences, FiniteSets

CONSTANTS
    Conns,            \* connections a client may open, each once
    MAX_CONNECTIONS,  \* concurrent connections served at once
    Loads,            \* what a mount may be faced with, see load
    MaxMsgs,          \* bound: messages per connection
    HdrLen, BodyLen,  \* cells of a record mark and of a call
    SockBuf           \* replies the socket holds for a client that does not read

\* MOUNT v3, MOUNT at another version, NFS v3, NFS at another version, another
\* program, another RPC version, a body that is no call, a record mark that is
\* refused (not final, or over MAX_FRAGMENT_LEN), and an NFS call on which the
\* filesystem panics.
AllKinds == {"mnt3", "mntv", "nfs3", "nfsv", "other", "rpcvers",
             "malformed", "fragment", "panic"}

\* A mount over TCP serves MOUNT at first, one over a local socket never does.
\* Its clients send messages of some kinds, so many each, and some of them stall:
\* their messages arrive piecemeal.  A client without messages does not come.
AllLoads == [mnt : BOOLEAN, kinds : [Conns -> SUBSET AllKinds],
             msgs : [Conns -> 0 .. MaxMsgs], stalls : SUBSET Conns]

ASSUME ServerAssumption ==
    /\ IsFiniteSet(Conns)
    /\ MAX_CONNECTIONS \in Nat \ {0}
    /\ MaxMsgs \in Nat
    /\ Loads \subseteq AllLoads
    /\ HdrLen \in Nat \ {0} /\ BodyLen \in Nat \ {0}
    /\ SockBuf \in Nat \ {0}

VARIABLES
    load,         \* what this mount is faced with; it never changes
    stop,         \* the flag teardown sets
    serveMount,   \* config.serve_mount, cleared when mount_nfs has exited
    mpc,          \* the accept loop: "check", "accept", "join", "returned"
    workers,      \* the JoinHandles in the vector
    backlog,      \* connections the kernel holds for accept, in order
    wpc,          \* per connection: "none", "top", "hdr", "body", "handle",
                  \* "write", "done"
    buf,          \* cells read so far of the record mark or of the body
    want,         \* length of the body announced by the record mark
    reply,        \* the reply about to be written
    sent,         \* messages the client has begun: kind, late (after serve_mount
                  \* was cleared)
    part,         \* cells of the last of them already written
    inbox,        \* cells written and not yet read
    closed,       \* the client has closed its end
    replies,      \* replies written to the connection
    unread        \* replies in the socket buffer

main == <<stop, serveMount, mpc, workers, backlog>>
worker == <<wpc, buf, want, reply, replies>>
peer == <<load, sent, part, closed>>
vars == <<main, worker, peer, inbox, unread>>

MsgLen == HdrLen + BodyLen
NoReply == [xid |-> 0, result |-> "none"]

\* Threads that exist and have not finished.
Live == {c \in Conns : wpc[c] \notin {"none", "done"}}

Init ==
    /\ load \in Loads
    /\ stop = FALSE /\ serveMount = load.mnt
    /\ mpc = "check" /\ workers = {} /\ backlog = << >>
    /\ wpc = [c \in Conns |-> "none"]
    /\ buf = [c \in Conns |-> << >>]
    /\ want = [c \in Conns |-> 0]
    /\ reply = [c \in Conns |-> NoReply]
    /\ sent = [c \in Conns |-> << >>]
    /\ part = [c \in Conns |-> MsgLen]
    /\ inbox = [c \in Conns |-> << >>]
    /\ closed = [c \in Conns |-> FALSE]
    /\ replies = [c \in Conns |-> << >>]
    /\ unread = [c \in Conns |-> 0]

------------------------------------------------------------------------------
(* run: the accept loop *)

\* while !stop.load()
CheckStop ==
    /\ mpc = "check"
    /\ mpc' = IF stop THEN "join" ELSE "accept"
    /\ UNCHANGED <<stop, serveMount, workers, backlog, worker, peer, inbox, unread>>

\* Mutants: finished workers are never reaped; one worker over the cap.
ReapNothing == workers
AtCapacityOffByOne(n) == n > MAX_CONNECTIONS

\* workers.retain(|w| !w.is_finished())
Reaped == workers \intersect Live

\* workers.len() >= MAX_CONNECTIONS
AtCapacity(n) == n >= MAX_CONNECTIONS

\* Reap, then accept one connection and spawn its worker.
AcceptConn ==
    /\ mpc = "accept" /\ mpc' = "check"
    /\ ~AtCapacity(Cardinality(Reaped)) /\ backlog # << >>
    /\ backlog' = Tail(backlog)
    /\ workers' = Reaped \union {Head(backlog)}
    /\ wpc' = [wpc EXCEPT ![Head(backlog)] = "top"]
    /\ UNCHANGED <<stop, serveMount, buf, want, reply, replies, peer, inbox, unread>>

\* At the cap, with nothing to accept (WouldBlock), or on any other error of
\* accept, whatever is waiting, sleep and go round.
AcceptNothing ==
    /\ mpc = "accept" /\ mpc' = "check"
    /\ workers' = Reaped
    /\ UNCHANGED <<stop, serveMount, backlog, worker, peer, inbox, unread>>

Accept == AcceptConn \/ AcceptNothing

\* Mutant: the workers are dropped rather than joined.
JoinNothing ==
    /\ mpc = "join"
    /\ mpc' = "returned"
    /\ workers' = {}
    /\ UNCHANGED <<stop, serveMount, backlog, worker, peer, inbox, unread>>

\* for w in workers { w.join() }; a worker that panicked joins like any other.
Join ==
    /\ mpc = "join"
    /\ \/ \E w \in workers \ Live : workers' = workers \ {w} /\ UNCHANGED mpc
       \/ workers = {} /\ mpc' = "returned" /\ UNCHANGED workers
    /\ UNCHANGED <<stop, serveMount, backlog, worker, peer, inbox, unread>>

------------------------------------------------------------------------------
(* serve_connection: one worker *)

Return(c) == wpc' = [wpc EXCEPT ![c] = "done"]

\* Mutants: stop is not looked at; the buffer is not cleared between messages.
TopIgnoresStop(c) ==
    /\ wpc[c] = "top"
    /\ wpc' = [wpc EXCEPT ![c] = "hdr"]
    /\ buf' = [buf EXCEPT ![c] = << >>]
    /\ UNCHANGED <<main, want, reply, replies, peer, inbox, unread>>
TopKeepsBuffer(c) ==
    /\ wpc[c] = "top"
    /\ IF stop THEN Return(c) ELSE wpc' = [wpc EXCEPT ![c] = "hdr"]
    /\ UNCHANGED <<main, buf, want, reply, replies, peer, inbox, unread>>

\* The head of the loop: stop is only looked at between messages.
Top(c) ==
    /\ wpc[c] = "top"
    /\ IF stop THEN Return(c) ELSE wpc' = [wpc EXCEPT ![c] = "hdr"]
    /\ buf' = [buf EXCEPT ![c] = << >>]
    /\ UNCHANGED <<main, want, reply, replies, peer, inbox, unread>>

\* Mutant: the body is taken to include one cell of the next message.
MissingOneMore(c) == (IF wpc[c] = "hdr" THEN HdrLen ELSE want[c] + 1) - Len(buf[c])

\* How many cells the read in progress still needs.
Missing(c) == (IF wpc[c] = "hdr" THEN HdrLen ELSE want[c]) - Len(buf[c])

\* One read(2): it may return less than it was asked for.
Read(c) ==
    /\ wpc[c] \in {"hdr", "body"} /\ Missing(c) > 0
    /\ \E n \in 1 .. Len(inbox[c]) :
        /\ n <= Missing(c)
        /\ buf' = [buf EXCEPT ![c] = @ \o SubSeq(inbox[c], 1, n)]
        /\ inbox' = [inbox EXCEPT ![c] = SubSeq(@, n + 1, Len(@))]
    /\ UNCHANGED <<main, wpc, want, reply, replies, peer, unread>>

\* Mutant: the worker takes an idle connection for a broken one.
ReadTimeoutCloses(c) ==
    /\ wpc[c] \in {"hdr", "body"} /\ Missing(c) > 0
    /\ inbox[c] = << >> /\ ~closed[c]
    /\ Return(c)
    /\ UNCHANGED <<main, buf, want, reply, replies, peer, inbox, unread>>

\* SO_RCVTIMEO expires: read_message returns WouldBlock from wherever it was, and
\* serve_connection continues with a new read_message; what was read is gone.
ReadTimeout(c) ==
    /\ wpc[c] \in {"hdr", "body"} /\ Missing(c) > 0
    /\ inbox[c] = << >> /\ ~closed[c]
    /\ wpc' = [wpc EXCEPT ![c] = "top"]
    /\ UNCHANGED <<main, buf, want, reply, replies, peer, inbox, unread>>

\* End of file: clean before a record mark, an error inside a message.  Both
\* end the worker.
ReadEof(c) ==
    /\ wpc[c] \in {"hdr", "body"} /\ Missing(c) > 0
    /\ inbox[c] = << >> /\ closed[c]
    /\ Return(c)
    /\ UNCHANGED <<main, buf, want, reply, replies, peer, inbox, unread>>

\* The cells are the record mark, or the body, of message i.
IsHeader(s, i) == s = [p \in 1 .. HdrLen |-> <<i, p>>]
IsBody(s, i) == s = [p \in 1 .. BodyLen |-> <<i, HdrLen + p>>]

\* The record mark is complete.  One that the client wrote announces its body or
\* is refused; one assembled from the middle of a message reads as anything.
Header(c) ==
    /\ wpc[c] = "hdr" /\ Missing(c) = 0
    /\ LET msgs == {i \in 1 .. Len(sent[c]) : IsHeader(buf[c], i)}
           refuse == Return(c) /\ UNCHANGED <<want, buf>>
           take(n) == /\ wpc' = [wpc EXCEPT ![c] = "body"]
                      /\ want' = [want EXCEPT ![c] = n]
                      /\ buf' = [buf EXCEPT ![c] = << >>]
       IN  IF msgs # {}
           THEN \E i \in msgs : IF sent[c][i].kind = "fragment" THEN refuse ELSE take(BodyLen)
           ELSE refuse \/ \E n \in 0 .. MsgLen : take(n)
    /\ UNCHANGED <<main, reply, replies, peer, inbox, unread>>

\* read_exact has filled the body.
Body(c) ==
    /\ wpc[c] = "body" /\ Missing(c) = 0
    /\ wpc' = [wpc EXCEPT ![c] = "handle"]
    /\ UNCHANGED <<main, buf, want, reply, replies, peer, inbox, unread>>

\* Mutant: MOUNT is answered whatever serve_mount says.
RouteIgnoresServeMount(kind) ==
    CASE kind = "mnt3" -> "mount"
      [] kind \in {"mntv", "nfsv"} -> "prog_mismatch"
      [] kind = "nfs3" -> "nfs"
      [] kind = "other" -> "prog_unavail"
      [] kind = "rpcvers" -> "rpc_mismatch"

\* handle_message: which table answers a call, by program and version.
Route(kind) ==
    CASE kind = "mnt3" -> IF serveMount THEN "mount" ELSE "prog_unavail"
      [] kind = "mntv" -> IF serveMount THEN "prog_mismatch" ELSE "prog_unavail"
      [] kind = "nfs3" -> "nfs"
      [] kind = "nfsv" -> "prog_mismatch"
      [] kind = "other" -> "prog_unavail"
      [] kind = "rpcvers" -> "rpc_mismatch"

\* A malformed header ends the connection (the body of a refused record mark is
\* never a call), a panic ends the thread, any other call is answered under its
\* own xid.  Bytes that are not a whole body are malformed, or happen to parse as
\* a call nobody made.
Handle(c) ==
    /\ wpc[c] = "handle"
    /\ LET msgs == {i \in 1 .. Len(sent[c]) : IsBody(buf[c], i)}
           answer(i, r) == /\ reply' = [reply EXCEPT ![c] = [xid |-> i, result |-> r]]
                           /\ wpc' = [wpc EXCEPT ![c] = "write"]
           drop == Return(c) /\ UNCHANGED reply
       IN  IF msgs # {}
           THEN \E i \in msgs : IF sent[c][i].kind \in {"malformed", "fragment", "panic"}
                                THEN drop
                                ELSE answer(i, Route(sent[c][i].kind))
           ELSE drop \/ answer(0, "rpc_mismatch")
    /\ UNCHANGED <<main, buf, want, replies, peer, inbox, unread>>

\* Mutant: replies are queued without bound.
WriteNeverBlocks(c) ==
    /\ wpc[c] = "write"
    /\ unread' = [unread EXCEPT ![c] = @ + 1]
    /\ replies' = [replies EXCEPT ![c] = Append(@, reply[c])]
    /\ wpc' = [wpc EXCEPT ![c] = "top"]
    /\ UNCHANGED <<main, buf, want, reply, peer, inbox>>

\* write_message: it blocks while the socket is full, without a timeout, and
\* fails once the client is gone.
Write(c) ==
    /\ wpc[c] = "write"
    /\ \/ /\ unread[c] < SockBuf
          /\ unread' = [unread EXCEPT ![c] = @ + 1]
          /\ replies' = [replies EXCEPT ![c] = Append(@, reply[c])]
          /\ wpc' = [wpc EXCEPT ![c] = "top"]
       \/ /\ closed[c]
          /\ Return(c)
          /\ UNCHANGED <<unread, replies>>
    /\ UNCHANGED <<main, buf, want, reply, peer, inbox>>

------------------------------------------------------------------------------
(* The clients and the process that owns the mount (external) *)

\* The kernel completes the connection; accept will find it in the backlog.
Connect(c) ==
    /\ load.msgs[c] > 0
    /\ mpc # "returned" /\ wpc[c] = "none" /\ ~closed[c]
    /\ \A i \in 1 .. Len(backlog) : backlog[i] # c
    /\ backlog' = Append(backlog, c)
    /\ UNCHANGED <<stop, serveMount, mpc, workers, worker, peer, inbox, unread>>

Connected(c) == wpc[c] # "none" \/ \E i \in 1 .. Len(backlog) : backlog[i] = c

\* The client writes a message, whole or, if it stalls, cell by cell.
Send(c) ==
    /\ Connected(c) /\ ~closed[c]
    /\ \/ /\ part[c] = MsgLen /\ Len(sent[c]) < load.msgs[c]
          /\ \E k \in load.kinds[c] :
              sent' = [sent EXCEPT ![c] = Append(@, [kind |-> k, late |-> ~serveMount])]
          /\ \E n \in IF c \in load.stalls THEN 1 .. MsgLen ELSE {MsgLen} :
              /\ part' = [part EXCEPT ![c] = n]
              /\ inbox' = [inbox EXCEPT ![c] = @ \o [p \in 1 .. n |-> <<Len(sent[c]) + 1, p>>]]
       \/ /\ part[c] < MsgLen
          /\ part' = [part EXCEPT ![c] = MsgLen]
          /\ inbox' = [inbox EXCEPT ![c] =
                @ \o [p \in 1 .. MsgLen - part[c] |-> <<Len(sent[c]), part[c] + p>>]]
          /\ UNCHANGED sent
    /\ UNCHANGED <<main, worker, load, closed, unread>>

\* The client takes a reply off the socket.
TakeReply(c) ==
    /\ unread[c] > 0 /\ ~closed[c]
    /\ unread' = [unread EXCEPT ![c] = @ - 1]
    /\ UNCHANGED <<main, worker, peer, inbox>>

Close(c) ==
    /\ Connected(c) /\ ~closed[c]
    /\ closed' = [closed EXCEPT ![c] = TRUE]
    /\ UNCHANGED <<main, worker, load, sent, part, inbox, unread>>

\* mount_nfs has exited: serve_mount.store(false).
MountDone ==
    /\ serveMount
    /\ serveMount' = FALSE
    /\ UNCHANGED <<stop, mpc, workers, backlog, worker, peer, inbox, unread>>

\* Teardown, or the failure path of mount: stop.store(true).
Stop ==
    /\ ~stop
    /\ stop' = TRUE
    /\ UNCHANGED <<serveMount, mpc, workers, backlog, worker, peer, inbox, unread>>

MainStep == CheckStop \/ Accept \/ Join

Serve(c) ==
    \/ Top(c) \/ Read(c) \/ ReadTimeout(c) \/ ReadEof(c)
    \/ Header(c) \/ Body(c) \/ Handle(c) \/ Write(c)

Client(c) == Connect(c) \/ Send(c) \/ TakeReply(c) \/ Close(c)

Next ==
    \/ MainStep
    \/ \E c \in Conns : Serve(c) \/ Client(c)
    \/ MountDone \/ Stop

Spec == Init /\ [][Next]_vars

\* Both kinds of thread run, and an accept that is tried again and again with a
\* connection waiting does not fail for ever.  Nothing is assumed of the clients.
Fairness ==
    /\ WF_vars(MainStep) /\ SF_vars(AcceptConn)
    /\ \A c \in Conns : WF_vars(Serve(c))

FairSpec == Spec /\ Fairness

------------------------------------------------------------------------------
(* Correctness *)

Replies == [xid : Nat, result : {"none", "mount", "nfs", "prog_mismatch", "prog_unavail",
                                 "rpc_mismatch"}]

TypeOK ==
    /\ load \in Loads
    /\ stop \in BOOLEAN /\ serveMount \in BOOLEAN
    /\ mpc \in {"check", "accept", "join", "returned"}
    /\ workers \subseteq Conns /\ backlog \in Seq(Conns)
    /\ wpc \in [Conns -> {"none", "top", "hdr", "body", "handle", "write", "done"}]
    /\ buf \in [Conns -> Seq(Nat \X Nat)] /\ inbox \in [Conns -> Seq(Nat \X Nat)]
    /\ want \in [Conns -> 0 .. MsgLen]
    /\ reply \in [Conns -> Replies] /\ replies \in [Conns -> Seq(Replies)]
    /\ sent \in [Conns -> Seq([kind : AllKinds, late : BOOLEAN])]
    /\ part \in [Conns -> 0 .. MsgLen]
    /\ unread \in [Conns -> 0 .. SockBuf]
    /\ closed \in [Conns -> BOOLEAN]

\* However connections come, close and are reaped, no more than MAX_CONNECTIONS
\* worker threads exist, and every one of them has its JoinHandle in the vector.
ThreadsBoundedAndOwned ==
    /\ Cardinality(Live) <= MAX_CONNECTIONS
    /\ mpc # "returned" => Live \subseteq workers

\* Once run has returned no worker is left to touch the filesystem, a connection
\* accepted between the stop check and the stop store included.
NoWorkerOutlivesRun == mpc = "returned" => Live = {}

\* The replies to a client that does not stall inside a message, whatever the
\* other clients do, answer its calls one for one, in order and under their own
\* xid; no answer is invented, skipped or repeated.
RepliesMatchCalls ==
    \A c \in Conns \ load.stalls :
        /\ Len(replies[c]) <= Len(sent[c])
        /\ \A i \in 1 .. Len(replies[c]) : replies[c][i].xid = i

\* A MNT call written after mount_nfs exited is never handed a root handle.
LateMntRefused ==
    \A c \in Conns : \A i \in 1 .. Len(replies[c]) :
        LET r == replies[c][i]
        IN  r.xid > 0 /\ sent[c][r.xid].late => r.result # "mount"

\* The server ends a connection only at shutdown, at the client's end of file
\* (which is also when a write fails), at a message that is malformed or refused,
\* or with a filesystem that panicked.
ClosedForCause(c) ==
    wpc[c] = "done" =>
        \/ stop \/ closed[c]
        \/ \E i \in 1 .. Len(sent[c]) : sent[c][i].kind \in {"malformed", "fragment", "panic"}
ClosesOnlyForCause == \A c \in Conns : ClosedForCause(c)

\* A client that does not stall inside a message keeps its connection until
\* there is such a cause, whatever the other clients do.
SteadyClientsKept == \A c \in Conns \ load.stalls : ClosedForCause(c)

\* The worker waits in write_message for a client that does not take its replies.
Blocked(c) == wpc[c] = "write" /\ unread[c] = SockBuf /\ ~closed[c]

\* Setting stop ends every worker and then the accept loop.
ShutdownCompletes == stop ~> (mpc = "returned")

\* Once stop is set, every worker ends and then the accept loop, unless a worker
\* is blocked in write_message; when its client reads or closes, that is true again.
ShutdownWaitsOnlyForWrites == stop ~> (mpc = "returned" \/ \E c \in Conns : Blocked(c))

\* A client in the backlog is accepted, unless as many workers as the cap allows
\* are alive; when one of them ends, that is true again: closed connections do
\* not count against the cap.
BacklogDrains ==
    \A c \in Conns :
        (\E i \in 1 .. Len(backlog) : backlog[i] = c)
            ~> (wpc[c] # "none" \/ stop \/ Cardinality(Live) = MAX_CONNECTIONS)

\* All calls of a client that does not stall are answered, unless the connection
\* ends or the client leaves its worker blocked over an earlier reply: whatever the
\* other clients send, leave unfinished or do not read.
CallsAnswered ==
    \A c \in Conns :
        (c \notin load.stalls /\ wpc[c] # "none" /\ Len(replies[c]) < Len(sent[c]))
            ~> (Len(replies[c]) = Len(sent[c]) \/ Blocked(c) \/ wpc[c] = "done" \/ stop)
==============================================================================
