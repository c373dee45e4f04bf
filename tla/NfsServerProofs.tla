--------------------------- MODULE NfsServerProofs ----------------------------
(***************************************************************************)
(* For every set of connections, any cap, any messages, any lengths of the *)
(* record mark and of the body: the server's threads, the refusal of late  *)
(* MNT calls, and, for clients that do not stall, the framing.             *)
(***************************************************************************)
EXTENDS NfsServer, FiniteSetTheorems, SequenceTheorems, TLAPS

\* While run runs, the vector holds every live worker and no more than the cap;
\* when it has returned there is none.
ThreadInv ==
    /\ Cardinality(workers) <= MAX_CONNECTIONS
    /\ mpc # "returned" => Live \subseteq workers
    /\ mpc = "returned" => Live = {}

\* A reply is to a call that was made, or to none; one that hands out the root is to
\* a call made while the MNT window was open.
ReplyOK(c, r) ==
    /\ r.xid \in 0 .. Len(sent[c])
    /\ r.result = "mount" => r.xid > 0 /\ sent[c][r.xid].late = FALSE

LateInv ==
    \A c \in Conns :
        /\ serveMount = TRUE => \A i \in 1 .. Len(sent[c]) : sent[c][i].late = FALSE
        /\ ReplyOK(c, reply[c])
        /\ \A i \in 1 .. Len(replies[c]) : ReplyOK(c, replies[c][i])

\* Connections that wait to be accepted are untouched, and wait once.
BacklogInv ==
    /\ \A i \in 1 .. Len(backlog) : wpc[backlog[i]] = "none"
    /\ \A i, j \in 1 .. Len(backlog) : backlog[i] = backlog[j] => i = j

\* How much of the message in hand has been read, and of the whole stream: every
\* message before it has been answered.
Taken(c) == CASE wpc[c] \in {"none", "top"} -> 0
              [] wpc[c] = "hdr" -> Len(buf[c])
              [] wpc[c] = "body" -> HdrLen + Len(buf[c])
              [] OTHER -> MsgLen
Consumed(c) == Len(replies[c]) * MsgLen + Taken(c)

\* Where cell p of message i is in the stream.
At(i, p) == (i - 1) * MsgLen + p

\* What is in the socket continues where the worker has stopped reading, up to the
\* end of the last message.
InboxInv(c) ==
    /\ Consumed(c) + Len(inbox[c]) = Len(sent[c]) * MsgLen
    /\ \A j \in 1 .. Len(inbox[c]), i \in 1 .. Len(sent[c]), p \in 1 .. MsgLen :
         Consumed(c) + j = At(i, p) => inbox[c][j] = <<i, p>>

\* What the worker has read is its part of the next message to be answered.
BufInv(c) ==
    LET i == Len(replies[c]) + 1
    IN  /\ wpc[c] = "hdr" => /\ Len(buf[c]) <= HdrLen
                             /\ \A p \in 1 .. Len(buf[c]) : buf[c][p] = <<i, p>>
        /\ wpc[c] = "body" => /\ want[c] = BodyLen /\ Len(buf[c]) <= BodyLen
                              /\ \A p \in 1 .. Len(buf[c]) : buf[c][p] = <<i, HdrLen + p>>
        /\ wpc[c] = "handle" => IsBody(buf[c], i)
        /\ wpc[c] = "write" => reply[c].xid = i

Cause(c) ==
    \/ stop \/ closed[c]
    \/ \E i \in 1 .. Len(sent[c]) : sent[c][i].kind \in {"malformed", "fragment", "panic"}

FrameInv(c) ==
    /\ part[c] = MsgLen
    /\ wpc[c] # "done" => InboxInv(c) /\ BufInv(c)
    /\ wpc[c] = "done" => Cause(c)
    /\ Len(replies[c]) <= Len(sent[c])
    /\ \A i \in 1 .. Len(replies[c]) : replies[c][i].xid = i

FramingInv == BacklogInv /\ \A c \in Conns \ load.stalls : FrameInv(c)

------------------------------------------------------------------------------
(* Sequences of cells *)

\* Reading moves the first n cells of the socket to the end of the buffer.
LEMMA ReadMoves ==
    ASSUME NEW S, NEW s \in Seq(S), NEW b \in Seq(S), NEW n \in 1 .. Len(s)
    PROVE  /\ b \o SubSeq(s, 1, n) \in Seq(S)
           /\ Len(b \o SubSeq(s, 1, n)) = Len(b) + n
           /\ \A j \in 1 .. Len(b) : (b \o SubSeq(s, 1, n))[j] = b[j]
           /\ \A j \in Len(b) + 1 .. Len(b) + n : (b \o SubSeq(s, 1, n))[j] = s[j - Len(b)]
           /\ SubSeq(s, n + 1, Len(s)) \in Seq(S)
           /\ Len(SubSeq(s, n + 1, Len(s))) = Len(s) - n
           /\ \A j \in 1 .. Len(s) - n : SubSeq(s, n + 1, Len(s))[j] = s[n + j]
<1> DEFINE h == SubSeq(s, 1, n)
           t == SubSeq(s, n + 1, Len(s))
<1>1. Len(s) \in Nat /\ Len(b) \in Nat /\ n \in Nat /\ n <= Len(s)
  BY LenProperties
<1>2. \A i \in 1 .. Len(s) : s[i] \in S
  BY ElementOfSeq
<1>3. h \in Seq(S) /\ Len(h) = n /\ \A j \in 1 .. n : h[j] = s[j]
  OBVIOUS
<1>4. t \in Seq(S) /\ Len(t) = Len(s) - n /\ \A j \in 1 .. Len(s) - n : t[j] = s[n + j]
  OBVIOUS
<1>5. /\ b \o h \in Seq(S) /\ Len(b \o h) = Len(b) + Len(h)
      /\ \A i \in 1 .. Len(b) + Len(h) : (b \o h)[i] = IF i <= Len(b) THEN b[i] ELSE h[i - Len(b)]
  BY <1>3, ConcatProperties
<1> HIDE DEF h, t
<1>6. \A j \in 1 .. Len(b) : (b \o h)[j] = b[j]
  BY <1>1, <1>3, <1>5
<1>7. \A j \in Len(b) + 1 .. Len(b) + n : (b \o h)[j] = s[j - Len(b)]
  BY <1>1, <1>3, <1>5
<1>8. b \o h \in Seq(S) /\ Len(b \o h) = Len(b) + n
  BY <1>3, <1>5
<1> QED BY <1>4, <1>6, <1>7, <1>8 DEF h, t

\* Writing adds n cells at the end of what is in the socket.
LEMMA WriteAdds ==
    ASSUME NEW S, NEW s \in Seq(S), NEW n \in Nat, NEW w \in [1 .. n -> S]
    PROVE  /\ s \o w \in Seq(S)
           /\ Len(s \o w) = Len(s) + n
           /\ \A j \in 1 .. Len(s) : (s \o w)[j] = s[j]
           /\ \A j \in Len(s) + 1 .. Len(s) + n : (s \o w)[j] = w[j - Len(s)]
<1>1. w \in Seq(S) /\ Len(w) = n
  BY SeqDef
<1>2. Len(s) \in Nat
  BY LenProperties
<1>3. /\ s \o w \in Seq(S) /\ Len(s \o w) = Len(s) + Len(w)
      /\ \A i \in 1 .. Len(s) + Len(w) : (s \o w)[i] = IF i <= Len(s) THEN s[i] ELSE w[i - Len(s)]
  BY <1>1, ConcatProperties
<1> QED BY <1>1, <1>2, <1>3

------------------------------------------------------------------------------
(* The type invariant *)

LEMMA Lengths ==
    /\ HdrLen \in Nat /\ BodyLen \in Nat /\ MsgLen \in Nat
    /\ HdrLen > 0 /\ BodyLen > 0 /\ MsgLen = HdrLen + BodyLen
BY ServerAssumption DEF MsgLen

\* A client sends messages of the kinds there are.
LEMMA LoadFacts ==
    ASSUME TypeOK, NEW c \in Conns PROVE load.kinds[c] \subseteq AllKinds
BY ServerAssumption DEF TypeOK, AllLoads

LEMMA InitType == Init => TypeOK
<1> SUFFICES ASSUME Init PROVE TypeOK
  OBVIOUS
<1>1. /\ stop \in BOOLEAN /\ serveMount \in BOOLEAN /\ closed \in [Conns -> BOOLEAN]
  <2>1. load.mnt \in BOOLEAN
    BY ServerAssumption DEF Init, AllLoads
  <2> QED BY <2>1, Zenon DEF Init
<1>2. /\ want \in [Conns -> 0 .. MsgLen] /\ part \in [Conns -> 0 .. MsgLen]
      /\ unread \in [Conns -> 0 .. SockBuf]
  BY ServerAssumption, Lengths DEF Init
<1>3. reply \in [Conns -> Replies] /\ replies \in [Conns -> Seq(Replies)]
  BY DEF Init, NoReply, Replies
<1>4. buf \in [Conns -> Seq(Nat \X Nat)] /\ inbox \in [Conns -> Seq(Nat \X Nat)]
  BY DEF Init
<1>5. sent \in [Conns -> Seq([kind : AllKinds, late : BOOLEAN])]
  BY DEF Init
<1> QED BY <1>1, <1>2, <1>3, <1>4, <1>5 DEF Init, TypeOK

\* What one read(2) does to a worker's buffer and to its socket.
LEMMA ReadFacts ==
    ASSUME TypeOK, NEW c \in Conns, NEW n \in 1 .. Len(inbox[c]),
           buf' = [buf EXCEPT ![c] = @ \o SubSeq(inbox[c], 1, n)],
           inbox' = [inbox EXCEPT ![c] = SubSeq(@, n + 1, Len(@))]
    PROVE  /\ buf' \in [Conns -> Seq(Nat \X Nat)] /\ inbox' \in [Conns -> Seq(Nat \X Nat)]
           /\ Len(buf'[c]) = Len(buf[c]) + n
           /\ \A j \in 1 .. Len(buf[c]) : buf'[c][j] = buf[c][j]
           /\ \A j \in Len(buf[c]) + 1 .. Len(buf[c]) + n : buf'[c][j] = inbox[c][j - Len(buf[c])]
           /\ Len(inbox'[c]) = Len(inbox[c]) - n
           /\ \A j \in 1 .. Len(inbox[c]) - n : inbox'[c][j] = inbox[c][n + j]
<1>1. buf[c] \in Seq(Nat \X Nat) /\ inbox[c] \in Seq(Nat \X Nat)
  BY DEF TypeOK
<1>2. /\ buf'[c] = buf[c] \o SubSeq(inbox[c], 1, n)
      /\ inbox'[c] = SubSeq(inbox[c], n + 1, Len(inbox[c]))
      /\ DOMAIN buf' = Conns /\ DOMAIN inbox' = Conns
      /\ \A d \in Conns : d # c => buf'[d] = buf[d] /\ inbox'[d] = inbox[d]
  BY DEF TypeOK
<1>3. buf'[c] \in Seq(Nat \X Nat) /\ inbox'[c] \in Seq(Nat \X Nat)
  BY <1>1, <1>2, ReadMoves
<1>4. buf' \in [Conns -> Seq(Nat \X Nat)]
  BY <1>3 DEF TypeOK
<1>5. inbox' \in [Conns -> Seq(Nat \X Nat)]
  BY <1>3 DEF TypeOK
<1>6. Len(buf'[c]) = Len(buf[c]) + n /\ Len(inbox'[c]) = Len(inbox[c]) - n
  BY <1>1, <1>2, ReadMoves
<1>7. \A j \in 1 .. Len(buf[c]) : buf'[c][j] = buf[c][j]
  BY <1>1, <1>2, ReadMoves
<1>8. \A j \in Len(buf[c]) + 1 .. Len(buf[c]) + n : buf'[c][j] = inbox[c][j - Len(buf[c])]
  BY <1>1, <1>2, ReadMoves
<1>9. \A j \in 1 .. Len(inbox[c]) - n : inbox'[c][j] = inbox[c][n + j]
  <2>1. inbox'[c] = SubSeq(inbox[c], n + 1, Len(inbox[c]))
    BY <1>2
  <2>2. \A s \in Seq(Nat \X Nat) : \A k \in 1 .. Len(s) : \A j \in 1 .. Len(s) - k :
          SubSeq(s, k + 1, Len(s))[j] = s[k + j]
    BY ReadMoves
  <2> QED BY <1>1, <2>1, <2>2
<1> QED BY <1>4, <1>5, <1>6, <1>7, <1>8, <1>9

\* What a client's write of n cells does to its socket.
LEMMA SendFacts ==
    ASSUME TypeOK, NEW c \in Conns, NEW n \in Nat, NEW w \in [1 .. n -> Nat \X Nat],
           inbox' = [inbox EXCEPT ![c] = @ \o w]
    PROVE  /\ inbox' \in [Conns -> Seq(Nat \X Nat)]
           /\ Len(inbox'[c]) = Len(inbox[c]) + n
           /\ \A j \in 1 .. Len(inbox[c]) : inbox'[c][j] = inbox[c][j]
           /\ \A j \in Len(inbox[c]) + 1 .. Len(inbox[c]) + n : inbox'[c][j] = w[j - Len(inbox[c])]
<1>1. inbox[c] \in Seq(Nat \X Nat)
  BY DEF TypeOK
<1>2. inbox'[c] = inbox[c] \o w
  BY DEF TypeOK
<1>3. inbox'[c] \in Seq(Nat \X Nat) /\ Len(inbox'[c]) = Len(inbox[c]) + n
  BY <1>1, <1>2, WriteAdds
<1>4. /\ \A j \in 1 .. Len(inbox[c]) : inbox'[c][j] = inbox[c][j]
      /\ \A j \in Len(inbox[c]) + 1 .. Len(inbox[c]) + n : inbox'[c][j] = w[j - Len(inbox[c])]
  BY <1>1, <1>2, WriteAdds
<1>5. inbox' \in [Conns -> Seq(Nat \X Nat)]
  BY <1>3 DEF TypeOK
<1> QED BY <1>3, <1>4, <1>5

LEMMA TypeNext == TypeOK /\ [Next]_vars => TypeOK'
<1> SUFFICES ASSUME TypeOK, [Next]_vars PROVE TypeOK'
  OBVIOUS
<1> USE DEF main, worker, peer
<1>1. CASE CheckStop
  BY <1>1 DEF CheckStop, TypeOK
<1>2. CASE Accept
  <2>1. Reaped \subseteq Conns
    BY DEF Reaped, Live
  <2>2. CASE workers' = Reaped /\ UNCHANGED <<backlog, wpc>>
    BY <1>2, <2>1, <2>2 DEF Accept, AcceptConn, AcceptNothing, TypeOK
  <2>3. CASE /\ backlog # << >>
             /\ backlog' = Tail(backlog) /\ workers' = Reaped \union {Head(backlog)}
             /\ wpc' = [wpc EXCEPT ![Head(backlog)] = "top"]
    <3>1. backlog \in Seq(Conns)
      BY DEF TypeOK
    <3>2. Head(backlog) \in Conns /\ Tail(backlog) \in Seq(Conns)
      BY <2>3, <3>1, HeadTailProperties
    <3> QED BY <1>2, <2>1, <2>3, <3>2 DEF Accept, AcceptConn, AcceptNothing, TypeOK
  <2> QED BY <1>2, <2>2, <2>3 DEF Accept, AcceptConn, AcceptNothing
<1>3. CASE Join
  BY <1>3 DEF Join, TypeOK
<1>4. ASSUME NEW c \in Conns, Top(c) PROVE TypeOK'
  <2>1. wpc' \in [Conns -> {"none", "top", "hdr", "body", "handle", "write", "done"}]
    BY <1>4 DEF Top, Return, TypeOK
  <2>2. buf' \in [Conns -> Seq(Nat \X Nat)]
    BY <1>4 DEF Top, TypeOK
  <2> QED BY <1>4, <2>1, <2>2 DEF Top, TypeOK
<1>5. ASSUME NEW c \in Conns, Read(c) PROVE TypeOK'
  BY <1>5, ReadFacts DEF Read, TypeOK
<1>6. ASSUME NEW c \in Conns, ReadTimeout(c) \/ ReadEof(c) PROVE TypeOK'
  BY <1>6 DEF ReadTimeout, ReadEof, Return, TypeOK
<1>7. ASSUME NEW c \in Conns, Header(c) PROVE TypeOK'
  <2>1. BodyLen \in 0 .. MsgLen
    BY Lengths
  <2>2. wpc' \in [Conns -> {"none", "top", "hdr", "body", "handle", "write", "done"}]
    BY <1>7 DEF Header, Return, TypeOK
  <2>3. UNCHANGED want \/ \E n \in 0 .. MsgLen : want' = [want EXCEPT ![c] = n]
    BY <1>7, <2>1 DEF Header
  <2>4. want' \in [Conns -> 0 .. MsgLen]
    BY <2>3 DEF TypeOK
  <2>5. UNCHANGED buf \/ buf' = [buf EXCEPT ![c] = << >>]
    BY <1>7 DEF Header
  <2>6. buf' \in [Conns -> Seq(Nat \X Nat)]
    <3>1. buf \in [Conns -> Seq(Nat \X Nat)] /\ << >> \in Seq(Nat \X Nat)
      BY EmptySeq DEF TypeOK
    <3> QED BY <2>5, <3>1, Zenon
  <2> QED BY <1>7, <2>2, <2>4, <2>6 DEF Header, TypeOK
<1>8. ASSUME NEW c \in Conns, Body(c) PROVE TypeOK'
  BY <1>8 DEF Body, TypeOK
<1>9. ASSUME NEW c \in Conns, Handle(c) PROVE TypeOK'
  <2>1. wpc' \in [Conns -> {"none", "top", "hdr", "body", "handle", "write", "done"}]
    BY <1>9 DEF Handle, Return, TypeOK
  <2>2. reply' \in [Conns -> Replies]
    <3>1. CASE UNCHANGED reply
      BY <3>1 DEF TypeOK
    <3>2. CASE reply' = [reply EXCEPT ![c] = [xid |-> 0, result |-> "rpc_mismatch"]]
      BY <3>2 DEF TypeOK, Replies
    <3>3. ASSUME NEW i \in 1 .. Len(sent[c]),
                 sent[c][i].kind \notin {"malformed", "fragment", "panic"},
                 reply' = [reply EXCEPT ![c] = [xid |-> i, result |-> Route(sent[c][i].kind)]]
          PROVE  reply' \in [Conns -> Replies]
      <4>1. sent[c][i].kind \in AllKinds
        <5>1. sent[c] \in Seq([kind : AllKinds, late : BOOLEAN])
          BY DEF TypeOK
        <5>2. sent[c][i] \in [kind : AllKinds, late : BOOLEAN]
          BY <5>1, ElementOfSeq
        <5> QED BY <5>2, ServerAssumption
      <4>2. [xid |-> i, result |-> Route(sent[c][i].kind)] \in Replies
        BY <3>3, <4>1 DEF Route, AllKinds, Replies
      <4> QED BY <3>3, <4>2 DEF TypeOK
    <3> QED BY <1>9, <3>1, <3>2, <3>3 DEF Handle
  <2> QED BY <1>9, <2>1, <2>2 DEF Handle, TypeOK
<1>10. ASSUME NEW c \in Conns, Write(c) PROVE TypeOK'
  <2>1. wpc' \in [Conns -> {"none", "top", "hdr", "body", "handle", "write", "done"}]
    BY <1>10 DEF Write, Return, TypeOK
  <2>2. unread' \in [Conns -> 0 .. SockBuf]
    <3>1. unread \in [Conns -> 0 .. SockBuf] /\ SockBuf \in Nat
      BY ServerAssumption DEF TypeOK
    <3>2. UNCHANGED unread \/ (unread[c] < SockBuf /\ unread' = [unread EXCEPT ![c] = unread[c] + 1])
      BY <1>10 DEF Write
    <3> QED BY <3>1, <3>2
  <2>3. replies' \in [Conns -> Seq(Replies)]
    <3>1. replies[c] \in Seq(Replies) /\ reply[c] \in Replies
      BY DEF TypeOK
    <3>2. Append(replies[c], reply[c]) \in Seq(Replies)
      BY <3>1
    <3>3. UNCHANGED replies \/ replies' = [replies EXCEPT ![c] = Append(replies[c], reply[c])]
      BY <1>10 DEF Write
    <3> QED BY <3>2, <3>3 DEF TypeOK
  <2> QED BY <1>10, <2>1, <2>2, <2>3 DEF Write, TypeOK
<1>11. ASSUME NEW c \in Conns, Connect(c) PROVE TypeOK'
  <2>1. backlog' \in Seq(Conns)
    <3>1. backlog \in Seq(Conns)
      BY DEF TypeOK
    <3> QED BY <1>11, <3>1 DEF Connect
  <2> QED BY <1>11, <2>1 DEF Connect, TypeOK
<1>12. ASSUME NEW c \in Conns, Send(c) PROVE TypeOK'
  <2>1. Len(sent[c]) \in Nat /\ part[c] \in 0 .. MsgLen /\ MsgLen \in Nat
    BY Lengths DEF TypeOK
  <2>2. CASE /\ UNCHANGED sent /\ part' = [part EXCEPT ![c] = MsgLen]
             /\ inbox' = [inbox EXCEPT ![c] =
                  @ \o [p \in 1 .. MsgLen - part[c] |-> <<Len(sent[c]), part[c] + p>>]]
    <3> DEFINE n == MsgLen - part[c]
               w == [p \in 1 .. n |-> <<Len(sent[c]), part[c] + p>>]
    <3>1. n \in Nat /\ w \in [1 .. n -> Nat \X Nat]
      BY <2>1
    <3>2. inbox' = [inbox EXCEPT ![c] = @ \o w]
      BY <2>2
    <3> HIDE DEF n, w
    <3>3. inbox' \in [Conns -> Seq(Nat \X Nat)]
      BY <3>1, <3>2, SendFacts
    <3>4. part' \in [Conns -> 0 .. MsgLen]
      BY <2>1, <2>2 DEF TypeOK
    <3> QED BY <1>12, <2>2, <3>3, <3>4 DEF Send, TypeOK
  <2>3. ASSUME NEW k \in AllKinds, NEW n \in 1 .. MsgLen,
               sent' = [sent EXCEPT ![c] = Append(@, [kind |-> k, late |-> ~serveMount])],
               part' = [part EXCEPT ![c] = n],
               inbox' = [inbox EXCEPT ![c] = @ \o [p \in 1 .. n |-> <<Len(sent[c]) + 1, p>>]]
        PROVE  TypeOK'
    <3> DEFINE w == [p \in 1 .. n |-> <<Len(sent[c]) + 1, p>>]
               m == [kind |-> k, late |-> ~serveMount]
    <3>1. w \in [1 .. n -> Nat \X Nat] /\ n \in Nat
      BY <2>1
    <3>2. inbox' = [inbox EXCEPT ![c] = @ \o w] /\ sent' = [sent EXCEPT ![c] = Append(@, m)]
      BY <2>3
    <3>3. m \in [kind : AllKinds, late : BOOLEAN]
      BY Zenon
    <3> HIDE DEF w, m
    <3>4. inbox' \in [Conns -> Seq(Nat \X Nat)]
      BY <3>1, <3>2, SendFacts
    <3>5. sent' \in [Conns -> Seq([kind : AllKinds, late : BOOLEAN])]
      <4>1. sent \in [Conns -> Seq([kind : AllKinds, late : BOOLEAN])]
        BY DEF TypeOK
      <4>2. Append(sent[c], m) \in Seq([kind : AllKinds, late : BOOLEAN])
        BY <3>3, <4>1, AppendProperties
      <4> QED BY <3>2, <4>1, <4>2
    <3>6. part' \in [Conns -> 0 .. MsgLen]
      BY <2>1, <2>3 DEF TypeOK
    <3> QED BY <1>12, <3>4, <3>5, <3>6 DEF Send, TypeOK
  <2>4. \A n \in IF c \in load.stalls THEN 1 .. MsgLen ELSE {MsgLen} : n \in 1 .. MsgLen
    BY Lengths
  <2>5. load.kinds[c] \subseteq AllKinds
    BY LoadFacts
  <2> QED BY <1>12, <2>2, <2>3, <2>4, <2>5 DEF Send
<1>13. ASSUME NEW c \in Conns, TakeReply(c) PROVE TypeOK'
  <2>1. unread' \in [Conns -> 0 .. SockBuf]
    BY <1>13, ServerAssumption DEF TakeReply, TypeOK
  <2> QED BY <1>13, <2>1 DEF TakeReply, TypeOK
<1>14. ASSUME NEW c \in Conns, Close(c) PROVE TypeOK'
  <2>1. closed' \in [Conns -> BOOLEAN]
    BY <1>14, Zenon DEF Close, TypeOK
  <2> QED BY <1>14, <2>1 DEF Close, TypeOK
<1>15. CASE MountDone
  BY <1>15 DEF MountDone, TypeOK
<1>16. CASE Stop
  BY <1>16 DEF Stop, TypeOK
<1>17. CASE UNCHANGED vars
  BY <1>17 DEF vars, TypeOK
<1> QED
  BY <1>1, <1>2, <1>3, <1>4, <1>5, <1>6, <1>7, <1>8, <1>9, <1>10, <1>11, <1>12, <1>13, <1>14,
     <1>15, <1>16, <1>17 DEF Next, MainStep, Serve, Client

\* Type correctness of the accept loop, the workers and their clients.
THEOREM TypeCorrect == Spec => []TypeOK
BY InitType, TypeNext, PTL DEF Spec

------------------------------------------------------------------------------
(* The threads *)

LEMMA WorkersFinite ==
    ASSUME TypeOK
    PROVE  /\ IsFiniteSet(workers) /\ Cardinality(workers) \in Nat
           /\ IsFiniteSet(Reaped) /\ Cardinality(Reaped) \in Nat
           /\ Cardinality(Reaped) <= Cardinality(workers)
<1>1. IsFiniteSet(workers)
  BY FS_Subset, ServerAssumption DEF TypeOK
<1>2. Reaped \in SUBSET workers
  BY DEF Reaped
<1> QED BY <1>1, <1>2, FS_Subset, FS_CardinalityType

\* A worker that runs has run before: only Accept starts one.
LEMMA ServeKeepsLive ==
    ASSUME TypeOK, NEW c \in Conns, Serve(c)
    PROVE  Live' \subseteq Live /\ UNCHANGED main
<1>1. c \in Live
  BY DEF Serve, Top, Read, ReadTimeout, ReadEof, Header, Body, Handle, Write, Live
<1>2. \A d \in Conns : d # c => wpc'[d] = wpc[d]
  BY DEF Serve, Top, Read, ReadTimeout, ReadEof, Header, Body, Handle, Write, Return, TypeOK
<1>3. UNCHANGED main
  BY DEF Serve, Top, Read, ReadTimeout, ReadEof, Header, Body, Handle, Write
<1> QED BY <1>1, <1>2, <1>3 DEF Live

LEMMA ThreadNext ==
    ASSUME TypeOK, ThreadInv, [Next]_vars
    PROVE  ThreadInv'
<1> USE DEF main, worker, peer
<1>1. ASSUME UNCHANGED <<mpc, workers, wpc>> PROVE ThreadInv'
  BY <1>1 DEF ThreadInv, Live
<1>2. CASE CheckStop
  BY <1>2 DEF CheckStop, ThreadInv, Live
<1>3. CASE Accept
  <2>1. CASE workers' = Reaped /\ UNCHANGED <<backlog, wpc>>
    <3>1. UNCHANGED Live
      BY <2>1 DEF Live
    <3>2. Cardinality(workers') <= MAX_CONNECTIONS
      BY <2>1, WorkersFinite, ServerAssumption DEF ThreadInv
    <3>3. Live' \subseteq workers'
      BY <1>3, <2>1, <3>1 DEF Accept, AcceptConn, AcceptNothing, ThreadInv, Reaped
    <3> QED BY <1>3, <3>2, <3>3 DEF Accept, AcceptConn, AcceptNothing, ThreadInv
  <2>2. CASE /\ backlog # << >> /\ ~AtCapacity(Cardinality(Reaped))
             /\ workers' = Reaped \union {Head(backlog)}
             /\ wpc' = [wpc EXCEPT ![Head(backlog)] = "top"]
    <3>1. Cardinality(Reaped \union {Head(backlog)}) <= Cardinality(Reaped) + 1
      <4>1. Cardinality(Reaped \union {Head(backlog)})
              = IF Head(backlog) \in Reaped THEN Cardinality(Reaped) ELSE Cardinality(Reaped) + 1
        BY WorkersFinite, FS_AddElement, Zenon
      <4> QED BY <4>1, WorkersFinite
    <3>2. Cardinality(Reaped) < MAX_CONNECTIONS
      BY <2>2, WorkersFinite, ServerAssumption DEF AtCapacity
    <3>3. IsFiniteSet(workers') /\ Cardinality(workers') \in Nat
      BY <2>2, WorkersFinite, FS_AddElement, FS_CardinalityType
    <3>4. Cardinality(workers') <= MAX_CONNECTIONS
      BY <2>2, <3>1, <3>2, <3>3, WorkersFinite, ServerAssumption
    <3>5. Live' \subseteq Live \union {Head(backlog)}
      BY <2>2 DEF Live, TypeOK
    <3>6. Live' \subseteq workers'
      BY <1>3, <2>2, <3>5 DEF Accept, AcceptConn, AcceptNothing, ThreadInv, Reaped
    <3> QED BY <1>3, <3>4, <3>6 DEF Accept, AcceptConn, AcceptNothing, ThreadInv
  <2> QED BY <1>3, <2>1, <2>2 DEF Accept, AcceptConn, AcceptNothing
<1>4. CASE Join
  <2>1. UNCHANGED Live
    BY <1>4 DEF Join, Live
  <2>2. CASE workers = {} /\ mpc' = "returned" /\ UNCHANGED workers
    BY <1>4, <2>1, <2>2 DEF Join, ThreadInv
  <2>3. ASSUME NEW w \in workers \ Live, workers' = workers \ {w}, UNCHANGED mpc
        PROVE  ThreadInv'
    <3>1. Cardinality(workers') <= Cardinality(workers) /\ Cardinality(workers') \in Nat
      <4>1. IsFiniteSet(workers')
            /\ Cardinality(workers') = IF w \in workers THEN Cardinality(workers) - 1
                                       ELSE Cardinality(workers)
        BY <2>3, WorkersFinite, FS_RemoveElement, Zenon
      <4> QED BY <4>1, WorkersFinite, FS_CardinalityType
    <3> QED BY <1>4, <2>1, <2>3, <3>1, WorkersFinite, ServerAssumption DEF Join, ThreadInv
  <2> QED BY <1>4, <2>2, <2>3 DEF Join
<1>5. ASSUME NEW c \in Conns, Serve(c) PROVE ThreadInv'
  BY <1>5, ServeKeepsLive DEF ThreadInv
<1>6. ASSUME NEW c \in Conns, Client(c) PROVE ThreadInv'
  BY <1>1, <1>6 DEF Client, Connect, Send, TakeReply, Close
<1>7. CASE MountDone \/ Stop \/ UNCHANGED vars
  BY <1>1, <1>7 DEF MountDone, Stop, vars
<1> QED BY <1>2, <1>3, <1>4, <1>5, <1>6, <1>7 DEF Next, MainStep

LEMMA ThreadsInductive == Spec => [](TypeOK /\ ThreadInv)
<1>1. Init => ThreadInv
  BY FS_EmptySet, ServerAssumption DEF Init, ThreadInv, Live
<1> QED BY InitType, TypeNext, <1>1, ThreadNext, PTL DEF Spec

\* No order of connects, closes, reaps and accepts gives more worker threads than
\* MAX_CONNECTIONS, or one whose JoinHandle run has lost.
THEOREM ThreadsBounded == Spec => []ThreadsBoundedAndOwned
<1>1. ASSUME TypeOK, ThreadInv PROVE ThreadsBoundedAndOwned
  <2>1. Live \in SUBSET workers
    BY <1>1, FS_EmptySet DEF ThreadInv, TypeOK
  <2>2. Cardinality(Live) <= Cardinality(workers) /\ Cardinality(Live) \in Nat
    BY <1>1, <2>1, WorkersFinite, FS_Subset, FS_CardinalityType
  <2> QED BY <1>1, <2>2, WorkersFinite, ServerAssumption DEF ThreadInv, ThreadsBoundedAndOwned
<1>2. TypeOK /\ ThreadInv => ThreadsBoundedAndOwned
  BY <1>1
<1> QED BY ThreadsInductive, <1>2, PTL

\* run joins every worker before it returns, one accepted after the stop flag was set
\* included: the filesystem is not touched afterwards.
THEOREM WorkersJoined == Spec => []NoWorkerOutlivesRun
<1>1. ThreadInv => NoWorkerOutlivesRun
  BY DEF ThreadInv, NoWorkerOutlivesRun
<1> QED BY ThreadsInductive, <1>1, PTL

------------------------------------------------------------------------------
(* The MNT window *)

\* A message is appended to what its client has sent.
LEMMA SentGrows ==
    ASSUME TypeOK, NEW c \in Conns, NEW k \in AllKinds,
           sent' = [sent EXCEPT ![c] = Append(@, [kind |-> k, late |-> ~serveMount])]
    PROVE  /\ Len(sent'[c]) = Len(sent[c]) + 1 /\ Len(sent[c]) \in Nat
           /\ \A i \in 1 .. Len(sent[c]) : sent'[c][i] = sent[c][i]
           /\ sent'[c][Len(sent[c]) + 1] = [kind |-> k, late |-> ~serveMount]
           /\ \A d \in Conns : d # c => sent'[d] = sent[d]
<1> DEFINE m == [kind |-> k, late |-> ~serveMount]
<1>1. m \in [kind : AllKinds, late : BOOLEAN]
  BY Zenon
<1>2. sent' = [sent EXCEPT ![c] = Append(sent[c], m)]
  OBVIOUS
<1> HIDE DEF m
<1>3. sent[c] \in Seq([kind : AllKinds, late : BOOLEAN])
  BY DEF TypeOK
<1>4. sent'[c] = Append(sent[c], m) /\ \A d \in Conns : d # c => sent'[d] = sent[d]
  BY <1>2 DEF TypeOK
<1>5. /\ Len(sent'[c]) = Len(sent[c]) + 1 /\ Len(sent[c]) \in Nat
      /\ \A i \in 1 .. Len(sent[c]) : sent'[c][i] = sent[c][i]
      /\ sent'[c][Len(sent[c]) + 1] = m
  BY <1>1, <1>3, <1>4, AppendProperties, LenProperties
<1> QED BY <1>4, <1>5 DEF m

\* Only a client's Send changes what has been sent.
LEMMA SentSteps ==
    ASSUME TypeOK, [Next]_vars
    PROVE  \/ UNCHANGED sent
           \/ \E d \in Conns, k \in AllKinds :
                sent' = [sent EXCEPT ![d] = Append(@, [kind |-> k, late |-> ~serveMount])]
<1>1. ASSUME NEW d \in Conns, Send(d)
      PROVE  \/ UNCHANGED sent
             \/ \E k \in AllKinds :
                  sent' = [sent EXCEPT ![d] = Append(@, [kind |-> k, late |-> ~serveMount])]
  <2>1. \/ UNCHANGED sent
        \/ \E k \in load.kinds[d] :
             sent' = [sent EXCEPT ![d] = Append(@, [kind |-> k, late |-> ~serveMount])]
    BY <1>1, Zenon DEF Send
  <2> QED BY <2>1, LoadFacts
<1>2. ASSUME ~\E d \in Conns : Send(d) PROVE UNCHANGED sent
  BY <1>2 DEF Next, MainStep, CheckStop, Accept, AcceptConn, AcceptNothing, Join, Serve, Top, Read,
     ReadTimeout, ReadEof, Header, Body, Handle, Write, Client, Connect, TakeReply, Close,
     MountDone, Stop, vars, peer
<1> QED BY <1>1, <1>2

\* Clients only add messages: what is said of the ones there are stays true.
LEMMA SentMonotone ==
    ASSUME TypeOK, [Next]_vars, NEW c \in Conns
    PROVE  /\ Len(sent[c]) \in Nat /\ Len(sent'[c]) \in Nat /\ Len(sent[c]) <= Len(sent'[c])
           /\ \A i \in 1 .. Len(sent[c]) : sent'[c][i] = sent[c][i]
<1>1. Len(sent[c]) \in Nat
  BY DEF TypeOK
<1>2. CASE UNCHANGED sent
  BY <1>1, <1>2
<1>3. ASSUME NEW d \in Conns, NEW k \in AllKinds,
             sent' = [sent EXCEPT ![d] = Append(@, [kind |-> k, late |-> ~serveMount])]
      PROVE  /\ Len(sent'[c]) \in Nat /\ Len(sent[c]) <= Len(sent'[c])
             /\ \A i \in 1 .. Len(sent[c]) : sent'[c][i] = sent[c][i]
  BY <1>1, <1>3, SentGrows
<1> QED BY <1>1, <1>2, <1>3, SentSteps

LEMMA ReplyStaysOK ==
    ASSUME TypeOK, [Next]_vars, NEW c \in Conns, NEW r \in Replies, ReplyOK(c, r)
    PROVE  ReplyOK(c, r)'
<1>1. /\ Len(sent[c]) \in Nat /\ Len(sent'[c]) \in Nat /\ Len(sent[c]) <= Len(sent'[c])
      /\ \A i \in 1 .. Len(sent[c]) : sent'[c][i] = sent[c][i]
  BY SentMonotone
<1> QED BY <1>1 DEF ReplyOK

LEMMA LateNext ==
    ASSUME TypeOK, LateInv, [Next]_vars
    PROVE  LateInv'
<1> SUFFICES ASSUME NEW c \in Conns
             PROVE  /\ serveMount' = TRUE => \A i \in 1 .. Len(sent'[c]) : sent'[c][i].late = FALSE
                    /\ ReplyOK(c, reply[c])'
                    /\ \A i \in 1 .. Len(replies'[c]) : ReplyOK(c, replies[c][i])'
  BY DEF LateInv
<1> USE DEF main, worker, peer
<1>0. /\ Len(sent[c]) \in Nat /\ Len(replies[c]) \in Nat
      /\ reply[c] \in Replies /\ replies[c] \in Seq(Replies)
  BY DEF TypeOK
<1>1. serveMount' = TRUE => \A i \in 1 .. Len(sent'[c]) : sent'[c][i].late = FALSE
  <2>1. serveMount' = TRUE => serveMount = TRUE
    BY DEF Next, MainStep, CheckStop, Accept, AcceptConn, AcceptNothing, Join, Serve, Top,
           Read, ReadTimeout, ReadEof,
           Header, Body, Handle, Write, Client, Connect, Send, TakeReply, Close, MountDone, Stop,
           vars
  <2>2. CASE UNCHANGED sent
    BY <2>1, <2>2 DEF LateInv
  <2>3. ASSUME NEW d \in Conns, NEW k \in AllKinds, serveMount = TRUE,
               sent' = [sent EXCEPT ![d] = Append(@, [kind |-> k, late |-> ~serveMount])]
        PROVE  \A i \in 1 .. Len(sent'[c]) : sent'[c][i].late = FALSE
    <3>1. CASE c # d
      BY <2>3, <3>1, SentGrows DEF LateInv
    <3>2. CASE c = d
      <4>1. /\ Len(sent'[c]) = Len(sent[c]) + 1
            /\ \A i \in 1 .. Len(sent[c]) : sent'[c][i] = sent[c][i]
            /\ sent'[c][Len(sent[c]) + 1] = [kind |-> k, late |-> ~serveMount]
        BY <2>3, <3>2, SentGrows
      <4>2. \A i \in 1 .. Len(sent[c]) : sent[c][i].late = FALSE
        BY <2>3 DEF LateInv
      <4>3. [kind |-> k, late |-> ~serveMount].late = FALSE
        BY <2>3
      <4> QED BY <1>0, <4>1, <4>2, <4>3
    <3> QED BY <3>1, <3>2
  <2> QED BY <2>1, <2>2, <2>3, SentSteps
<1>2. ReplyOK(c, reply[c])'
  <2>1. CASE reply'[c] = reply[c]
    <3>1. ReplyOK(c, reply[c])
      BY DEF LateInv
    <3>2. ASSUME NEW r, r = reply[c] PROVE ReplyOK(c, r)'
      BY <1>0, <3>1, <3>2, ReplyStaysOK
    <3> QED BY <2>1, <3>2 DEF ReplyOK
  <2>2. ASSUME Handle(c) PROVE ReplyOK(c, reply[c])'
    <3>1. UNCHANGED <<sent, serveMount>>
      BY <2>2 DEF Handle
    <3>2. CASE UNCHANGED reply
      BY <2>1, <3>2
    <3>3. CASE reply' = [reply EXCEPT ![c] = [xid |-> 0, result |-> "rpc_mismatch"]]
      BY <1>0, <3>1, <3>3 DEF ReplyOK, TypeOK
    <3>4. ASSUME NEW i \in 1 .. Len(sent[c]),
                 sent[c][i].kind \notin {"malformed", "fragment", "panic"},
                 reply' = [reply EXCEPT ![c] = [xid |-> i, result |-> Route(sent[c][i].kind)]]
          PROVE  ReplyOK(c, reply[c])'
      <4>1. sent[c][i].kind \in AllKinds
        <5>1. sent[c] \in Seq([kind : AllKinds, late : BOOLEAN])
          BY DEF TypeOK
        <5>2. sent[c][i] \in [kind : AllKinds, late : BOOLEAN]
          BY <5>1, ElementOfSeq
        <5> QED BY <5>2, ServerAssumption
      <4>2. Route(sent[c][i].kind) = "mount" => serveMount
        BY <3>4, <4>1 DEF Route, AllKinds
      <4>3. Route(sent[c][i].kind) = "mount" => sent[c][i].late = FALSE
        BY <4>2 DEF LateInv, TypeOK
      <4>4. reply'[c] = [xid |-> i, result |-> Route(sent[c][i].kind)]
        BY <3>4 DEF TypeOK
      <4> QED BY <1>0, <3>1, <4>3, <4>4 DEF ReplyOK
    <3> QED BY <2>2, <3>2, <3>3, <3>4 DEF Handle
  <2>3. reply'[c] = reply[c] \/ Handle(c)
    <3>1. UNCHANGED reply \/ \E d \in Conns : Handle(d)
      BY DEF Next, MainStep, CheckStop, Accept, AcceptConn, AcceptNothing, Join, Serve, Top,
             Read, ReadTimeout, ReadEof,
             Header, Body, Write, Client, Connect, Send, TakeReply, Close, MountDone, Stop, vars
    <3>2. ASSUME NEW d \in Conns, Handle(d), d # c PROVE reply'[c] = reply[c]
      BY <3>2 DEF Handle, TypeOK
    <3> QED BY <3>1, <3>2
  <2> QED BY <2>1, <2>2, <2>3
<1>3. ASSUME NEW i \in 1 .. Len(replies'[c]) PROVE ReplyOK(c, replies[c][i])'
  <2>1. replies'[c] = replies[c] \/ replies'[c] = Append(replies[c], reply[c])
    <3>1. UNCHANGED replies \/ \E d \in Conns : Write(d)
      BY DEF Next, MainStep, CheckStop, Accept, AcceptConn, AcceptNothing, Join, Serve, Top,
             Read, ReadTimeout, ReadEof,
             Header, Body, Handle, Client, Connect, Send, TakeReply, Close, MountDone, Stop, vars
    <3>2. ASSUME NEW d \in Conns, Write(d)
          PROVE  UNCHANGED replies \/ replies' = [replies EXCEPT ![d] = Append(@, reply[d])]
      BY <3>2 DEF Write
    <3> QED BY <3>1, <3>2 DEF TypeOK
  <2>2. replies'[c][i] = reply[c] \/ (i \in 1 .. Len(replies[c]) /\ replies'[c][i] = replies[c][i])
    BY <1>0, <1>3, <2>1, AppendProperties
  <2>3. replies'[c][i] \in Replies /\ ReplyOK(c, replies'[c][i])
    BY <1>0, <2>2, ElementOfSeq DEF LateInv
  <2>4. ASSUME NEW r, r = replies'[c][i] PROVE ReplyOK(c, r)'
    BY <2>3, <2>4, ReplyStaysOK
  <2> QED BY <2>4 DEF ReplyOK
<1> QED BY <1>1, <1>2, <1>3

\* A client that calls MNT after mount_nfs has exited is not given the root, whichever
\* way its call races with the store to serve_mount.
THEOREM LateMnt == Spec => []LateMntRefused
<1>1. Init => LateInv
  BY DEF Init, LateInv, ReplyOK, NoReply
<1>2. ASSUME TypeOK, LateInv PROVE LateMntRefused
  <2> SUFFICES ASSUME NEW c \in Conns, NEW i \in 1 .. Len(replies[c]),
                      replies[c][i].xid > 0, sent[c][replies[c][i].xid].late
               PROVE  replies[c][i].result # "mount"
    BY DEF LateMntRefused
  <2> QED BY <1>2 DEF LateInv, ReplyOK
<1>3. TypeOK /\ LateInv => LateMntRefused
  BY <1>2
<1> QED BY InitType, TypeNext, <1>1, LateNext, <1>3, PTL DEF Spec

------------------------------------------------------------------------------
(* The framing of messages that arrive whole *)

\* Positions in a stream of messages of m cells: message and cell are determined, and
\* a message that has begun to be read is one that was sent.
LEMMA SamePosition ==
    ASSUME NEW m \in Nat \ {0}, NEW a \in Nat, NEW b \in Nat, NEW p \in 1 .. m, NEW q \in 1 .. m,
           a * m + p = b * m + q
    PROVE  a = b /\ p = q
<1>1. (a - b) * m = q - p
  OBVIOUS
<1>2. a - b < 1 /\ a - b > -1
  BY <1>1
<1> QED BY <1>2

LEMMA WholeMessages ==
    ASSUME NEW m \in Nat \ {0}, NEW a \in Nat, NEW b \in Nat, NEW t \in 0 .. m - 1,
           a * m + t = b * m
    PROVE  t = 0
<1>1. (b - a) * m = t
  OBVIOUS
<1>2. b - a < 1 /\ b - a > -1
  BY <1>1
<1> QED BY <1>1, <1>2

LEMMA MessageSent ==
    ASSUME NEW m \in Nat \ {0}, NEW a \in Nat, NEW b \in Nat, NEW t \in Nat \ {0}, NEW x \in Nat,
           a * m + t + x = b * m
    PROVE  a + 1 <= b
<1>1. (b - a) * m = t + x
  OBVIOUS
<1>2. b - a > 0
  BY <1>1
<1> QED BY <1>2

LEMMA NextMessage ==
    ASSUME NEW m \in Nat, NEW a \in Nat
    PROVE  (a + 1) * m = a * m + m /\ a * m \in Nat /\ (a + 1) * m \in Nat
OBVIOUS

LEMMA AtInjective ==
    ASSUME NEW i \in Nat \ {0}, NEW k \in Nat \ {0}, NEW p \in 1 .. MsgLen, NEW q \in 1 .. MsgLen,
           At(i, p) = At(k, q)
    PROVE  i = k /\ p = q
<1>1. MsgLen \in Nat \ {0}
  BY Lengths
<1>2. \A a, b \in Nat : a * MsgLen + p = b * MsgLen + q => a = b /\ p = q
  BY <1>1, SamePosition
<1>3. (i - 1) * MsgLen + p = (k - 1) * MsgLen + q /\ i - 1 \in Nat /\ k - 1 \in Nat
  BY DEF At
<1>4. i - 1 = k - 1 /\ p = q
  BY <1>2, <1>3
<1> QED BY <1>4

LEMMA AtNext ==
    ASSUME NEW a \in Nat, NEW x \in Nat
    PROVE  At(a + 1, x) = a * MsgLen + x
<1>1. a + 1 - 1 = a
  OBVIOUS
<1> QED BY <1>1 DEF At

LEMMA FrameTypes ==
    ASSUME TypeOK, NEW c \in Conns
    PROVE  /\ buf[c] \in Seq(Nat \X Nat) /\ inbox[c] \in Seq(Nat \X Nat)
           /\ replies[c] \in Seq(Replies) /\ sent[c] \in Seq([kind : AllKinds, late : BOOLEAN])
           /\ Len(buf[c]) \in Nat /\ Len(inbox[c]) \in Nat
           /\ Len(replies[c]) \in Nat /\ Len(sent[c]) \in Nat
           /\ Len(replies[c]) * MsgLen \in Nat /\ Len(sent[c]) * MsgLen \in Nat
           /\ MsgLen \in Nat \ {0}
<1>1. /\ buf[c] \in Seq(Nat \X Nat) /\ inbox[c] \in Seq(Nat \X Nat)
      /\ replies[c] \in Seq(Replies) /\ sent[c] \in Seq([kind : AllKinds, late : BOOLEAN])
  BY DEF TypeOK
<1>2. /\ Len(buf[c]) \in Nat /\ Len(inbox[c]) \in Nat
      /\ Len(replies[c]) \in Nat /\ Len(sent[c]) \in Nat
  BY <1>1, LenProperties
<1>3. MsgLen \in Nat \ {0}
  BY Lengths
<1> QED BY <1>1, <1>2, <1>3

\* Nothing happens to a connection whose variables stay as they are.
LEMMA FrameSame ==
    ASSUME NEW c \in Conns, FrameInv(c),
           wpc'[c] = wpc[c], buf'[c] = buf[c], want'[c] = want[c], reply'[c] = reply[c],
           replies'[c] = replies[c], sent'[c] = sent[c], part'[c] = part[c],
           inbox'[c] = inbox[c], stop => stop', closed[c] => closed'[c]
    PROVE  FrameInv(c)'
<1>1. Consumed(c)' = Consumed(c)
  BY DEF Consumed, Taken
<1>2. InboxInv(c) => InboxInv(c)'
  BY <1>1 DEF InboxInv
<1>3. BufInv(c) => BufInv(c)'
  BY DEF BufInv, IsBody
<1>4. Cause(c) => Cause(c)'
  BY DEF Cause
<1> QED BY <1>2, <1>3, <1>4 DEF FrameInv

\* The message in hand is one the client sent.
LEMMA InHand ==
    ASSUME TypeOK, NEW c \in Conns, FrameInv(c), wpc[c] # "done", Taken(c) \in Nat \ {0}
    PROVE  Len(replies[c]) + 1 \in 1 .. Len(sent[c])
<1>1. Len(replies[c]) * MsgLen + Taken(c) + Len(inbox[c]) = Len(sent[c]) * MsgLen
  BY DEF FrameInv, InboxInv, Consumed
<1>2. Len(replies[c]) + 1 <= Len(sent[c])
  BY <1>1, FrameTypes, MessageSent
<1> QED BY <1>2, FrameTypes

\* Top, ReadTimeout and ReadEof.  A timeout finds nothing of a message read: what is
\* in the socket ends with a whole message.
LEMMA FrameTop ==
    ASSUME TypeOK, NEW c \in Conns, FrameInv(c), Top(c)
    PROVE  FrameInv(c)'
<1>1. wpc[c] = "top" /\ buf'[c] = << >> /\ Len(buf'[c]) = 0
  BY DEF Top, TypeOK
<1>2. UNCHANGED <<stop, want, reply, replies, sent, part, closed, inbox>>
  BY DEF Top, main, peer
<1>3. CASE stop
  <2>1. wpc'[c] = "done" /\ Cause(c)'
    BY <1>2, <1>3 DEF Top, Return, TypeOK, Cause
  <2> QED BY <1>2, <2>1 DEF FrameInv
<1>4. CASE ~stop
  <2>1. wpc'[c] = "hdr"
    BY <1>4 DEF Top, TypeOK
  <2>2. Consumed(c)' = Consumed(c)
    BY <1>1, <1>2, <2>1 DEF Consumed, Taken
  <2>3. InboxInv(c)'
    BY <1>1, <1>2, <2>2 DEF FrameInv, InboxInv
  <2>4. BufInv(c)'
    BY <1>1, <2>1, Lengths DEF BufInv
  <2> QED BY <1>2, <2>1, <2>3, <2>4 DEF FrameInv
<1> QED BY <1>3, <1>4

LEMMA FrameTimeout ==
    ASSUME TypeOK, NEW c \in Conns, FrameInv(c), ReadTimeout(c)
    PROVE  FrameInv(c)'
<1>1. /\ wpc[c] \in {"hdr", "body"} /\ wpc'[c] = "top" /\ inbox[c] = << >> /\ Len(inbox[c]) = 0
      /\ Missing(c) > 0
  BY DEF ReadTimeout, TypeOK
<1>2. UNCHANGED <<stop, want, buf, reply, replies, sent, part, closed, inbox>>
  BY DEF ReadTimeout, main, peer
<1>3. Taken(c) \in 0 .. MsgLen - 1
  <2>1. Len(buf[c]) \in Nat /\ BufInv(c)
    BY <1>1, FrameTypes DEF FrameInv
  <2>2. CASE wpc[c] = "hdr"
    BY <1>1, <2>1, <2>2, Lengths DEF Taken, Missing
  <2>3. CASE wpc[c] = "body"
    BY <1>1, <2>1, <2>3, Lengths DEF Taken, Missing, BufInv
  <2> QED BY <1>1, <2>2, <2>3
<1>4. Len(replies[c]) * MsgLen + Taken(c) = Len(sent[c]) * MsgLen
  BY <1>1, <1>3, FrameTypes DEF FrameInv, InboxInv, Consumed
<1>5. Taken(c) = 0
  BY <1>3, <1>4, FrameTypes, WholeMessages
<1>6. Consumed(c)' = Consumed(c)
  BY <1>1, <1>2, <1>5 DEF Consumed, Taken
<1>7. InboxInv(c)' /\ BufInv(c)'
  BY <1>1, <1>2, <1>6 DEF FrameInv, InboxInv, BufInv
<1> QED BY <1>1, <1>2, <1>7 DEF FrameInv

LEMMA FrameEof ==
    ASSUME TypeOK, NEW c \in Conns, FrameInv(c), ReadEof(c)
    PROVE  FrameInv(c)'
<1>1. wpc'[c] = "done" /\ UNCHANGED <<replies, sent, part, closed>> /\ closed[c]
  BY DEF ReadEof, Return, TypeOK, peer
<1> QED BY <1>1 DEF FrameInv, Cause

\* The cells that are read are the next ones of the message in hand.
LEMMA FrameRead ==
    ASSUME TypeOK, NEW c \in Conns, FrameInv(c), Read(c)
    PROVE  FrameInv(c)'
<1>1. wpc[c] \in {"hdr", "body"} /\ UNCHANGED <<stop, wpc, want, reply, replies, sent, part, closed>>
  BY DEF Read, main, peer
<1>2. PICK n \in 1 .. Len(inbox[c]) :
        /\ n <= Missing(c)
        /\ buf' = [buf EXCEPT ![c] = @ \o SubSeq(inbox[c], 1, n)]
        /\ inbox' = [inbox EXCEPT ![c] = SubSeq(@, n + 1, Len(@))]
  BY DEF Read
<1>3. /\ Len(buf'[c]) = Len(buf[c]) + n
      /\ \A j \in 1 .. Len(buf[c]) : buf'[c][j] = buf[c][j]
      /\ \A j \in Len(buf[c]) + 1 .. Len(buf[c]) + n : buf'[c][j] = inbox[c][j - Len(buf[c])]
      /\ Len(inbox'[c]) = Len(inbox[c]) - n
      /\ \A j \in 1 .. Len(inbox[c]) - n : inbox'[c][j] = inbox[c][n + j]
  BY <1>2, ReadFacts
<1>4. n \in Nat /\ n > 0 /\ n <= Len(inbox[c]) /\ Len(inbox[c]) \in Nat /\ Len(buf[c]) \in Nat
  BY <1>2, FrameTypes
<1>5. InboxInv(c) /\ BufInv(c)
  BY <1>1 DEF FrameInv
<1>6. Taken(c) \in Nat /\ Taken(c)' = Taken(c) + n /\ Taken(c)' <= MsgLen
  <2>1. CASE wpc[c] = "hdr"
    <3>1. wpc'[c] = "hdr"
      BY <1>1, <2>1
    <3>2. Taken(c) = Len(buf[c]) /\ Taken(c)' = Len(buf'[c]) /\ n <= HdrLen - Len(buf[c])
      BY <1>2, <2>1, <3>1 DEF Taken, Missing
    <3> QED BY <1>3, <1>4, <3>2, Lengths
  <2>2. CASE wpc[c] = "body"
    <3>1. wpc'[c] = "body"
      BY <1>1, <2>2
    <3>2. /\ Taken(c) = HdrLen + Len(buf[c]) /\ Taken(c)' = HdrLen + Len(buf'[c])
          /\ n <= BodyLen - Len(buf[c])
      BY <1>2, <1>5, <2>2, <3>1 DEF Taken, Missing, BufInv
    <3> QED BY <1>3, <1>4, <3>2, Lengths
  <2> QED BY <1>1, <2>1, <2>2
<1>7. Consumed(c) \in Nat /\ Consumed(c)' = Consumed(c) + n
  <2> DEFINE R == Len(replies[c]) * MsgLen
  <2>1. R \in Nat
    BY FrameTypes
  <2>2. Consumed(c) = R + Taken(c) /\ Consumed(c)' = R + Taken(c)'
    BY <1>1 DEF Consumed
  <2> HIDE DEF R
  <2> QED BY <1>4, <1>6, <2>1, <2>2
<1>8. InboxInv(c)'
  <2>1. Consumed(c)' + Len(inbox'[c]) = Len(sent'[c]) * MsgLen
    BY <1>1, <1>3, <1>4, <1>5, <1>7 DEF InboxInv
  <2>2. ASSUME NEW j \in 1 .. Len(inbox'[c]), NEW i \in 1 .. Len(sent'[c]), NEW p \in 1 .. MsgLen,
               Consumed(c)' + j = At(i, p)
        PROVE  inbox'[c][j] = <<i, p>>
    <3>1. n + j \in 1 .. Len(inbox[c]) /\ Consumed(c) + (n + j) = At(i, p)
      BY <1>3, <1>4, <1>7, <2>2
    <3>2. inbox[c][n + j] = <<i, p>>
      BY <1>1, <1>5, <3>1 DEF InboxInv
    <3> QED BY <1>3, <1>4, <3>2
  <2> QED BY <2>1, <2>2 DEF InboxInv
<1>9. \A j \in 1 .. n : inbox[c][j] = <<Len(replies[c]) + 1, Taken(c) + j>>
  <2> SUFFICES ASSUME NEW j \in 1 .. n
               PROVE  inbox[c][j] = <<Len(replies[c]) + 1, Taken(c) + j>>
    OBVIOUS
  <2>1. Taken(c) + j \in 1 .. MsgLen /\ j \in 1 .. Len(inbox[c])
    BY <1>4, <1>6, Lengths
  <2>2. Len(replies[c]) + 1 \in 1 .. Len(sent[c])
    <3>1. Len(replies[c]) * MsgLen + (Taken(c) + j) + (Len(inbox[c]) - j) = Len(sent[c]) * MsgLen
      <4> DEFINE R == Len(replies[c]) * MsgLen
                 T == Len(sent[c]) * MsgLen
      <4>1. R \in Nat /\ T \in Nat
        BY FrameTypes
      <4>2. R + Taken(c) + Len(inbox[c]) = T
        BY <1>5 DEF InboxInv, Consumed
      <4> HIDE DEF R, T
      <4>3. R + (Taken(c) + j) + (Len(inbox[c]) - j) = T
        BY <1>4, <1>6, <4>1, <4>2
      <4> QED BY <4>3 DEF R, T
    <3>2. Taken(c) + j \in Nat \ {0} /\ Len(inbox[c]) - j \in Nat
      BY <1>4, <1>6
    <3>3. Len(replies[c]) + 1 <= Len(sent[c])
      BY <3>1, <3>2, FrameTypes, MessageSent
    <3> QED BY <3>3, FrameTypes
  <2>3. Consumed(c) + j = At(Len(replies[c]) + 1, Taken(c) + j)
    <3>1. Taken(c) + j \in Nat /\ Len(replies[c]) \in Nat
      BY <1>6, FrameTypes
    <3>2. At(Len(replies[c]) + 1, Taken(c) + j) = Len(replies[c]) * MsgLen + (Taken(c) + j)
      BY <3>1, AtNext
    <3> QED BY <1>6, <3>2, FrameTypes DEF Consumed
  <2> QED BY <1>5, <2>1, <2>2, <2>3 DEF InboxInv
<1>10. BufInv(c)'
  <2>1. CASE wpc[c] = "hdr"
    <3>1. Taken(c) = Len(buf[c]) /\ Len(buf'[c]) <= HdrLen
      BY <1>2, <1>3, <1>4, <2>1, Lengths DEF Taken, Missing
    <3>2. \A p \in 1 .. Len(buf'[c]) : buf'[c][p] = <<Len(replies[c]) + 1, p>>
      <4>1. ASSUME NEW p \in 1 .. Len(buf[c]) PROVE buf'[c][p] = <<Len(replies[c]) + 1, p>>
        BY <1>3, <1>5, <2>1 DEF BufInv
      <4>2. ASSUME NEW p \in Len(buf[c]) + 1 .. Len(buf[c]) + n
            PROVE  buf'[c][p] = <<Len(replies[c]) + 1, p>>
        <5>1. p - Len(buf[c]) \in 1 .. n /\ Len(buf[c]) + (p - Len(buf[c])) = p
          BY <1>4
        <5>2. inbox[c][p - Len(buf[c])] = <<Len(replies[c]) + 1, p>>
          BY <1>9, <3>1, <5>1
        <5> QED BY <1>3, <5>2
      <4> QED BY <1>3, <1>4, <4>1, <4>2
    <3> QED BY <1>1, <2>1, <3>1, <3>2 DEF BufInv
  <2>2. CASE wpc[c] = "body"
    <3>1. Taken(c) = HdrLen + Len(buf[c]) /\ Len(buf'[c]) <= BodyLen /\ want[c] = BodyLen
      BY <1>2, <1>3, <1>4, <1>5, <2>2, Lengths DEF Taken, Missing, BufInv
    <3>2. \A p \in 1 .. Len(buf'[c]) : buf'[c][p] = <<Len(replies[c]) + 1, HdrLen + p>>
      <4>1. ASSUME NEW p \in 1 .. Len(buf[c])
            PROVE  buf'[c][p] = <<Len(replies[c]) + 1, HdrLen + p>>
        BY <1>3, <1>5, <2>2 DEF BufInv
      <4>2. ASSUME NEW p \in Len(buf[c]) + 1 .. Len(buf[c]) + n
            PROVE  buf'[c][p] = <<Len(replies[c]) + 1, HdrLen + p>>
        <5>0. p \in Nat /\ HdrLen \in Nat
          BY <1>4, Lengths
        <5>1. p - Len(buf[c]) \in 1 .. n
          BY <1>4
        <5>2. HdrLen + Len(buf[c]) + (p - Len(buf[c])) = HdrLen + p
          <6>1. \A h, b \in Nat : h + b + (p - b) = h + p
            BY <5>0
          <6> QED BY <1>4, <5>0, <6>1
        <5>3. inbox[c][p - Len(buf[c])] = <<Len(replies[c]) + 1, HdrLen + p>>
          BY <1>9, <3>1, <5>1, <5>2
        <5> QED BY <1>3, <5>3
      <4>3. ASSUME NEW p \in 1 .. Len(buf'[c])
            PROVE  p \in 1 .. Len(buf[c]) \/ p \in Len(buf[c]) + 1 .. Len(buf[c]) + n
        BY <1>3, <1>4
      <4> QED BY <4>1, <4>2, <4>3
    <3> QED BY <1>1, <2>2, <3>1, <3>2 DEF BufInv
  <2> QED BY <1>1, <2>1, <2>2
<1> QED BY <1>1, <1>8, <1>10 DEF FrameInv

\* A complete record mark is the one of the message in hand, and of no other.
LEMMA FrameHeader ==
    ASSUME TypeOK, NEW c \in Conns, FrameInv(c), Header(c)
    PROVE  FrameInv(c)'
<1> DEFINE i == Len(replies[c]) + 1
           msgs == {k \in 1 .. Len(sent[c]) : IsHeader(buf[c], k)}
<1>1. /\ wpc[c] = "hdr" /\ Missing(c) = 0
      /\ UNCHANGED <<stop, reply, replies, sent, part, closed, inbox>>
  BY DEF Header, main, peer
<1>2. Len(buf[c]) = HdrLen /\ BufInv(c) /\ InboxInv(c)
  BY <1>1, FrameTypes, Lengths DEF Missing, FrameInv
<1>3. Taken(c) = HdrLen
  BY <1>1, <1>2 DEF Taken
<1>4. i \in 1 .. Len(sent[c])
  BY <1>1, <1>3, InHand, Lengths
<1>5. buf[c] = [p \in 1 .. HdrLen |-> <<i, p>>]
  <2>1. buf[c] = [p \in 1 .. HdrLen |-> buf[c][p]]
    BY <1>2, FrameTypes, LenProperties
  <2>2. \A p \in 1 .. HdrLen : buf[c][p] = <<i, p>>
    BY <1>1, <1>2 DEF BufInv
  <2> HIDE DEF i
  <2> QED BY <2>1, <2>2
<1>6. msgs = {i}
  <2>1. i \in msgs
    BY <1>4, <1>5 DEF IsHeader
  <2>2. ASSUME NEW k \in msgs PROVE k = i
    <3>1. 1 \in 1 .. HdrLen
      BY Lengths
    <3>2. buf[c] = [p \in 1 .. HdrLen |-> <<k, p>>]
      BY <2>2 DEF IsHeader
    <3> HIDE DEF i
    <3>3. buf[c][1] = <<k, 1>>
      BY <3>1, <3>2
    <3>4. buf[c][1] = <<i, 1>>
      BY <1>5, <3>1
    <3> QED BY <3>3, <3>4
  <2> QED BY <2>1, <2>2
<1>7. CASE sent[c][i].kind = "fragment"
  <2>1. wpc'[c] = "done"
    BY <1>6, <1>7 DEF Header, Return, TypeOK
  <2>2. Cause(c)'
    BY <1>1, <1>4, <1>7 DEF Cause
  <2> QED BY <1>1, <2>1, <2>2 DEF FrameInv
<1>8. CASE sent[c][i].kind # "fragment"
  <2>1. wpc'[c] = "body" /\ want'[c] = BodyLen /\ buf'[c] = << >> /\ Len(buf'[c]) = 0
    <3> HIDE DEF i
    <3>1. /\ wpc' = [wpc EXCEPT ![c] = "body"] /\ want' = [want EXCEPT ![c] = BodyLen]
          /\ buf' = [buf EXCEPT ![c] = << >>]
      BY <1>6, <1>8 DEF Header
    <3> QED BY <3>1 DEF TypeOK
  <2>2. Taken(c)' = Taken(c)
    BY <1>3, <2>1, Lengths DEF Taken
  <2>3. Consumed(c)' = Consumed(c)
    BY <1>1, <2>2 DEF Consumed
  <2>4. InboxInv(c)'
    BY <1>1, <1>2, <2>3 DEF InboxInv
  <2>5. BufInv(c)'
    BY <2>1, Lengths DEF BufInv
  <2> QED BY <1>1, <2>1, <2>4, <2>5 DEF FrameInv
<1> QED BY <1>7, <1>8

LEMMA FrameBody ==
    ASSUME TypeOK, NEW c \in Conns, FrameInv(c), Body(c)
    PROVE  FrameInv(c)'
<1> DEFINE i == Len(replies[c]) + 1
<1>1. /\ wpc[c] = "body" /\ wpc'[c] = "handle" /\ Missing(c) = 0
      /\ UNCHANGED <<stop, buf, want, reply, replies, sent, part, closed, inbox>>
  BY DEF Body, TypeOK, main, peer
<1>2. Len(buf[c]) = BodyLen /\ BufInv(c) /\ InboxInv(c)
  BY <1>1, FrameTypes, Lengths DEF Missing, FrameInv, BufInv
<1>3. IsBody(buf[c], i)
  <2>1. buf[c] = [p \in 1 .. BodyLen |-> buf[c][p]]
    BY <1>2, FrameTypes, LenProperties
  <2>2. \A p \in 1 .. BodyLen : buf[c][p] = <<i, HdrLen + p>>
    BY <1>1, <1>2 DEF BufInv
  <2> HIDE DEF i
  <2> QED BY <2>1, <2>2 DEF IsBody
<1>4. Consumed(c)' = Consumed(c)
  BY <1>1, <1>2, Lengths DEF Consumed, Taken
<1>5. InboxInv(c)'
  <2> HIDE DEF i
  <2>1. inbox' = inbox /\ sent' = sent
    BY <1>1
  <2> QED BY <1>2, <1>4, <2>1 DEF InboxInv
<1>6. BufInv(c)'
  BY <1>1, <1>3 DEF BufInv, IsBody
<1> QED BY <1>1, <1>5, <1>6 DEF FrameInv

\* A body is handled as the call of the message in hand, and of no other.
LEMMA FrameHandle ==
    ASSUME TypeOK, NEW c \in Conns, FrameInv(c), Handle(c)
    PROVE  FrameInv(c)'
<1> DEFINE i == Len(replies[c]) + 1
           msgs == {k \in 1 .. Len(sent[c]) : IsBody(buf[c], k)}
<1>1. /\ wpc[c] = "handle"
      /\ UNCHANGED <<stop, buf, want, replies, sent, part, closed, inbox>>
  BY DEF Handle, main, peer
<1>2. IsBody(buf[c], i) /\ InboxInv(c)
  BY <1>1 DEF FrameInv, BufInv
<1>3. Taken(c) = MsgLen
  BY <1>1 DEF Taken
<1>4. i \in 1 .. Len(sent[c])
  BY <1>1, <1>3, InHand, FrameTypes
<1>5. msgs = {i}
  <2>1. i \in msgs
    BY <1>2, <1>4
  <2>2. ASSUME NEW k \in msgs PROVE k = i
    <3>1. 1 \in 1 .. BodyLen
      BY Lengths
    <3>2. IsBody(buf[c], k)
      BY <2>2
    <3> HIDE DEF i
    <3>3. buf[c][1] = <<k, HdrLen + 1>>
      BY <3>1, <3>2 DEF IsBody
    <3>4. buf[c][1] = <<i, HdrLen + 1>>
      BY <1>2, <3>1 DEF IsBody
    <3> QED BY <3>3, <3>4
  <2> QED BY <2>1, <2>2
<1>6. CASE sent[c][i].kind \in {"malformed", "fragment", "panic"}
  <2>1. wpc'[c] = "done"
    BY <1>5, <1>6 DEF Handle, Return, TypeOK
  <2>2. Cause(c)'
    BY <1>1, <1>4, <1>6 DEF Cause
  <2> QED BY <1>1, <2>1, <2>2 DEF FrameInv
<1>7. CASE sent[c][i].kind \notin {"malformed", "fragment", "panic"}
  <2>1. wpc'[c] = "write" /\ reply'[c].xid = i
    <3> HIDE DEF i
    <3>1. /\ wpc' = [wpc EXCEPT ![c] = "write"]
          /\ reply' = [reply EXCEPT ![c] = [xid |-> i, result |-> Route(sent[c][i].kind)]]
      BY <1>5, <1>7 DEF Handle
    <3> QED BY <3>1 DEF TypeOK
  <2>2. Consumed(c)' = Consumed(c)
    BY <1>1, <2>1 DEF Consumed, Taken
  <2>3. InboxInv(c)'
    BY <1>1, <1>2, <2>2 DEF InboxInv
  <2>4. BufInv(c)'
    BY <1>1, <2>1 DEF BufInv
  <2> QED BY <1>1, <2>1, <2>3, <2>4 DEF FrameInv
<1> QED BY <1>6, <1>7

\* The reply that is written is the next one.
LEMMA FrameWrite ==
    ASSUME TypeOK, NEW c \in Conns, FrameInv(c), Write(c)
    PROVE  FrameInv(c)'
<1>1. /\ wpc[c] = "write"
      /\ UNCHANGED <<stop, buf, want, reply, sent, part, closed, inbox>>
  BY DEF Write, main, peer
<1>2. reply[c].xid = Len(replies[c]) + 1 /\ InboxInv(c)
  BY <1>1 DEF FrameInv, BufInv
<1>3. Taken(c) = MsgLen
  BY <1>1 DEF Taken
<1>4. Len(replies[c]) + 1 \in 1 .. Len(sent[c])
  BY <1>1, <1>3, InHand, FrameTypes
<1>5. CASE closed[c] /\ Return(c) /\ UNCHANGED replies
  <2>1. wpc'[c] = "done" /\ Cause(c)'
    BY <1>1, <1>5 DEF Return, TypeOK, Cause
  <2> QED BY <1>1, <1>5, <2>1 DEF FrameInv
<1>6. CASE /\ replies' = [replies EXCEPT ![c] = Append(@, reply[c])]
           /\ wpc' = [wpc EXCEPT ![c] = "top"]
  <2>1. wpc'[c] = "top" /\ replies'[c] = Append(replies[c], reply[c])
    BY <1>6 DEF TypeOK
  <2>2. /\ Len(replies'[c]) = Len(replies[c]) + 1
        /\ \A k \in 1 .. Len(replies[c]) : replies'[c][k] = replies[c][k]
        /\ replies'[c][Len(replies[c]) + 1] = reply[c]
    <3>1. reply[c] \in Replies
      BY DEF TypeOK
    <3> QED BY <2>1, <3>1, FrameTypes, AppendProperties
  <2>3. Consumed(c)' = Consumed(c)
    <3>1. Consumed(c) = Len(replies[c]) * MsgLen + MsgLen
      BY <1>3 DEF Consumed
    <3>2. Consumed(c)' = (Len(replies[c]) + 1) * MsgLen + 0
      BY <2>1, <2>2 DEF Consumed, Taken
    <3>3. (Len(replies[c]) + 1) * MsgLen + 0 = Len(replies[c]) * MsgLen + MsgLen
      BY FrameTypes, NextMessage
    <3> QED BY <3>1, <3>2, <3>3
  <2>4. InboxInv(c)'
    BY <1>1, <1>2, <2>3 DEF InboxInv
  <2>5. BufInv(c)'
    BY <2>1 DEF BufInv
  <2>6. \A k \in 1 .. Len(replies'[c]) : replies'[c][k].xid = k
    <3>1. \A k \in 1 .. Len(replies[c]) : replies'[c][k].xid = k
      BY <2>2 DEF FrameInv
    <3>2. replies'[c][Len(replies[c]) + 1].xid = Len(replies[c]) + 1
      BY <1>2, <2>2
    <3> QED BY <2>2, <3>1, <3>2, FrameTypes
  <2>7. Len(replies'[c]) <= Len(sent'[c])
    BY <1>1, <1>4, <2>2
  <2> QED BY <1>1, <2>1, <2>4, <2>5, <2>6, <2>7 DEF FrameInv
<1> QED BY <1>5, <1>6 DEF Write

\* A whole message is added behind the ones in the socket.
LEMMA FrameSend ==
    ASSUME TypeOK, NEW c \in Conns \ load.stalls, FrameInv(c), Send(c)
    PROVE  FrameInv(c)'
<1> DEFINE w == [p \in 1 .. MsgLen |-> <<Len(sent[c]) + 1, p>>]
           L == Len(inbox[c])
           T == Len(sent[c]) * MsgLen
<1>1. part[c] = MsgLen /\ UNCHANGED <<stop, wpc, buf, want, reply, replies, closed>>
  BY DEF Send, FrameInv, main, worker
<1>2. /\ part' = [part EXCEPT ![c] = MsgLen]
      /\ inbox' = [inbox EXCEPT ![c] = @ \o w]
      /\ \E k \in AllKinds : sent' = [sent EXCEPT ![c] = Append(@, [kind |-> k, late |-> ~serveMount])]
  <2>1. ~(part[c] < MsgLen)
    BY <1>1, Lengths
  <2>2. /\ \E k \in load.kinds[c] :
             sent' = [sent EXCEPT ![c] = Append(@, [kind |-> k, late |-> ~serveMount])]
        /\ \E n \in {MsgLen} :
             /\ part' = [part EXCEPT ![c] = n]
             /\ inbox' = [inbox EXCEPT ![c] = @ \o [p \in 1 .. n |-> <<Len(sent[c]) + 1, p>>]]
    BY <2>1, Zenon DEF Send
  <2> QED BY <2>2, LoadFacts
<1>3. w \in [1 .. MsgLen -> Nat \X Nat] /\ \A q \in 1 .. MsgLen : w[q] = <<Len(sent[c]) + 1, q>>
  BY FrameTypes
<1>4. part'[c] = MsgLen
  BY <1>2 DEF TypeOK
<1>5. /\ Len(sent'[c]) = Len(sent[c]) + 1 /\ Len(sent[c]) \in Nat
      /\ \A i \in 1 .. Len(sent[c]) : sent'[c][i] = sent[c][i]
  BY <1>2, SentGrows
<1> HIDE DEF w
<1>6. /\ Len(inbox'[c]) = L + MsgLen
      /\ \A j \in 1 .. L : inbox'[c][j] = inbox[c][j]
      /\ \A j \in L + 1 .. L + MsgLen : inbox'[c][j] = w[j - L]
  <2>1. MsgLen \in Nat /\ w \in [1 .. MsgLen -> Nat \X Nat]
    BY <1>3, Lengths
  <2>0. inbox' = [inbox EXCEPT ![c] = @ \o w]
    BY <1>2
  <2>2. Len(inbox'[c]) = Len(inbox[c]) + MsgLen
    BY <2>0, <2>1, SendFacts
  <2>3. \A j \in 1 .. Len(inbox[c]) : inbox'[c][j] = inbox[c][j]
    BY <2>0, <2>1, SendFacts
  <2>4. \A j \in Len(inbox[c]) + 1 .. Len(inbox[c]) + MsgLen : inbox'[c][j] = w[j - Len(inbox[c])]
    <3>1. inbox[c] \in Seq(Nat \X Nat) /\ inbox'[c] = inbox[c] \o w
      BY <2>0 DEF TypeOK
    <3> QED BY <2>1, <3>1, WriteAdds
  <2> QED BY <2>2, <2>3, <2>4
<1>7. wpc'[c] = "done" => Cause(c)'
  BY <1>1, <1>5 DEF FrameInv, Cause
<1>8. Consumed(c)' = Consumed(c) /\ (BufInv(c) => BufInv(c)')
  BY <1>1 DEF Consumed, Taken, BufInv, IsBody
<1>9. L \in Nat /\ T \in Nat /\ MsgLen \in Nat \ {0} /\ Len(sent'[c]) * MsgLen = T + MsgLen
  BY <1>5, FrameTypes, NextMessage
<1>10. ASSUME InboxInv(c) PROVE InboxInv(c)'
  <2>1. Consumed(c) + L = T /\ Consumed(c) \in Nat
    <3>1. Taken(c) \in Nat
      BY FrameTypes, Lengths DEF Taken
    <3> QED BY <1>10, <3>1, FrameTypes DEF InboxInv, Consumed
  <2>2. Consumed(c)' + Len(inbox'[c]) = Len(sent'[c]) * MsgLen
    <3> HIDE DEF L, T
    <3>1. Consumed(c) + (L + MsgLen) = T + MsgLen
      BY <1>9, <2>1
    <3> QED BY <1>6, <1>8, <1>9, <3>1
  <2>3. ASSUME NEW j \in 1 .. Len(inbox'[c]), NEW i \in 1 .. Len(sent'[c]), NEW p \in 1 .. MsgLen,
               Consumed(c)' + j = At(i, p)
        PROVE  inbox'[c][j] = <<i, p>>
    <3>1. CASE j \in 1 .. L /\ i \in 1 .. Len(sent[c])
      <4>1. inbox[c][j] = <<i, p>>
        BY <1>8, <1>10, <2>3, <3>1 DEF InboxInv
      <4> QED BY <1>6, <3>1, <4>1
    <3>2. CASE j \in 1 .. L /\ i = Len(sent[c]) + 1
      <4>1. At(i, p) = T + p
        BY <1>5, <3>2, AtNext
      <4> HIDE DEF L, T
      <4>2. Consumed(c) + j = T + p
        BY <1>8, <2>3, <4>1
      <4>3. FALSE
        BY <1>9, <2>1, <3>2, <4>2
      <4> QED BY <4>3
    <3>3. CASE j \in L + 1 .. L + MsgLen
      <4> DEFINE q == j - L
      <4>1. q \in 1 .. MsgLen /\ inbox'[c][j] = w[q] /\ j = L + q
        BY <1>6, <1>9, <3>3
      <4> HIDE DEF q
      <4>2. Consumed(c) + j = T + q
        <5> HIDE DEF L, T
        <5> QED BY <1>9, <2>1, <4>1
      <4>3. At(i, p) = At(Len(sent[c]) + 1, q)
        <5>1. q \in Nat
          BY <4>1, Lengths
        <5>2. At(Len(sent[c]) + 1, q) = T + q
          BY <1>5, <5>1, AtNext
        <5>3. At(i, p) = Consumed(c) + j
          BY <1>8, <2>3
        <5> HIDE DEF T
        <5> QED BY <4>2, <5>2, <5>3
      <4>4. i \in Nat \ {0}
        BY <1>5
      <4>5. Len(sent[c]) + 1 \in Nat \ {0} /\ q \in 1 .. MsgLen
        BY <1>5, <4>1
      <4>6. i = Len(sent[c]) + 1 /\ p = q
        BY <4>3, <4>4, <4>5, AtInjective
      <4> QED BY <1>3, <1>5, <4>1, <4>6
    <3> HIDE DEF L
    <3>4. j \in 1 .. L \/ j \in L + 1 .. L + MsgLen
      BY <1>6, <1>9
    <3>5. i \in 1 .. Len(sent[c]) \/ i = Len(sent[c]) + 1
      BY <1>5
    <3> QED BY <3>1, <3>2, <3>3, <3>4, <3>5
  <2> QED BY <2>2, <2>3 DEF InboxInv
<1>11. Len(replies'[c]) <= Len(sent'[c]) /\ \A i \in 1 .. Len(replies'[c]) : replies'[c][i].xid = i
  BY <1>1, <1>5, FrameTypes DEF FrameInv
<1> QED BY <1>1, <1>4, <1>7, <1>8, <1>10, <1>11 DEF FrameInv

\* A worker touches its own connection only.
LEMMA OthersUntouched ==
    ASSUME TypeOK, NEW c \in Conns, NEW d \in Conns, d # c, Serve(d) \/ Client(d)
    PROVE  /\ wpc'[c] = wpc[c] /\ buf'[c] = buf[c] /\ want'[c] = want[c]
           /\ reply'[c] = reply[c] /\ replies'[c] = replies[c] /\ sent'[c] = sent[c]
           /\ part'[c] = part[c] /\ inbox'[c] = inbox[c] /\ closed'[c] = closed[c]
           /\ UNCHANGED stop
<1> USE DEF main, worker, peer
<1>1. wpc'[c] = wpc[c]
  BY DEF Serve, Client, Top, Read, ReadTimeout, ReadEof, Header, Body, Handle, Write, Return,
         Connect, Send, TakeReply, Close, TypeOK
<1>2. buf'[c] = buf[c] /\ want'[c] = want[c]
  BY DEF Serve, Client, Top, Read, ReadTimeout, ReadEof, Header, Body, Handle, Write,
         Connect, Send, TakeReply, Close, TypeOK
<1>3. reply'[c] = reply[c] /\ replies'[c] = replies[c]
  BY DEF Serve, Client, Top, Read, ReadTimeout, ReadEof, Header, Body, Handle, Write,
         Connect, Send, TakeReply, Close, TypeOK
<1>4. sent'[c] = sent[c] /\ part'[c] = part[c]
  BY DEF Serve, Client, Top, Read, ReadTimeout, ReadEof, Header, Body, Handle, Write,
         Connect, Send, TakeReply, Close, TypeOK
<1>5. inbox'[c] = inbox[c]
  BY DEF Serve, Client, Top, Read, ReadTimeout, ReadEof, Header, Body, Handle, Write,
         Connect, Send, TakeReply, Close, TypeOK
<1>6. closed'[c] = closed[c] /\ UNCHANGED stop
  BY DEF Serve, Client, Top, Read, ReadTimeout, ReadEof, Header, Body, Handle, Write,
         Connect, Send, TakeReply, Close, TypeOK
<1> QED BY <1>1, <1>2, <1>3, <1>4, <1>5, <1>6

\* The accept loop takes the first connection of the backlog, which nothing has
\* touched, and leaves the others.
LEMMA AcceptFirst ==
    ASSUME TypeOK, BacklogInv, Accept
    PROVE  /\ BacklogInv'
           /\ \A c \in Conns : wpc'[c] = wpc[c] \/ (wpc[c] = "none" /\ wpc'[c] = "top")
<1>1. CASE UNCHANGED <<backlog, wpc>>
  BY <1>1 DEF BacklogInv
<1>2. CASE backlog # << >> /\ backlog' = Tail(backlog) /\ wpc' = [wpc EXCEPT ![Head(backlog)] = "top"]
  <2>1. backlog \in Seq(Conns) /\ Len(backlog) \in Nat /\ Len(backlog) > 0
    BY <1>2, EmptySeq, LenProperties DEF TypeOK
  <2>2. Head(backlog) = backlog[1] /\ Head(backlog) \in Conns
    BY <1>2, <2>1, HeadTailProperties
  <2>3. /\ Len(backlog') = Len(backlog) - 1
        /\ \A i \in 1 .. Len(backlog) - 1 : backlog'[i] = backlog[i + 1]
    BY <1>2, <2>1, HeadTailProperties
  <2>4. wpc[Head(backlog)] = "none"
    BY <2>1, <2>2 DEF BacklogInv
  <2>5. ASSUME NEW i \in 1 .. Len(backlog') PROVE wpc'[backlog'[i]] = "none"
    <3>1. i + 1 \in 1 .. Len(backlog) /\ i + 1 # 1 /\ 1 \in 1 .. Len(backlog)
      BY <2>1, <2>3
    <3>2. backlog[i + 1] # backlog[1] /\ wpc[backlog[i + 1]] = "none"
      BY <3>1 DEF BacklogInv
    <3>3. backlog[i + 1] \in Conns
      BY <2>1, <3>1, ElementOfSeq
    <3>4. backlog'[i] = backlog[i + 1]
      BY <2>1, <2>3
    <3> QED BY <1>2, <2>2, <3>2, <3>3, <3>4 DEF TypeOK
  <2>6. ASSUME NEW i \in 1 .. Len(backlog'), NEW j \in 1 .. Len(backlog'), backlog'[i] = backlog'[j]
        PROVE  i = j
    <3>1. /\ i + 1 \in 1 .. Len(backlog) /\ j + 1 \in 1 .. Len(backlog)
          /\ i \in 1 .. Len(backlog) - 1 /\ j \in 1 .. Len(backlog) - 1
      BY <2>1, <2>3
    <3>2. backlog[i + 1] = backlog[j + 1]
      BY <2>3, <2>6, <3>1
    <3>3. i + 1 = j + 1
      BY <3>1, <3>2 DEF BacklogInv
    <3> QED BY <3>3
  <2>7. \A c \in Conns : wpc'[c] = wpc[c] \/ (wpc[c] = "none" /\ wpc'[c] = "top")
    BY <1>2, <2>2, <2>4 DEF TypeOK
  <2> QED BY <2>5, <2>6, <2>7 DEF BacklogInv
<1> QED BY <1>1, <1>2 DEF Accept, AcceptConn, AcceptNothing, worker

LEMMA BacklogNext ==
    ASSUME TypeOK, BacklogInv, [Next]_vars
    PROVE  BacklogInv'
<1> USE DEF main, worker, peer
<1>0. backlog \in Seq(Conns) /\ Len(backlog) \in Nat /\ \A i \in 1 .. Len(backlog) : backlog[i] \in Conns
  BY LenProperties, ElementOfSeq DEF TypeOK
<1>1. ASSUME UNCHANGED <<backlog, wpc>> PROVE BacklogInv'
  BY <1>1 DEF BacklogInv
<1>2. CASE Accept
  BY <1>2, AcceptFirst
<1>3. ASSUME NEW c \in Conns, Serve(c) PROVE BacklogInv'
  <2>1. wpc[c] # "none" /\ UNCHANGED backlog
    BY <1>3 DEF Serve, Top, Read, ReadTimeout, ReadEof, Header, Body, Handle, Write
  <2>2. \A d \in Conns : d # c => wpc'[d] = wpc[d]
    BY <1>3, OthersUntouched
  <2>3. \A i \in 1 .. Len(backlog) : wpc'[backlog[i]] = "none"
    BY <1>0, <2>1, <2>2 DEF BacklogInv
  <2> QED BY <2>1, <2>3 DEF BacklogInv
<1>4. ASSUME NEW c \in Conns, Connect(c) PROVE BacklogInv'
  <2>1. /\ wpc[c] = "none" /\ UNCHANGED wpc /\ backlog' = Append(backlog, c)
        /\ \A i \in 1 .. Len(backlog) : backlog[i] # c
    BY <1>4 DEF Connect
  <2>2. /\ Len(backlog') = Len(backlog) + 1 /\ backlog'[Len(backlog) + 1] = c
        /\ \A i \in 1 .. Len(backlog) : backlog'[i] = backlog[i]
    BY <1>0, <2>1, AppendProperties
  <2>3. \A i \in 1 .. Len(backlog') : i \in 1 .. Len(backlog) \/ i = Len(backlog) + 1
    BY <1>0, <2>2
  <2>4. \A i \in 1 .. Len(backlog') : wpc'[backlog'[i]] = "none"
    BY <2>1, <2>2, <2>3 DEF BacklogInv
  <2>5. \A i, j \in 1 .. Len(backlog') : backlog'[i] = backlog'[j] => i = j
    BY <2>1, <2>2, <2>3 DEF BacklogInv
  <2> QED BY <2>4, <2>5 DEF BacklogInv
<1>5. ASSUME NEW c \in Conns, Send(c) \/ TakeReply(c) \/ Close(c) PROVE BacklogInv'
  BY <1>1, <1>5 DEF Send, TakeReply, Close
<1>6. CASE CheckStop \/ Join \/ MountDone \/ Stop \/ UNCHANGED vars
  BY <1>1, <1>6 DEF CheckStop, Join, MountDone, Stop, vars
<1> QED BY <1>2, <1>3, <1>4, <1>5, <1>6 DEF Next, MainStep, Client

\* A connection that is accepted has read nothing yet.
LEMMA FrameAccept ==
    ASSUME NEW c \in Conns, FrameInv(c), wpc[c] = "none", wpc'[c] = "top",
           UNCHANGED <<stop, buf, want, reply, replies, sent, part, closed, inbox>>
    PROVE  FrameInv(c)'
<1>1. Consumed(c)' = Consumed(c)
  BY DEF Consumed, Taken
<1>2. InboxInv(c)'
  <2>1. InboxInv(c) /\ inbox' = inbox /\ sent' = sent
    BY DEF FrameInv
  <2> QED BY <1>1, <2>1 DEF InboxInv
<1>3. BufInv(c)'
  BY DEF BufInv
<1> QED BY <1>2, <1>3 DEF FrameInv

\* No step changes what the mount is faced with.
LEMMA LoadFixed == ASSUME [Next]_vars PROVE load' = load
BY DEF Next, MainStep, CheckStop, Accept, AcceptConn, AcceptNothing, Join, Serve, Top, Read,
       ReadTimeout, ReadEof, Header, Body, Handle, Write, Client, Connect, Send, TakeReply, Close,
       MountDone, Stop, vars, peer

LEMMA FramingNext ==
    ASSUME TypeOK, FramingInv, [Next]_vars
    PROVE  FramingInv'
<1> USE DEF main, worker, peer
<1>0. BacklogInv /\ \A c \in Conns \ load.stalls : FrameInv(c)
  BY DEF FramingInv
<1> SUFFICES ASSUME NEW c \in Conns \ load.stalls PROVE FrameInv(c)'
  BY <1>0, BacklogNext, LoadFixed DEF FramingInv
<1>1. FrameInv(c)
  BY <1>0
<1>2. CASE Accept
  <2>1. UNCHANGED <<stop, buf, want, reply, replies, sent, part, closed, inbox>>
    BY <1>2 DEF Accept, AcceptConn, AcceptNothing
  <2>2. wpc'[c] = wpc[c] \/ (wpc[c] = "none" /\ wpc'[c] = "top")
    BY <1>0, <1>2, AcceptFirst
  <2>3. CASE wpc'[c] = wpc[c]
    BY <1>1, <2>1, <2>3, FrameSame
  <2>4. CASE wpc[c] = "none" /\ wpc'[c] = "top"
    BY <1>1, <2>1, <2>4, FrameAccept
  <2> QED BY <2>2, <2>3, <2>4
<1>3. CASE Serve(c)
  BY <1>1, <1>3, FrameTop, FrameRead, FrameTimeout, FrameEof, FrameHeader, FrameBody, FrameHandle,
     FrameWrite DEF Serve
<1>4. CASE Send(c)
  BY <1>1, <1>4, FrameSend
<1>5. CASE Connect(c) \/ TakeReply(c) \/ CheckStop \/ Join \/ MountDone \/ Stop \/ UNCHANGED vars
  <2>1. UNCHANGED <<wpc, buf, want, reply, replies, sent, part, closed, inbox>> /\ (stop => stop')
    BY <1>5 DEF Connect, TakeReply, CheckStop, Join, MountDone, Stop, vars
  <2> QED BY <1>1, <2>1, FrameSame
<1>6. CASE Close(c)
  <2>1. UNCHANGED <<stop, wpc, buf, want, reply, replies, sent, part, inbox>>
    BY <1>6 DEF Close
  <2>2. ~closed[c]
    BY <1>6 DEF Close
  <2> QED BY <1>1, <2>1, <2>2, FrameSame
<1>7. ASSUME NEW d \in Conns, d # c, Serve(d) \/ Client(d) PROVE FrameInv(c)'
  BY <1>1, <1>7, OthersUntouched, FrameSame
<1> QED BY <1>2, <1>3, <1>4, <1>5, <1>6, <1>7 DEF Next, MainStep, Client

LEMMA FramingInit == Init => FramingInv
<1> SUFFICES ASSUME Init PROVE FramingInv
  OBVIOUS
<1>1. BacklogInv
  BY DEF Init, BacklogInv
<1>2. ASSUME NEW c \in Conns \ load.stalls PROVE FrameInv(c)
  <2>1. /\ wpc[c] = "none" /\ part[c] = MsgLen /\ inbox[c] = << >> /\ sent[c] = << >>
        /\ replies[c] = << >>
    BY DEF Init
  <2>2. Len(inbox[c]) = 0 /\ Len(sent[c]) = 0 /\ Len(replies[c]) = 0
    BY <2>1
  <2>3. Consumed(c) = 0
    BY <2>1, <2>2, Lengths DEF Consumed, Taken
  <2>4. InboxInv(c)
    BY <2>2, <2>3, Lengths DEF InboxInv
  <2>5. BufInv(c)
    BY <2>1 DEF BufInv
  <2> QED BY <2>1, <2>2, <2>4, <2>5 DEF FrameInv
<1> QED BY <1>1, <1>2 DEF FramingInv

LEMMA FramingInductive == Spec => [](TypeOK /\ FramingInv)
<1>1. TypeOK /\ FramingInv /\ [Next]_vars => (TypeOK /\ FramingInv)'
  BY TypeNext, FramingNext
<1> QED BY <1>1, InitType, FramingInit, PTL DEF Spec

\* For a client whose messages arrive whole (it pauses inside none for longer than
\* the socket's read timeout), read_message never loses its place, however the reads
\* are cut short, the connections interleave and the other clients stall: the replies
\* answer the calls one for one and in order.
THEOREM RepliesMatch == Spec => []RepliesMatchCalls
<1>1. TypeOK /\ FramingInv => RepliesMatchCalls
  BY DEF FramingInv, FrameInv, RepliesMatchCalls
<1> QED BY <1>1, FramingInductive, PTL

\* serve_connection ends the connection of such a client only at shutdown, at the
\* client's end of file, or at a message that is malformed, refused or panics.
THEOREM SteadyClientsKeptTheorem == Spec => []SteadyClientsKept
<1>1. TypeOK /\ FramingInv => SteadyClientsKept
  BY DEF FramingInv, FrameInv, Cause, SteadyClientsKept, ClosedForCause
<1> QED BY <1>1, FramingInductive, PTL
==============================================================================
