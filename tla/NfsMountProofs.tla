---------------------------- MODULE NfsMountProofs ----------------------------
(***************************************************************************)
(* For every build, every set of faults, any number of ejects and whatever *)
(* was mounted before: what one NFS mount serves, leaves behind and        *)
(* reports.                                                                *)
(***************************************************************************)
EXTENDS NfsMount, SequenceTheorems, TLAPS

LocalPath == {"create_dir", "bind", "call_mount", "verify", "undo_unmount", "undo_stop", "undo_dir"}
TcpPath == {"tcp_bind", "mount_nfs", "tcp_clear", "tcp_clear_failed", "tcp_undo"}
TornDown == {"td_stop", "td_dir", "ended"}

\* Each path is taken only by a build that has its transport, the TCP one never by a
\* caller that requires the socket; the handle and its results come in order.
PathInv ==
    /\ pc \in LocalPath => "local" \in features
    /\ pc \in TcpPath => "tcp" \in features /\ ~require
    /\ transport # "none" <=> pc \in TornDown \union {"mounted"}
    /\ transport = "tcp" => ~require
    /\ unmounted # "none" => pc \in TornDown
    /\ reported # "none" => pc = "ended" /\ reported \in {unmounted, "logged"}

\* Whose server runs is where mount or the teardown stands.
ServerInv ==
    /\ pc \in {"call_mount", "verify", "undo_unmount", "undo_stop"} => servers = {"local"}
    /\ pc \in TcpPath \ {"tcp_bind"} => servers = {"tcp"}
    /\ pc \in {"mounted", "td_stop"} => servers = {transport}
    /\ pc \in {"preflight", "create_dir", "bind", "undo_dir", "tcp_bind", "td_dir",
               "failed", "ended"} => servers = {}
    /\ serveMount = TRUE => pc \in {"mount_nfs", "tcp_clear", "tcp_clear_failed"}

\* The socket directory belongs to the local path and to a local handle.
NeedsDir ==
    \/ pc \in LocalPath \ {"create_dir"}
    \/ pc \in {"mounted", "td_stop", "td_dir"} /\ transport = "local"

SockdirInv ==
    /\ NeedsDir => sockdir = TRUE
    /\ sockdir = TRUE => NeedsDir \/ "rmdir" \in happened

\* Each transport's mount is on the mountpoint, visible or not; below the visible
\* mount; and the mount the handle stands for is there.
LocalUp == Mounted("local")
TcpUp == Mounted("tcp")
Below(t) == \E i \in 1 .. Len(table) - 1 : table[i] = t
LocalBelow == Below("local")
TcpBelow == Below("tcp")
HandleUp == (transport = "local" /\ LocalUp) \/ (transport = "tcp" /\ TcpUp)

\* A mount of ours is covered only by the TCP mount that follows a local one which
\* could not be unmounted, and is there only between its mount and its unmount.
TableInv ==
    /\ ~TcpBelow
    /\ TcpUp => \/ pc = "tcp_clear"
                \/ pc \in TornDown \union {"mounted"} /\ transport = "tcp"
    /\ LocalUp => pc \notin {"preflight", "create_dir", "bind", "call_mount"}
    /\ LocalBelow => /\ pc \notin {"verify", "undo_unmount"} /\ transport # "local"
                     /\ "unmount" \in happened
    /\ LocalUp => \/ "unmount" \in happened
                  \/ pc \in {"verify", "undo_unmount"}
                  \/ pc = "mounted" /\ transport = "local"
    /\ TcpUp => "unmount" \in happened \/ pc \in {"tcp_clear", "mounted"}

\* A handle stands for a mount that was made, and an unmount that was reported for
\* one that is gone.
HandleInv ==
    /\ pc = "tcp_clear" => TcpUp \/ ejects > 0
    /\ pc = "mounted" => HandleUp \/ ejects > 0
    /\ pc = "mounted" /\ transport = "local" => "verify" \notin happened
    /\ pc \in TornDown /\ unmounted = "ok" => "uninspectable" \in happened \/ ~HandleUp

IInv == TypeOK /\ PathInv /\ ServerInv /\ SockdirInv /\ TableInv /\ HandleInv

------------------------------------------------------------------------------
(* The mount table *)

Tables == Seq({"foreign", "local", "tcp"})

\* What was visible has gone: what is left was below it.
LEMMA PopFacts ==
    ASSUME table \in Tables, table # << >>, table' = SubSeq(table, 1, Len(table) - 1)
    PROVE  /\ table' \in Tables
           /\ LocalUp' => LocalBelow /\ LocalUp
           /\ TcpUp' => TcpBelow /\ TcpUp
           /\ LocalBelow' => LocalBelow
           /\ TcpBelow' => TcpBelow
<1>1. Len(table) \in Nat /\ Len(table) # 0
  BY DEF Tables
<1>2. /\ table' \in Tables /\ Len(table') = Len(table) - 1
      /\ \A i \in 1 .. Len(table) - 1 : table'[i] = table[i]
  <2>1. \A i \in 1 .. Len(table) - 1 : table[i] \in {"foreign", "local", "tcp"}
    BY <1>1 DEF Tables
  <2>2. 1 \in Int /\ Len(table) - 1 \in Int
    BY <1>1
  <2>3. SubSeq(table, 1, Len(table) - 1) \in Tables
    BY <2>1, <2>2, SubSeqProperties DEF Tables
  <2>4. Len(SubSeq(table, 1, Len(table) - 1))
          = IF 1 <= Len(table) - 1 THEN Len(table) - 1 - 1 + 1 ELSE 0
    BY <2>1, <2>2, SubSeqProperties
  <2>5. \A i \in 1 .. Len(table) - 1 : table'[i] = table[i]
    BY <1>1, <2>1, <2>2, SubSeqProperties
  <2>6. Len(table') = Len(table) - 1
    <3> DEFINE n == Len(table) - 1
    <3>1. Len(table') = IF 1 <= n THEN n - 1 + 1 ELSE 0
      BY <2>4
    <3>2. n \in Nat
      BY <1>1
    <3> HIDE DEF n
    <3>3. Len(table') = n
      BY <3>1, <3>2
    <3> QED BY <3>3 DEF n
  <2> QED BY <2>3, <2>5, <2>6
<1> QED BY <1>1, <1>2 DEF LocalUp, TcpUp, LocalBelow, TcpBelow, Mounted, Below

LEMMA AppendFacts ==
    ASSUME table \in Tables, NEW t \in {"local", "tcp"}, table' = Append(table, t)
    PROVE  /\ table' \in Tables
           /\ LocalUp' <=> LocalUp \/ t = "local"
           /\ TcpUp' <=> TcpUp \/ t = "tcp"
           /\ LocalBelow' <=> LocalUp
           /\ TcpBelow' <=> TcpUp
<1>1. /\ table' \in Tables /\ Len(table') = Len(table) + 1 /\ Len(table) \in Nat
      /\ \A i \in 1 .. Len(table) : table'[i] = table[i]
      /\ table'[Len(table) + 1] = t
  BY DEF Tables
<1> QED BY <1>1 DEF LocalUp, TcpUp, LocalBelow, TcpBelow, Mounted, Below

LEMMA SameFacts ==
    ASSUME UNCHANGED table
    PROVE  UNCHANGED <<LocalUp, TcpUp, LocalBelow, TcpBelow>>
BY DEF LocalUp, TcpUp, LocalBelow, TcpBelow, Mounted, Below

LEMMA BelowFacts ==
    ASSUME table \in Tables, LocalBelow
    PROVE  LocalUp
BY DEF LocalUp, LocalBelow, Mounted, Below, Tables

LEMMA EmptyFacts ==
    ASSUME table = << >>
    PROVE  ~LocalUp /\ ~TcpUp
BY DEF LocalUp, TcpUp, Mounted

\* unmount_path leaves of our mounts what was covered, or has failed; if it says ok,
\* the first of these, or it could not look.
LEMMA UnmountFacts ==
    ASSUME TypeOK, NEW r, UnmountPath(r)
    PROVE  /\ table' \in Tables
           /\ happened' \subseteq Faults
           /\ happened \subseteq happened'
           /\ LocalUp' => LocalUp
           /\ TcpUp' => TcpUp
           /\ LocalBelow' => LocalBelow
           /\ TcpBelow' => TcpBelow
           /\ LocalUp' => LocalBelow \/ "unmount" \in happened'
           /\ TcpUp' => TcpBelow \/ "unmount" \in happened'
           /\ r = "ok" => \/ "uninspectable" \in happened'
                          \/ (LocalUp' => LocalBelow) /\ (TcpUp' => TcpBelow)
<1>1. CASE /\ table # << >>
           /\ table' = SubSeq(table, 1, Len(table) - 1)
           /\ UNCHANGED happened
  BY <1>1, PopFacts DEF TypeOK, Tables
<1>2. CASE /\ IF table = << >> THEN TRUE ELSE "unmount" \in Faults
           /\ \E look \in {"ok", "path_error", "parent_error"} :
               /\ look # "ok" => "uninspectable" \in Faults
               /\ happened' = happened
                    \union (IF table = << >> THEN {} ELSE {"unmount"})
                    \union (IF look = "ok" THEN {} ELSE {"uninspectable"})
               /\ r = IF StillMounted(look) THEN "err" ELSE "ok"
           /\ UNCHANGED table
  <2>1. UNCHANGED <<LocalUp, TcpUp, LocalBelow, TcpBelow>>
    BY <1>2, SameFacts
  <2>2. table \in Tables /\ happened \subseteq Faults
    BY DEF TypeOK, Tables
  <2>3. happened' \subseteq Faults /\ happened \subseteq happened'
    BY <1>2, <2>2
  <2>4. (LocalUp \/ TcpUp) => table # << >>
    BY EmptyFacts
  <2>5. table # << >> => "unmount" \in happened'
    BY <1>2
  <2>6. r = "ok" => "uninspectable" \in happened' \/ table = << >>
    BY <1>2 DEF StillMounted
  <2> QED BY <1>2, <2>1, <2>2, <2>3, <2>4, <2>5, <2>6
<1> QED BY <1>1, <1>2 DEF UnmountPath

\* A socket directory that is not removed was refused.
LEMMA RemoveDirFacts ==
    ASSUME TypeOK, RemoveDir
    PROVE  /\ happened \subseteq happened' /\ happened' \subseteq Faults
           /\ sockdir' = FALSE \/ (sockdir' = sockdir /\ "rmdir" \in happened')
BY DEF RemoveDir, Fault, TypeOK

------------------------------------------------------------------------------
(* The inductive invariant *)

LEMMA InitIInv == Init => IInv
<1> SUFFICES ASSUME Init PROVE IInv
  OBVIOUS
<1>1. table \in Tables /\ \A i \in 1 .. Len(table) : table[i] = "foreign"
  BY MountAssumption DEF Init, Tables
<1>2. ~LocalUp /\ ~TcpUp /\ ~LocalBelow /\ ~TcpBelow
  BY <1>1 DEF LocalUp, TcpUp, LocalBelow, TcpBelow, Mounted, Below, Tables
<1>3. TypeOK
  <2>1. sockdir \in BOOLEAN /\ serveMount \in BOOLEAN
    BY Zenon DEF Init
  <2>2. features \in FeatureSets /\ options \in SUBSET Options /\ ejects \in 0 .. MaxEjects
    BY MountAssumption DEF Init
  <2> QED BY <1>1, <2>1, <2>2 DEF Init, TypeOK, Tables
<1> QED
  BY <1>2, <1>3 DEF Init, IInv, PathInv, ServerInv, SockdirInv, NeedsDir, TableInv, HandleInv,
     LocalPath, TcpPath, TornDown

\* One step per action; each shows every part of the invariant.
LEMMA NextIInv == IInv /\ [Next]_vars => IInv'
<1> SUFFICES ASSUME IInv, [Next]_vars PROVE IInv'
  OBVIOUS
<1>a. TypeOK /\ PathInv /\ ServerInv /\ SockdirInv /\ TableInv /\ HandleInv
  BY DEF IInv
<1>b. features \in SUBSET {"local", "tcp"} /\ features # {}
  BY <1>a, MountAssumption DEF TypeOK
<1> USE <1>a DEF config, handle, Go, IInv, TypeOK, PathInv, ServerInv, SockdirInv, NeedsDir,
        TableInv, HandleInv, HandleUp, LocalPath, TcpPath, TornDown, require
<1>1. CASE PreflightCheck
  <2>1. UNCHANGED <<LocalUp, TcpUp, LocalBelow, TcpBelow>>
    BY <1>1, SameFacts DEF PreflightCheck
  <2>2. pc' \in {"create_dir", "tcp_bind", "failed"}
    BY <1>1 DEF PreflightCheck, FirstTransport
  <2>3. pc' = "create_dir" => "local" \in features
    BY <1>1 DEF PreflightCheck, FirstTransport
  <2>4. pc' = "tcp_bind" => "tcp" \in features
    BY <1>1, <1>b DEF PreflightCheck, FirstTransport
  <2>5. pc' = "tcp_bind" => ~require
    BY <1>1 DEF PreflightCheck, FirstTransport, Check, NfsCaps
  <2> QED BY <1>1, <2>1, <2>2, <2>3, <2>4, <2>5 DEF PreflightCheck
<1>2. CASE CreateDir
  <2>1. TypeOK'
    BY <1>2, SameFacts DEF CreateDir, AfterLocalError
  <2>2. PathInv' /\ ServerInv' /\ SockdirInv' /\ TableInv' /\ HandleInv'
    BY <1>2, SameFacts DEF CreateDir, AfterLocalError
  <2> QED BY <2>1, <2>2
<1>3. CASE LocalBind
  BY <1>3, SameFacts DEF LocalBind
<1>4. CASE CallMount
  <2>1. CASE table' = Append(table, "local")
    <3>1. /\ table' \in Tables /\ LocalUp' /\ (TcpUp' <=> TcpUp)
          /\ (LocalBelow' <=> LocalUp) /\ (TcpBelow' <=> TcpUp)
      BY <2>1, AppendFacts DEF Tables
    <3> QED BY <1>4, <3>1 DEF CallMount, Fault, Tables
  <2>2. CASE Go("call_mount", "undo_unmount") /\ UNCHANGED <<table, happened>>
    <3>1. UNCHANGED <<LocalUp, TcpUp, LocalBelow, TcpBelow>>
      BY <2>2, SameFacts
    <3>2. UNCHANGED <<config, sockdir, servers, serveMount, handle, ejects>>
      BY <1>4 DEF CallMount
    <3> QED BY <2>2, <3>1, <3>2, BelowFacts DEF Tables
  <2> QED BY <1>4, <2>1, <2>2 DEF CallMount
<1>5. CASE Verify
  <2>1. UNCHANGED <<LocalUp, TcpUp, LocalBelow, TcpBelow>>
    BY <1>5, SameFacts DEF Verify
  <2>2. CASE LocalUp /\ "verify" \notin happened /\ pc' = "mounted" /\ transport' = "local"
    BY <1>5, <2>1, <2>2 DEF Verify
  <2>3. CASE pc' = "undo_unmount" /\ UNCHANGED transport
    BY <1>5, <2>1, <2>3 DEF Verify
  <2> QED BY <1>5, <2>2, <2>3 DEF Verify, LocalUp
<1>6. CASE UndoUnmount
  BY <1>6, UnmountFacts DEF UndoUnmount, Tables
<1>7. CASE UndoStop
  BY <1>7, SameFacts DEF UndoStop
<1>8. CASE UndoDir
  <2>1. UNCHANGED <<LocalUp, TcpUp, LocalBelow, TcpBelow>>
    BY <1>8, SameFacts DEF UndoDir
  <2>2. /\ happened \subseteq happened' /\ happened' \subseteq Faults
        /\ sockdir' = FALSE \/ (sockdir' = sockdir /\ "rmdir" \in happened')
    BY <1>8, RemoveDirFacts DEF UndoDir
  <2> QED BY <1>8, <2>1, <2>2 DEF UndoDir, AfterLocalError
<1>9. CASE TcpBind
  <2>1. TypeOK'
    BY <1>9, SameFacts DEF TcpBind
  <2>2. PathInv' /\ ServerInv' /\ SockdirInv' /\ TableInv' /\ HandleInv'
    BY <1>9, SameFacts DEF TcpBind
  <2> QED BY <2>1, <2>2
<1>10. CASE MountNfs
  BY <1>10, SameFacts, AppendFacts DEF MountNfs, Tables
<1>11. CASE TcpClear
  <2>1. TypeOK'
    BY <1>11, SameFacts DEF TcpClear
  <2>2. PathInv' /\ ServerInv' /\ SockdirInv' /\ TableInv' /\ HandleInv'
    BY <1>11, SameFacts DEF TcpClear
  <2> QED BY <2>1, <2>2
<1>12. CASE TcpUndo
  BY <1>12, SameFacts DEF TcpUndo
<1>13. CASE TeardownUnmount
  BY <1>13, UnmountFacts DEF TeardownUnmount, Tables
<1>14. CASE TeardownStop
  BY <1>14, SameFacts DEF TeardownStop
<1>15. CASE TeardownDir
  <2>1. UNCHANGED <<LocalUp, TcpUp, LocalBelow, TcpBelow>>
    BY <1>15, SameFacts DEF TeardownDir
  <2>2. /\ happened \subseteq happened' /\ happened' \subseteq Faults
        /\ \/ transport = "local" /\ sockdir' = FALSE
           \/ sockdir' = sockdir /\ (transport # "local" \/ "rmdir" \in happened')
    BY <1>15, RemoveDirFacts DEF TeardownDir
  <2> QED BY <1>15, <2>1, <2>2 DEF TeardownDir
<1>16. CASE Eject
  <2>1. /\ table' \in Tables
        /\ (LocalUp' => LocalBelow /\ LocalUp) /\ (TcpUp' => TcpBelow /\ TcpUp)
        /\ (LocalBelow' => LocalBelow) /\ (TcpBelow' => TcpBelow)
    BY <1>16, PopFacts DEF Eject, Tables
  <2>2. ejects' \in 0 .. MaxEjects /\ ejects' > 0
    BY <1>16, MountAssumption DEF Eject
  <2> QED BY <1>16, <2>1, <2>2 DEF Eject, Tables
<1>17. CASE UNCHANGED vars
  BY <1>17, SameFacts DEF vars
<1> QED
  BY <1>1, <1>2, <1>3, <1>4, <1>5, <1>6, <1>7, <1>8, <1>9, <1>10, <1>11, <1>12, <1>13, <1>14,
     <1>15, <1>16, <1>17 DEF Next, MountStep, Teardown

LEMMA Inductive == Spec => []IInv
BY InitIInv, NextIInv, PTL DEF Spec

------------------------------------------------------------------------------
(* The safety theorems *)

\* Type correctness of mount, its failure paths and the teardown.
THEOREM TypeCorrect == Spec => []TypeOK
<1>1. IInv => TypeOK
  BY DEF IInv
<1> QED BY Inductive, <1>1, PTL

\* However mount or unmount ends, on either transport, the server thread is joined,
\* MNT is closed, and only a refused rmdir or unmount leaves anything.
THEOREM LeavesNothing == Spec => []NothingLeftBehind
<1>1. ASSUME IInv, Over PROVE servers = {} /\ serveMount = FALSE
  BY <1>1 DEF Over, IInv, TypeOK, ServerInv
<1>2. ASSUME IInv, Over, sockdir PROVE "rmdir" \in happened
  <2>1. sockdir = TRUE
    BY <1>2, Zenon DEF IInv, TypeOK
  <2> QED BY <1>2, <2>1 DEF Over, IInv, SockdirInv, NeedsDir, LocalPath
<1>3. ASSUME IInv, Over, LocalUp \/ TcpUp PROVE "unmount" \in happened
  BY <1>3 DEF Over, IInv, TableInv
<1>4. IInv => NothingLeftBehind
  BY <1>1, <1>2, <1>3 DEF NothingLeftBehind, LocalUp, TcpUp
<1> QED BY Inductive, <1>4, PTL

\* The client side is unmounted before its server stops: no path of mount or of the
\* teardown leaves a mount whose server has gone, unless unmount(2) failed.
THEOREM ServedWhileMounted == Spec => []MountIsServed
<1>1. ASSUME IInv, LocalUp, "unmount" \notin happened
      PROVE  "local" \in servers /\ sockdir = TRUE
  BY <1>1 DEF IInv, TableInv, ServerInv, SockdirInv, NeedsDir, LocalPath
<1>2. ASSUME IInv, TcpUp, "unmount" \notin happened
      PROVE  "tcp" \in servers
  BY <1>2 DEF IInv, TableInv, ServerInv, TcpPath, TornDown
<1>3. IInv => MountIsServed
  BY <1>1, <1>2 DEF MountIsServed, LocalUp, TcpUp
<1> QED BY Inductive, <1>3, PTL

\* serve_mount is set only while mount_nfs runs.
THEOREM MntWindow == Spec => []MntWindowCloses
<1>1. ASSUME IInv, pc \in {"mounted", "td_stop", "td_dir", "ended", "failed"}
      PROVE  serveMount = FALSE
  BY <1>1 DEF IInv, TypeOK, ServerInv
<1>2. IInv => MntWindowCloses
  BY <1>1 DEF MntWindowCloses
<1> QED BY Inductive, <1>2, PTL

\* A handle stands for a mount that was made, and was verified if it is local; a
\* caller that requires the local socket never has anything to do with TCP.
THEOREM MountAsAsked == Spec => []HandleAsAsked
<1>1. ASSUME IInv, pc = "mounted"
      PROVE  /\ Mounted(transport) \/ ejects > 0
             /\ transport = "local" => "verify" \notin happened
  BY <1>1 DEF IInv, HandleInv, HandleUp, LocalUp, TcpUp
<1>2. ASSUME IInv, require PROVE "tcp" \notin servers /\ ~TcpUp /\ transport # "tcp"
  <2>1. pc \notin TcpPath /\ transport # "tcp"
    BY <1>2 DEF IInv, PathInv
  <2>2. ~TcpUp
    BY <1>2, <2>1 DEF IInv, TableInv, TcpPath
  <2>3. "tcp" \notin servers
    BY <1>2, <2>1 DEF IInv, TypeOK, ServerInv, TcpPath
  <2> QED BY <2>1, <2>2, <2>3
<1>3. IInv => HandleAsAsked
  BY <1>1, <1>2 DEF HandleAsAsked, TcpUp
<1> QED BY Inductive, <1>3, PTL

\* unmount that returns Ok has taken its mount down, whatever the user ejected and
\* whatever was mounted before, unless still_mounted could not look.
THEOREM ReportedUnmount ==
    Spec => []("uninspectable" \in happened \/ ReportedUnmountIsReal)
<1>1. ASSUME IInv, reported = "ok", "uninspectable" \notin happened
      PROVE  ~Mounted(transport)
  <2>1. pc = "ended" /\ unmounted = "ok" /\ transport \in {"local", "tcp"}
    BY <1>1, MountAssumption DEF IInv, TypeOK, PathInv, TornDown
  <2>2. ~HandleUp
    BY <1>1, <2>1 DEF IInv, HandleInv, TornDown
  <2> QED BY <2>1, <2>2 DEF HandleUp, LocalUp, TcpUp
<1>2. IInv => "uninspectable" \in happened \/ ReportedUnmountIsReal
  BY <1>1 DEF ReportedUnmountIsReal
<1> QED BY Inductive, <1>2, PTL
==============================================================================
