----------------------------- MODULE MCNfsServer -----------------------------
(* Instances of NfsServer for TLC. *)
EXTENDS NfsServer, TLC

CONSTANTS c1, c2

\* One client of a TCP mount sends every kind of message, whole.
EveryKind ==
    [mnt |-> TRUE, kinds |-> (c1 :> AllKinds @@ c2 :> {}), msgs |-> (c1 :> 2 @@ c2 :> 0),
     stalls |-> {}]

\* Two clients of a local socket compete for a worker thread: one stalls inside
\* its message, the other sends more calls than its socket holds replies.
Contention ==
    [mnt |-> FALSE, kinds |-> (c1 :> {"nfs3", "panic"} @@ c2 :> {"nfs3"}),
     msgs |-> (c1 :> 1 @@ c2 :> 2), stalls |-> {c1}]

MCLoads == {EveryKind, Contention}

\* One client, which stalls or does not read.
Stalling ==
    {[mnt |-> FALSE, kinds |-> (c1 :> {"nfs3"}), msgs |-> (c1 :> 1), stalls |-> {c1}]}
NotReading ==
    {[mnt |-> FALSE, kinds |-> (c1 :> {"nfs3"}), msgs |-> (c1 :> 2), stalls |-> {}]}
==============================================================================
