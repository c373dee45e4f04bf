------------------------------- MODULE Serving -------------------------------
(***************************************************************************)
(* What the FUSE and the NFS backend have in common: an application that   *)
(* walks down a path and reads the file at its end, requests and replies   *)
(* in flight between the kernel and the program, and threads that each     *)
(* serve one request with one or more calls of the filesystem.             *)
(***************************************************************************)
EXTENDS MemFs, Errors

CONSTANTS
    Path,        \* the names that lead from the root to the file
    Workers      \* the threads that serve requests, numbered from one

ASSUME ServingAssumption == \E n \in Workers : Workers = 1 .. n

VARIABLES
    todo,        \* names the application has still to walk
    got,         \* bytes it has been given
    outcome,     \* "reading", "done" or "failed"
    reqs, reps,  \* requests and replies in flight
    pc,          \* per thread: the next thing it does
    req,         \* per thread: the request it serves
    res,         \* per thread: the result of the trait call that decides the reply
    hnd          \* per thread: the file handle it has open for READ3

app     == <<todo, got, outcome>>
threads == <<pc, req, res, hnd>>

NoRequest == [op |-> "none"]

ServingInit ==
    /\ FsInit
    /\ todo = Path /\ got = << >> /\ outcome = "reading"
    /\ reqs = {} /\ reps = {}
    /\ pc = [w \in Workers |-> "idle"]
    /\ req = [w \in Workers |-> NoRequest]
    /\ res = [w \in Workers |-> Ok(0)]
    /\ hnd = [w \in Workers |-> 0]

Idle == \A w \in Workers : pc[w] = "idle"

\* Where each part of Path leads, and the bytes at its end in the first program.
Walk[i \in 0 .. Len(Path)] ==
    IF i = 0 THEN ROOT_INO ELSE Dirs[Walk[i - 1]][Path[i]]

\* Path leads to a file and goes down all the way.
ASSUME PathAssumption ==
    /\ 1 \in DOMAIN Data
    /\ Path \in Seq(STRING)
    /\ Walk[0] = ROOT_INO /\ Walk[Len(Path)] \in Files
    /\ \A i \in 1 .. Len(Path) : /\ Walk[i - 1] \in DOMAIN Dirs
                                /\ Path[i] \in DOMAIN Dirs[Walk[i - 1]] \ {".", ".."}
                                /\ Walk[i] = Dirs[Walk[i - 1]][Path[i]]

Content == Data[1][Walk[Len(Path)]]

F == INSTANCE FileRead WITH Content <- Content, got <- got, outcome <- outcome
==============================================================================
