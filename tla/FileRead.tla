------------------------------ MODULE FileRead -------------------------------
(***************************************************************************)
(* What reading a file through a mount promises the application, whatever  *)
(* backend carries it: the bytes arrive in order and are the file's own,   *)
(* the end is announced only behind the last of them, and a read that      *)
(* cannot go on fails without delivering anything else.                    *)
(***************************************************************************)
EXTENDS Naturals, Sequences

CONSTANT Content     \* the file, a sequence of bytes

VARIABLES
    got,             \* the bytes delivered to the application
    outcome          \* "reading", "done" or "failed"

rvars == <<got, outcome>>

RInit ==
    /\ got = << >>
    /\ outcome = "reading"

\* Some more bytes, possibly none, and possibly the end of the file with them.
Deliver ==
    /\ outcome = "reading"
    /\ \E n \in Len(got) .. Len(Content) : got' = SubSeq(Content, 1, n)
    /\ outcome' \in {"reading", "done"}
    /\ outcome' = "done" => Len(got') = Len(Content)

Fail ==
    /\ outcome = "reading"
    /\ outcome' = "failed"
    /\ UNCHANGED got

RNext == Deliver \/ Fail

RSpec == RInit /\ [][RNext]_rvars
==============================================================================
