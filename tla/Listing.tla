------------------------------- MODULE Listing -------------------------------
(***************************************************************************)
(* What a directory listing promises its reader, whatever backend carries  *)
(* it: the reader sees the directory's entries in order, each exactly      *)
(* once, and is told the listing is over only when it has seen them all.   *)
(* Replies, cookies, budgets and retries are invisible at this level.      *)
(***************************************************************************)
EXTENDS Naturals, Sequences

CONSTANT Full        \* the complete listing, a sequence of names

VARIABLES
    got,             \* the names delivered to the reader so far
    done             \* the reader has been told the listing is complete

lvars == <<got, done>>

LInit ==
    /\ got = << >>
    /\ done = FALSE

\* The reader receives the next n names of the directory.
Deliver(n) ==
    /\ ~done
    /\ Len(got) + n <= Len(Full)
    /\ got' = SubSeq(Full, 1, Len(got) + n)

\* A reply that carries names and possibly ends the listing.
LNext ==
    \E n \in 0 .. Len(Full) :
        /\ Deliver(n)
        /\ done' \in BOOLEAN
        /\ done' => Len(got') = Len(Full)

LSpec == LInit /\ [][LNext]_lvars
==============================================================================
