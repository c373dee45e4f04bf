-------------------------------- MODULE MemFs --------------------------------
(***************************************************************************)
(* The filesystem being served: the trait ReadOnlyFs (fs.rs) as            *)
(* examples/memfs.rs implements it, with the failures and the excessive    *)
(* byte counts that the backends allow any other implementation.           *)
(*                                                                         *)
(* A generation is one run of the serving program.  A second program       *)
(* serves the same inode numbers with other content.                       *)
(***************************************************************************)
EXTENDS Naturals, Sequences

CONSTANTS
    Dirs,        \* Dirs[ino][name]: the children of a directory
    Parents,     \* Parents[ino]: where ".." of a directory leads
    Bytes,       \* what files are made of
    Data,        \* Data[gen][ino]: the bytes of a file
    MaxFaults    \* bound: failed trait calls, lost and needlessly repeated messages

ROOT_INO == 1
Files == DOMAIN Data[1]
Inos == DOMAIN Dirs \union Files

ASSUME MemFsAssumption ==
    /\ Inos \subseteq Nat \ {0} /\ ROOT_INO \in DOMAIN Dirs
    /\ \A d \in DOMAIN Dirs : \A n \in DOMAIN Dirs[d] : Dirs[d][n] \in Inos
    /\ DOMAIN Parents = DOMAIN Dirs
    /\ \A d \in DOMAIN Dirs : Parents[d] \in DOMAIN Dirs
    /\ \A g \in DOMAIN Data : DOMAIN Data[g] = Files
    /\ \A g \in DOMAIN Data : \A f \in Files : Data[g][f] \in Seq(Bytes)
    /\ MaxFaults \in Nat

VARIABLES
    gen,         \* the program that serves
    open_files,  \* its open handles, each with its inode
    next_handle, \* the handle the next open returns
    faults       \* how many faults have happened

fs == <<gen, open_files, next_handle>>

FsInit ==
    /\ gen = 1 /\ faults = 0
    /\ open_files = << >> /\ next_handle = 1

\* Result<...>: the error, or the inode, the bytes and the byte count asked for.
Ok(ino) == [err |-> "Ok", ino |-> ino, data |-> << >>, n |-> 0]
Err(e)  == [err |-> e, ino |-> 0, data |-> << >>, n |-> 0]

Attr(ino) == IF ino \in Inos THEN Ok(ino) ELSE Err("NotFound")

FileSize(ino) == IF ino \in Files THEN Len(Data[gen][ino]) ELSE 0

Lookup(parent, name) ==
    CASE name = "."                       -> Attr(parent)
      [] name = ".." /\ parent \in DOMAIN Parents -> Attr(Parents[parent])
      [] name = ".." /\ parent \notin DOMAIN Parents -> Err("NotFound")
      [] OTHER ->
           IF parent \in Files THEN Err("NotADirectory")
           ELSE IF parent \in Inos /\ name \in DOMAIN Dirs[parent]
                THEN Attr(Dirs[parent][name]) ELSE Err("NotFound")

OpenResult(ino) ==
    IF ino \in DOMAIN Dirs THEN Err("IsADirectory") ELSE Attr(ino)

ReaddirResult(ino) ==
    IF ino \in Files THEN Err("NotADirectory") ELSE Attr(ino)

Opened(ino) ==
    /\ open_files' = [h \in DOMAIN open_files \union {next_handle} |->
                        IF h = next_handle THEN ino ELSE open_files[h]]
    /\ next_handle' = next_handle + 1
    /\ UNCHANGED gen

\* A read of len bytes at offset; one at or past the end reads nothing.
ReadAt(fh, offset, len) ==
    IF fh \notin DOMAIN open_files THEN Err("InvalidArgument")
    ELSE LET data  == Data[gen][open_files[fh]]
             start == IF offset < Len(data) THEN offset ELSE Len(data)
             n     == IF len < Len(data) - start THEN len ELSE Len(data) - start
         IN  [Ok(open_files[fh]) EXCEPT !.data = SubSeq(data, start + 1, start + n),
                                        !.n = n]

\* The same bytes, with a count that includes what did not fit the buffer.
Overclaims(fh, offset, r) ==
    IF r.err = "Ok" /\ r.data # << >>
    THEN [r EXCEPT !.n = Len(Data[gen][open_files[fh]]) - offset] ELSE r

Released(fh) ==
    /\ open_files' = [h \in DOMAIN open_files \ {fh} |-> open_files[h]]
    /\ UNCHANGED <<gen, next_handle>>

\* Any implementation may fail a call with an i/o error instead.
Results(r) == IF faults < MaxFaults THEN {r, Err("Io")} ELSE {r}
Charge(r)  == faults' = IF r.err = "Io" THEN faults + 1 ELSE faults
==============================================================================
