----------------------------- MODULE ExportPath ------------------------------
(***************************************************************************)
(* The path in a MNT call: how tcp::mount builds it from the name of the   *)
(* filesystem and how mount_proto::mnt takes it apart.  A character is a   *)
(* string of length one, or "ctl"; 32 hexadecimal digits are one symbol of *)
(* Hex.                                                                    *)
(***************************************************************************)
EXTENDS Naturals, Sequences, FiniteSetsExt

CONSTANTS
    Hex,           \* the values an export path can carry
    MAX_LABEL_LEN

ASSUME ExportPathAssumption == MAX_LABEL_LEN \in Nat /\ "/" \notin Hex

DEFAULT_LABEL == <<"anymount">>

Rejected(ch) == ch \in {"/", "ctl"}
Trimmed(ch)  == ch \in {"-", ".", " "}

\* Mutant: separators and control characters are kept.
VolumeLabelRaw(name) == name

\* Rejected characters become "-" unless the output ends with one already; then
\* separators, dots and blanks go from both ends.
VolumeLabel(name) ==
    LET n    == IF Len(name) < MAX_LABEL_LEN THEN Len(name) ELSE MAX_LABEL_LEN
        dash == [i \in 1 .. n |-> IF Rejected(name[i]) THEN "-" ELSE name[i]]
        kept == {i \in 1 .. n : Rejected(name[i]) /\ i > 1 => dash[i - 1] # "-"}
        core == {i \in kept : ~Trimmed(dash[i])}
        rest == {i \in kept : Min(core) <= i /\ i <= Max(core)}
    IN  IF core = {} THEN DEFAULT_LABEL
        ELSE [k \in 1 .. Cardinality(rest) |->
                dash[CHOOSE i \in rest : Cardinality({j \in rest : j < i}) = k - 1]]

\* What follows "/export/".
ExportPathFor(hex, name) == <<hex, "/">> \o VolumeLabel(name)

FirstSegment(rest) ==
    LET cuts == {i \in 1 .. Len(rest) : rest[i] = "/"}
    IN  IF cuts = {} THEN rest ELSE SubSeq(rest, 1, Min(cuts) - 1)

\* The decision of mnt, for a path with the prefix.
Mnt(rest, secret) ==
    LET hex == FirstSegment(rest)
    IN  IF Len(hex) # 1 \/ hex[1] \notin Hex THEN "MNT3ERR_NOENT"
        ELSE IF hex[1] # secret THEN "MNT3ERR_ACCES" ELSE "MNT3_OK"
==============================================================================
