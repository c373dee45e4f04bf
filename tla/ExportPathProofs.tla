-------------------------- MODULE ExportPathProofs ---------------------------
(***************************************************************************)
(* For every name of a filesystem and every length limit: what the volume  *)
(* label looks like, and which program an export path opens.               *)
(***************************************************************************)
EXTENDS ExportPath, FiniteSetTheorems, WellFoundedInduction, SequenceTheorems, TLAPS

------------------------------------------------------------------------------
(* Least and greatest elements, and ranks *)

LEMMA LeastExists ==
    ASSUME NEW n \in Nat, NEW S \in SUBSET (1 .. n), S # {}
    PROVE  \E x \in S : \A y \in S : x <= y
<1> DEFINE Bad == {T \in SUBSET (1 .. n) : T # {} /\ ~ \E x \in T : \A y \in T : x <= y}
<1> SUFFICES ASSUME Bad # {} PROVE FALSE
  OBVIOUS
<1>1. IsFiniteSet(1 .. n)
  BY FS_Interval
<1>2. IsWellFoundedOn(StrictSubsetOrdering(1 .. n), SUBSET (1 .. n))
  BY <1>1, FS_StrictSubsetOrderingWellFounded, FS_FiniteSubsetsOfFinite
<1>3. PICK T \in Bad : \A U \in Bad : ~(<<U, T>> \in StrictSubsetOrdering(1 .. n))
  <2>1. Bad \subseteq SUBSET (1 .. n)
    OBVIOUS
  <2> HIDE DEF Bad
  <2> QED BY <1>2, <2>1, WFMin
<1>4. PICK t \in T : TRUE
  OBVIOUS
<1>5. T \ {t} \notin Bad
  <2>1. T \ {t} \in SUBSET (1 .. n) /\ T \in SUBSET (1 .. n) /\ T \ {t} # T /\ T \ {t} \subseteq T
    OBVIOUS
  <2>2. <<T \ {t}, T>> \in StrictSubsetOrdering(1 .. n)
    BY <2>1 DEF StrictSubsetOrdering
  <2> QED BY <1>3, <2>2
<1>6. CASE T \ {t} = {}
  <2>1. \A y \in T : t <= y
    BY <1>6
  <2> QED BY <2>1
<1>7. CASE T \ {t} # {}
  <2>1. PICK x \in T \ {t} : \A y \in T \ {t} : x <= y
    BY <1>5, <1>7
  <2>2. x \in Nat /\ t \in Nat
    OBVIOUS
  <2>3. CASE x <= t
    BY <2>1, <2>2, <2>3
  <2>4. CASE t <= x
    <3>1. \A y \in T : t <= y
      BY <2>1, <2>2, <2>4
    <3> QED BY <3>1
  <2> QED BY <2>2, <2>3, <2>4
<1> QED BY <1>6, <1>7

LEMMA GreatestExists ==
    ASSUME NEW n \in Nat, NEW S \in SUBSET (1 .. n), S # {}
    PROVE  \E x \in S : \A y \in S : x >= y
<1> DEFINE M == {n + 1 - x : x \in S}
<1>1. M \in SUBSET (1 .. n) /\ M # {}
  <2>1. \A x \in S : n + 1 - x \in 1 .. n
    OBVIOUS
  <2>2. M # {}
    OBVIOUS
  <2> QED BY <2>1, <2>2
<1>2. PICK m \in M : \A k \in M : m <= k
  <2> HIDE DEF M
  <2> QED BY <1>1, LeastExists
<1>3. PICK x \in S : m = n + 1 - x
  OBVIOUS
<1>4. ASSUME NEW y \in S PROVE x >= y
  <2>1. n + 1 - x <= n + 1 - y
    BY <1>2, <1>3
  <2> QED BY <2>1
<1> QED BY <1>4

\* How many elements of R are below i.
Rank(R, i) == Cardinality({j \in R : j < i})

LEMMA RankFacts ==
    ASSUME NEW n \in Nat, NEW R \in SUBSET (1 .. n), NEW i \in Nat
    PROVE  /\ IsFiniteSet(R) /\ Cardinality(R) \in Nat /\ Rank(R, i) \in Nat
           /\ IsFiniteSet({j \in R : j < i})
           /\ Rank(R, i + 1) = IF i \in R THEN Rank(R, i) + 1 ELSE Rank(R, i)
<1>1. IsFiniteSet(1 .. n)
  BY FS_Interval
<1>2. IsFiniteSet(R)
  BY <1>1, FS_Subset
<1>3. \A k : IsFiniteSet({j \in R : j < k})
  BY <1>2, FS_Subset
<1>4. Cardinality(R) \in Nat /\ Rank(R, i) \in Nat
  BY <1>2, <1>3, FS_CardinalityType DEF Rank
<1> DEFINE A == {j \in R : j < i}
           B == {j \in R : j < i + 1}
<1>7. \A j \in R : (j < i + 1 <=> (j < i \/ j = i)) /\ j \in Nat
  OBVIOUS
<1>5. CASE i \in R
  <2>1. B = A \union {i}
    BY <1>5, <1>7
  <2>2. i \notin A
    OBVIOUS
  <2>3. IsFiniteSet(A)
    BY <1>3
  <2> HIDE DEF A, B
  <2>4. Cardinality(B) = Cardinality(A) + 1
    BY <2>1, <2>2, <2>3, FS_AddElement
  <2>5. Rank(R, i + 1) = Rank(R, i) + 1
    BY <2>4 DEF Rank, A, B
  <2> QED BY <1>2, <1>3, <1>4, <1>5, <2>5
<1>6. CASE i \notin R
  <2>1. {j \in R : j < i + 1} = {j \in R : j < i}
    BY <1>6, <1>7
  <2> QED BY <1>2, <1>3, <1>4, <1>6, <2>1 DEF Rank
<1> QED BY <1>2, <1>3, <1>4, <1>5, <1>6

\* Every rank is taken.
LEMMA RankExists ==
    ASSUME NEW n \in Nat, NEW R \in SUBSET (1 .. n), NEW k \in 1 .. Cardinality(R)
    PROVE  \E i \in R : Rank(R, i) = k - 1
<1>1. \A i \in Nat : /\ Rank(R, i) \in Nat
                     /\ Rank(R, i + 1) = IF i \in R THEN Rank(R, i) + 1 ELSE Rank(R, i)
  BY RankFacts
<1>2. Cardinality(R) \in Nat /\ k \in Nat /\ k >= 1 /\ k <= Cardinality(R)
  <2>1. Cardinality(R) \in Nat
    BY RankFacts, 0 \in Nat
  <2> QED BY <2>1
<1>3. Rank(R, n + 1) = Cardinality(R)
  <2>1. \A j \in R : j < n + 1
    OBVIOUS
  <2>2. {j \in R : j < n + 1} = R
    BY <2>1
  <2> QED BY <2>2 DEF Rank
<1>4. Rank(R, 1) = 0
  <2>1. \A j \in R : ~(j < 1)
    OBVIOUS
  <2>2. {j \in R : j < 1} = {}
    BY <2>1
  <2> QED BY <2>2, FS_EmptySet DEF Rank
<1> DEFINE T == {i \in 1 .. n + 1 : Rank(R, i) >= k}
<1>5. PICK t \in T : \A s \in T : t <= s
  <2>1. T # {} /\ T \in SUBSET (1 .. n + 1) /\ n + 1 \in Nat
    BY <1>2, <1>3
  <2> HIDE DEF T
  <2> QED BY <2>1, LeastExists
<1>6. t # 1
  BY <1>2, <1>4
<1>7. t - 1 \in 1 .. n /\ (t - 1) + 1 = t /\ t - 1 \in Nat
  BY <1>6
<1>8. ~(Rank(R, t - 1) >= k)
  BY <1>5, <1>7
<1>9. Rank(R, t) = IF t - 1 \in R THEN Rank(R, t - 1) + 1 ELSE Rank(R, t - 1)
  BY <1>1, <1>7
<1>10. t - 1 \in R /\ Rank(R, t - 1) = k - 1
  <2>1. Rank(R, t) >= k /\ Rank(R, t - 1) \in Nat
    BY <1>1, <1>7
  <2> QED BY <1>2, <1>8, <1>9, <2>1
<1> QED BY <1>10

------------------------------------------------------------------------------
(* The label and the path *)

\* Whatever the name, the label is not empty, has no separator and no control
\* character in it, and its ends are not trimmed any further.
LEMMA LabelFacts ==
    ASSUME NEW C, NEW name \in Seq(C), NEW label, label = VolumeLabel(name)
    PROVE  /\ label \in Seq(C \union {"-", "anymount"}) /\ Len(label) > 0
           /\ \A k \in 1 .. Len(label) : ~Rejected(label[k])
           /\ ~Trimmed(label[1]) /\ ~Trimmed(label[Len(label)])
<1> DEFINE D    == C \union {"-", "anymount"}
           n    == IF Len(name) < MAX_LABEL_LEN THEN Len(name) ELSE MAX_LABEL_LEN
           dash == [i \in 1 .. n |-> IF Rejected(name[i]) THEN "-" ELSE name[i]]
           kept == {i \in 1 .. n : Rejected(name[i]) /\ i > 1 => dash[i - 1] # "-"}
           core == {i \in kept : ~Trimmed(dash[i])}
           rest == {i \in kept : Min(core) <= i /\ i <= Max(core)}
           at(k) == CHOOSE i \in rest : Cardinality({j \in rest : j < i}) = k - 1
<1>1. label = IF core = {} THEN DEFAULT_LABEL
              ELSE [k \in 1 .. Cardinality(rest) |-> dash[at(k)]]
  BY DEF VolumeLabel
<1>2. n \in Nat /\ n <= Len(name) /\ Len(name) \in Nat
  BY ExportPathAssumption
<1>3. \A i \in 1 .. n : dash[i] \in D /\ ~Rejected(dash[i])
  <2> HIDE DEF n
  <2>1. \A i \in 1 .. n : i \in 1 .. Len(name) /\ name[i] \in C
    BY <1>2
  <2>2. "-" \in D /\ C \subseteq D /\ ~Rejected("-")
    BY DEF Rejected
  <2>3. \A i \in 1 .. n : dash[i] = IF Rejected(name[i]) THEN "-" ELSE name[i]
    OBVIOUS
  <2> HIDE DEF dash
  <2> QED BY <2>1, <2>2, <2>3
<1>4. kept \in SUBSET (1 .. n) /\ core \in SUBSET (1 .. n) /\ rest \in SUBSET (1 .. n)
  OBVIOUS
<1>5. \A i \in core : ~Trimmed(dash[i]) /\ i \in kept
  OBVIOUS
<1>6. CASE core = {}
  <2>1. label = <<"anymount">>
    BY <1>1, <1>6 DEF DEFAULT_LABEL
  <2>2. label \in Seq(D) /\ Len(label) = 1 /\ label[1] = "anymount"
    <3>1. "anymount" \in D
      OBVIOUS
    <3> QED BY <2>1, <3>1
  <2>3. ~Rejected("anymount") /\ ~Trimmed("anymount")
    BY DEF Rejected, Trimmed
  <2>4. \A k \in 1 .. Len(label) : k = 1
    BY <2>2
  <2> QED BY <2>2, <2>3, <2>4
<1>7. CASE core # {}
  <2> DEFINE a == Min(core)
             b == Max(core)
             c == Cardinality(rest)
  <2>1. a \in core /\ \A i \in core : a <= i
    <3> HIDE DEF core, n
    <3>1. \E x \in core : \A y \in core : x <= y
      BY <1>2, <1>4, <1>7, LeastExists
    <3> QED BY <3>1 DEF Min
  <2>2. b \in core /\ \A i \in core : b >= i
    <3> HIDE DEF core, n
    <3>1. \E x \in core : \A y \in core : x >= y
      BY <1>2, <1>4, <1>7, GreatestExists
    <3> QED BY <3>1 DEF Max
  <2>3. a \in Nat /\ b \in Nat /\ a <= b /\ \A i \in rest : a <= i /\ i <= b /\ i \in Nat
    <3>1. \A i \in rest : a <= i /\ i <= b
      OBVIOUS
    <3> HIDE DEF core, n, kept, dash, rest, a, b
    <3>2. a \in 1 .. n /\ b \in 1 .. n /\ \A i \in rest : i \in 1 .. n
      BY <1>4, <2>1, <2>2
    <3>3. \A i \in 1 .. n : i \in Nat
      BY <1>2
    <3> QED BY <2>1, <2>2, <3>1, <3>2, <3>3
  <2>4. a \in rest /\ b \in rest
    <3>1. a \in kept /\ b \in kept
      BY <1>5, <2>1, <2>2
    <3>2. a <= a /\ a <= b /\ b <= b
      BY <2>3
    <3> HIDE DEF core, kept
    <3> QED BY <3>1, <3>2
  <2> HIDE DEF core, n, kept, rest, dash
  <2>5. c \in Nat /\ IsFiniteSet(rest)
    <3>1. 0 \in Nat
      OBVIOUS
    <3> QED BY <1>2, <1>4, <3>1, RankFacts
  <2>6. c > 0
    BY <2>4, <2>5, FS_EmptySet
  <2>7. ASSUME NEW k \in 1 .. c PROVE at(k) \in rest /\ Rank(rest, at(k)) = k - 1
    <3>1. \E i \in rest : Rank(rest, i) = k - 1
      BY <1>2, <1>4, <2>7, RankExists
    <3> QED BY <3>1 DEF Rank
  <2>8. label = [k \in 1 .. c |-> dash[at(k)]]
    BY <1>1, <1>7
  <2> HIDE DEF at, c
  <2>9. ASSUME NEW k \in 1 .. c
        PROVE  label[k] = dash[at(k)] /\ label[k] \in D /\ ~Rejected(label[k])
    BY <1>3, <1>4, <2>7, <2>8, <2>9
  <2>10. label \in Seq(D) /\ Len(label) = c
    BY <2>5, <2>8, <2>9
  <2>11. at(1) = a
    <3>1. 1 \in 1 .. c
      BY <2>5, <2>6
    <3>2. at(1) \in rest /\ Rank(rest, at(1)) = 0
      BY <2>7, <3>1
    <3>3. {j \in rest : j < at(1)} = {}
      <4>1. IsFiniteSet({j \in rest : j < at(1)})
        BY <2>5, FS_Subset
      <4> QED BY <3>2, <4>1, FS_EmptySet DEF Rank
    <3>4. ~(a < at(1)) /\ a <= at(1) /\ at(1) \in Nat
      BY <2>3, <2>4, <3>2, <3>3
    <3> QED BY <2>3, <3>4
  <2>12. at(c) = b
    <3> DEFINE L == {j \in rest : j < at(c)}
    <3>1. c \in 1 .. c
      BY <2>5, <2>6
    <3>2. at(c) \in rest /\ Cardinality(L) = c - 1
      BY <2>7, <3>1 DEF Rank
    <3>3. at(c) \in Nat /\ at(c) <= b
      BY <2>3, <3>2
    <3>4. CASE at(c) < b
      <4>1. L \subseteq (rest \ {b}) \ {at(c)}
        <5>1. \A j \in L : j \in rest /\ j < at(c) /\ j \in Nat
          BY <2>3
        <5>2. \A j \in L : j # at(c) /\ j # b
          BY <2>3, <3>3, <3>4, <5>1
        <5> QED BY <5>1, <5>2
      <4>2. IsFiniteSet(rest \ {b}) /\ Cardinality(rest \ {b}) = c - 1
        BY <2>4, <2>5, FS_RemoveElement DEF c
      <4>3. /\ IsFiniteSet((rest \ {b}) \ {at(c)})
            /\ Cardinality((rest \ {b}) \ {at(c)}) = (c - 1) - 1
        <5>1. at(c) \in rest \ {b}
          BY <2>3, <3>2, <3>3, <3>4
        <5> QED BY <4>2, <5>1, FS_RemoveElement
      <4>4. Cardinality(L) <= (c - 1) - 1
        <5> HIDE DEF L
        <5> QED BY <4>1, <4>3, FS_Subset
      <4> QED BY <2>5, <2>6, <3>2, <4>4
    <3> QED BY <2>3, <3>3, <3>4
  <2>13. ~Trimmed(dash[a]) /\ ~Trimmed(dash[b])
    BY <1>5, <2>1, <2>2
  <2>14. 1 \in 1 .. c /\ c \in 1 .. c
    BY <2>5, <2>6
  <2> QED BY <2>6, <2>9, <2>10, <2>11, <2>12, <2>13, <2>14
<1> QED BY <1>6, <1>7

\* mnt finds the secret in front of the label, and nothing else.
LEMMA PathFacts ==
    ASSUME NEW C, NEW name \in Seq(C), NEW hex \in Hex, NEW path, path = ExportPathFor(hex, name)
    PROVE  /\ Len(path) > 2 /\ Len(path) \in Nat
           /\ \A i \in 3 .. Len(path) : ~Rejected(path[i])
           /\ ~Trimmed(path[3]) /\ ~Trimmed(path[Len(path)])
           /\ \A secret : Mnt(path, secret) = IF hex = secret THEN "MNT3_OK" ELSE "MNT3ERR_ACCES"
<1> DEFINE label == VolumeLabel(name)
           D == C \union {"-", "anymount"}
           S == D \union {hex, "/"}
<1>1. /\ label \in Seq(D) /\ Len(label) > 0 /\ Len(label) \in Nat
      /\ \A k \in 1 .. Len(label) : ~Rejected(label[k])
      /\ ~Trimmed(label[1]) /\ ~Trimmed(label[Len(label)])
  <2>1. PICK l : l = label
    OBVIOUS
  <2> HIDE DEF label
  <2>2. l = VolumeLabel(name)
    BY <2>1 DEF label
  <2>3. /\ l \in Seq(D) /\ Len(l) > 0
        /\ \A k \in 1 .. Len(l) : ~Rejected(l[k])
        /\ ~Trimmed(l[1]) /\ ~Trimmed(l[Len(l)])
    BY <2>2, LabelFacts
  <2> HIDE DEF D
  <2> QED BY <2>1, <2>3
<1>2. path = <<hex, "/">> \o label
  BY DEF ExportPathFor
<1> HIDE DEF label
<1>3. label \in Seq(S) /\ <<hex, "/">> \in Seq(S) /\ Len(<<hex, "/">>) = 2
  <2>1. label \in Seq(S)
    BY <1>1
  <2>3. hex \in S /\ "/" \in S
    OBVIOUS
  <2> HIDE DEF S
  <2> QED BY <2>1, <2>3
<1> HIDE DEF S
<1>4. /\ path \in Seq(S) /\ Len(path) = 2 + Len(label)
      /\ \A i \in 1 .. 2 + Len(label) : path[i] = IF i <= 2 THEN <<hex, "/">>[i] ELSE label[i - 2]
  BY <1>2, <1>3, ConcatProperties
<1>5. path[1] = hex /\ path[2] = "/" /\ 1 \in 1 .. Len(path) /\ 2 \in 1 .. Len(path)
  BY <1>1, <1>4
<1>6. \A i \in 3 .. Len(path) : path[i] = label[i - 2] /\ i - 2 \in 1 .. Len(label)
  BY <1>1, <1>4
<1>7. path[3] = label[1] /\ path[Len(path)] = label[Len(label)]
  <2>1. 3 \in 3 .. Len(path) /\ Len(path) \in 3 .. Len(path) /\ 3 - 2 = 1
        /\ Len(path) - 2 = Len(label)
    BY <1>1, <1>4
  <2> QED BY <1>6, <2>1
<1>8. FirstSegment(path) = <<hex>>
  <2> DEFINE cuts == {i \in 1 .. Len(path) : path[i] = "/"}
  <2>1. 2 \in cuts /\ \A i \in cuts : 2 <= i
    <3>1. 2 \in cuts
      BY <1>5
    <3>2. 1 \notin cuts
      BY <1>5, ExportPathAssumption
    <3>3. \A i \in cuts : i \in Nat /\ i >= 1
      OBVIOUS
    <3>4. \A i \in cuts : i # 1
      BY <3>2
    <3> HIDE DEF cuts
    <3> QED BY <3>1, <3>3, <3>4
  <2>2. Min(cuts) = 2
    <3>1. \A i \in cuts : i \in Nat
      OBVIOUS
    <3> HIDE DEF cuts
    <3>2. \E x \in cuts : \A y \in cuts : x =< y
      BY <2>1
    <3>3. Min(cuts) \in cuts /\ \A y \in cuts : Min(cuts) =< y
      BY <3>2 DEF Min
    <3> QED BY <2>1, <3>1, <3>3
  <2>3. FirstSegment(path) = SubSeq(path, 1, 1)
    <3>1. 2 - 1 = 1 /\ cuts # {}
      BY <2>1
    <3> QED BY <2>2, <3>1 DEF FirstSegment
  <2>4. SubSeq(path, 1, 1) = <<path[1]>>
    <3>1. /\ SubSeq(path, 1, 1) \in Seq(S) /\ Len(SubSeq(path, 1, 1)) = 1
          /\ SubSeq(path, 1, 1)[1] = path[1] /\ path[1] \in S
      BY <1>4, <1>5
    <3>2. \A q \in Seq(S) : Len(q) = 1 => q = <<q[1]>>
      OBVIOUS
    <3> QED BY <3>1, <3>2
  <2> QED BY <1>5, <2>3, <2>4
<1>9. \A secret : Mnt(path, secret) = IF hex = secret THEN "MNT3_OK" ELSE "MNT3ERR_ACCES"
  BY <1>8 DEF Mnt
<1>10. Len(path) > 2 /\ Len(path) \in Nat
  BY <1>1, <1>4
<1>11. \A i \in 3 .. Len(path) : ~Rejected(path[i])
  BY <1>1, <1>6
<1> QED BY <1>1, <1>7, <1>9, <1>10, <1>11
==============================================================================
