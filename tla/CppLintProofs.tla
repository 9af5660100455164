---------------------------- MODULE CppLintProofs ----------------------------
(***************************************************************************)
(* Proofs about the cpplint driver, for any files, options and             *)
(* configuration files.                                                    *)
(*                                                                         *)
(* Every step appends messages to the report, all about the current file,  *)
(* and counts them (Reporting).  So the counters agree with the report     *)
(* (CountInv), an error counted since a file was begun is reported for it  *)
(* (FileInv), and the last step finds everything in its place (ExitInv).   *)
(* The first part is about the folds of the model: what Select, FlattenSeq *)
(* and the counting by category return.                                    *)
(*                                                                         *)
(* The last part shows that what is reported is what the usage text        *)
(* promises (Documented).  The climb through the CPPLINT.cfg files has     *)
(* collected the filters of the directories passed (ClimbInv), so that the *)
(* filters in force are those promised (FilterInv); the suppressions are   *)
(* those of the comments read so far (NolintInv); and what has been        *)
(* reported is what was to be reported of the files finished, followed by  *)
(* the part of the current file that has been gone through (ReportInv).    *)
(***************************************************************************)
EXTENDS CppLint, InductionLemmas, SequenceTheorems, TLAPS

(***************************************************************************)
(* Select                                                                  *)
(***************************************************************************)
\* r[i] is what is selected of the first i elements of s.
Selects(s, V, at, r) ==
    /\ r \in [0 .. Len(s) -> Seq(V)]
    /\ r[0] = <<>>
    /\ \A i \in 1 .. Len(s) :
          r[i] = IF i \in at THEN Append(r[i - 1], s[i]) ELSE r[i - 1]

\* Select is a fold over the places of the sequence.
LEMMA SelectUnfold ==
    ASSUME NEW V, NEW s \in Seq(V), NEW at
    PROVE  \E r : Selects(s, V, at, r) /\ Select(s, at) = r[Len(s)]
<1> DEFINE n == Len(s)
           W == Seq(V)
           Step(w, i) == IF i \in at THEN Append(w, s[i]) ELSE w
           g == [p \in (1 .. n) \X W |-> Step(p[2], p[1])]
           seq == [i \in DOMAIN s |-> i]
           Eq(it) == it = [S \in SUBSET (1 .. n) |->
                IF S = {} THEN <<>> ELSE Step(it[S \ {Max(S)}], seq[Max(S)])]
<1>1. n \in Nat /\ DOMAIN s = 1 .. n /\ DOMAIN seq = 1 .. n /\ <<>> \in W
  OBVIOUS
<1>2. \A i \in 1 .. n : seq[i] = i /\ s[i] \in V
  OBVIOUS
<1>3. \A w \in W, i \in 1 .. n : Step(w, i) \in W
  BY <1>2
<1>. HIDE DEF n, W, seq
<1>4. g \in [(1 .. n) \X W -> W]
  <2> HIDE DEF Step
  <2>. QED  BY <1>3
<1>5. \A w \in W, i \in 1 .. n : g[<<i, w>>] = Step(w, i)
  OBVIOUS
<1>. HIDE DEF g
<1>6. PICK it \in [SUBSET (1 .. n) -> W] : FoldsSets(n, <<>>, g, it)
  BY <1>1, <1>4, FoldExists
<1>7. Eq(it)
  <2>1. ASSUME NEW S \in SUBSET (1 .. n), S # {}
        PROVE  it[S] = Step(it[S \ {Max(S)}], seq[Max(S)])
    <3>1. Max(S) \in 1 .. n /\ S \ {Max(S)} \in SUBSET (1 .. n)
      BY <1>1, <2>1, MaxOfPositions
    <3>2. it[S] = g[<<Max(S), it[S \ {Max(S)}]>>] /\ it[S \ {Max(S)}] \in W
      BY <1>6, <2>1, <3>1 DEF FoldsSets
    <3> HIDE DEF Step
    <3>. QED  BY <1>2, <1>5, <3>1, <3>2
  <2>2. it[{}] = <<>>
    BY <1>6 DEF FoldsSets
  <2>. HIDE DEF Step
  <2>3. \A S \in SUBSET (1 .. n) : it[S] =
           IF S = {} THEN <<>> ELSE Step(it[S \ {Max(S)}], seq[Max(S)])
    BY <2>1, <2>2
  <2>. QED  BY <1>6, <2>3
<1>8. PICK kept : Eq(kept) /\ Select(s, at) = kept[1 .. n]
  BY <1>1, <1>7 DEF Select, FoldLeft, MapThenFoldSet, seq
<1>9. kept[{}] = <<>>
  BY <1>8
<1>10. ASSUME NEW S \in SUBSET (1 .. n), S # {}, kept[S \ {Max(S)}] \in W
       PROVE  kept[S] = g[<<Max(S), kept[S \ {Max(S)}]>>]
  <2>1. kept[S] = Step(kept[S \ {Max(S)}], seq[Max(S)])
    BY <1>8, <1>10
  <2>2. Max(S) \in 1 .. n
    BY <1>1, <1>10, MaxOfPositions
  <2>3. seq[Max(S)] = Max(S)
    BY <1>2, <2>2
  <2> HIDE DEF Step
  <2>4. g[<<Max(S), kept[S \ {Max(S)}]>>] = Step(kept[S \ {Max(S)}], Max(S))
    BY <1>5, <1>10, <2>2, Zenon
  <2>. QED  BY <2>1, <2>3, <2>4
<1>11. FoldsTo(n, W, <<>>, g, kept[1 .. n])
  <2> HIDE DEF Step
  <2>1. \A S \in SUBSET (1 .. n) : S # {} /\ kept[S \ {Max(S)}] \in W =>
            kept[S] = g[<<Max(S), kept[S \ {Max(S)}]>>]
    BY <1>10, Zenon
  <2>2. FoldsWithin(n, W, <<>>, g, kept)
    BY <1>9, <2>1 DEF FoldsWithin
  <2>. QED  BY <1>1, <1>4, <2>2, FoldWalks
<1>. PICK r : IsFold(n, W, <<>>, g, r) /\ kept[1 .. n] = r[n]
  BY <1>11 DEF FoldsTo
<1>12. ASSUME NEW i \in 1 .. n
       PROVE  r[i] = IF i \in at THEN Append(r[i - 1], s[i]) ELSE r[i - 1]
  <2>1. i - 1 \in 0 .. n /\ r[i - 1] \in W /\ r[i] = g[<<i, r[i - 1]>>]
    BY <1>1 DEF IsFold
  <2>. QED  BY <1>5, <2>1
<1>. QED  BY <1>8, <1>12 DEF IsFold, Selects, n, W

\* What is selected is a sequence of the same kind.
LEMMA SelectType ==
    ASSUME NEW V, NEW s \in Seq(V), NEW at
    PROVE  Select(s, at) \in Seq(V)
<1>1. PICK r : Selects(s, V, at, r) /\ Select(s, at) = r[Len(s)]
  BY SelectUnfold
<1>. QED  BY <1>1 DEF Selects

\* at, a and b select the same of s \o t, s and t.
Splits(s, t, at, a, b) ==
    /\ \A i \in 1 .. Len(s) : i \in at <=> i \in a
    /\ \A i \in 1 .. Len(t) : Len(s) + i \in at <=> i \in b

\* Selecting from a concatenation is selecting from its parts.
LEMMA SelectConcat ==
    ASSUME NEW V, NEW s \in Seq(V), NEW t \in Seq(V), NEW at, NEW a, NEW b,
           Splits(s, t, at, a, b)
    PROVE  Select(s \o t, at) = Select(s, a) \o Select(t, b)
<1> DEFINE st == s \o t
<1>1. /\ st \in Seq(V) /\ Len(st) = Len(s) + Len(t)
      /\ \A i \in 1 .. Len(s) : st[i] = s[i]
      /\ \A i \in 1 .. Len(t) : st[Len(s) + i] = t[i]
  OBVIOUS
<1> HIDE DEF st
<1>2. PICK r : Selects(st, V, at, r) /\ Select(st, at) = r[Len(st)]
  BY <1>1, SelectUnfold
<1>3. PICK p : Selects(s, V, a, p) /\ Select(s, a) = p[Len(s)]
  BY SelectUnfold
<1>4. PICK q : Selects(t, V, b, q) /\ Select(t, b) = q[Len(t)]
  BY SelectUnfold
<1>5. PICK m \in Nat : m = Len(s)
  OBVIOUS
<1>6. PICK n \in Nat : n = Len(t)
  OBVIOUS
<1>7. /\ \A i \in 0 .. m : p[i] \in Seq(V)
      /\ \A i \in 0 .. n : q[i] \in Seq(V)
      /\ p[0] = <<>> /\ q[0] = <<>> /\ r[0] = <<>>
  BY <1>2, <1>3, <1>4, <1>5, <1>6 DEF Selects
<1> DEFINE S == {k \in Nat : k <= m => r[k] = p[k]}
<1>8. 0 \in S
  BY <1>7
<1>9. ASSUME NEW k \in Nat, k \in S  PROVE k + 1 \in S
  <2> SUFFICES ASSUME k + 1 <= m  PROVE r[k + 1] = p[k + 1]
    OBVIOUS
  <2>1. PICK j \in 1 .. m : j = k + 1
    OBVIOUS
  <2>2. j \in 1 .. Len(st) /\ j \in 1 .. Len(s)
    BY <1>1, <1>5
  <2>3. r[j] = IF j \in at THEN Append(r[j - 1], st[j]) ELSE r[j - 1]
    BY <1>2, <2>2 DEF Selects
  <2>4. p[j] = IF j \in a THEN Append(p[j - 1], s[j]) ELSE p[j - 1]
    BY <1>3, <2>2 DEF Selects
  <2>5. j - 1 = k /\ r[k] = p[k]
    BY <1>9, <2>1
  <2>6. st[j] = s[j] /\ (j \in at <=> j \in a)
    BY <1>1, <2>2 DEF Splits
  <2>7. r[j] = p[j]
    BY <2>3, <2>4, <2>5, <2>6
  <2>. QED  BY <2>1, <2>7
<1> HIDE DEF S
<1>10. \A k \in Nat : k \in S
  BY <1>8, <1>9, InductiveSet
<1>11. r[m] = p[m]
  BY <1>10 DEF S
<1> DEFINE Same(k) == r[m + k] = p[m] \o q[k]
           T == {k \in Nat : k <= n => Same(k)}
<1>12. Same(0)
  <2>1. p[m] \o <<>> = p[m] /\ m + 0 = m
    BY <1>7
  <2>. QED  BY <1>7, <1>11, <2>1
<1>13. ASSUME NEW k \in Nat, k + 1 <= n, Same(k)  PROVE Same(k + 1)
  <2>1. PICK j \in 1 .. n : j = k + 1
    BY <1>13
  <2>2. PICK l \in 1 .. Len(st) : l = m + j
    BY <1>1, <1>5, <1>6
  <2>3. r[l] = IF l \in at THEN Append(r[l - 1], st[l]) ELSE r[l - 1]
    BY <1>2 DEF Selects
  <2>4. q[j] = IF j \in b THEN Append(q[j - 1], t[j]) ELSE q[j - 1]
    BY <1>4, <1>6 DEF Selects
  <2>5. j - 1 = k /\ l - 1 = m + k
    BY <2>1, <2>2
  <2>6. st[l] = t[j] /\ (l \in at <=> j \in b) /\ t[j] \in V
    BY <1>1, <1>5, <1>6, <2>2 DEF Splits
  <2>7. p[m] \in Seq(V) /\ q[k] \in Seq(V)
    BY <1>7, <2>1
  <2>8. PICK x \in Seq(V) : x = p[m]
    BY <2>7
  <2>9. PICK y \in Seq(V) : y = q[k]
    BY <2>7
  <2>10. PICK e \in V : e = t[j]
    BY <2>6
  <2>11. Append(x \o y, e) = x \o Append(y, e)
    <3>1. <<e>> \in Seq(V) /\ x \o y \in Seq(V)
      OBVIOUS
    <3>2. Append(x \o y, e) = (x \o y) \o <<e>> /\ Append(y, e) = y \o <<e>>
      BY <3>1, AppendIsConcat
    <3>3. (x \o y) \o <<e>> = x \o (y \o <<e>>)
      BY <3>1
    <3>. QED  BY <3>2, <3>3
  <2>12. r[l - 1] = x \o y
    BY <1>13, <2>5, <2>8, <2>9
  <2>13. r[l] = x \o q[j]
    BY <2>3, <2>4, <2>5, <2>6, <2>9, <2>10, <2>11, <2>12
  <2>. QED  BY <2>1, <2>2, <2>8, <2>13
<1> HIDE DEF Same
<1>14. \A k \in Nat : k \in T
  <2>1. 0 \in T
    BY <1>12
  <2>2. ASSUME NEW k \in Nat, k \in T  PROVE k + 1 \in T
    <3>1. k + 1 <= n => k <= n
      OBVIOUS
    <3>. QED  BY <1>13, <2>2, <3>1
  <2> HIDE DEF T
  <2>. QED  BY <2>1, <2>2, InductiveSet
<1>15. Same(n)
  BY <1>14
<1>16. r[m + n] = p[m] \o q[n]
  BY <1>15 DEF Same
<1>. QED  BY <1>1, <1>2, <1>3, <1>4, <1>5, <1>6, <1>16 DEF st

\* A sequence of which all places are selected.
LEMMA SelectAll ==
    ASSUME NEW V, NEW s \in Seq(V), NEW at, \A i \in 1 .. Len(s) : i \in at
    PROVE  Select(s, at) = s
<1>1. PICK r : Selects(s, V, at, r) /\ Select(s, at) = r[Len(s)]
  BY SelectUnfold
<1> DEFINE S == {k \in Nat : k <= Len(s) => r[k] = SubSeq(s, 1, k)}
<1>2. 0 \in S
  <2>1. SubSeq(s, 1, 0) = <<>>
    OBVIOUS
  <2>. QED  BY <1>1, <2>1 DEF Selects
<1>3. ASSUME NEW k \in Nat, k \in S  PROVE k + 1 \in S
  <2> SUFFICES ASSUME k + 1 <= Len(s)  PROVE r[k + 1] = SubSeq(s, 1, k + 1)
    OBVIOUS
  <2>1. PICK j \in 1 .. Len(s) : j = k + 1
    OBVIOUS
  <2>2. j - 1 = k /\ r[k] = SubSeq(s, 1, k)
    BY <1>3, <2>1
  <2>3. r[j] = Append(SubSeq(s, 1, k), s[j])
    BY <1>1, <2>2 DEF Selects
  <2>4. SubSeq(s, 1, j) = Append(SubSeq(s, 1, k), s[j])
    <3>1. SubSeq(s, 1, k) \in Seq(V) /\ s[j] \in V
      BY <2>1
    <3>2. SubSeq(s, 1, j) = SubSeq(s, 1, j - 1) \o <<s[j]>>
      BY <2>1, SubSeqRecursiveSecond
    <3>. QED  BY <2>2, <3>1, <3>2, AppendIsConcat
  <2>. QED  BY <2>1, <2>3, <2>4
<1> HIDE DEF S
<1>4. \A k \in Nat : k \in S
  BY <1>2, <1>3, InductiveSet
<1>5. Len(s) \in Nat /\ SubSeq(s, 1, Len(s)) = s
  OBVIOUS
<1>. QED  BY <1>1, <1>4, <1>5 DEF S

\* A sequence of which no place is selected.
LEMMA SelectNone ==
    ASSUME NEW V, NEW s \in Seq(V), NEW at, \A i \in 1 .. Len(s) : i \notin at
    PROVE  Select(s, at) = <<>>
<1>1. PICK r : Selects(s, V, at, r) /\ Select(s, at) = r[Len(s)]
  BY SelectUnfold
<1> DEFINE S == {k \in Nat : k <= Len(s) => r[k] = <<>>}
<1>2. 0 \in S
  BY <1>1 DEF Selects
<1>3. ASSUME NEW k \in Nat, k \in S  PROVE k + 1 \in S
  <2> SUFFICES ASSUME k + 1 <= Len(s)  PROVE r[k + 1] = <<>>
    OBVIOUS
  <2>1. PICK j \in 1 .. Len(s) : j = k + 1
    OBVIOUS
  <2>2. j - 1 = k /\ r[k] = <<>>
    BY <1>3, <2>1
  <2>. QED  BY <1>1, <2>1, <2>2 DEF Selects
<1> HIDE DEF S
<1>4. \A k \in Nat : k \in S
  BY <1>2, <1>3, InductiveSet
<1>. QED  BY <1>1, <1>4 DEF S

\* As many elements are selected as places.
LEMMA SelectCount ==
    ASSUME NEW V, NEW s \in Seq(V), NEW at
    PROVE  Len(Select(s, at)) = Cardinality({i \in 1 .. Len(s) : i \in at})
<1>1. PICK r : Selects(s, V, at, r) /\ Select(s, at) = r[Len(s)]
  BY SelectUnfold
<1> DEFINE C(k) == {i \in 1 .. k : i \in at}
           Same(k) == Len(r[k]) = Cardinality(C(k))
           S == {k \in Nat : k <= Len(s) => Same(k)}
<1>2. Same(0)
  <2>1. C(0) = {}
    OBVIOUS
  <2>2. Len(r[0]) = 0
    BY <1>1 DEF Selects
  <2>. QED  BY <2>1, <2>2, FS_EmptySet
<1>3. ASSUME NEW k \in Nat, k + 1 <= Len(s), Same(k)  PROVE Same(k + 1)
  <2>1. PICK j \in 1 .. Len(s) : j = k + 1
    BY <1>3
  <2>2. r[j] = IF j \in at THEN Append(r[k], s[j]) ELSE r[k]
    <3>1. j - 1 = k
      BY <2>1
    <3>. QED  BY <1>1, <3>1 DEF Selects
  <2>3. k \in 0 .. Len(s) /\ r[k] \in Seq(V)
    <3>1. k \in 0 .. Len(s)
      BY <1>3
    <3>. QED  BY <1>1, <3>1 DEF Selects
  <2>4. IsFiniteSet(C(k)) /\ j \notin C(k)
    <3>1. IsFiniteSet(1 .. k)
      BY FS_Interval
    <3>2. IsFiniteSet(C(k))
      BY <3>1, FS_Subset
    <3>. QED  BY <2>1, <3>2
  <2>5. CASE j \in at
    <3>1. C(k + 1) = C(k) \cup {j}
      BY <2>1, <2>5
    <3>2. Cardinality(C(k + 1)) = Cardinality(C(k)) + 1
      <4> HIDE DEF C
      <4>. QED  BY <2>4, <3>1, FS_AddElement
    <3>3. Len(r[j]) = Len(r[k]) + 1
      BY <2>2, <2>3, <2>5
    <3> HIDE DEF C
    <3>. QED  BY <1>3, <2>1, <3>2, <3>3
  <2>6. CASE j \notin at
    <3>1. C(k + 1) = C(k)
      BY <2>1, <2>6
    <3> HIDE DEF C
    <3>. QED  BY <1>3, <2>1, <2>2, <2>6, <3>1
  <2>. QED  BY <2>5, <2>6
<1> HIDE DEF Same
<1>4. \A k \in Nat : k \in S
  <2>1. 0 \in S
    BY <1>2
  <2>2. ASSUME NEW k \in Nat, k \in S  PROVE k + 1 \in S
    <3>1. k + 1 <= Len(s) => k <= Len(s)
      OBVIOUS
    <3>. QED  BY <1>3, <2>2, <3>1
  <2> HIDE DEF S
  <2>. QED  BY <2>1, <2>2, InductiveSet
<1>5. Same(Len(s))
  BY <1>4
<1>. QED  BY <1>1, <1>5 DEF Same

\* s has the element x at a place in at that is at most k.
Has(s, at, k, x) == \E i \in 1 .. k : i \in at /\ s[i] = x

\* The elements selected are those at the places.
LEMMA SelectElements ==
    ASSUME NEW V, NEW s \in Seq(V), NEW at
    PROVE  \A x : (\E j \in DOMAIN Select(s, at) : Select(s, at)[j] = x)
                      <=> Has(s, at, Len(s), x)
<1>1. PICK r : Selects(s, V, at, r) /\ Select(s, at) = r[Len(s)]
  BY SelectUnfold
<1> DEFINE In(k, x) == \E j \in 1 .. Len(r[k]) : r[k][j] = x
           Same(k) == \A x : In(k, x) <=> Has(s, at, k, x)
           S == {k \in Nat : k <= Len(s) => Same(k)}
<1>2. Same(0)
  <2>1. Len(r[0]) = 0
    BY <1>1 DEF Selects
  <2>. QED  BY <2>1 DEF Has
<1>3. ASSUME NEW k \in Nat, k + 1 <= Len(s), Same(k)  PROVE Same(k + 1)
  <2>1. PICK j \in 1 .. Len(s) : j = k + 1
    BY <1>3
  <2>2. r[j] = IF j \in at THEN Append(r[k], s[j]) ELSE r[k]
    <3>1. j - 1 = k
      BY <2>1
    <3>. QED  BY <1>1, <3>1 DEF Selects
  <2>3. PICK q \in Seq(V) : q = r[k]
    <3>1. k \in 0 .. Len(s)
      BY <1>3
    <3>. QED  BY <1>1, <3>1 DEF Selects
  <2>4. \A x : Has(s, at, j, x) <=> Has(s, at, k, x) \/ (j \in at /\ s[j] = x)
    BY <2>1 DEF Has
  <2>5. \A x : In(j, x) <=> In(k, x) \/ (j \in at /\ s[j] = x)
    <3>1. CASE j \in at
      <4>1. r[j] = Append(q, s[j]) /\ Len(r[j]) = Len(q) + 1 /\ r[j][Len(q) + 1] = s[j]
            /\ \A i \in 1 .. Len(q) : r[j][i] = q[i]
        BY <2>2, <2>3, <3>1
      <4>2. Len(q) \in Nat
        BY <2>3
      <4>. QED  BY <2>3, <3>1, <4>1, <4>2
    <3>2. CASE j \notin at
      BY <2>2, <3>2
    <3>. QED  BY <3>1, <3>2
  <2> HIDE DEF In
  <2>. QED  BY <1>3, <2>1, <2>4, <2>5
<1> HIDE DEF Same
<1>4. \A k \in Nat : k \in S
  <2>1. 0 \in S
    BY <1>2
  <2>2. ASSUME NEW k \in Nat, k \in S  PROVE k + 1 \in S
    <3>1. k + 1 <= Len(s) => k <= Len(s)
      OBVIOUS
    <3>. QED  BY <1>3, <2>2, <3>1
  <2> HIDE DEF S
  <2>. QED  BY <2>1, <2>2, InductiveSet
<1>5. Same(Len(s))
  BY <1>4
<1>6. Select(s, at) \in Seq(V)
  BY SelectType
<1>7. DOMAIN Select(s, at) = 1 .. Len(r[Len(s)])
  BY <1>1, <1>6
<1>. QED  BY <1>1, <1>5, <1>7 DEF Same
----------------------------------------------------------------------------
(***************************************************************************)
(* FlattenSeq and Reverse                                                  *)
(***************************************************************************)
\* r[i] is the concatenation of the first i sequences.
Flattens(ss, V, r) ==
    /\ r \in [0 .. Len(ss) -> Seq(V)]
    /\ r[0] = <<>>
    /\ \A i \in 1 .. Len(ss) : r[i] = r[i - 1] \o ss[i]

\* FlattenSeq concatenates from left to right.
LEMMA FlattenUnfold ==
    ASSUME NEW V, NEW ss \in Seq(Seq(V))
    PROVE  \E r : Flattens(ss, V, r) /\ FlattenSeq(ss) = r[Len(ss)]
<1>1. PICK n \in Nat : n = Len(ss)
  OBVIOUS
<1> DEFINE W == Seq(V)
           g == [p \in (1 .. n) \X W |-> p[2] \o ss[p[1]]]
<1>2. /\ <<>> \in W
      /\ \A i \in 1 .. n : ss[i] \in W
      /\ \A x, y \in W : x \o y \in W /\ <<>> \o x = x
  BY <1>1
<1> HIDE DEF W
<1>3. g \in [(1 .. n) \X W -> W] /\ \A i \in 1 .. n, x \in W : g[<<i, x>>] = x \o ss[i]
  BY <1>2
<1> HIDE DEF g
<1>4. PICK r : IsFold(n, W, <<>>, g, r)
  BY <1>2, <1>3, FoldDefined
<1>5. /\ r \in [0 .. n -> W] /\ r[0] = <<>>
      /\ \A i \in 1 .. n : r[i] = r[i - 1] \o ss[i]
  <2>1. \A i \in 1 .. n : i - 1 \in 0 .. n
    OBVIOUS
  <2>. QED  BY <1>3, <1>4, <2>1 DEF IsFold
<1>6. Flattens(ss, V, r)
  BY <1>1, <1>5 DEF Flattens, W
<1>7. CASE n = 0
  <2>1. Len(ss) = 0
    BY <1>1, <1>7
  <2>2. FlattenSeq(ss) = ss
    BY <2>1 DEF FlattenSeq
  <2>3. ss = <<>>
    BY <2>1, EmptySeq
  <2>. QED  BY <1>1, <1>5, <1>6, <1>7, <2>2, <2>3
<1>8. CASE n # 0
  <2> DEFINE Eq(f) == f = [i \in 1 .. Len(ss) |-> IF i = 1 THEN ss[i] ELSE f[i - 1] \o ss[i]]
             f0 == [i \in 1 .. n |-> r[i]]
  <2>1. ASSUME NEW i \in 1 .. n
        PROVE  f0[i] = IF i = 1 THEN ss[i] ELSE f0[i - 1] \o ss[i]
    <3>1. CASE i = 1
      <4>0. i - 1 = 0
        BY <3>1
      <4>1. i - 1 = 0 /\ r[i] = r[i - 1] \o ss[i]
        BY <1>5, <4>0
      <4>2. r[i] = <<>> \o ss[i]
        BY <1>5, <4>1
      <4>. QED  BY <1>2, <3>1, <4>2
    <3>2. CASE i # 1
      <4>1. i - 1 \in 1 .. n
        BY <3>2
      <4>2. f0[i - 1] = r[i - 1]
        BY <4>1
      <4>. QED  BY <1>5, <3>2, <4>2
    <3>. QED  BY <3>1, <3>2
  <2>2. Eq(f0)
    <3>1. f0 = [i \in 1 .. n |-> f0[i]]
      OBVIOUS
    <3> HIDE DEF f0
    <3>. QED  BY <1>1, <2>1, <3>1
  <2> HIDE DEF f0
  <2>3. PICK f : Eq(f) /\ FlattenSeq(ss) = f[Len(ss)]
    BY <1>1, <1>8, <2>2 DEF FlattenSeq
  <2> DEFINE S == {k \in Nat : k + 1 <= n => f[k + 1] = r[k + 1]}
  <2>4. \A i \in 1 .. n : f[i] = IF i = 1 THEN ss[i] ELSE f[i - 1] \o ss[i]
    BY <1>1, <2>3
  <2> HIDE DEF Eq
  <2>5. 0 \in S
    <3>1. 1 \in 1 .. n /\ 1 - 1 = 0 /\ 0 + 1 = 1
      BY <1>8
    <3>2. f[1] = ss[1] /\ r[1] = <<>> \o ss[1]
      BY <1>5, <2>4, <3>1
    <3>3. f[1] = r[1]
      BY <1>2, <3>1, <3>2
    <3>. QED  BY <3>1, <3>3
  <2>6. ASSUME NEW k \in Nat, k \in S  PROVE k + 1 \in S
    <3> SUFFICES ASSUME k + 1 + 1 <= n  PROVE f[k + 1 + 1] = r[k + 1 + 1]
      OBVIOUS
    <3>1. PICK j \in 1 .. n : j = k + 1 + 1
      OBVIOUS
    <3>2. j # 1 /\ j - 1 = k + 1
      BY <3>1
    <3>3. f[k + 1] = r[k + 1]
      BY <2>6
    <3>4. f[j] = f[j - 1] \o ss[j] /\ r[j] = r[j - 1] \o ss[j]
      BY <1>5, <2>4, <3>2
    <3>5. f[j] = r[j]
      BY <3>2, <3>3, <3>4
    <3>. QED  BY <3>1, <3>5
  <2> HIDE DEF S
  <2>7. \A k \in Nat : k \in S
    BY <2>5, <2>6, InductiveSet
  <2>8. PICK k \in Nat : k + 1 = n
    <3>1. n - 1 \in Nat /\ n - 1 + 1 = n
      BY <1>8
    <3>. QED  BY <3>1
  <2>9. f[n] = r[n]
    BY <2>7, <2>8 DEF S
  <2>. QED  BY <1>1, <1>6, <2>3, <2>9
<1>. QED  BY <1>7, <1>8

\* The concatenation is a sequence of the same kind.
LEMMA FlattenType ==
    ASSUME NEW V, NEW ss \in Seq(Seq(V))
    PROVE  FlattenSeq(ss) \in Seq(V)
<1>1. PICK r : Flattens(ss, V, r) /\ FlattenSeq(ss) = r[Len(ss)]
  BY FlattenUnfold
<1>. QED  BY <1>1 DEF Flattens

\* Flattening a concatenation.
LEMMA FlattenConcat ==
    ASSUME NEW V, NEW s \in Seq(Seq(V)), NEW t \in Seq(Seq(V))
    PROVE  FlattenSeq(s \o t) = FlattenSeq(s) \o FlattenSeq(t)
<1> DEFINE st == s \o t
<1>1. /\ st \in Seq(Seq(V)) /\ Len(st) = Len(s) + Len(t)
      /\ \A i \in 1 .. Len(s) : st[i] = s[i]
      /\ \A i \in 1 .. Len(t) : st[Len(s) + i] = t[i]
  OBVIOUS
<1> HIDE DEF st
<1>2. PICK r : Flattens(st, V, r) /\ FlattenSeq(st) = r[Len(st)]
  BY <1>1, FlattenUnfold
<1>3. PICK p : Flattens(s, V, p) /\ FlattenSeq(s) = p[Len(s)]
  BY FlattenUnfold
<1>4. PICK q : Flattens(t, V, q) /\ FlattenSeq(t) = q[Len(t)]
  BY FlattenUnfold
<1>5. PICK m \in Nat : m = Len(s)
  OBVIOUS
<1>6. PICK n \in Nat : n = Len(t)
  OBVIOUS
<1>7. /\ \A i \in 0 .. m : p[i] \in Seq(V)
      /\ \A i \in 0 .. n : q[i] \in Seq(V)
      /\ p[0] = <<>> /\ q[0] = <<>> /\ r[0] = <<>>
  BY <1>2, <1>3, <1>4, <1>5, <1>6 DEF Flattens
<1> DEFINE S == {k \in Nat : k <= m => r[k] = p[k]}
<1>8. 0 \in S
  BY <1>7
<1>9. ASSUME NEW k \in Nat, k \in S  PROVE k + 1 \in S
  <2> SUFFICES ASSUME k + 1 <= m  PROVE r[k + 1] = p[k + 1]
    OBVIOUS
  <2>1. PICK j \in 1 .. m : j = k + 1
    OBVIOUS
  <2>2. j \in 1 .. Len(st) /\ j \in 1 .. Len(s)
    BY <1>1, <1>5
  <2>3. r[j] = r[j - 1] \o st[j]
    BY <1>2, <2>2 DEF Flattens
  <2>4. p[j] = p[j - 1] \o s[j]
    BY <1>3, <2>2 DEF Flattens
  <2>5. j - 1 = k /\ r[k] = p[k]
    <3>1. j - 1 = k /\ k <= m
      BY <2>1
    <3>. QED  BY <1>9, <3>1
  <2>6. st[j] = s[j]
    BY <1>1, <2>2
  <2>7. r[j] = p[j]
    BY <2>3, <2>4, <2>5, <2>6
  <2>. QED  BY <2>1, <2>7
<1> HIDE DEF S
<1>10. \A k \in Nat : k \in S
  BY <1>8, <1>9, InductiveSet
<1>11. r[m] = p[m]
  BY <1>10 DEF S
<1> DEFINE Same(k) == r[m + k] = p[m] \o q[k]
           T == {k \in Nat : k <= n => Same(k)}
<1>12. Same(0)
  <2>1. p[m] \o <<>> = p[m] /\ m + 0 = m
    BY <1>7
  <2>. QED  BY <1>7, <1>11, <2>1
<1>13. ASSUME NEW k \in Nat, k + 1 <= n, Same(k)  PROVE Same(k + 1)
  <2>1. PICK j \in 1 .. n : j = k + 1
    BY <1>13
  <2>2. PICK l \in 1 .. Len(st) : l = m + j
    <3>1. Len(st) = m + n
      BY <1>1, <1>5, <1>6
    <3>2. m + j \in 1 .. (m + n)
      OBVIOUS
    <3>. QED  BY <3>1, <3>2
  <2>3. r[l] = r[l - 1] \o st[l]
    BY <1>2 DEF Flattens
  <2>4. q[j] = q[j - 1] \o t[j]
    BY <1>4, <1>6 DEF Flattens
  <2>5. j - 1 = k /\ l - 1 = m + k
    BY <2>1, <2>2
  <2>6. st[l] = t[j] /\ t[j] \in Seq(V)
    BY <1>1, <1>5, <1>6, <2>2
  <2>7. p[m] \in Seq(V) /\ q[k] \in Seq(V)
    BY <1>7, <2>1
  <2>8. PICK x \in Seq(V) : x = p[m]
    BY <2>7
  <2>9. PICK y \in Seq(V) : y = q[k]
    BY <2>7
  <2>10. PICK e \in Seq(V) : e = t[j]
    BY <2>6
  <2>11. (x \o y) \o e = x \o (y \o e)
    OBVIOUS
  <2>12. r[l - 1] = x \o y
    BY <1>13, <2>5, <2>8, <2>9
  <2>13. r[l] = x \o q[j]
    BY <2>3, <2>4, <2>5, <2>6, <2>9, <2>10, <2>11, <2>12
  <2>. QED  BY <2>1, <2>2, <2>8, <2>13
<1> HIDE DEF Same
<1>14. \A k \in Nat : k \in T
  <2>1. 0 \in T
    BY <1>12
  <2>2. ASSUME NEW k \in Nat, k \in T  PROVE k + 1 \in T
    <3>1. k + 1 <= n => k <= n
      OBVIOUS
    <3>. QED  BY <1>13, <2>2, <3>1
  <2> HIDE DEF T
  <2>. QED  BY <2>1, <2>2, InductiveSet
<1>15. Same(n)
  BY <1>14
<1>16. r[m + n] = p[m] \o q[n]
  BY <1>15 DEF Same
<1>. QED  BY <1>1, <1>2, <1>3, <1>4, <1>5, <1>6, <1>16 DEF st

\* Nothing, and a single sequence, flattened.
LEMMA FlattenFew ==
    ASSUME NEW V
    PROVE  /\ FlattenSeq(<<>>) = <<>>
           /\ \A s \in Seq(V) : FlattenSeq(<<s>>) = s
<1>1. FlattenSeq(<<>>) = <<>>
  <2>1. <<>> \in Seq(Seq(V)) /\ Len(<<>>) = 0
    OBVIOUS
  <2>2. PICK r : Flattens(<<>>, V, r) /\ FlattenSeq(<<>>) = r[Len(<<>>)]
    BY <2>1, FlattenUnfold
  <2>. QED  BY <2>1, <2>2 DEF Flattens
<1>2. ASSUME NEW s \in Seq(V)  PROVE FlattenSeq(<<s>>) = s
  <2>1. PICK ss : ss = <<s>>
    OBVIOUS
  <2>2. ss \in Seq(Seq(V)) /\ Len(ss) = 1 /\ ss[1] = s
    BY <2>1
  <2>3. PICK r : Flattens(ss, V, r) /\ FlattenSeq(ss) = r[Len(ss)]
    BY <2>2, FlattenUnfold
  <2>4. 1 \in 1 .. Len(ss) /\ 1 - 1 = 0
    BY <2>2
  <2>5. r[1] = r[0] \o ss[1] /\ r[0] = <<>>
    BY <2>3, <2>4 DEF Flattens
  <2>6. <<>> \o s = s
    OBVIOUS
  <2>. QED  BY <2>1, <2>2, <2>3, <2>5, <2>6
<1>. QED  BY <1>1, <1>2

\* One more sequence at either end.
LEMMA FlattenEnds ==
    ASSUME NEW V, NEW ss \in Seq(Seq(V)), NEW s \in Seq(V)
    PROVE  /\ FlattenSeq(Append(ss, s)) = FlattenSeq(ss) \o s
           /\ FlattenSeq(<<s>> \o ss) = s \o FlattenSeq(ss)
<1>1. <<s>> \in Seq(Seq(V))
  OBVIOUS
<1>2. PICK one \in Seq(Seq(V)) : one = <<s>>
  BY <1>1
<1>3. FlattenSeq(one) = s
  BY <1>2, FlattenFew
<1>4. Append(ss, s) = ss \o one
  BY <1>2, AppendIsConcat
<1>5. FlattenSeq(ss \o one) = FlattenSeq(ss) \o FlattenSeq(one)
  BY FlattenConcat
<1>6. FlattenSeq(one \o ss) = FlattenSeq(one) \o FlattenSeq(ss)
  BY FlattenConcat
<1>. QED  BY <1>2, <1>3, <1>4, <1>5, <1>6

\* Reversing a concatenation.
LEMMA ReverseType ==
    ASSUME NEW V, NEW s \in Seq(V)
    PROVE  /\ Reverse(s) \in Seq(V) /\ Len(Reverse(s)) = Len(s)
           /\ \A i \in 1 .. Len(s) : Reverse(s)[i] = s[Len(s) - i + 1]
<1>1. \A i \in 1 .. Len(s) : s[Len(s) - i + 1] \in V
  <2>1. \A i \in 1 .. Len(s) : Len(s) - i + 1 \in 1 .. Len(s)
    OBVIOUS
  <2>. QED  BY <2>1
<1>. QED  BY <1>1 DEF Reverse

\* Reversing a concatenation.
LEMMA ReverseOfConcat ==
    ASSUME NEW V, NEW s \in Seq(V), NEW t \in Seq(V)
    PROVE  Reverse(s \o t) = Reverse(t) \o Reverse(s)
<1>1. PICK u \in Seq(V) : u = s \o t
  <2>1. s \o t \in Seq(V)
    OBVIOUS
  <2>. QED  BY <2>1
<1>2. PICK a \in Seq(V) : a = Reverse(t)
  BY ReverseType
<1>3. PICK b \in Seq(V) : b = Reverse(s)
  BY ReverseType
<1>4. PICK m \in Nat : m = Len(s)
  OBVIOUS
<1>5. PICK n \in Nat : n = Len(t)
  OBVIOUS
<1>6. /\ Len(a) = n /\ \A i \in 1 .. n : a[i] = t[n - i + 1]
  BY <1>2, <1>5, ReverseType
<1>7. /\ Len(b) = m /\ \A i \in 1 .. m : b[i] = s[m - i + 1]
  BY <1>3, <1>4, ReverseType
<1>8. PICK c \in Seq(V) : c = Reverse(u)
  BY ReverseType
<1>9. Len(u) = m + n
  BY <1>1, <1>4, <1>5
<1>10. Len(c) = m + n /\ \A i \in 1 .. (m + n) : c[i] = u[m + n - i + 1]
  <2>1. Len(c) = Len(u) /\ \A i \in 1 .. Len(u) : c[i] = u[Len(u) - i + 1]
    BY <1>8, ReverseType
  <2>. QED  BY <1>9, <2>1
<1>11. a \o b \in Seq(V) /\ Len(a \o b) = m + n
  <2>1. a \o b \in Seq(V) /\ Len(a \o b) = Len(a) + Len(b)
    OBVIOUS
  <2>. QED  BY <1>6, <1>7, <2>1
<1>12. ASSUME NEW i \in 1 .. (m + n)  PROVE c[i] = (a \o b)[i]
  <2>1. CASE i <= n
    <3>1. i \in 1 .. n /\ (a \o b)[i] = a[i]
      BY <1>6, <1>7, <2>1
    <3>2. PICK j \in 1 .. n : j = n - i + 1
      BY <2>1
    <3>3. u[m + j] = t[j]
      BY <1>1, <1>4, <1>5
    <3>4. m + n - i + 1 = m + j
      BY <3>2
    <3>. QED  BY <1>6, <1>10, <3>1, <3>2, <3>3, <3>4
  <2>2. CASE i > n
    <3>1. PICK k \in 1 .. m : k = i - n
      BY <2>2
    <3>2. (a \o b)[i] = b[k]
      <4>1. Len(a) = n /\ Len(b) = m /\ i = n + k
        BY <1>6, <1>7, <3>1
      <4>2. \A l \in 1 .. Len(b) : (a \o b)[Len(a) + l] = b[l]
        OBVIOUS
      <4>. QED  BY <4>1, <4>2
    <3>3. PICK j \in 1 .. m : j = m - k + 1
      OBVIOUS
    <3>4. u[j] = s[j]
      BY <1>1, <1>4, <1>5
    <3>5. m + n - i + 1 = j
      BY <3>1, <3>3
    <3>. QED  BY <1>7, <1>10, <3>2, <3>3, <3>4, <3>5
  <2>3. i <= n \/ i > n
    OBVIOUS
  <2>. QED  BY <2>1, <2>2, <2>3
<1>13. c = a \o b
  BY <1>10, <1>11, <1>12, SeqEqual
<1>. QED  BY <1>1, <1>2, <1>3, <1>8, <1>13
----------------------------------------------------------------------------
(***************************************************************************)
(* The shape of the state                                                  *)
(***************************************************************************)
Messages == [file : Path, line : Nat, cat : Category, conf : Nat]
Notes    == [note : STRING, file : Path]
Reports  == [errors : Seq(Notes), testcases : Seq(Seq(Messages))]
Keys     == Category \cup {TopLevel(c) : c \in Category}
Counts   == UNION {[S -> {n \in Nat : n > 0}] :
                     S \in {T \in SUBSET Keys : IsFiniteSet(T)}}
Totals   == [total : Nat, categories : Counts]
Read     == [ignore : BOOLEAN, keepLooking : BOOLEAN, filters : Seq(Seq(Filter)),
             settings : Settings, notes : Seq(Notes)]

\* One option of a CPPLINT.cfg keeps what has been read well-formed.
LEMMA ReadOptionType ==
    ASSUME NEW acc \in Read, NEW opt, OptionOK(opt), NEW dir \in Seq(STRING), NEW base,
           file \in Path
    PROVE  ReadOption(acc, opt, dir, base) \in Read
<1>1. ReadSetting(acc.settings, opt, dir) \in Settings
  <2>0. PICK s \in Settings : s = acc.settings
    BY DEF Read
  <2>1. CASE opt.name = "linelength"
    BY <2>0, <2>1 DEF ReadSetting, OptionOK, Settings
  <2>2. CASE opt.name = "extensions"
    BY <2>0, <2>2 DEF ReadSetting, OptionOK, Settings, ProcessExtensionsOption
  <2>3. CASE opt.name = "headers"
    BY <2>0, <2>3 DEF ReadSetting, OptionOK, Settings, ProcessHppHeadersOption
  <2>4. CASE opt.name = "root"
    <3>1. dir \o opt.val \in Seq(STRING)
      BY <2>4 DEF OptionOK
    <3>. QED  BY <2>0, <2>4, <3>1 DEF ReadSetting, Settings
  <2>. QED  BY <2>0, <2>1, <2>2, <2>3, <2>4 DEF ReadSetting
<1>2. /\ acc.filters \in Seq(Seq(Filter))
      /\ opt.name = "filter" => Append(acc.filters, opt.val) \in Seq(Seq(Filter))
  BY DEF Read, OptionOK
<1>3. acc.notes \in Seq(Notes) /\ Append(acc.notes, Note("option")) \in Seq(Notes)
  <2>1. Note("option") \in Notes
    BY StringAssumption DEF Note, Notes
  <2>. QED  BY <2>1 DEF Read
<1>4. /\ (opt.name = "exclude_files" /\ base \in opt.val) \in BOOLEAN
      /\ (acc.keepLooking /\ opt.name # "noparent") \in BOOLEAN
  OBVIOUS
<1> DEFINE ign == opt.name = "exclude_files" /\ base \in opt.val
           keep == acc.keepLooking /\ opt.name # "noparent"
           fs == IF opt.name = "filter" THEN Append(acc.filters, opt.val) ELSE acc.filters
           ns == IF opt.name \in KnownOptions THEN acc.notes
                 ELSE Append(acc.notes, Note("option"))
           st == ReadSetting(acc.settings, opt, dir)
<1>5. ign \in BOOLEAN /\ keep \in BOOLEAN /\ fs \in Seq(Seq(Filter)) /\ ns \in Seq(Notes)
      /\ st \in Settings
  BY <1>1, <1>2, <1>3, <1>4
<1>6. ReadOption(acc, opt, dir, base) =
         IF acc.ignore THEN acc
         ELSE [ignore |-> ign, keepLooking |-> keep, filters |-> fs, settings |-> st,
               notes |-> ns]
  BY DEF ReadOption
<1> HIDE DEF ign, keep, fs, ns, st
<1>7. [ignore |-> ign, keepLooking |-> keep, filters |-> fs, settings |-> st,
       notes |-> ns] \in Read
  BY <1>5 DEF Read
<1>. QED  BY <1>6, <1>7

\* What is read before the first line.
ReadNothing == [ignore |-> FALSE, keepLooking |-> TRUE, filters |-> cfgFilters,
                settings |-> settings, notes |-> <<>>]

\* r[i] is what the first i options make of it.
Reads(opts, dir, base, r) ==
    /\ r \in [0 .. Len(opts) -> Read]
    /\ r[0] = ReadNothing
    /\ \A i \in 1 .. Len(opts) : r[i] = ReadOption(r[i - 1], opts[i], dir, base)

\* ReadOptions is a fold over the options.
LEMMA ReadOptionsUnfold ==
    ASSUME NEW opts, Len(opts) \in Nat, DOMAIN opts = 1 .. Len(opts),
           \A i \in DOMAIN opts : OptionOK(opts[i]),
           NEW dir \in Seq(STRING), NEW base, file \in Path,
           cfgFilters \in Seq(Seq(Filter)), settings \in Settings
    PROVE  \E r : Reads(opts, dir, base, r) /\ ReadOptions(opts, dir, base) = r[Len(opts)]
<1> DEFINE n == Len(opts)
           W == Read
           b == ReadNothing
           Step(w, i) == ReadOption(w, opts[i], dir, base)
           g == [p \in (1 .. n) \X W |-> Step(p[2], p[1])]
           Eq(it) == it = [S \in SUBSET (1 .. n) |->
                IF S = {} THEN b ELSE Step(it[S \ {Max(S)}], Max(S))]
<1>1. n \in Nat /\ DOMAIN opts = 1 .. n /\ b \in W
  <2>1. <<>> \in Seq(Notes) /\ FALSE \in BOOLEAN /\ TRUE \in BOOLEAN
    OBVIOUS
  <2>. QED  BY <2>1 DEF ReadNothing, Read
<1>2. \A w \in W, i \in 1 .. n : Step(w, i) \in W
  BY ReadOptionType
<1>. HIDE DEF n, W, b
<1>3. g \in [(1 .. n) \X W -> W]
  <2> HIDE DEF Step
  <2>. QED  BY <1>2
<1>4. \A w \in W, i \in 1 .. n : g[<<i, w>>] = Step(w, i)
  OBVIOUS
<1>. HIDE DEF g
<1>5. PICK it \in [SUBSET (1 .. n) -> W] : FoldsSets(n, b, g, it)
  BY <1>1, <1>3, FoldExists
<1>6. Eq(it)
  <2>. HIDE DEF Step
  <2>1. ASSUME NEW S \in SUBSET (1 .. n), S # {}
        PROVE  it[S] = Step(it[S \ {Max(S)}], Max(S))
    <3>1. Max(S) \in 1 .. n /\ S \ {Max(S)} \in SUBSET (1 .. n)
      BY <1>1, <2>1, MaxOfPositions
    <3>2. it[S] = g[<<Max(S), it[S \ {Max(S)}]>>] /\ it[S \ {Max(S)}] \in W
      BY <1>5, <2>1, <3>1 DEF FoldsSets
    <3>. QED  BY <1>4, <3>1, <3>2
  <2>2. it[{}] = b
    BY <1>5 DEF FoldsSets
  <2>3. \A S \in SUBSET (1 .. n) : it[S] =
           IF S = {} THEN b ELSE Step(it[S \ {Max(S)}], Max(S))
    BY <2>1, <2>2
  <2>. QED  BY <1>5, <2>3
<1>7. PICK fold : Eq(fold) /\ ReadOptions(opts, dir, base) = fold[1 .. n]
  BY <1>1, <1>6 DEF ReadOptions, ReadNothing, FoldLeft, MapThenFoldSet, b
<1>8. FoldsTo(n, W, b, g, fold[1 .. n])
  <2>1. fold[{}] = b
    BY <1>7
  <2>2. ASSUME NEW S \in SUBSET (1 .. n), S # {}, fold[S \ {Max(S)}] \in W
        PROVE  fold[S] = g[<<Max(S), fold[S \ {Max(S)}]>>]
    <3>1. fold[S] = Step(fold[S \ {Max(S)}], Max(S))
      BY <1>7, <2>2
    <3>2. Max(S) \in 1 .. n
      BY <1>1, <2>2, MaxOfPositions
    <3>. HIDE DEF Step
    <3>3. g[<<Max(S), fold[S \ {Max(S)}]>>] = Step(fold[S \ {Max(S)}], Max(S))
      BY <1>4, <2>2, <3>2, Zenon
    <3>. QED  BY <3>1, <3>3
  <2>. HIDE DEF Step
  <2>3. \A S \in SUBSET (1 .. n) : S # {} /\ fold[S \ {Max(S)}] \in W =>
            fold[S] = g[<<Max(S), fold[S \ {Max(S)}]>>]
    BY <2>2, Zenon
  <2>4. FoldsWithin(n, W, b, g, fold)
    BY <2>1, <2>3 DEF FoldsWithin
  <2>. QED  BY <1>1, <1>3, <2>4, FoldWalks
<1>9. PICK r : IsFold(n, W, b, g, r) /\ fold[1 .. n] = r[n]
  BY <1>8 DEF FoldsTo
<1>10. ASSUME NEW i \in 1 .. n  PROVE r[i] = Step(r[i - 1], i)
  <2>1. i - 1 \in 0 .. n /\ r[i - 1] \in W /\ r[i] = g[<<i, r[i - 1]>>]
    BY <1>1, <1>9 DEF IsFold
  <2>. HIDE DEF Step
  <2>. QED  BY <1>4, <2>1
<1>. QED  BY <1>7, <1>9, <1>10 DEF IsFold, Reads, n, W, b

\* r[i] are the files of the first i messages, each once.
Names(fails, r) ==
    /\ r \in [0 .. Len(fails) -> Seq(Path)]
    /\ r[0] = <<>>
    /\ \A i \in 1 .. Len(fails) :
          r[i] = IF Contains(r[i - 1], fails[i].file) THEN r[i - 1]
                 ELSE Append(r[i - 1], fails[i].file)

\* FailedFiles is a fold over the failures.
LEMMA FailedFilesUnfold ==
    ASSUME junitFailures \in Seq(Messages)
    PROVE  \E r : Names(junitFailures, r) /\ FailedFiles = r[Len(junitFailures)]
<1> DEFINE n == Len(junitFailures)
           W == Seq(Path)
           b == <<>>
           Step(w, i) == IF Contains(w, junitFailures[i].file) THEN w
                         ELSE Append(w, junitFailures[i].file)
           g == [p \in (1 .. n) \X W |-> Step(p[2], p[1])]
           Eq(it) == it = [S \in SUBSET (1 .. n) |->
                IF S = {} THEN b ELSE Step(it[S \ {Max(S)}], Max(S))]
<1>1. n \in Nat /\ DOMAIN junitFailures = 1 .. n /\ b \in W
  OBVIOUS
<1>2. \A w \in W, i \in 1 .. n : Step(w, i) \in W
  <2>1. \A i \in 1 .. n : junitFailures[i] \in Messages
    OBVIOUS
  <2>2. \A i \in 1 .. n : junitFailures[i].file \in Path
    BY <2>1 DEF Messages
  <2>. QED  BY <2>2
<1>. HIDE DEF n, W, b
<1>3. g \in [(1 .. n) \X W -> W]
  <2> HIDE DEF Step
  <2>. QED  BY <1>2
<1>4. \A w \in W, i \in 1 .. n : g[<<i, w>>] = Step(w, i)
  OBVIOUS
<1>. HIDE DEF g
<1>5. PICK it \in [SUBSET (1 .. n) -> W] : FoldsSets(n, b, g, it)
  BY <1>1, <1>3, FoldExists
<1>6. Eq(it)
  <2>. HIDE DEF Step
  <2>1. ASSUME NEW S \in SUBSET (1 .. n), S # {}
        PROVE  it[S] = Step(it[S \ {Max(S)}], Max(S))
    <3>1. Max(S) \in 1 .. n /\ S \ {Max(S)} \in SUBSET (1 .. n)
      BY <1>1, <2>1, MaxOfPositions
    <3>2. it[S] = g[<<Max(S), it[S \ {Max(S)}]>>] /\ it[S \ {Max(S)}] \in W
      BY <1>5, <2>1, <3>1 DEF FoldsSets
    <3>. QED  BY <1>4, <3>1, <3>2
  <2>2. it[{}] = b
    BY <1>5 DEF FoldsSets
  <2>3. \A S \in SUBSET (1 .. n) : it[S] =
           IF S = {} THEN b ELSE Step(it[S \ {Max(S)}], Max(S))
    BY <2>1, <2>2
  <2>. QED  BY <1>5, <2>3
<1>7. PICK fold : Eq(fold) /\ FailedFiles = fold[1 .. n]
  BY <1>1, <1>6 DEF FailedFiles, FoldLeft, MapThenFoldSet, b
<1>8. FoldsTo(n, W, b, g, fold[1 .. n])
  <2>1. fold[{}] = b
    BY <1>7
  <2>2. ASSUME NEW S \in SUBSET (1 .. n), S # {}, fold[S \ {Max(S)}] \in W
        PROVE  fold[S] = g[<<Max(S), fold[S \ {Max(S)}]>>]
    <3>1. fold[S] = Step(fold[S \ {Max(S)}], Max(S))
      BY <1>7, <2>2
    <3>2. Max(S) \in 1 .. n
      BY <1>1, <2>2, MaxOfPositions
    <3>. HIDE DEF Step
    <3>3. g[<<Max(S), fold[S \ {Max(S)}]>>] = Step(fold[S \ {Max(S)}], Max(S))
      BY <1>4, <2>2, <3>2, Zenon
    <3>. QED  BY <3>1, <3>3
  <2>. HIDE DEF Step
  <2>3. \A S \in SUBSET (1 .. n) : S # {} /\ fold[S \ {Max(S)}] \in W =>
            fold[S] = g[<<Max(S), fold[S \ {Max(S)}]>>]
    BY <2>2, Zenon
  <2>4. FoldsWithin(n, W, b, g, fold)
    BY <2>1, <2>3 DEF FoldsWithin
  <2>. QED  BY <1>1, <1>3, <2>4, FoldWalks
<1>9. PICK r : IsFold(n, W, b, g, r) /\ fold[1 .. n] = r[n]
  BY <1>8 DEF FoldsTo
<1>10. ASSUME NEW i \in 1 .. n  PROVE r[i] = Step(r[i - 1], i)
  <2>1. i - 1 \in 0 .. n /\ r[i - 1] \in W /\ r[i] = g[<<i, r[i - 1]>>]
    BY <1>1, <1>9 DEF IsFold
  <2>. HIDE DEF Step
  <2>. QED  BY <1>4, <2>1
<1>. QED  BY <1>7, <1>9, <1>10 DEF IsFold, Names, n, W, b

\* How often key is counted in the bag, and how much all keys together.
Copies(bag, key) == IF key \in DOMAIN bag THEN bag[key] ELSE 0
Total(bag) == SumFunctionOnSet(bag, DOMAIN bag)

\* Counting a key once more.
Counting(bag, key, new) ==
    /\ new \in Counts
    /\ \A c : Copies(new, c) = Copies(bag, c) + (IF c = key THEN 1 ELSE 0)
    /\ Total(new) = Total(bag) + 1

\* The members of Counts are bags over finitely many keys.
LEMMA CountsAre ==
    ASSUME NEW bag
    PROVE  bag \in Counts <=> /\ bag \in [DOMAIN bag -> {n \in Nat : n > 0}]
                              /\ DOMAIN bag \subseteq Keys /\ IsFiniteSet(DOMAIN bag)
BY DEF Counts

\* IncrementErrorCount adds one to its key and to the total.
LEMMA CountOne ==
    ASSUME NEW bag \in Counts, NEW key \in Keys
    PROVE  Counting(bag, key, bag (+) SetToBag({key}))
<1> DEFINE new == bag (+) SetToBag({key})
           A == DOMAIN bag
           B == A \ {key}
<1>1. bag \in [A -> {n \in Nat : n > 0}] /\ A \subseteq Keys /\ IsFiniteSet(A)
  BY CountsAre
<1>2. new = [e \in A \cup {key} |-> (IF e \in A THEN bag[e] ELSE 0)
                                     + (IF e = key THEN 1 ELSE 0)]
  <2>1. DOMAIN SetToBag({key}) = {key} /\ SetToBag({key})[key] = 1
    BY DEF SetToBag
  <2>2. new = [e \in A \cup DOMAIN SetToBag({key}) |->
                  (IF e \in A THEN bag[e] ELSE 0)
                  + (IF e \in DOMAIN SetToBag({key}) THEN SetToBag({key})[e] ELSE 0)]
    BY DEF (+)
  <2> HIDE DEF A, new
  <2>. QED  BY <2>1, <2>2
<1>3. \A e \in A : bag[e] \in Nat /\ bag[e] > 0
  BY <1>1
<1>4. DOMAIN new = A \cup {key} /\ \A e \in A \cup {key} : new[e] \in Nat /\ new[e] > 0
  <2> HIDE DEF A, new
  <2>. QED  BY <1>2, <1>3
<1>5. /\ \A e \in B : new[e] = bag[e]
      /\ key \in A => new[key] = bag[key] + 1
      /\ key \notin A => new[key] = 1
  <2> HIDE DEF A, new
  <2>. QED  BY <1>2, <1>3
<1> HIDE DEF new
<1>6. IsFiniteSet(B) /\ key \notin B /\ A \cup {key} = B \cup {key} /\ (key \in A => A = B \cup {key})
      /\ (key \notin A => A = B) /\ IsFiniteSet(A \cup {key})
  BY <1>1, FS_RemoveElement, FS_AddElement
<1>7. new \in Counts
  <2>1. new \in [DOMAIN new -> {n \in Nat : n > 0}]
    <3>1. new = [e \in DOMAIN new |-> new[e]]
      BY <1>2
    <3>. QED  BY <1>4, <3>1
  <2>. QED  BY <1>1, <1>4, <1>6, <2>1, CountsAre
<1>8. \A c : Copies(new, c) = Copies(bag, c) + (IF c = key THEN 1 ELSE 0)
  <2> HIDE DEF A
  <2>1. ASSUME NEW c  PROVE Copies(new, c) = Copies(bag, c) + (IF c = key THEN 1 ELSE 0)
    <3>1. CASE c = key
      BY <1>3, <1>4, <1>5, <3>1 DEF Copies, A
    <3>2. CASE c # key
      BY <1>3, <1>4, <1>5, <3>2 DEF Copies, A
    <3>. QED  BY <3>1, <3>2
  <2>. QED  BY <2>1
<1>9. Total(new) = Total(bag) + 1
  <2>1. \A x \in B : bag[x] \in Int
    BY <1>3
  <2>2. SumFunctionOnSet(new, B \cup {key}) = new[key] + SumFunctionOnSet(bag, B)
    <3>1. new[key] \in Int
      BY <1>4
    <3> HIDE DEF A, B
    <3>. QED  BY <1>5, <1>6, <2>1, <3>1, SumAdd
  <2>3. SumFunctionOnSet(bag, B) \in Int
    <3> HIDE DEF A, B
    <3>. QED  BY <1>6, <2>1, SumType
  <2>4. CASE key \in A
    <3>1. SumFunctionOnSet(bag, B \cup {key}) = bag[key] + SumFunctionOnSet(bag, B)
      <4>1. bag[key] \in Int
        BY <1>3, <2>4
      <4> HIDE DEF A, B
      <4>. QED  BY <1>6, <2>1, <4>1, SumAdd
    <3>2. bag[key] \in Int /\ new[key] = bag[key] + 1
      BY <1>3, <1>5, <2>4
    <3>3. DOMAIN new = B \cup {key} /\ DOMAIN bag = B \cup {key}
      BY <1>4, <1>6, <2>4
    <3> HIDE DEF A, B
    <3>. QED  BY <2>2, <2>3, <3>1, <3>2, <3>3 DEF Total
  <2>5. CASE key \notin A
    <3>1. DOMAIN new = B \cup {key} /\ DOMAIN bag = B /\ new[key] = 1
      BY <1>4, <1>5, <1>6, <2>5
    <3> HIDE DEF A, B
    <3>. QED  BY <2>2, <2>3, <3>1 DEF Total
  <2>. QED  BY <2>4, <2>5
<1>. QED  BY <1>7, <1>8, <1>9 DEF Counting, new

IsCounting == flags.counting \in {"toplevel", "detailed"}

\* The key of a category.
LEMMA KeyType ==
    ASSUME NEW cat \in Category
    PROVE  CountingKey(cat) \in Keys
BY DEF CountingKey, Keys

\* r[i] is the bag after the first i of the findings.
CountsUp(xs, r) ==
    /\ r \in [0 .. Len(xs) -> Counts]
    /\ r[0] = errorsByCategory
    /\ \A i \in 1 .. Len(xs) : r[i] = r[i - 1] (+) SetToBag({CountingKey(xs[i].cat)})

\* Counted is a fold over the findings.
LEMMA CountedUnfold ==
    ASSUME NEW xs \in Seq(Finding), errorsByCategory \in Counts, IsCounting
    PROVE  \E r : CountsUp(xs, r) /\ Counted(xs) = r[Len(xs)]
<1> DEFINE n == Len(xs)
           W == Counts
           b == errorsByCategory
           Step(w, i) == w (+) SetToBag({CountingKey(xs[i].cat)})
           g == [p \in (1 .. n) \X W |-> Step(p[2], p[1])]
           Eq(it) == it = [S \in SUBSET (1 .. n) |->
                IF S = {} THEN b ELSE Step(it[S \ {Max(S)}], Max(S))]
<1>1. n \in Nat /\ DOMAIN xs = 1 .. n /\ b \in W
  OBVIOUS
<1>2. \A w \in W, i \in 1 .. n : Step(w, i) \in W
  <2>1. \A i \in 1 .. n : xs[i] \in Finding
    OBVIOUS
  <2>2. \A i \in 1 .. n : CountingKey(xs[i].cat) \in Keys
    BY <2>1, KeyType DEF Finding
  <2>. QED  BY <2>2, CountOne DEF Counting
<1>. HIDE DEF n, W, b
<1>3. g \in [(1 .. n) \X W -> W]
  <2> HIDE DEF Step
  <2>. QED  BY <1>2
<1>4. \A w \in W, i \in 1 .. n : g[<<i, w>>] = Step(w, i)
  OBVIOUS
<1>. HIDE DEF g
<1>5. PICK it \in [SUBSET (1 .. n) -> W] : FoldsSets(n, b, g, it)
  BY <1>1, <1>3, FoldExists
<1>6. Eq(it)
  <2>. HIDE DEF Step
  <2>1. ASSUME NEW S \in SUBSET (1 .. n), S # {}
        PROVE  it[S] = Step(it[S \ {Max(S)}], Max(S))
    <3>1. Max(S) \in 1 .. n /\ S \ {Max(S)} \in SUBSET (1 .. n)
      BY <1>1, <2>1, MaxOfPositions
    <3>2. it[S] = g[<<Max(S), it[S \ {Max(S)}]>>] /\ it[S \ {Max(S)}] \in W
      BY <1>5, <2>1, <3>1 DEF FoldsSets
    <3>. QED  BY <1>4, <3>1, <3>2
  <2>2. it[{}] = b
    BY <1>5 DEF FoldsSets
  <2>3. \A S \in SUBSET (1 .. n) : it[S] =
           IF S = {} THEN b ELSE Step(it[S \ {Max(S)}], Max(S))
    BY <2>1, <2>2
  <2>. QED  BY <1>5, <2>3
<1>7. PICK fold : Eq(fold) /\ Counted(xs) = fold[1 .. n]
  BY <1>1, <1>6 DEF Counted, IsCounting, FoldLeft, MapThenFoldSet, b
<1>8. FoldsTo(n, W, b, g, fold[1 .. n])
  <2>1. fold[{}] = b
    BY <1>7
  <2>2. ASSUME NEW S \in SUBSET (1 .. n), S # {}, fold[S \ {Max(S)}] \in W
        PROVE  fold[S] = g[<<Max(S), fold[S \ {Max(S)}]>>]
    <3>1. fold[S] = Step(fold[S \ {Max(S)}], Max(S))
      BY <1>7, <2>2
    <3>2. Max(S) \in 1 .. n
      BY <1>1, <2>2, MaxOfPositions
    <3>. HIDE DEF Step
    <3>3. g[<<Max(S), fold[S \ {Max(S)}]>>] = Step(fold[S \ {Max(S)}], Max(S))
      BY <1>4, <2>2, <3>2, Zenon
    <3>. QED  BY <3>1, <3>3
  <2>. HIDE DEF Step
  <2>3. \A S \in SUBSET (1 .. n) : S # {} /\ fold[S \ {Max(S)}] \in W =>
            fold[S] = g[<<Max(S), fold[S \ {Max(S)}]>>]
    BY <2>2, Zenon
  <2>4. FoldsWithin(n, W, b, g, fold)
    BY <2>1, <2>3 DEF FoldsWithin
  <2>. QED  BY <1>1, <1>3, <2>4, FoldWalks
<1>9. PICK r : IsFold(n, W, b, g, r) /\ fold[1 .. n] = r[n]
  BY <1>8 DEF FoldsTo
<1>10. ASSUME NEW i \in 1 .. n  PROVE r[i] = Step(r[i - 1], i)
  <2>1. i - 1 \in 0 .. n /\ r[i - 1] \in W /\ r[i] = g[<<i, r[i - 1]>>]
    BY <1>1, <1>9 DEF IsFold
  <2>. HIDE DEF Step
  <2>. QED  BY <1>4, <2>1
<1>. QED  BY <1>7, <1>9, <1>10 DEF IsFold, CountsUp, n, W, b

\* How many of the first k messages are counted under key.
Tally(ms, k, key) == Cardinality({i \in 1 .. k : CountingKey(ms[i].cat) = key})

\* One more message adds one to the tally of its key.
LEMMA TallyOne ==
    ASSUME NEW ms, NEW k \in Nat, NEW key
    PROVE  /\ Tally(ms, k, key) \in Nat
           /\ Tally(ms, k + 1, key) =
                 Tally(ms, k, key) + (IF CountingKey(ms[k + 1].cat) = key THEN 1 ELSE 0)
<1> DEFINE C(j) == {i \in 1 .. j : CountingKey(ms[i].cat) = key}
<1>1. IsFiniteSet(C(k)) /\ k + 1 \notin C(k)
  <2>1. IsFiniteSet(1 .. k)
    BY FS_Interval
  <2>2. IsFiniteSet(C(k))
    BY <2>1, FS_Subset
  <2>. QED  BY <2>2
<1>2. Cardinality(C(k)) \in Nat
  BY <1>1, FS_CardinalityType
<1>3. CASE CountingKey(ms[k + 1].cat) = key
  <2>1. C(k + 1) = C(k) \cup {k + 1}
    BY <1>3
  <2> HIDE DEF C
  <2>2. Cardinality(C(k + 1)) = Cardinality(C(k)) + 1
    BY <1>1, <2>1, FS_AddElement
  <2>. QED  BY <1>2, <1>3, <2>2 DEF Tally, C
<1>4. CASE CountingKey(ms[k + 1].cat) # key
  <2>1. C(k + 1) = C(k)
    BY <1>4
  <2> HIDE DEF C
  <2>. QED  BY <1>2, <1>4, <2>1 DEF Tally, C
<1>. QED  BY <1>3, <1>4

\* The bag tells the tally of each key, and its total the number of messages.
Tallies(bag, ms, k) ==
    /\ Total(bag) = k
    /\ \A key : Copies(bag, key) = Tally(ms, k, key)

\* Counting findings and appending messages with their categories keep the two in
\* step.
LEMMA CountedTallies ==
    ASSUME NEW xs \in Seq(Finding), errorsByCategory \in Counts, IsCounting,
           NEW ms, NEW m \in Nat, NEW new,
           \A i \in 1 .. m : new[i] = ms[i],
           \A i \in 1 .. Len(xs) : new[m + i].cat = xs[i].cat,
           Tallies(errorsByCategory, ms, m)
    PROVE  Counted(xs) \in Counts /\ Tallies(Counted(xs), new, m + Len(xs))
<1>1. PICK r : CountsUp(xs, r) /\ Counted(xs) = r[Len(xs)]
  BY CountedUnfold
<1> DEFINE Same(k) == Tallies(r[k], new, m + k)
           S == {k \in Nat : k <= Len(xs) => Same(k)}
<1>2. Same(0)
  <2>1. \A key : Tally(new, m, key) = Tally(ms, m, key)
    BY DEF Tally
  <2>2. r[0] = errorsByCategory /\ m + 0 = m
    BY <1>1 DEF CountsUp
  <2>. QED  BY <2>1, <2>2 DEF Tallies
<1>3. ASSUME NEW k \in Nat, k + 1 <= Len(xs), Same(k)  PROVE Same(k + 1)
  <2>1. PICK j \in 1 .. Len(xs) : j = k + 1
    BY <1>3
  <2>2. PICK c \in Keys : c = CountingKey(xs[j].cat)
    <3>1. xs[j] \in Finding
      OBVIOUS
    <3>2. xs[j].cat \in Category
      BY <3>1 DEF Finding
    <3>. QED  BY <3>2, KeyType
  <2>3. PICK l \in Nat : l = m + k
    OBVIOUS
  <2>4. r[k] \in Counts /\ r[j] = r[k] (+) SetToBag({c})
    <3>1. j - 1 = k /\ k \in 0 .. Len(xs)
      BY <2>1
    <3>. QED  BY <1>1, <2>2, <3>1 DEF CountsUp
  <2>5. Counting(r[k], c, r[j])
    BY <2>2, <2>4, CountOne
  <2>6. CountingKey(new[l + 1].cat) = c
    <3>1. l + 1 = m + j
      BY <2>1, <2>3
    <3>. QED  BY <2>2, <3>1
  <2>7. Total(r[k]) = l /\ \A key : Copies(r[k], key) = Tally(new, l, key)
    BY <1>3, <2>3 DEF Tallies
  <2>8. Total(r[j]) = l + 1
    BY <2>5, <2>7 DEF Counting
  <2>9. ASSUME NEW key  PROVE Copies(r[j], key) = Tally(new, l + 1, key)
    <3>1. Copies(r[j], key) = Copies(r[k], key) + (IF key = c THEN 1 ELSE 0)
      BY <2>5 DEF Counting
    <3>2. Tally(new, l + 1, key) = Tally(new, l, key) + (IF c = key THEN 1 ELSE 0)
      BY <2>6, TallyOne
    <3>. QED  BY <2>7, <3>1, <3>2
  <2>10. m + (k + 1) = l + 1
    BY <2>3
  <2>11. Tallies(r[j], new, l + 1)
    BY <2>8, <2>9 DEF Tallies
  <2>. QED  BY <2>1, <2>10, <2>11
<1> HIDE DEF Same
<1>4. \A k \in Nat : k \in S
  <2>1. 0 \in S
    BY <1>2
  <2>2. ASSUME NEW k \in Nat, k \in S  PROVE k + 1 \in S
    <3>1. k + 1 <= Len(xs) => k <= Len(xs)
      OBVIOUS
    <3>. QED  BY <1>3, <2>2, <3>1
  <2> HIDE DEF S
  <2>. QED  BY <2>1, <2>2, InductiveSet
<1>5. Len(xs) \in Nat /\ Len(xs) \in 0 .. Len(xs)
  OBVIOUS
<1>6. Same(Len(xs))
  BY <1>4, <1>5
<1>. QED  BY <1>1, <1>5, <1>6 DEF Same, CountsUp
----------------------------------------------------------------------------
(***************************************************************************)
(* What has been reported                                                  *)
(***************************************************************************)
Output == Messages \cup Notes \cup Reports

\* Messages, notes and totals are told apart by their fields.
LEMMA Fields ==
    /\ \A x \in Messages : "cat" \in DOMAIN x
    /\ \A x \in Notes : "cat" \notin DOMAIN x
    /\ \A x \in Totals : "note" \notin DOMAIN x
BY DEF Messages, Notes, Totals

\* The places of the messages.
MessagesAt(s) == {i \in DOMAIN s : "cat" \in DOMAIN s[i]}

\* The messages of a concatenation are those of its parts.
LEMMA MessagesSplit ==
    ASSUME NEW V, NEW s \in Seq(V), NEW t \in Seq(V), NEW st, st = s \o t
    PROVE  Splits(s, t, MessagesAt(st), MessagesAt(s), MessagesAt(t))
BY DEF Splits, MessagesAt

\* Printing messages appends them to what has been reported, printing notes does
\* not change it.
LEMMA ReportedGrows ==
    ASSUME stderr \in Seq(Output), junitFailures \in Seq(Messages), UNCHANGED flags,
           NEW ms \in Seq(Messages), NEW ns \in Seq(Notes),
           IF flags.output = "junit"
             THEN junitFailures' = junitFailures \o ms /\ UNCHANGED stderr
             ELSE stderr' = (stderr \o ms) \o ns /\ UNCHANGED junitFailures
    PROVE  Reported' = Reported \o ms
<1>1. CASE flags.output = "junit"
  BY <1>1 DEF Reported
<1>2. CASE flags.output # "junit"
  <2>1. ms \in Seq(Output) /\ ns \in Seq(Output)
    <3>1. Messages \subseteq Output /\ Notes \subseteq Output
      BY DEF Output
    <3>. QED  BY <3>1
  <2>2. PICK st : st = stderr \o ms
    OBVIOUS
  <2>3. PICK e : e = st \o ns
    OBVIOUS
  <2>. st \in Seq(Output) /\ stderr' = e
    BY <1>2, <2>1, <2>2, <2>3
  <2>4. Splits(stderr, ms, MessagesAt(st), MessagesAt(stderr), MessagesAt(ms))
    BY <2>1, <2>2, MessagesSplit
  <2>5. Splits(st, ns, MessagesAt(e), MessagesAt(st), MessagesAt(ns))
    BY <2>1, <2>3, MessagesSplit
  <2>6. \A i \in 1 .. Len(ms) : i \in MessagesAt(ms)
    BY Fields DEF MessagesAt
  <2>7. \A i \in 1 .. Len(ns) : i \notin MessagesAt(ns)
    BY Fields DEF MessagesAt
  <2>8. Reported = Select(stderr, MessagesAt(stderr)) /\ Reported' = Select(e, MessagesAt(e))
    BY <1>2 DEF Reported, MessagesAt
  <2>9. Select(st, MessagesAt(st)) = Select(stderr, MessagesAt(stderr)) \o ms
    <3>1. Select(st, MessagesAt(st)) = Select(stderr, MessagesAt(stderr)) \o Select(ms, MessagesAt(ms))
      BY <2>1, <2>2, <2>4, SelectConcat
    <3>2. Select(ms, MessagesAt(ms)) = ms
      BY <2>1, <2>6, SelectAll
    <3>. QED  BY <3>1, <3>2
  <2>10. Select(e, MessagesAt(e)) = Select(st, MessagesAt(st))
    <3>1. Select(e, MessagesAt(e)) = Select(st, MessagesAt(st)) \o Select(ns, MessagesAt(ns))
      BY <2>1, <2>3, <2>5, SelectConcat
    <3>2. Select(ns, MessagesAt(ns)) = <<>>
      BY <2>1, <2>7, SelectNone
    <3>3. Select(st, MessagesAt(st)) \in Seq(Output)
      BY SelectType
    <3>4. Select(st, MessagesAt(st)) \o <<>> = Select(st, MessagesAt(st))
      BY <3>3
    <3>. QED  BY <3>1, <3>2, <3>4
  <2>. QED  BY <2>8, <2>9, <2>10
<1>. QED  BY <1>1, <1>2

\* What has been reported is a sequence of messages.
LEMMA ReportedType ==
    ASSUME stderr \in Seq(Output), junitFailures \in Seq(Messages)
    PROVE  Reported \in Seq(Messages)
<1>1. CASE flags.output = "junit"
  BY <1>1 DEF Reported
<1>2. CASE flags.output # "junit"
  <2> DEFINE at == {i \in DOMAIN stderr : "cat" \in DOMAIN stderr[i]}
  <2>1. Reported = Select(stderr, at)
    BY <1>2 DEF Reported
  <2>2. Reported \in Seq(Output)
    BY <2>1, SelectType
  <2>3. ASSUME NEW j \in DOMAIN Reported  PROVE Reported[j] \in Messages
    <3>1. Has(stderr, at, Len(stderr), Reported[j])
      <4> HIDE DEF at
      <4>. QED  BY <2>1, SelectElements
    <3>2. Reported[j] \in Output /\ "cat" \in DOMAIN Reported[j]
      BY <3>1 DEF Has
    <3>3. \A x \in Reports : "cat" \notin DOMAIN x
      BY DEF Reports
    <3>. QED  BY <3>2, <3>3, Fields DEF Output
  <2>4. DOMAIN Reported = 1 .. Len(Reported) /\ Len(Reported) \in Nat
        /\ Reported = [j \in 1 .. Len(Reported) |-> Reported[j]]
    BY <2>2
  <2>. QED  BY <2>3, <2>4, SeqDef
<1>. QED  BY <1>1, <1>2
----------------------------------------------------------------------------
(***************************************************************************)
(* The XML file                                                            *)
(***************************************************************************)
\* names are the files of the first k failures, none twice.
Lists(names, k) ==
    /\ \A i, j \in 1 .. Len(names) : names[i] = names[j] => i = j
    /\ \A f : (\E i \in 1 .. Len(names) : names[i] = f)
                 <=> \E j \in 1 .. k : junitFailures[j].file = f

\* FailedFiles are the files of all failures, none twice.
LEMMA FailedFilesAre ==
    ASSUME junitFailures \in Seq(Messages)
    PROVE  FailedFiles \in Seq(Path) /\ Lists(FailedFiles, Len(junitFailures))
<1>1. PICK r : Names(junitFailures, r) /\ FailedFiles = r[Len(junitFailures)]
  BY FailedFilesUnfold
<1> DEFINE n == Len(junitFailures)
           S == {k \in Nat : k <= n => Lists(r[k], k)}
<1>2. Lists(r[0], 0)
  <2>1. Len(r[0]) = 0
    BY <1>1 DEF Names
  <2>. QED  BY <2>1 DEF Lists
<1>3. ASSUME NEW k \in Nat, k + 1 <= n, Lists(r[k], k)  PROVE Lists(r[k + 1], k + 1)
  <2>1. PICK j \in 1 .. n : j = k + 1
    BY <1>3
  <2>2. PICK f \in Path : f = junitFailures[j].file
    <3>1. junitFailures[j] \in Messages
      OBVIOUS
    <3>. QED  BY <3>1 DEF Messages
  <2>3. PICK q \in Seq(Path) : q = r[k]
    <3>1. k \in 0 .. n
      BY <1>3
    <3>. QED  BY <1>1, <3>1 DEF Names
  <2>4. r[j] = IF Contains(q, f) THEN q ELSE Append(q, f)
    <3>1. j - 1 = k
      BY <2>1
    <3>. QED  BY <1>1, <2>2, <2>3, <3>1 DEF Names
  <2>5. \A x : (\E i \in 1 .. j : junitFailures[i].file = x)
                  <=> (x = f \/ \E i \in 1 .. k : junitFailures[i].file = x)
    BY <2>1, <2>2
  <2>6. Len(q) \in Nat /\ Lists(q, k)
    BY <1>3, <2>3
  <2>7. CASE Contains(q, f)
    <3>1. r[j] = q /\ \E i \in 1 .. Len(q) : q[i] = f
      BY <2>4, <2>7 DEF Contains
    <3>2. \A i, h \in 1 .. Len(r[j]) : r[j][i] = r[j][h] => i = h
      BY <2>6, <3>1 DEF Lists
    <3>3. ASSUME NEW x
          PROVE  (\E i \in 1 .. Len(r[j]) : r[j][i] = x)
                    <=> \E i \in 1 .. j : junitFailures[i].file = x
      <4>1. (\E i \in 1 .. Len(q) : q[i] = x)
               <=> \E i \in 1 .. k : junitFailures[i].file = x
        BY <2>6 DEF Lists
      <4>. QED  BY <2>5, <3>1, <4>1
    <3>4. Lists(r[j], j)
      BY <3>2, <3>3 DEF Lists
    <3>. QED  BY <2>1, <3>4
  <2>8. CASE ~Contains(q, f)
    <3>1. PICK p : p = Append(q, f)
      OBVIOUS
    <3>2. /\ r[j] = p /\ Len(p) = Len(q) + 1 /\ p[Len(q) + 1] = f
          /\ \A i \in 1 .. Len(q) : p[i] = q[i] /\ q[i] # f
      BY <2>3, <2>4, <2>8, <3>1 DEF Contains
    <3>3. \A i \in 1 .. Len(p) : i \in 1 .. Len(q) \/ i = Len(q) + 1
      BY <2>6, <3>2
    <3>4. Len(q) + 1 \in 1 .. Len(p) /\ \A i \in 1 .. Len(q) : i \in 1 .. Len(p)
      BY <2>6, <3>2
    <3>5. \A i, h \in 1 .. Len(p) : p[i] = p[h] => i = h
      BY <2>6, <3>2, <3>3 DEF Lists
    <3>6. \A x : (\E i \in 1 .. Len(p) : p[i] = x)
                    <=> (x = f \/ \E i \in 1 .. Len(q) : q[i] = x)
      BY <3>2, <3>3, <3>4
    <3>7. ASSUME NEW x
          PROVE  (\E i \in 1 .. Len(p) : p[i] = x)
                    <=> \E i \in 1 .. j : junitFailures[i].file = x
      <4>1. (\E i \in 1 .. Len(q) : q[i] = x)
               <=> \E i \in 1 .. k : junitFailures[i].file = x
        BY <2>6 DEF Lists
      <4>. QED  BY <2>5, <3>6, <4>1
    <3>8. Lists(p, j)
      BY <3>5, <3>7 DEF Lists
    <3>. QED  BY <2>1, <3>2, <3>8
  <2>. QED  BY <2>7, <2>8
<1>4. \A k \in Nat : k \in S
  <2>1. 0 \in S
    BY <1>2
  <2>2. ASSUME NEW k \in Nat, k \in S  PROVE k + 1 \in S
    <3>1. n \in Nat /\ (k + 1 <= n => k <= n)
      OBVIOUS
    <3> HIDE DEF n
    <3>. QED  BY <1>3, <2>2, <3>1
  <2> HIDE DEF S
  <2>. QED  BY <2>1, <2>2, InductiveSet
<1>5. n \in Nat /\ n \in 0 .. n
  OBVIOUS
<1>. QED  BY <1>1, <1>4, <1>5 DEF Names

\* The failures of the i-th file.
Case(i) == Select(junitFailures,
                  {k \in DOMAIN junitFailures : junitFailures[k].file = FailedFiles[i]})

\* The places of the failures of the first i files.
Filed(i) == {k \in 1 .. Len(junitFailures) :
                \E j \in 1 .. i : junitFailures[k].file = FailedFiles[j]}

\* The XML has every failure once: no test case is empty, and together they have as
\* many failures as there are, and the same ones.
XmlComplete(cases) ==
    /\ \A i \in DOMAIN cases : cases[i] # <<>>
    /\ Len(FlattenSeq(cases)) = Len(junitFailures)
    /\ ToSet(FlattenSeq(cases)) = ToSet(junitFailures)

\* FormatJUnitXML files every failure, once.
LEMMA XmlIsComplete ==
    ASSUME junitFailures \in Seq(Messages), junitErrors \in Seq(Notes)
    PROVE  FormatJUnitXML \in Reports /\ XmlComplete(FormatJUnitXML.testcases)
<1> DEFINE F == junitFailures
           n == Len(F)
           m == Len(FailedFiles)
           cs == FormatJUnitXML.testcases
           At(i) == {k \in DOMAIN F : F[k].file = FailedFiles[i]}
<1>1. m \in Nat /\ DOMAIN FailedFiles = 1 .. m /\ n \in Nat /\ DOMAIN F = 1 .. n
  BY FailedFilesAre
<1>2. Lists(FailedFiles, n)
  BY FailedFilesAre
<1>3. \A i : Case(i) = Select(F, At(i)) /\ Case(i) \in Seq(Messages)
  BY SelectType DEF Case
<1>4. FormatJUnitXML = [errors |-> junitErrors, testcases |-> [i \in 1 .. m |-> Case(i)]]
  BY <1>1 DEF FormatJUnitXML, Case
<1>5. cs = [i \in 1 .. m |-> Case(i)]
  BY <1>4
<1>6. cs \in Seq(Seq(Messages)) /\ Len(cs) = m /\ \A i \in 1 .. m : cs[i] = Case(i)
  <2> DEFINE c == [i \in 1 .. m |-> Case(i)]
  <2>1. c \in [1 .. m -> Seq(Messages)]
    BY <1>3
  <2>2. c \in Seq(Seq(Messages)) /\ Len(c) = m
    <3> HIDE DEF c, m
    <3>. QED  BY <1>1, <2>1, SeqDef
  <2>. QED  BY <1>5, <2>2
<1>7. FormatJUnitXML \in Reports
  <2> HIDE DEF cs
  <2>1. FormatJUnitXML = [errors |-> junitErrors, testcases |-> cs]
    BY <1>4, <1>5
  <2>. QED  BY <1>6, <2>1 DEF Reports
<1> HIDE DEF cs
<1>8. ASSUME NEW i \in 1 .. m
      PROVE  /\ Len(Case(i)) = Cardinality({k \in 1 .. n : k \in At(i)})
             /\ \A x : (\E j \in 1 .. Len(Case(i)) : Case(i)[j] = x)
                          <=> \E k \in 1 .. n : F[k].file = FailedFiles[i] /\ F[k] = x
  <2> HIDE DEF At
  <2>1. Len(Case(i)) = Cardinality({k \in 1 .. n : k \in At(i)})
    BY <1>3, SelectCount
  <2>2. \A x : (\E j \in DOMAIN Case(i) : Case(i)[j] = x) <=> Has(F, At(i), n, x)
    BY <1>3, SelectElements
  <2>3. \A x : Has(F, At(i), n, x) <=>
                  \E k \in 1 .. n : F[k].file = FailedFiles[i] /\ F[k] = x
    BY <1>1 DEF Has, At
  <2>4. DOMAIN Case(i) = 1 .. Len(Case(i))
    BY <1>3
  <2>. QED  BY <2>1, <2>2, <2>3, <2>4
<1>9. \A i \in 1 .. m : Case(i) # <<>>
  <2> SUFFICES ASSUME NEW i \in 1 .. m, Case(i) = <<>>  PROVE FALSE
    OBVIOUS
  <2>1. PICK k \in 1 .. n : F[k].file = FailedFiles[i]
    BY <1>2 DEF Lists
  <2>2. \E j \in 1 .. Len(Case(i)) : Case(i)[j] = F[k]
    BY <1>8, <2>1
  <2>. QED  BY <2>2
<1>10. PICK r : Flattens(cs, Messages, r) /\ FlattenSeq(cs) = r[m]
  BY <1>6, FlattenUnfold
<1> DEFINE In(i, x) == \E j \in 1 .. Len(r[i]) : r[i][j] = x
           Same(i) == /\ Len(r[i]) = Cardinality(Filed(i))
                      /\ \A x : In(i, x) <=> \E k \in Filed(i) : F[k] = x
           S == {i \in Nat : i <= m => Same(i)}
<1>11. Same(0)
  <2>1. Filed(0) = {}
    BY DEF Filed
  <2>2. Len(r[0]) = 0
    BY <1>10 DEF Flattens
  <2>. QED  BY <2>1, <2>2, FS_EmptySet
<1>12. ASSUME NEW i \in Nat, i + 1 <= m, Same(i)  PROVE Same(i + 1)
  <2>1. PICK h \in 1 .. m : h = i + 1
    BY <1>12
  <2>2. PICK q \in Seq(Messages) : q = r[i]
    <3>1. i \in 0 .. Len(cs)
      BY <1>6, <1>12
    <3>. QED  BY <1>10, <3>1 DEF Flattens
  <2>3. PICK c \in Seq(Messages) : c = Case(h)
    BY <1>3
  <2>4. r[h] = q \o c
    <3>1. h \in 1 .. Len(cs) /\ h - 1 = i
      BY <1>6, <2>1
    <3>. QED  BY <1>6, <1>10, <2>2, <2>3, <3>1 DEF Flattens
  <2> DEFINE A == Filed(i)
             B == {k \in 1 .. n : k \in At(h)}
  <2>5. Filed(h) = A \cup B /\ A \cap B = {}
    <3>1. \A k \in 1 .. n : k \in B <=> F[k].file = FailedFiles[h]
      BY <1>1
    <3>2. \A k : k \in Filed(h) <=> k \in A \/ k \in B
      BY <2>1, <3>1 DEF Filed
    <3>3. \A j \in 1 .. i : j \in 1 .. m /\ j # h
      BY <2>1
    <3>4. \A k \in A : k \notin B
      BY <1>2, <3>1, <3>3 DEF Filed, Lists
    <3> HIDE DEF A, B
    <3>. QED  BY <3>2, <3>4
  <2>6. IsFiniteSet(A) /\ IsFiniteSet(B)
    <3>1. IsFiniteSet(1 .. n)
      BY <1>1, FS_Interval
    <3>2. A \subseteq 1 .. n /\ B \subseteq 1 .. n
      BY DEF Filed
    <3> HIDE DEF A, B
    <3>. QED  BY <3>1, <3>2, FS_Subset
  <2>7. Cardinality(Filed(h)) = Cardinality(A) + Cardinality(B)
    <3> HIDE DEF A, B
    <3>1. Cardinality(A \cup B) = Cardinality(A) + Cardinality(B) - Cardinality(A \cap B)
      BY <2>6, FS_Union
    <3>2. Cardinality(A \cap B) = 0
      BY <2>5, FS_EmptySet
    <3>3. Cardinality(A) \in Nat /\ Cardinality(B) \in Nat
      BY <2>6, FS_CardinalityType
    <3>. QED  BY <2>5, <3>1, <3>2, <3>3
  <2>8. Len(r[h]) = Cardinality(Filed(h))
    <3>1. Len(r[h]) = Len(q) + Len(c)
      BY <2>4
    <3>2. Len(q) = Cardinality(A) /\ Len(c) = Cardinality(B)
      BY <1>8, <1>12, <2>2, <2>3
    <3> HIDE DEF A, B
    <3>. QED  BY <2>7, <3>1, <3>2
  <2>9. \A x : In(h, x) <=> (\E j \in 1 .. Len(q) : q[j] = x) \/ (\E j \in 1 .. Len(c) : c[j] = x)
    <3>1. PICK p : p = q \o c
      OBVIOUS
    <3>2. /\ Len(p) = Len(q) + Len(c) /\ Len(q) \in Nat /\ Len(c) \in Nat
          /\ \A j \in 1 .. Len(q) : p[j] = q[j]
          /\ \A j \in 1 .. Len(c) : p[Len(q) + j] = c[j]
      BY <3>1
    <3>3. \A j \in 1 .. Len(p) : j \in 1 .. Len(q) \/ \E l \in 1 .. Len(c) : j = Len(q) + l
      <4> SUFFICES ASSUME NEW j \in 1 .. Len(p), j \notin 1 .. Len(q)
                   PROVE  \E l \in 1 .. Len(c) : j = Len(q) + l
        OBVIOUS
      <4>1. j - Len(q) \in 1 .. Len(c) /\ j = Len(q) + (j - Len(q))
        BY <3>2
      <4>. QED  BY <4>1
    <3>4. /\ \A j \in 1 .. Len(q) : j \in 1 .. Len(p)
          /\ \A j \in 1 .. Len(c) : Len(q) + j \in 1 .. Len(p)
      BY <3>2
    <3>5. r[h] = p
      BY <2>4, <3>1
    <3>6. ASSUME NEW x, NEW j \in 1 .. Len(p), p[j] = x
          PROVE  (\E l \in 1 .. Len(q) : q[l] = x) \/ (\E l \in 1 .. Len(c) : c[l] = x)
      BY <3>2, <3>3, <3>6
    <3>7. ASSUME NEW x, (\E l \in 1 .. Len(q) : q[l] = x) \/ (\E l \in 1 .. Len(c) : c[l] = x)
          PROVE  \E j \in 1 .. Len(p) : p[j] = x
      <4>1. CASE \E l \in 1 .. Len(q) : q[l] = x
        BY <3>2, <3>4, <4>1
      <4>2. CASE \E l \in 1 .. Len(c) : c[l] = x
        BY <3>2, <3>4, <4>2
      <4>. QED  BY <3>7, <4>1, <4>2
    <3>8. \A x : In(h, x) <=> \E j \in 1 .. Len(p) : p[j] = x
      BY <3>5
    <3> HIDE DEF In
    <3>. QED  BY <3>6, <3>7, <3>8
  <2>10. \A x : In(h, x) <=> \E k \in Filed(h) : F[k] = x
    <3>1. \A x : (\E j \in 1 .. Len(q) : q[j] = x) <=> \E k \in A : F[k] = x
      BY <1>12, <2>2
    <3>2. \A x : (\E j \in 1 .. Len(c) : c[j] = x) <=> \E k \in B : F[k] = x
      <4>1. \A k \in 1 .. n : k \in B <=> F[k].file = FailedFiles[h]
        BY <1>1
      <4>2. \A x : (\E j \in 1 .. Len(Case(h)) : Case(h)[j] = x)
                      <=> \E k \in 1 .. n : F[k].file = FailedFiles[h] /\ F[k] = x
        BY <1>8
      <4>3. \A x : (\E k \in 1 .. n : F[k].file = FailedFiles[h] /\ F[k] = x)
                      <=> \E k \in B : F[k] = x
        BY <4>1
      <4> HIDE DEF B, F, n
      <4>. QED  BY <2>3, <4>2, <4>3
    <3> HIDE DEF A, B, In
    <3>. QED  BY <2>5, <2>9, <3>1, <3>2
  <2>. QED  BY <2>1, <2>8, <2>10
<1> HIDE DEF Same
<1>13. \A i \in Nat : i \in S
  <2>1. 0 \in S
    BY <1>11
  <2>2. ASSUME NEW i \in Nat, i \in S  PROVE i + 1 \in S
    <3>1. i + 1 <= m => i <= m
      BY <1>1
    <3> HIDE DEF m
    <3>. QED  BY <1>12, <2>2, <3>1
  <2> HIDE DEF S
  <2>. QED  BY <2>1, <2>2, InductiveSet
<1>14. Same(m)
  BY <1>1, <1>13
<1>15. Filed(m) = 1 .. n
  <2>1. \A k \in 1 .. n : \E j \in 1 .. m : FailedFiles[j] = F[k].file
    BY <1>2 DEF Lists
  <2>2. \A k : k \in Filed(m) <=> k \in 1 .. n
    BY <2>1 DEF Filed
  <2>. QED  BY <2>2
<1>16. Len(FlattenSeq(cs)) = n
  <2>1. Cardinality(1 .. n) = n
    <3>1. 1 \in Int /\ n \in Int
      BY <1>1
    <3>2. Cardinality(1 .. n) = IF 1 > n THEN 0 ELSE n - 1 + 1
      BY <3>1, FS_Interval
    <3> HIDE DEF n
    <3>. QED  BY <1>1, <3>2
  <2>. QED  BY <1>10, <1>14, <1>15, <2>1 DEF Same
<1>17. ToSet(FlattenSeq(cs)) = ToSet(F)
  <2>1. FlattenSeq(cs) \in Seq(Messages)
    BY <1>6, FlattenType
  <2>2. \A x : x \in ToSet(FlattenSeq(cs)) <=> In(m, x)
    BY <1>10, <2>1 DEF ToSet
  <2>3. \A x : x \in ToSet(F) <=> \E k \in 1 .. n : F[k] = x
    BY DEF ToSet
  <2>4. \A x : In(m, x) <=> \E k \in 1 .. n : F[k] = x
    BY <1>14, <1>15 DEF Same
  <2> HIDE DEF In
  <2>. QED  BY <2>2, <2>3, <2>4
<1>18. \A i \in DOMAIN cs : cs[i] # <<>>
  <2>1. DOMAIN cs = 1 .. m
    BY <1>6
  <2>. QED  BY <1>6, <1>9, <2>1
<1>. QED  BY <1>7, <1>16, <1>17, <1>18 DEF XmlComplete, cs
----------------------------------------------------------------------------
(***************************************************************************)
(* The inductive invariant                                                 *)
(***************************************************************************)
InFile == pc \in {"config", "read", "guard", "lines", "done"}

\* The sequences are sequences, of what they should contain.
Shape ==
    /\ filenames \in Seq(DOMAIN disk.files)
    /\ finished \in Seq(DOMAIN disk.files)
    /\ InFile => file \in DOMAIN disk.files
    /\ pc \in {"guard", "lines"} => lineNo # 0
    /\ filters \in Seq(Filter)
    /\ filtersBackup \in Seq(Filter)
    /\ cfgFilters \in Seq(Seq(Filter))
    /\ errorsByCategory \in Counts
    /\ stdout \in Seq(Notes \cup Totals)
    /\ stderr \in Seq(Output)
    /\ junitErrors \in Seq(Notes)
    /\ junitFailures \in Seq(Messages)

\* The counters agree with what has been reported.
CountInv ==
    /\ errorCount = Len(Reported)
    /\ IsCounting => Tallies(errorsByCategory, Reported, errorCount)

\* Errors counted since the file was begun have been reported for it.
FileInv ==
    InFile /\ oldErrors # errorCount =>
        \E j \in DOMAIN Reported : Reported[j].file = file

\* What the last step of main has left behind.
ExitInv ==
    pc = "exit" =>
        /\ exitStatus = IF errorCount > 0 THEN 1 ELSE 0
        /\ flags.output = "junit" => XmlComplete(Last(stderr).testcases)

Inv == TypeOK /\ Shape /\ CountInv /\ FileInv /\ ExitInv /\ QuietIsQuiet
----------------------------------------------------------------------------
(***************************************************************************)
(* What a step appends to the report                                       *)
(***************************************************************************)

\* ms, all about the current file, is appended to the report, counted, and counted
\* by category.
Appends(ms) ==
    /\ ms \in Seq(Messages)
    /\ Reported' = Reported \o ms
    /\ errorCount' = errorCount + Len(ms)
    /\ IsCounting /\ Tallies(errorsByCategory, Reported, Len(Reported)) =>
          Tallies(errorsByCategory', Reported', Len(Reported'))
    /\ \A i \in 1 .. Len(ms) : ms[i].file = file

\* The messages that Report makes of findings.
LEMMA MessagesType ==
    ASSUME NEW xs \in Seq(Finding), NEW ms, ms = [i \in DOMAIN xs |-> Message(xs[i])],
           file \in Path
    PROVE  /\ ms \in Seq(Messages) /\ Len(ms) = Len(xs)
           /\ \A i \in 1 .. Len(xs) : ms[i].cat = xs[i].cat /\ ms[i].file = file
<1>1. DOMAIN xs = 1 .. Len(xs) /\ Len(xs) \in Nat
  OBVIOUS
<1>2. ASSUME NEW i \in 1 .. Len(xs)
      PROVE  /\ Message(xs[i]) \in Messages
             /\ Message(xs[i]).cat = xs[i].cat /\ Message(xs[i]).file = file
  <2>1. xs[i] \in Finding
    BY <1>2
  <2>. QED  BY <2>1 DEF Message, Messages, Finding
<1>3. ms = [i \in 1 .. Len(xs) |-> Message(xs[i])]
  BY <1>1
<1>4. ms \in [1 .. Len(xs) -> Messages]
  BY <1>2, <1>3
<1>5. ms \in Seq(Messages) /\ Len(ms) = Len(xs)
  BY <1>1, <1>4, SeqDef
<1>. QED  BY <1>2, <1>3, <1>5

\* The elements of a concatenation.
LEMMA Concatenation ==
    ASSUME NEW V, NEW s \in Seq(V), NEW t \in Seq(V), NEW st, st = s \o t
    PROVE  /\ Len(st) = Len(s) + Len(t) /\ Len(s) \in Nat
           /\ \A i \in 1 .. Len(s) : st[i] = s[i]
           /\ \A i \in 1 .. Len(t) : st[Len(s) + i] = t[i]
OBVIOUS

\* Error, for a sequence of findings, appends their messages.
LEMMA ReportAppends ==
    ASSUME Shape, file \in Path, NEW xs \in Seq(Finding), Report(xs), UNCHANGED flags
    PROVE  /\ \E ms : Appends(ms)
           /\ Reported' = Reported \o MessagesFor(file, xs)
           /\ stderr' \in Seq(Output) /\ junitFailures' \in Seq(Messages)
           /\ errorsByCategory' \in Counts
<1>1. PICK ms : ms = [i \in DOMAIN xs |-> Message(xs[i])]
  OBVIOUS
<1>2. /\ ms \in Seq(Messages) /\ Len(ms) = Len(xs)
      /\ \A i \in 1 .. Len(xs) : ms[i].cat = xs[i].cat /\ ms[i].file = file
  BY <1>1, MessagesType
<1>3. /\ stderr \in Seq(Output) /\ junitFailures \in Seq(Messages)
      /\ errorsByCategory \in Counts
  BY DEF Shape
<1>4. IF flags.output = "junit"
        THEN junitFailures' = junitFailures \o ms /\ UNCHANGED stderr
        ELSE stderr' = stderr \o ms /\ UNCHANGED junitFailures
  BY <1>1 DEF Report
<1>5. ms \in Seq(Output)
  <2>1. Messages \subseteq Output
    BY DEF Output
  <2>. QED  BY <1>2, <2>1
<1>6. stderr' \in Seq(Output) /\ junitFailures' \in Seq(Messages)
  <2>1. stderr \o ms \in Seq(Output) /\ junitFailures \o ms \in Seq(Messages)
    BY <1>2, <1>3, <1>5
  <2>2. CASE flags.output = "junit"
    BY <1>3, <1>4, <2>1, <2>2
  <2>3. CASE flags.output # "junit"
    BY <1>3, <1>4, <2>1, <2>3
  <2>. QED  BY <2>2, <2>3
<1>7. PICK ns \in Seq(Notes) : ns = <<>>
  <2>1. <<>> \in Seq(Notes)
    OBVIOUS
  <2>. QED  BY <2>1
<1>8. Reported' = Reported \o ms
  <2>1. (stderr \o ms) \o ns = stderr \o ms
    BY <1>3, <1>5, <1>7
  <2>2. IF flags.output = "junit"
          THEN junitFailures' = junitFailures \o ms /\ UNCHANGED stderr
          ELSE stderr' = (stderr \o ms) \o ns /\ UNCHANGED junitFailures
    BY <1>4, <2>1
  <2>. QED  BY <1>2, <1>3, <2>2, ReportedGrows
<1>9. Reported \in Seq(Messages)
  BY <1>3, ReportedType
<1>10. PICK old : old = Reported
  OBVIOUS
<1>11. PICK new : new = Reported'
  OBVIOUS
<1>12. /\ Len(new) = Len(old) + Len(xs) /\ Len(old) \in Nat
       /\ \A i \in 1 .. Len(old) : new[i] = old[i]
       /\ \A i \in 1 .. Len(xs) : new[Len(old) + i].cat = xs[i].cat
  <2>1. new = old \o ms /\ old \in Seq(Messages)
    BY <1>8, <1>9, <1>10, <1>11
  <2>2. /\ Len(new) = Len(old) + Len(ms) /\ Len(old) \in Nat
        /\ \A i \in 1 .. Len(old) : new[i] = old[i]
        /\ \A i \in 1 .. Len(ms) : new[Len(old) + i] = ms[i]
    <3>1. ms \in Seq(Messages)
      BY <1>2
    <3>2. old \in Seq(Messages)
      BY <2>1
    <3>3. new = old \o ms
      BY <2>1
    <3>. QED  BY <3>1, <3>2, <3>3, Concatenation
  <2>. QED  BY <1>2, <2>2
<1>13. errorsByCategory' = Counted(xs)
  BY DEF Report
<1>14. IsCounting /\ Tallies(errorsByCategory, old, Len(old)) =>
          Tallies(errorsByCategory', new, Len(new))
  <2> SUFFICES ASSUME IsCounting, Tallies(errorsByCategory, old, Len(old))
               PROVE  Tallies(errorsByCategory', new, Len(new))
    OBVIOUS
  <2>1. Tallies(Counted(xs), new, Len(old) + Len(xs))
    BY <1>3, <1>12, CountedTallies
  <2>. QED  BY <1>12, <1>13, <2>1
<1>15. errorsByCategory' \in Counts
  <2>1. CASE IsCounting
    <3>1. PICK r : CountsUp(xs, r) /\ Counted(xs) = r[Len(xs)]
      BY <1>3, <2>1, CountedUnfold
    <3>2. Len(xs) \in 0 .. Len(xs)
      OBVIOUS
    <3>. QED  BY <1>13, <3>1, <3>2 DEF CountsUp
  <2>2. CASE ~IsCounting
    BY <1>3, <1>13, <2>2 DEF Counted, IsCounting
  <2>. QED  BY <2>1, <2>2
<1>16. errorCount' = errorCount + Len(ms)
  BY <1>2 DEF Report
<1>17. Appends(ms)
  BY <1>2, <1>8, <1>10, <1>11, <1>14, <1>16 DEF Appends
<1>18. ms = MessagesFor(file, xs)
  BY <1>1 DEF MessagesFor, Message
<1>. QED  BY <1>6, <1>8, <1>15, <1>17, <1>18

\* PrintError leaves the report alone.
LEMMA PrintErrorKeeps ==
    ASSUME Shape, NEW ns \in Seq(Notes), PrintError(ns), UNCHANGED <<flags, junitFailures>>
    PROVE  Reported' = Reported /\ stderr' \in Seq(Output) /\ junitErrors' \in Seq(Notes)
<1>1. /\ stderr \in Seq(Output) /\ junitFailures \in Seq(Messages)
      /\ junitErrors \in Seq(Notes)
  BY DEF Shape
<1>2. ns \in Seq(Output)
  <2>1. Notes \subseteq Output
    BY DEF Output
  <2>. QED  BY <2>1
<1>3. PICK ms \in Seq(Messages) : ms = <<>>
  <2>1. <<>> \in Seq(Messages)
    OBVIOUS
  <2>. QED  BY <2>1
<1>4. IF flags.output = "junit"
        THEN junitFailures' = junitFailures \o ms /\ UNCHANGED stderr
        ELSE stderr' = (stderr \o ms) \o ns /\ UNCHANGED junitFailures
  <2>1. stderr \o ms = stderr /\ junitFailures \o ms = junitFailures
    BY <1>1, <1>3
  <2>. QED  BY <2>1 DEF PrintError
<1>5. Reported' = Reported \o ms
  BY <1>1, <1>4, ReportedGrows
<1>6. Reported \in Seq(Messages)
  BY <1>1, ReportedType
<1>7. Reported' = Reported
  BY <1>3, <1>5, <1>6
<1>8. stderr \o ns \in Seq(Output) /\ junitErrors \o ns \in Seq(Notes)
  BY <1>1, <1>2
<1>9. CASE flags.output = "junit"
  BY <1>1, <1>7, <1>8, <1>9 DEF PrintError
<1>10. CASE flags.output # "junit"
  BY <1>1, <1>7, <1>8, <1>10 DEF PrintError
<1>. QED  BY <1>9, <1>10

\* A step that does not touch the report appends nothing.
LEMMA KeepsAppends ==
    ASSUME Shape, TypeOK, Reported' = Reported, UNCHANGED <<flags, countVars>>
    PROVE  Appends(<<>>)
<1>1. Reported \in Seq(Messages)
  BY ReportedType DEF Shape
<1>2. Reported \o <<>> = Reported
  BY <1>1
<1>3. errorCount' = errorCount + Len(<<>>)
  BY DEF TypeOK, countVars
<1>4. errorsByCategory' = errorsByCategory
  BY DEF countVars
<1>5. <<>> \in Seq(Messages) /\ \A i \in 1 .. Len(<<>>) : <<>>[i].file = file
  OBVIOUS
<1>. QED  BY <1>2, <1>3, <1>4, <1>5 DEF Appends
----------------------------------------------------------------------------
(***************************************************************************)
(* What the checks find                                                    *)
(***************************************************************************)

\* The file being processed is one of the disk.
LEMMA SourceType ==
    ASSUME TypeOK, Shape, InFile
    PROVE  /\ file \in DOMAIN disk.files /\ file \in Path /\ disk.files[file] \in Source
           /\ file \in Seq(STRING) /\ Len(file) \in Nat /\ Len(file) # 0
<1>1. disk \in Disks /\ file \in DOMAIN disk.files
  BY DEF TypeOK, Shape
<1>2. file \in Path /\ disk.files[file] \in Source
  BY <1>1, CppLintAssumption
<1>3. file \in Seq(STRING) /\ file # <<>>
  BY <1>2 DEF Path
<1>. QED  BY <1>1, <1>2, <1>3, EmptySeq

\* A sequence of one finding.
LEMMA OneFinding ==
    ASSUME NEW k \in Nat, NEW c \in Category, NEW n \in Nat
    PROVE  <<[line |-> k, cat |-> c, conf |-> n]>> \in Seq(Finding)
<1>1. [line |-> k, cat |-> c, conf |-> n] \in Finding
  BY DEF Finding
<1>. QED  BY <1>1

\* The categories of the driver itself.
LEMMA OwnCategories ==
    /\ "legal/copyright" \in Category /\ "readability/nolint" \in Category
    /\ "whitespace/line_length" \in Category /\ "whitespace/newline" \in Category
BY StringAssumption DEF Category

\* The findings that Error is called with are findings.
LEMMA FindingsType ==
    /\ <<CopyrightMissing>> \in Seq(Finding)
    /\ \A nolints : \A k \in Nat : UnknownNolint(nolints, k) \in Seq(Finding)
    /\ \A width, limit : \A k \in Nat : TooLong(width, limit, k) \in Seq(Finding)
<1>2. <<CopyrightMissing>> \in Seq(Finding)
  BY OwnCategories, OneFinding DEF CopyrightMissing
<1>3. <<>> \in Seq(Finding)
  OBVIOUS
<1>4. ASSUME NEW nolints, NEW k \in Nat  PROVE UnknownNolint(nolints, k) \in Seq(Finding)
  <2>1. <<[line |-> k, cat |-> "readability/nolint", conf |-> 5]>> \in Seq(Finding)
    BY OwnCategories, OneFinding
  <2>. QED  BY <1>3, <2>1 DEF UnknownNolint
<1>5. ASSUME NEW width, NEW limit, NEW k \in Nat  PROVE TooLong(width, limit, k) \in Seq(Finding)
  <2>1. <<[line |-> k, cat |-> "whitespace/line_length", conf |-> 2]>> \in Seq(Finding)
    BY OwnCategories, OneFinding
  <2>. QED  BY <1>3, <2>1 DEF TooLong
<1>. QED  BY <1>2, <1>4, <1>5

\* So are the stray carriage returns.
LEMMA StrayCRType ==
    ASSUME NEW lines \in Seq(CodeLine)
    PROVE  StrayCR(lines) \in Seq(Finding)
<1> DEFINE ks == [k \in DOMAIN lines |-> k]
           cr == Select(ks, {k \in DOMAIN lines : lines[k].cr})
           all == [i \in DOMAIN cr |->
                      [line |-> cr[i], cat |-> "whitespace/newline", conf |-> 1]]
<1>1. ks \in Seq(Nat)
  <2>1. DOMAIN lines = 1 .. Len(lines) /\ Len(lines) \in Nat
    OBVIOUS
  <2>2. ks \in [1 .. Len(lines) -> Nat]
    BY <2>1
  <2> HIDE DEF ks
  <2>. QED  BY <2>1, <2>2, SeqDef
<1>2. cr \in Seq(Nat)
  <2> HIDE DEF ks
  <2>. QED  BY <1>1, SelectType
<1> HIDE DEF cr
<1>3. DOMAIN cr = 1 .. Len(cr) /\ Len(cr) \in Nat
  BY <1>2
<1>4. ASSUME NEW i \in 1 .. Len(cr)
      PROVE  [line |-> cr[i], cat |-> "whitespace/newline", conf |-> 1] \in Finding
  <2>1. cr[i] \in Nat
    BY <1>2
  <2>. QED  BY <2>1, OwnCategories DEF Finding
<1>5. all \in [1 .. Len(cr) -> Finding]
  BY <1>3, <1>4
<1>6. all \in Seq(Finding)
  <2> HIDE DEF all
  <2>. QED  BY <1>3, <1>5, SeqDef
<1>7. <<>> \in Seq(Finding)
  OBVIOUS
<1>8. StrayCR(lines) = IF Len(cr) = Len(lines) THEN <<>> ELSE all
  BY DEF StrayCR, cr
<1> HIDE DEF all
<1>. QED  BY <1>6, <1>7, <1>8

\* The lines of a header guard.
LEMMA GuardType ==
    ASSUME NEW src \in Source, NEW s
    PROVE  /\ GuardOf(src, s) \in Seq(GuardLine) /\ Len(GuardOf(src, s)) \in Nat
           /\ \A i \in 1 .. Len(GuardOf(src, s)) :
                 /\ GuardOf(src, s)[i].line \in Nat
                 /\ GuardOf(src, s)[i].found \in Seq(Finding)
<1>1. src.guard \in Seq(GuardLine) /\ <<>> \in Seq(GuardLine)
  BY DEF Source
<1>2. PICK g \in Seq(GuardLine) : g = GuardOf(src, s)
  BY <1>1 DEF GuardOf
<1>3. Len(g) \in Nat /\ \A i \in 1 .. Len(g) : g[i] \in GuardLine
  OBVIOUS
<1>. QED  BY <1>2, <1>3 DEF GuardLine

\* What Error shows of findings are findings.
LEMMA ShownType ==
    ASSUME NEW xs \in Seq(Finding), NEW supp, NEW global
    PROVE  Shown(xs, supp, global) \in Seq(Finding)
BY SelectType DEF Shown

\* Reading the comment of a line and reporting what is found on it is reporting findings.
LEMMA ParseReports ==
    ASSUME NEW nolints, NEW k \in Nat, NEW found \in Seq(Finding), ParseAndReport(nolints, k, found)
    PROVE  \E xs \in Seq(Finding) : Report(xs)
<1>1. PICK a \in Seq(Finding) :
          a = Shown(UnknownNolint(nolints, k), suppressions, globalSuppressions)
  <2>1. UnknownNolint(nolints, k) \in Seq(Finding)
    BY FindingsType
  <2>. QED  BY <2>1, ShownType
<1>2. PICK b \in Seq(Finding) : b = Shown(found, suppressions', globalSuppressions)
  BY ShownType
<1>3. a \o b \in Seq(Finding)
  OBVIOUS
<1>4. Report(a \o b)
  BY <1>1, <1>2 DEF ParseAndReport
<1>. QED  BY <1>3, <1>4

\* Each of the four steps that call Error appends its messages.
LEMMA ChecksAppend ==
    ASSUME TypeOK, Shape, BeginData \/ CheckForHeaderGuard \/ ProcessLine \/ EndData
    PROVE  /\ \E ms : Appends(ms)
           /\ stderr' \in Seq(Output) /\ junitFailures' \in Seq(Messages)
           /\ errorsByCategory' \in Counts
<1>1. InFile /\ UNCHANGED flags
  BY DEF InFile, BeginData, CheckForHeaderGuard, ProcessLine, EndData, inputs
<1>2. file \in Path /\ disk.files[file] \in Source
  BY <1>1, SourceType
<1>3. PICK f \in Source : f = disk.files[file]
  BY <1>2
<1>4. f.early \in Seq(Finding) /\ f.late \in Seq(Finding) /\ f.lines \in Seq(CodeLine)
  BY DEF Source
<1>5. \A xs, ys \in Seq(Finding) : xs \o ys \in Seq(Finding)
  OBVIOUS
<1>6. <<>> \in Seq(Finding)
  OBVIOUS
<1>7. CASE BeginData
  <2>1. (IF f.copyright THEN <<>> ELSE <<CopyrightMissing>>) \in Seq(Finding)
    BY <1>6, FindingsType
  <2>2. Report(Shown(IF f.copyright THEN <<>> ELSE <<CopyrightMissing>>, {}, {})
               \o Shown(f.early, {}, f.global))
    BY <1>3, <1>7 DEF BeginData
  <2>3. \E xs \in Seq(Finding) : Report(xs)
    BY <1>4, <1>5, <2>1, <2>2, ShownType
  <2>. QED  BY <1>1, <1>2, <2>3, ReportAppends
<1>8. CASE CheckForHeaderGuard
  <2>1. PICK g : g = GuardOf(f, settings)
    OBVIOUS
  <2>2. PICK at : at = g[lineNo]
    OBVIOUS
  <2>3. ParseAndReport(NolintOf(f, at.line), at.line, at.found)
    BY <1>3, <1>8, <2>1, <2>2 DEF CheckForHeaderGuard
  <2>4. lineNo \in 1 .. Len(g)
    <3>1. pc = "guard" /\ lineNo <= Len(g)
      BY <1>3, <1>8, <2>1 DEF CheckForHeaderGuard
    <3>2. lineNo \in Nat /\ lineNo # 0
      BY <3>1 DEF TypeOK, Shape
    <3>3. Len(g) \in Nat
      BY <2>1, GuardType
    <3>. QED  BY <3>1, <3>2, <3>3
  <2>5. at.line \in Nat /\ at.found \in Seq(Finding)
    BY <2>1, <2>2, <2>4, GuardType
  <2>6. \E xs \in Seq(Finding) : Report(xs)
    BY <2>3, <2>5, ParseReports
  <2>. QED  BY <1>1, <1>2, <2>6, ReportAppends
<1>9. CASE ProcessLine
  <2>1. PICK l : l = f.lines[lineNo]
    OBVIOUS
  <2>2. lineNo \in 1 .. Len(f.lines)
    <3>1. pc = "lines" /\ lineNo <= Len(f.lines)
      BY <1>3, <1>9 DEF ProcessLine
    <3>2. lineNo \in Nat /\ lineNo # 0
      BY <3>1 DEF TypeOK, Shape
    <3>3. Len(f.lines) \in Nat
      BY <1>4
    <3>. QED  BY <3>1, <3>2, <3>3
  <2>3. l.found \in Seq(Finding)
    <3>1. l \in CodeLine
      BY <1>4, <2>1, <2>2
    <3>. QED  BY <3>1 DEF CodeLine
  <2>4. lineNo \in Nat
    BY DEF TypeOK
  <2>5. PICK found : found = l.found \o TooLong(l.width, settings.lineLength, lineNo)
    OBVIOUS
  <2>6. found \in Seq(Finding)
    BY <1>5, <2>3, <2>4, <2>5, FindingsType
  <2>7. ParseAndReport(l.nolint, lineNo, found)
    BY <1>3, <1>9, <2>1, <2>5 DEF ProcessLine
  <2>8. \E xs \in Seq(Finding) : Report(xs)
    BY <2>4, <2>6, <2>7, ParseReports
  <2>. QED  BY <1>1, <1>2, <2>8, ReportAppends
<1>10. CASE EndData
  <2>1. Report(Shown(f.late \o StrayCR(f.lines), suppressions, globalSuppressions))
    BY <1>3, <1>10 DEF EndData
  <2>2. \E xs \in Seq(Finding) : Report(xs)
    BY <1>4, <1>5, <2>1, ShownType, StrayCRType
  <2>. QED  BY <1>1, <1>2, <2>2, ReportAppends
<1>. QED  BY <1>7, <1>8, <1>9, <1>10

\* What is read of a CPPLINT.cfg.
LEMMA ConfigType ==
    ASSUME TypeOK, Shape, pc = "config", depth > 0,
           NEW dir, dir = SubSeq(file, 1, depth - 1), dir \in DOMAIN disk.cfg
    PROVE  ReadOptions(disk.cfg[dir].options, dir, file[depth]) \in Read
<1>1. file \in Path /\ file \in Seq(STRING)
  BY SourceType DEF InFile
<1>2. depth \in 0 .. Len(file) /\ Len(file) \in Nat
  BY <1>1 DEF TypeOK
<1>3. dir \in Seq(STRING)
  <2>1. \A i \in 1 .. depth - 1 : file[i] \in STRING
    BY <1>1, <1>2
  <2>. QED  BY <1>1, <1>2, <2>1, SubSeqProperties
<1>4. disk \in Disks
  BY DEF TypeOK
<1>5. PICK opts : opts = disk.cfg[dir].options
  OBVIOUS
<1>6. /\ Len(opts) \in Nat /\ DOMAIN opts = 1 .. Len(opts)
      /\ \A i \in DOMAIN opts : OptionOK(opts[i])
  BY <1>4, <1>5, CppLintAssumption
<1>7. cfgFilters \in Seq(Seq(Filter)) /\ settings \in Settings
  BY DEF Shape, TypeOK
<1>8. PICK base : base = file[depth]
  OBVIOUS
<1>9. PICK r : Reads(opts, dir, base, r) /\ ReadOptions(opts, dir, base) = r[Len(opts)]
  BY <1>1, <1>3, <1>6, <1>7, ReadOptionsUnfold
<1>10. Len(opts) \in 0 .. Len(opts)
  BY <1>6
<1>. QED  BY <1>5, <1>8, <1>9, <1>10 DEF Reads

\* What a step does to the report: it appends messages, and only the checks of a
\* file do, which print nothing else.
Reporting ==
    /\ stderr' \in Seq(Output)
    /\ junitErrors' \in Seq(Notes)
    /\ junitFailures' \in Seq(Messages)
    /\ errorsByCategory' \in Counts
    /\ UNCHANGED flags
    /\ \E ms : Appends(ms) /\ (ms # <<>> => /\ pc \in {"read", "guard", "lines"}
                                          /\ UNCHANGED <<file, oldErrors, stdout>>)

\* A step that leaves alone what the report is made of.
LEMMA SilentStep ==
    ASSUME TypeOK, Shape, UNCHANGED <<flags, stderr, junitVars, countVars>>
    PROVE  Reporting
<1>1. /\ stderr' = stderr /\ junitErrors' = junitErrors /\ junitFailures' = junitFailures
      /\ errorsByCategory' = errorsByCategory /\ flags' = flags
  BY DEF junitVars, countVars
<1>2. Reported' = Reported
  BY <1>1 DEF Reported
<1>3. Appends(<<>>)
  BY <1>2, KeepsAppends
<1>4. /\ stderr' \in Seq(Output) /\ junitErrors' \in Seq(Notes)
      /\ junitFailures' \in Seq(Messages) /\ errorsByCategory' \in Counts
  BY <1>1 DEF Shape
<1>. QED  BY <1>1, <1>3, <1>4 DEF Reporting

\* A step that prints notes.
LEMMA NoteStep ==
    ASSUME TypeOK, Shape, NEW ns \in Seq(Notes), PrintError(ns),
           UNCHANGED <<flags, junitFailures, countVars>>
    PROVE  Reporting
<1>1. /\ junitFailures' = junitFailures /\ flags' = flags
      /\ errorsByCategory' = errorsByCategory
  BY DEF countVars
<1>2. Reported' = Reported /\ stderr' \in Seq(Output) /\ junitErrors' \in Seq(Notes)
  BY <1>1, PrintErrorKeeps
<1>3. Appends(<<>>)
  BY <1>2, KeepsAppends
<1>4. junitFailures' \in Seq(Messages) /\ errorsByCategory' \in Counts
  BY <1>1 DEF Shape
<1>. QED  BY <1>1, <1>2, <1>3, <1>4 DEF Reporting

\* Notes about the current file.
LEMMA NoteType ==
    ASSUME TypeOK, Shape, InFile
    PROVE  /\ Note("config") \in Notes /\ Note("ignored") \in Notes
           /\ Note("unreadable") \in Notes /\ Note("extension") \in Notes
           /\ Note("done") \in Notes
<1>1. file \in Path
  BY SourceType
<1>2. /\ "config" \in STRING /\ "ignored" \in STRING /\ "unreadable" \in STRING
      /\ "extension" \in STRING /\ "done" \in STRING
  BY StringAssumption
<1>. QED  BY <1>1, <1>2 DEF Note, Notes

\* Every step reports in this way.
LEMMA StepReports ==
    ASSUME TypeOK, Shape, [Next]_vars
    PROVE  Reporting
<1>1. CASE BadArguments
  BY <1>1, SilentStep DEF BadArguments, inputs
<1>2. CASE ParseArguments
  BY <1>2, SilentStep DEF ParseArguments, inputs
<1>3. CASE BeginFile
  BY <1>3, SilentStep DEF BeginFile, inputs
<1>4. CASE ReadConfig
  <2> DEFINE dir == SubSeq(file, 1, depth - 1)
             read == ReadOptions(disk.cfg[dir].options, dir, file[depth])
  <2>1. InFile /\ UNCHANGED <<flags, junitFailures, countVars>>
    BY <1>4 DEF ReadConfig, InFile, inputs
  <2>2. CASE dir \notin DOMAIN disk.cfg
    <3>1. UNCHANGED <<stderr, junitErrors>>
      BY <1>4, <2>2 DEF ReadConfig
    <3>. QED  BY <2>1, <3>1, SilentStep DEF junitVars
  <2>3. CASE dir \in DOMAIN disk.cfg /\ ~disk.cfg[dir].readable
    <3>1. PrintError(<<Note("config")>>)
      BY <1>4, <2>3 DEF ReadConfig
    <3>2. <<Note("config")>> \in Seq(Notes)
      BY <2>1, NoteType
    <3>. QED  BY <2>1, <3>1, <3>2, NoteStep
  <2>4. CASE dir \in DOMAIN disk.cfg /\ disk.cfg[dir].readable
    <3>1. PrintError(read.notes)
      BY <1>4, <2>4 DEF ReadConfig
    <3>2. pc = "config" /\ depth > 0
      BY <1>4 DEF ReadConfig
    <3>3. read \in Read
      <4>1. PICK d : d = dir
        OBVIOUS
      <4>. QED  BY <2>4, <3>2, <4>1, ConfigType
    <3>4. read.notes \in Seq(Notes)
      <4> HIDE DEF read
      <4>. QED  BY <3>3 DEF Read
    <3> HIDE DEF read
    <3>. QED  BY <2>1, <3>1, <3>4, NoteStep
  <2>. QED  BY <2>2, <2>3, <2>4
<1>5. CASE AddConfigFilters
  BY <1>5, SilentStep DEF AddConfigFilters, inputs
<1>6. CASE Unreadable
  <2>1. InFile /\ UNCHANGED <<flags, junitFailures, countVars>> /\ PrintError(<<Note("unreadable")>>)
    BY <1>6 DEF Unreadable, InFile, inputs
  <2>2. <<Note("unreadable")>> \in Seq(Notes)
    BY <2>1, NoteType
  <2>. QED  BY <2>1, <2>2, NoteStep
<1>7. CASE WrongExtension
  <2>1. InFile /\ UNCHANGED <<flags, junitFailures, countVars>> /\ PrintError(<<Note("extension")>>)
    BY <1>7 DEF WrongExtension, InFile, inputs
  <2>2. <<Note("extension")>> \in Seq(Notes)
    BY <2>1, NoteType
  <2>. QED  BY <2>1, <2>2, NoteStep
<1>8. CASE BeginData \/ CheckForHeaderGuard \/ ProcessLine \/ EndData
  <2>1. /\ UNCHANGED <<flags, junitErrors, file, oldErrors, stdout>>
        /\ pc \in {"read", "guard", "lines"}
    BY <1>8 DEF BeginData, CheckForHeaderGuard, ProcessLine, EndData, inputs, fileVars
  <2>2. junitErrors' \in Seq(Notes)
    BY <2>1 DEF Shape
  <2>3. /\ \E ms : Appends(ms)
        /\ stderr' \in Seq(Output) /\ junitFailures' \in Seq(Messages)
        /\ errorsByCategory' \in Counts
    BY <1>8, ChecksAppend
  <2>. QED  BY <2>1, <2>2, <2>3 DEF Reporting
<1>9. CASE Done
  BY <1>9, SilentStep DEF Done, inputs
<1>10. CASE Finish
  <2>1. UNCHANGED <<flags, junitErrors, junitFailures, countVars>>
    BY <1>10 DEF Finish, inputs, junitVars
  <2>2. stderr' = IF flags.output = "junit" THEN Append(stderr, FormatJUnitXML) ELSE stderr
    BY <1>10 DEF Finish
  <2>3. stderr' \in Seq(Output)
    <3>1. FormatJUnitXML \in Output
      BY XmlIsComplete DEF Shape, Output
    <3>. QED  BY <2>2, <3>1 DEF Shape
  <2>4. Reported' = Reported
    BY <2>1, <2>2 DEF Reported
  <2>5. Appends(<<>>)
    BY <2>1, <2>4, KeepsAppends
  <2>6. /\ junitErrors' \in Seq(Notes) /\ junitFailures' \in Seq(Messages)
        /\ errorsByCategory' \in Counts
    BY <2>1 DEF Shape, countVars
  <2>. QED  BY <2>1, <2>3, <2>5, <2>6 DEF Reporting
<1>11. CASE UNCHANGED vars
  BY <1>11, SilentStep DEF vars, inputs
<1>12. CASE BeginLines
  BY <1>12, SilentStep DEF BeginLines, inputs
<1>. QED
  BY <1>1, <1>2, <1>3, <1>4, <1>5, <1>6, <1>7, <1>8, <1>9, <1>10, <1>11, <1>12 DEF Next
----------------------------------------------------------------------------
(***************************************************************************)
(* Types, one group of variables after the other                           *)
(***************************************************************************)
FilesOK ==
    /\ filenames \in Seq(DOMAIN disk.files)
    /\ finished \in Seq(DOMAIN disk.files)
    /\ InFile => file \in DOMAIN disk.files
    /\ file \in DOMAIN disk.files \cup {<<>>}
    /\ depth \in 0 .. Len(file)

FiltersOK ==
    /\ filters \in Seq(Filter) /\ AllSigned(filters)
    /\ filtersBackup \in Seq(Filter) /\ AllSigned(filtersBackup)
    /\ cfgFilters \in Seq(Seq(Filter))
    /\ settings \in Settings

NolintOK ==
    /\ \A s \in suppressions : s[1] \in ErrorCategories \cup {"*"} /\ s[2] \in Nat
    /\ globalSuppressions \subseteq ErrorCategories
    /\ lineNo \in Nat
    /\ pc \in {"guard", "lines"} => lineNo # 0

\* The names that main goes through are files of the disk.
LEMMA NamesType ==
    ASSUME TypeOK, NEW s, NEW names,
           names \in IF flags.recursive THEN SetToSeqs(ExpandDirectories(disk.names, s))
                                        ELSE {disk.names}
    PROVE  names \in Seq(DOMAIN disk.files)
<1>1. /\ IsFiniteSet(DOMAIN disk.files) /\ disk.names \in Seq(DOMAIN disk.files)
  BY CppLintAssumption DEF TypeOK
<1>2. CASE flags.recursive
  <2>1. PICK E : E = ExpandDirectories(disk.names, s)
    OBVIOUS
  <2>2. E \subseteq DOMAIN disk.files
    BY <2>1 DEF ExpandDirectories
  <2>3. Cardinality(E) \in Nat
    BY <1>1, <2>2, FS_Subset, FS_CardinalityType
  <2>4. names \in [1 .. Cardinality(E) -> E]
    BY <1>2, <2>1 DEF SetToSeqs
  <2>5. names \in [1 .. Cardinality(E) -> DOMAIN disk.files]
    BY <2>2, <2>4
  <2>. QED  BY <2>3, <2>5, SeqDef
<1>3. CASE ~flags.recursive
  BY <1>1, <1>3
<1>. QED  BY <1>2, <1>3

\* The files.
LEMMA FilesStep ==
    ASSUME TypeOK, Shape, [Next]_vars
    PROVE  FilesOK'
<1>1. FilesOK
  BY DEF TypeOK, Shape, FilesOK
<1>2. CASE BadArguments
  BY <1>1, <1>2 DEF BadArguments, FilesOK, InFile, inputs, fileVars, cfgVars
<1>3. CASE ParseArguments
  <2>1. PICK names : /\ names \in IF flags.recursive
                                    THEN SetToSeqs(ExpandDirectories(disk.names, settings'))
                                    ELSE {disk.names}
                     /\ filenames' = Select(names, {i \in DOMAIN names : names[i] \notin flags.exclude})
    BY <1>3 DEF ParseArguments
  <2>2. names \in Seq(DOMAIN disk.files)
    BY <2>1, NamesType
  <2>3. filenames' \in Seq(DOMAIN disk.files)
    BY <2>1, <2>2, SelectType
  <2>4. UNCHANGED <<disk, file, finished, depth>> /\ pc' = "file"
    BY <1>3 DEF ParseArguments, inputs
  <2>. QED  BY <1>1, <2>3, <2>4 DEF FilesOK, InFile
<1>4. CASE BeginFile
  <2>1. /\ filenames # <<>> /\ file' = Head(filenames) /\ filenames' = Tail(filenames)
        /\ depth' = Len(file') /\ UNCHANGED <<disk, finished>>
    BY <1>4 DEF BeginFile, inputs
  <2>2. file' \in DOMAIN disk.files /\ filenames' \in Seq(DOMAIN disk.files)
    BY <1>1, <2>1 DEF FilesOK
  <2>3. Len(file') \in Nat
    <3>1. file' \in Path
      BY <2>2, CppLintAssumption DEF TypeOK
    <3>. QED  BY <3>1 DEF Path
  <2>4. depth' \in 0 .. Len(file')
    BY <2>1, <2>3
  <2>. QED  BY <1>1, <2>1, <2>2, <2>4 DEF FilesOK
<1>5. CASE ReadConfig
  <2>1. UNCHANGED <<disk, filenames, file>> /\ InFile
    BY <1>5 DEF ReadConfig, inputs, fileVars, InFile
  <2>2. depth' = depth - 1 \/ depth' = 0
    BY <1>5 DEF ReadConfig
  <2>3. finished' = finished \/ finished' = Append(finished, file)
    BY <1>5 DEF ReadConfig, fileVars
  <2>4. file \in DOMAIN disk.files /\ Len(file) \in Nat
    BY <2>1, SourceType
  <2>5. depth' \in 0 .. Len(file')
    <3>1. depth > 0
      BY <1>5 DEF ReadConfig
    <3>. QED  BY <1>1, <2>1, <2>2, <2>4, <3>1 DEF FilesOK
  <2>6. finished' \in Seq(DOMAIN disk.files)
    <3>1. finished \in Seq(DOMAIN disk.files) /\ Append(finished, file) \in Seq(DOMAIN disk.files)
      BY <1>1, <2>4 DEF FilesOK
    <3>. QED  BY <2>3, <3>1
  <2>. QED  BY <1>1, <2>1, <2>4, <2>5, <2>6 DEF FilesOK
<1>6. CASE AddConfigFilters \/ WrongExtension \/ BeginData \/ CheckForHeaderGuard
           \/ BeginLines \/ ProcessLine \/ EndData
  <2>1. UNCHANGED <<disk, filenames, finished, file, depth>> /\ InFile
    BY <1>6 DEF AddConfigFilters, WrongExtension, BeginData, CheckForHeaderGuard,
                BeginLines, ProcessLine, EndData, inputs, fileVars, cfgVars, InFile
  <2>2. file \in DOMAIN disk.files
    BY <2>1, SourceType
  <2>. QED  BY <1>1, <2>1, <2>2 DEF FilesOK
<1>7. CASE Unreadable \/ Done
  <2>1. /\ UNCHANGED <<disk, filenames, file, depth>> /\ InFile
        /\ finished' = Append(finished, file)
    BY <1>7 DEF Unreadable, Done, inputs, cfgVars, InFile
  <2>2. file \in DOMAIN disk.files
    BY <2>1, SourceType
  <2>3. finished' \in Seq(DOMAIN disk.files)
    BY <1>1, <2>1, <2>2 DEF FilesOK
  <2>. QED  BY <1>1, <2>1, <2>2, <2>3 DEF FilesOK
<1>8. CASE Finish
  BY <1>1, <1>8 DEF Finish, FilesOK, InFile, inputs, fileVars, cfgVars
<1>9. CASE UNCHANGED vars
  BY <1>1, <1>9 DEF vars, FilesOK, InFile, inputs, fileVars, cfgVars
<1>. QED  BY <1>2, <1>3, <1>4, <1>5, <1>6, <1>7, <1>8, <1>9 DEF Next

\* Filters that all have a sign, one after the other.
LEMMA SignedConcat ==
    ASSUME NEW s \in Seq(Filter), NEW t \in Seq(Filter), AllSigned(s), AllSigned(t),
           NEW st, st = s \o t
    PROVE  st \in Seq(Filter) /\ AllSigned(st)
<1>1. st \in Seq(Filter)
  OBVIOUS
<1>2. /\ DOMAIN st = 1 .. Len(s) + Len(t) /\ Len(s) \in Nat /\ Len(t) \in Nat
      /\ DOMAIN s = 1 .. Len(s) /\ DOMAIN t = 1 .. Len(t)
  OBVIOUS
<1>3. ASSUME NEW i \in DOMAIN st  PROVE st[i].sign \in {"+", "-"}
  <2>1. CASE i <= Len(s)
    <3>1. i \in DOMAIN s /\ st[i] = s[i]
      BY <1>2, <2>1
    <3>. QED  BY <3>1 DEF AllSigned
  <2>2. CASE i > Len(s)
    <3>1. i - Len(s) \in DOMAIN t /\ st[i] = t[i - Len(s)]
      BY <1>2, <2>2
    <3>. QED  BY <3>1 DEF AllSigned
  <2>. QED  BY <1>2, <2>1, <2>2
<1>. QED  BY <1>1, <1>3 DEF AllSigned

\* The default filters.
LEMMA DefaultFiltersOK == DefaultFilters \in Seq(Filter) /\ AllSigned(DefaultFilters)
<1>3. [sign |-> "-", prefix |-> "build/include_alpha"] \in Filter
  BY StringAssumption DEF Filter
<1>4. DefaultFilters \in Seq(Filter)
  BY <1>3 DEF DefaultFilters
<1>5. AllSigned(DefaultFilters)
  BY DEF AllSigned, DefaultFilters
<1>. QED  BY <1>4, <1>5

\* The filters of the configuration files, in the order in which they are added.
LEMMA AddedType ==
    ASSUME Shape
    PROVE  FlattenSeq(Reverse(cfgFilters)) \in Seq(Filter)
<1>1. cfgFilters \in Seq(Seq(Filter))
  BY DEF Shape
<1>2. Reverse(cfgFilters) \in Seq(Seq(Filter))
  BY <1>1, ReverseType
<1>. QED  BY <1>2, FlattenType

\* The filters and settings.
LEMMA FiltersStep ==
    ASSUME TypeOK, Shape, [Next]_vars
    PROVE  FiltersOK'
<1>1. FiltersOK
  BY DEF TypeOK, Shape, FiltersOK
<1>2. CASE BadArguments \/ WrongExtension \/ BeginData \/ CheckForHeaderGuard \/ BeginLines
           \/ ProcessLine \/ EndData \/ Finish
           \/ UNCHANGED vars
  <2>1. UNCHANGED <<filters, filtersBackup, cfgFilters, settings>>
    BY <1>2 DEF BadArguments, WrongExtension, BeginData, CheckForHeaderGuard, BeginLines,
                ProcessLine, EndData, Finish, vars, filterVars, cfgVars
  <2>. QED  BY <1>1, <2>1 DEF FiltersOK, AllSigned
<1>3. CASE ParseArguments
  <2>1. /\ AllSigned(flags.filter) /\ filters' = DefaultFilters \o flags.filter
        /\ UNCHANGED <<filtersBackup, cfgFilters>>
    BY <1>3 DEF ParseArguments
  <2>2. /\ flags.filter \in Seq(Filter) /\ flags.lineLength \in Int
        /\ flags.root \in Seq(STRING) /\ flags.extensions \in SUBSET STRING
        /\ flags.headers \in SUBSET STRING
    BY CppLintAssumption DEF TypeOK
  <2>3. PICK fs : fs = DefaultFilters \o flags.filter
    OBVIOUS
  <2>4. fs \in Seq(Filter) /\ AllSigned(fs)
    BY <2>1, <2>2, <2>3, SignedConcat, DefaultFiltersOK
  <2>5. settings' \in Settings
    <3>1. PICK s : s = [lineLength |-> flags.lineLength, extensions |-> settings.extensions,
                        headers |-> settings.headers, root |-> flags.root]
      OBVIOUS
    <3>2. s \in Settings
      <4>1. settings.extensions \in SUBSET STRING /\ settings.headers \in SUBSET STRING
        BY DEF TypeOK, Settings
      <4>. QED  BY <2>2, <3>1, <4>1 DEF Settings
    <3>3. PICK s2 : s2 = ProcessExtensionsOption(s, flags.extensions)
      OBVIOUS
    <3>4. s2 \in Settings
      BY <2>2, <3>2, <3>3 DEF ProcessExtensionsOption, Settings
    <3>5. settings' = ProcessHppHeadersOption(s2, flags.headers)
      BY <1>3, <3>1, <3>3 DEF ParseArguments
    <3>. QED  BY <2>2, <3>4, <3>5 DEF ProcessHppHeadersOption, Settings
  <2>6. filters' = fs
    BY <2>1, <2>3
  <2>. QED  BY <1>1, <2>1, <2>4, <2>5, <2>6 DEF FiltersOK, AllSigned
<1>4. CASE BeginFile
  <2>1. filtersBackup' = filters /\ cfgFilters' = <<>> /\ UNCHANGED <<filters, settings>>
    BY <1>4 DEF BeginFile
  <2>2. cfgFilters' \in Seq(Seq(Filter))
    BY <2>1
  <2>. QED  BY <1>1, <2>1, <2>2 DEF FiltersOK, AllSigned
<1>5. CASE ReadConfig
  <2> DEFINE dir == SubSeq(file, 1, depth - 1)
             read == ReadOptions(disk.cfg[dir].options, dir, file[depth])
  <2>1. filters' = filters \/ filters' = filtersBackup
    BY <1>5 DEF ReadConfig, RestoreFilters
  <2>2. filtersBackup' = filtersBackup
    BY <1>5 DEF ReadConfig
  <2>3. \/ UNCHANGED <<settings, cfgFilters>>
        \/ dir \in DOMAIN disk.cfg /\ settings' = read.settings /\ cfgFilters' = read.filters
    BY <1>5 DEF ReadConfig
  <2>4. settings' \in Settings /\ cfgFilters' \in Seq(Seq(Filter))
    <3>1. CASE dir \in DOMAIN disk.cfg /\ settings' = read.settings /\ cfgFilters' = read.filters
      <4>1. pc = "config" /\ depth > 0
        BY <1>5 DEF ReadConfig
      <4>2. read \in Read
        <5>1. PICK d : d = dir
          OBVIOUS
        <5>. QED  BY <3>1, <4>1, <5>1, ConfigType
      <4> HIDE DEF read
      <4>. QED  BY <3>1, <4>2 DEF Read
    <3>2. CASE UNCHANGED <<settings, cfgFilters>>
      BY <1>1, <3>2 DEF FiltersOK
    <3>. QED  BY <2>3, <3>1, <3>2
  <2>. QED  BY <1>1, <2>1, <2>2, <2>4 DEF FiltersOK, AllSigned
<1>6. CASE AddConfigFilters
  <2>1. PICK added : added = FlattenSeq(Reverse(cfgFilters))
    OBVIOUS
  <2>2. added \in Seq(Filter)
    BY <2>1, AddedType
  <2>3. UNCHANGED <<filtersBackup, cfgFilters, settings>>
    BY <1>6 DEF AddConfigFilters, cfgVars
  <2>4. filters' = filters \/ (AllSigned(added) /\ filters' = filters \o added)
    BY <1>6, <2>1 DEF AddConfigFilters
  <2>5. PICK fs : fs = filters'
    OBVIOUS
  <2>6. fs \in Seq(Filter) /\ AllSigned(fs)
    BY <1>1, <2>2, <2>4, <2>5, SignedConcat DEF FiltersOK
  <2>. QED  BY <1>1, <2>3, <2>5, <2>6 DEF FiltersOK, AllSigned
<1>7. CASE Unreadable \/ Done
  <2>1. filters' = filtersBackup /\ UNCHANGED <<filtersBackup, cfgFilters, settings>>
    BY <1>7 DEF Unreadable, Done, RestoreFilters, cfgVars
  <2>. QED  BY <1>1, <2>1 DEF FiltersOK, AllSigned
<1>. QED  BY <1>2, <1>3, <1>4, <1>5, <1>6, <1>7 DEF Next

\* The suppressions.
LEMMA NolintStep ==
    ASSUME TypeOK, Shape, [Next]_vars
    PROVE  NolintOK'
<1>1. NolintOK
  BY DEF TypeOK, Shape, NolintOK
<1>2. CASE BeginData
  <2>1. /\ suppressions' = {} /\ globalSuppressions' = disk.files[file].global
        /\ lineNo' = 1 /\ InFile
    BY <1>2 DEF BeginData, InFile
  <2>2. globalSuppressions' \subseteq ErrorCategories
    <3>1. disk.files[file] \in Source
      BY <2>1, SourceType
    <3>. QED  BY <2>1, <3>1 DEF Source
  <2>. QED  BY <2>1, <2>2 DEF NolintOK
<1>3. CASE CheckForHeaderGuard \/ ProcessLine
  <2>1. PICK nolints, k, found : ParseAndReport(nolints, k, found) /\ k \in Nat
    <3>1. CASE ProcessLine
      BY <1>1, <3>1 DEF ProcessLine, NolintOK
    <3>2. CASE CheckForHeaderGuard
      <4>1. PICK f, g : f = disk.files[file] /\ g = GuardOf(f, settings)
        OBVIOUS
      <4>2. /\ ParseAndReport(NolintOf(f, g[lineNo].line), g[lineNo].line, g[lineNo].found)
            /\ pc = "guard" /\ lineNo <= Len(g)
        BY <3>2, <4>1 DEF CheckForHeaderGuard
      <4>3. f \in Source
        BY <4>1, <4>2, SourceType DEF InFile
      <4>4. lineNo \in Nat /\ lineNo # 0 /\ Len(g) \in Nat
        BY <1>1, <4>1, <4>2, <4>3, GuardType DEF NolintOK
      <4>5. lineNo \in 1 .. Len(g)
        BY <4>2, <4>4
      <4>6. g[lineNo].line \in Nat
        BY <4>1, <4>3, <4>5, GuardType
      <4>. QED  BY <4>2, <4>6
    <3>. QED  BY <1>3, <3>1, <3>2
  <2>2. ASSUME NEW s \in Suppressed(nolints, k)
        PROVE  s[1] \in ErrorCategories \cup {"*"} /\ s[2] \in Nat
    <3>1. PICK n \in nolints : /\ n.cat \in ErrorCategories \cup {"*"}
                               /\ s = <<n.cat, SuppressedLine(n, k)>>
      BY <2>2 DEF Suppressed
    <3>2. SuppressedLine(n, k) \in Nat
      BY <2>1 DEF SuppressedLine
    <3>. QED  BY <3>1, <3>2
  <2>3. UNCHANGED globalSuppressions /\ lineNo' = lineNo + 1
    BY <1>3 DEF CheckForHeaderGuard, ProcessLine
  <2>4. lineNo' \in Nat /\ lineNo' # 0
    BY <1>1, <2>3 DEF NolintOK
  <2>5. suppressions' = suppressions \cup Suppressed(nolints, k)
    BY <2>1 DEF ParseAndReport
  <2>. QED  BY <1>1, <2>2, <2>3, <2>4, <2>5 DEF NolintOK
<1>4. CASE BeginLines
  <2>1. UNCHANGED <<suppressions, globalSuppressions>> /\ lineNo' = 1
    BY <1>4 DEF BeginLines, nolintVars
  <2>. QED  BY <1>1, <2>1 DEF NolintOK
<1>5. CASE ~(BeginData \/ CheckForHeaderGuard \/ BeginLines \/ ProcessLine)
  <2>1. /\ UNCHANGED <<suppressions, globalSuppressions, lineNo>>
        /\ pc' \in {"guard", "lines"} => pc' = pc
    BY <1>5 DEF Next, BadArguments, ParseArguments, BeginFile, ReadConfig, AddConfigFilters,
                Unreadable, WrongExtension, EndData, Done, Finish, vars, nolintVars
  <2>. QED  BY <1>1, <2>1 DEF NolintOK
<1>. QED  BY <1>2, <1>3, <1>4, <1>5

\* The control state, the counters and the exit status.
ControlOK ==
    /\ flags \in Flags /\ disk \in Disks
    /\ pc \in {"args", "file", "config", "read", "guard", "lines", "done", "exit", "usage", "traceback"}
    /\ errorCount \in Nat /\ oldErrors \in 0 .. errorCount
    /\ exitStatus \in {0, 1}

\* They keep their types.
LEMMA ControlStep ==
    ASSUME TypeOK, Shape, [Next]_vars
    PROVE  ControlOK'
<1>1. ControlOK
  BY DEF TypeOK, ControlOK
<1>2. PICK ms : Appends(ms)
  BY StepReports DEF Reporting
<1>3. errorCount' \in Nat /\ errorCount <= errorCount'
  <2>1. errorCount' = errorCount + Len(ms) /\ Len(ms) \in Nat
    BY <1>2 DEF Appends
  <2>. QED  BY <1>1, <2>1 DEF ControlOK
<1>4. oldErrors' = oldErrors \/ oldErrors' = errorCount
  BY DEF Next, BadArguments, ParseArguments, BeginFile, ReadConfig, AddConfigFilters,
         Unreadable, WrongExtension, BeginData, CheckForHeaderGuard, BeginLines,
         ProcessLine, EndData, Done, Finish, vars, fileVars
<1>5. oldErrors' \in 0 .. errorCount'
  BY <1>1, <1>3, <1>4 DEF ControlOK
<1>6. UNCHANGED <<flags, disk>>
  BY DEF Next, BadArguments, ParseArguments, BeginFile, ReadConfig, AddConfigFilters,
         Unreadable, WrongExtension, BeginData, CheckForHeaderGuard, BeginLines,
         ProcessLine, EndData, Done, Finish, vars, inputs
<1>7. pc' \in {"file", "config", "read", "guard", "lines", "done", "exit", "usage", "traceback"} \/ pc' = pc
  BY DEF Next, BadArguments, ParseArguments, BeginFile, ReadConfig, AddConfigFilters,
         Unreadable, WrongExtension, BeginData, CheckForHeaderGuard, BeginLines,
         ProcessLine, EndData, Done, Finish, vars
<1>8. exitStatus' \in {0, 1} \/ exitStatus' = exitStatus
  BY DEF Next, BadArguments, ParseArguments, BeginFile, ReadConfig, AddConfigFilters,
         Unreadable, WrongExtension, BeginData, CheckForHeaderGuard, BeginLines,
         ProcessLine, EndData, Done, Finish, vars
<1>. QED  BY <1>1, <1>3, <1>5, <1>6, <1>7, <1>8 DEF ControlOK

\* A step prints nothing, or one of three texts.
LEMMA StepPrints ==
    ASSUME TypeOK, Shape, [Next]_vars
    PROVE  \/ stdout' = stdout
           \/ ReadConfig /\ ~flags.quiet /\ stdout' = Append(stdout, Note("ignored"))
           \/ Done /\ (~flags.quiet \/ oldErrors # errorCount)
                   /\ stdout' = Append(stdout, Note("done"))
           \/ Finish /\ errorCount > 0
                     /\ stdout' = Append(stdout, [total |-> errorCount,
                                                 categories |-> errorsByCategory])
<1>1. CASE ReadConfig
  BY <1>1 DEF ReadConfig, PrintInfo
<1>2. CASE Done
  BY <1>2 DEF Done, PrintInfo
<1>3. CASE Finish
  BY <1>3 DEF Finish, PrintInfo
<1>4. CASE ~(ReadConfig \/ Done \/ Finish)
  BY <1>4 DEF Next, BadArguments, ParseArguments, BeginFile, AddConfigFilters, Unreadable,
              WrongExtension, BeginData, CheckForHeaderGuard, BeginLines, ProcessLine, EndData, vars
<1>. QED  BY <1>1, <1>2, <1>3, <1>4

\* The types are inductive together with the shape of the sequences.
LEMMA TypeStep ==
    ASSUME TypeOK, Shape, [Next]_vars
    PROVE  TypeOK' /\ Shape'
<1>1. FilesOK' /\ FiltersOK' /\ NolintOK' /\ ControlOK'
  BY FilesStep, FiltersStep, NolintStep, ControlStep
<1>2. /\ stderr' \in Seq(Output) /\ junitErrors' \in Seq(Notes)
      /\ junitFailures' \in Seq(Messages) /\ errorsByCategory' \in Counts
  BY StepReports DEF Reporting
<1>3. stdout' \in Seq(Notes \cup Totals)
  <2>1. stdout \in Seq(Notes \cup Totals)
    BY DEF Shape
  <2>2. ReadConfig => Note("ignored") \in Notes
    BY NoteType DEF ReadConfig, InFile
  <2>3. Done => Note("done") \in Notes
    BY NoteType DEF Done, InFile
  <2>4. [total |-> errorCount, categories |-> errorsByCategory] \in Totals
    BY DEF Totals, TypeOK, Shape
  <2>5. stdout' = stdout \/ \E x \in Notes \cup Totals : stdout' = Append(stdout, x)
    BY <2>2, <2>3, <2>4, StepPrints
  <2>. QED  BY <2>1, <2>5
<1>4. IsABag(errorsByCategory)'
  <2>1. PICK b : b = errorsByCategory'
    OBVIOUS
  <2>2. b \in [DOMAIN b -> {n \in Nat : n > 0}]
    BY <1>2, <2>1, CountsAre
  <2>. QED  BY <2>1, <2>2 DEF IsABag
<1>5. Shape'
  BY <1>1, <1>2, <1>3 DEF Shape, FilesOK, FiltersOK, NolintOK
<1>6. (ToSet(filenames) \subseteq DOMAIN disk.files)' /\ (ToSet(finished) \subseteq DOMAIN disk.files)'
  <2>1. \A D : \A t \in Seq(D) : ToSet(t) \subseteq D
    BY DEF ToSet
  <2>2. PICK D, s, t : D = (DOMAIN disk.files)' /\ s = filenames' /\ t = finished'
    OBVIOUS
  <2>3. s \in Seq(D) /\ t \in Seq(D)
    BY <1>5, <2>2 DEF Shape
  <2>4. ToSet(s) \subseteq D /\ ToSet(t) \subseteq D
    BY <2>1, <2>3
  <2>. QED  BY <2>2, <2>4 DEF ToSet
<1>. QED  BY <1>1, <1>4, <1>5, <1>6 DEF TypeOK, FilesOK, FiltersOK, NolintOK, ControlOK
----------------------------------------------------------------------------
(***************************************************************************)
(* The theorems                                                            *)
(***************************************************************************)

\* Initially nothing has been reported.
LEMMA InitInv == Init => Inv
<1> SUFFICES ASSUME Init PROVE Inv
  OBVIOUS
<1> USE DEF Init
<1>1. Reported = <<>>
  <2>1. PICK s \in Seq(Output) : s = <<>>
    <3>1. <<>> \in Seq(Output)
      OBVIOUS
    <3>. QED  BY <3>1
  <2>2. \A at : Select(s, at) = <<>>
    <3>1. \A at : \A i \in 1 .. Len(s) : i \notin at
      BY <2>1
    <3>. QED  BY <2>1, <3>1, SelectNone
  <2>. QED  BY <2>1, <2>2 DEF Reported
<1>2. EmptyBag \in Counts /\ DOMAIN EmptyBag = {}
  <2>1. DOMAIN EmptyBag = {} /\ EmptyBag \in [{} -> {n \in Nat : n > 0}]
    BY DEF EmptyBag, SetToBag
  <2>. QED  BY <2>1, CountsAre, FS_EmptySet
<1>3. Tallies(EmptyBag, <<>>, 0)
  <2>1. Total(EmptyBag) = 0
    <3>1. PICK b, D : b = EmptyBag /\ D = DOMAIN EmptyBag
      OBVIOUS
    <3>2. D = {} /\ IsFiniteSet(D) /\ \A x \in D : b[x] \in Int
      BY <1>2, <3>1, FS_EmptySet
    <3>3. SumFunctionOnSet(b, D) = 0
      BY <3>2, SumType
    <3>. QED  BY <3>1, <3>3 DEF Total
  <2>2. ASSUME NEW key  PROVE Tally(<<>>, 0, key) = 0
    <3>1. {i \in 1 .. 0 : CountingKey(<<>>[i].cat) = key} = {}
      OBVIOUS
    <3>. QED  BY <3>1, FS_EmptySet DEF Tally
  <2>. QED  BY <1>2, <2>1, <2>2 DEF Tallies, Copies
<1>4. TypeOK
  <2>1. AllSigned(filters) /\ AllSigned(filtersBackup)
    BY DefaultFiltersOK
  <2>2. settings \in Settings
    <3>1. <<>> \in Seq(STRING)
      OBVIOUS
    <3>. QED  BY <3>1 DEF Settings
  <2>3. IsABag(errorsByCategory)
    BY <1>2, CountsAre DEF IsABag
  <2>4. ToSet(filenames) = {} /\ ToSet(finished) = {}
    BY DEF ToSet
  <2>5. depth \in 0 .. Len(file)
    OBVIOUS
  <2>. QED  BY <2>1, <2>2, <2>3, <2>4, <2>5 DEF TypeOK
<1>5. Shape
  <2>1. filters \in Seq(Filter) /\ filtersBackup \in Seq(Filter)
    BY DefaultFiltersOK
  <2>2. ~InFile /\ pc # "lines"
    BY DEF InFile
  <2>3. \A D : <<>> \in Seq(D)
    OBVIOUS
  <2>. QED  BY <1>2, <2>1, <2>2, <2>3 DEF Shape
<1>6. CountInv
  BY <1>1, <1>3 DEF CountInv
<1>7. FileInv /\ ExitInv
  BY DEF FileInv, ExitInv, InFile
<1>8. QuietIsQuiet
  BY DEF QuietIsQuiet
<1>. QED  BY <1>4, <1>5, <1>6, <1>7, <1>8 DEF Inv

\* The counters and the report grow together.
LEMMA CountStep ==
    ASSUME Inv, [Next]_vars
    PROVE  CountInv'
<1>1. TypeOK /\ Shape /\ CountInv
  BY DEF Inv
<1>2. PICK ms : Appends(ms)
  BY <1>1, StepReports DEF Reporting
<1>3. UNCHANGED flags
  BY <1>1, StepReports DEF Reporting
<1>4. Reported \in Seq(Messages)
  BY <1>1, ReportedType DEF Shape
<1>5. Len(Reported') = Len(Reported) + Len(ms)
  BY <1>2, <1>4 DEF Appends
<1>6. errorCount' = Len(Reported')
  BY <1>1, <1>2, <1>5 DEF Appends, CountInv
<1>7. IsCounting => Tallies(errorsByCategory', Reported', Len(Reported'))
  BY <1>1, <1>2 DEF Appends, CountInv
<1>8. IsCounting' <=> IsCounting
  BY <1>3 DEF IsCounting
<1>9. PICK b, s, n : b = errorsByCategory' /\ s = Reported' /\ n = Len(Reported')
  OBVIOUS
<1>10. Tallies(b, s, n) => Tallies(errorsByCategory, Reported, errorCount)'
  BY <1>3, <1>6, <1>9 DEF Tallies, Tally, CountingKey, Total, Copies
<1>. QED  BY <1>6, <1>7, <1>8, <1>9, <1>10 DEF CountInv

\* What has been reported stays reported.
LEMMA ReportedStays ==
    ASSUME Inv, [Next]_vars
    PROVE  \A f : (\E j \in DOMAIN Reported : Reported[j].file = f)
                     => \E j \in DOMAIN Reported' : Reported'[j].file = f
<1>1. TypeOK /\ Shape
  BY DEF Inv
<1>2. PICK ms : Appends(ms)
  BY <1>1, StepReports DEF Reporting
<1>3. Reported \in Seq(Messages)
  BY <1>1, ReportedType DEF Shape
<1>4. PICK s, t : s = Reported /\ t = Reported'
  OBVIOUS
<1>5. t = s \o ms /\ s \in Seq(Messages) /\ ms \in Seq(Messages)
  BY <1>2, <1>3, <1>4 DEF Appends
<1>6. \A j \in DOMAIN s : j \in DOMAIN t /\ t[j] = s[j]
  BY <1>5
<1>. QED  BY <1>4, <1>6

\* An error counted since the file was begun is reported for the file.
LEMMA FileStep ==
    ASSUME Inv, [Next]_vars
    PROVE  FileInv'
<1>1. TypeOK /\ Shape /\ FileInv
  BY DEF Inv
<1>2. PICK ms : Appends(ms) /\ (ms # <<>> => /\ pc \in {"read", "guard", "lines"}
                                           /\ UNCHANGED <<file, oldErrors, stdout>>)
  BY <1>1, StepReports DEF Reporting
<1>3. CASE ms # <<>>
  <2>1. 1 \in 1 .. Len(ms) /\ ms \in Seq(Messages)
    BY <1>2, <1>3, EmptySeq DEF Appends
  <2>2. ms[1].file = file'
    BY <1>2, <1>3, <2>1 DEF Appends
  <2>3. PICK s, t : s = Reported /\ t = Reported'
    OBVIOUS
  <2>4. s \in Seq(Messages)
    BY <1>1, <2>3, ReportedType DEF Shape
  <2>5. t = s \o ms
    BY <1>2, <2>3 DEF Appends
  <2>6. Len(s) + 1 \in DOMAIN t /\ t[Len(s) + 1] = ms[1]
    BY <2>1, <2>4, <2>5
  <2>. QED  BY <2>2, <2>3, <2>6 DEF FileInv
<1>4. CASE ms = <<>>
  <2>1. errorCount' = errorCount
    BY <1>1, <1>2, <1>4 DEF Appends, TypeOK
  <2>2. CASE BeginFile
    BY <2>1, <2>2 DEF BeginFile, FileInv
  <2>3. CASE ~BeginFile
    <3>1. UNCHANGED <<file, oldErrors>> /\ (InFile' => InFile)
      BY <2>3 DEF Next, BadArguments, ParseArguments, ReadConfig, AddConfigFilters,
                  Unreadable, WrongExtension, BeginData, CheckForHeaderGuard, BeginLines,
                  ProcessLine, EndData, Done, Finish, vars, fileVars, InFile
    <3>. QED  BY <1>1, <2>1, <3>1, ReportedStays DEF FileInv
  <2>. QED  BY <2>2, <2>3
<1>. QED  BY <1>3, <1>4

\* The last step.
LEMMA ExitStep ==
    ASSUME Inv, [Next]_vars
    PROVE  ExitInv'
<1>1. TypeOK /\ Shape /\ ExitInv
  BY DEF Inv
<1>2. CASE Finish
  <2>1. /\ exitStatus' = (IF errorCount > 0 THEN 1 ELSE 0)
        /\ UNCHANGED <<flags, errorCount, junitFailures>>
        /\ stderr' = IF flags.output = "junit" THEN Append(stderr, FormatJUnitXML) ELSE stderr
    BY <1>2 DEF Finish, inputs, countVars, junitVars
  <2>2. XmlComplete(FormatJUnitXML.testcases)
    BY <1>1, XmlIsComplete DEF Shape
  <2>3. ASSUME flags.output = "junit"  PROVE XmlComplete(Last(stderr).testcases)'
    <3>1. PICK e, x : e = stderr' /\ x = FormatJUnitXML
      OBVIOUS
    <3>2. stderr \in Seq(Output) /\ x \in Output
      BY <1>1, <3>1, XmlIsComplete DEF Shape, Output
    <3>3. e = Append(stderr, x)
      BY <2>1, <2>3, <3>1
    <3>4. Last(e) = x
      BY <3>2, <3>3 DEF Last
    <3>5. (Last(stderr).testcases)' = x.testcases
      BY <3>1, <3>4 DEF Last
    <3>. QED  BY <2>1, <2>2, <3>1, <3>5 DEF XmlComplete
  <2>. QED  BY <2>1, <2>3 DEF ExitInv
<1>3. CASE ~Finish
  <2>1. pc' = "exit" => UNCHANGED <<pc, flags, exitStatus, errorCount, stderr, junitFailures>>
    BY <1>3 DEF Next, BadArguments, ParseArguments, BeginFile, ReadConfig, AddConfigFilters,
                Unreadable, WrongExtension, BeginData, CheckForHeaderGuard, BeginLines,
                ProcessLine, EndData, Done, vars, inputs, countVars, junitVars
  <2>. QED  BY <1>1, <2>1 DEF ExitInv, XmlComplete
<1>. QED  BY <1>2, <1>3

\* --quiet.
LEMMA QuietStep ==
    ASSUME Inv, [Next]_vars
    PROVE  QuietIsQuiet'
<1>1. TypeOK /\ Shape /\ FileInv /\ QuietIsQuiet
  BY DEF Inv
<1>2. PICK ms : Appends(ms) /\ (ms # <<>> => UNCHANGED stdout)
  BY <1>1, StepReports DEF Reporting
<1>3. UNCHANGED flags
  BY <1>1, StepReports DEF Reporting
<1> SUFFICES ASSUME flags.quiet PROVE QuietIsQuiet'
  BY <1>3 DEF QuietIsQuiet
<1>4. errorCount \in Nat /\ errorCount' = errorCount + Len(ms) /\ Len(ms) \in Nat
  BY <1>1, <1>2 DEF TypeOK, Appends
<1>5. CASE stdout' = stdout
  <2>1. errorCount' = 0 => stdout' = <<>>
    BY <1>1, <1>4, <1>5 DEF QuietIsQuiet
  <2>2. ASSUME NEW i \in DOMAIN stdout, "note" \in DOMAIN stdout[i]
        PROVE  \E j \in DOMAIN Reported' : Reported'[j].file = stdout[i].file
    BY <1>1, <2>2, ReportedStays DEF QuietIsQuiet
  <2>. QED  BY <1>5, <2>1, <2>2 DEF QuietIsQuiet
<1>6. ASSUME NEW x \in Notes \cup Totals, stdout' = Append(stdout, x), errorCount > 0,
             x \in Notes => \E j \in DOMAIN Reported : Reported[j].file = x.file
      PROVE  QuietIsQuiet'
  <2>1. PICK s : s = stdout'
    OBVIOUS
  <2>2. stdout \in Seq(Notes \cup Totals)
    BY <1>1 DEF Shape
  <2>3. /\ \A i \in DOMAIN s : (i \in DOMAIN stdout /\ s[i] = stdout[i]) \/ s[i] = x
    BY <1>6, <2>1, <2>2
  <2>4. "note" \in DOMAIN x => x \in Notes
    BY Fields
  <2>5. ASSUME NEW i \in DOMAIN s, "note" \in DOMAIN s[i]
        PROVE  \E j \in DOMAIN Reported : Reported[j].file = s[i].file
    BY <1>1, <1>6, <2>3, <2>4, <2>5 DEF QuietIsQuiet
  <2>6. ASSUME NEW i \in DOMAIN s, "note" \in DOMAIN s[i]
        PROVE  \E j \in DOMAIN Reported' : Reported'[j].file = s[i].file
    BY <2>5, <2>6, ReportedStays
  <2>7. errorCount' # 0
    BY <1>4, <1>6
  <2>. QED  BY <2>1, <2>6, <2>7 DEF QuietIsQuiet
<1>7. CASE Done /\ oldErrors # errorCount /\ stdout' = Append(stdout, Note("done"))
  <2>1. InFile
    BY <1>7 DEF Done, InFile
  <2>2. PICK x : x = Note("done")
    OBVIOUS
  <2>3. x \in Notes /\ x.file = file
    BY <1>1, <2>1, <2>2, NoteType DEF Note
  <2>4. \E j \in DOMAIN Reported : Reported[j].file = file
    BY <1>1, <1>7, <2>1 DEF FileInv
  <2>5. errorCount > 0
    BY <1>1, <1>7 DEF TypeOK
  <2>. QED  BY <1>6, <1>7, <2>2, <2>3, <2>4, <2>5
<1>8. CASE /\ Finish /\ errorCount > 0
           /\ stdout' = Append(stdout, [total |-> errorCount, categories |-> errorsByCategory])
  <2>1. PICK x : x = [total |-> errorCount, categories |-> errorsByCategory]
    OBVIOUS
  <2>2. x \in Totals
    BY <1>1, <2>1 DEF Totals, TypeOK, Shape
  <2>3. x \notin Notes
    BY <2>2, Fields DEF Notes
  <2>. QED  BY <1>6, <1>8, <2>1, <2>2, <2>3
<1>. QED  BY <1>1, <1>5, <1>7, <1>8, StepPrints

\* The invariant is inductive.
LEMMA Invariance == Spec => []Inv
<1>1. Inv /\ [Next]_vars => Inv'
  BY TypeStep, CountStep, FileStep, ExitStep, QuietStep DEF Inv
<1>. QED  BY InitInv, <1>1, PTL DEF Spec

\* Every variable of the driver keeps its type, whatever the options, files and
\* configuration files: the names gone through are files, the filters all have a
\* sign, the settings read from a CPPLINT.cfg are settings.
THEOREM TypeCorrect == Spec => []TypeOK
BY Invariance, PTL DEF Inv

\* A run that gets to its end exits with 1 exactly if it reported something, the
\* counts of the categories are those of what was reported and add up to the
\* total, and the XML has every failure once.
THEOREM ExitStatus == Spec => []ExitCodeTellsErrors
<1>1. Inv => ExitCodeTellsErrors
  <2> SUFFICES ASSUME Inv, pc = "exit" PROVE ExitCodeTellsErrors
    BY DEF ExitCodeTellsErrors
  <2>1. TypeOK /\ Shape /\ CountInv /\ ExitInv
    BY DEF Inv
  <2>2. Reported \in Seq(Messages)
    BY <2>1, ReportedType DEF Shape
  <2>3. errorCount = Len(Reported) /\ errorCount \in Nat
    BY <2>1 DEF CountInv, TypeOK
  <2>4. Reported = <<>> <=> errorCount = 0
    BY <2>2, <2>3, EmptySeq
  <2>5. exitStatus = IF Reported = <<>> THEN 0 ELSE 1
    BY <2>1, <2>3, <2>4 DEF ExitInv
  <2>6. ASSUME IsCounting
        PROVE  /\ SumFunctionOnSet(errorsByCategory, DOMAIN errorsByCategory) = errorCount
               /\ \A key \in DOMAIN errorsByCategory :
                     errorsByCategory[key] =
                         Cardinality({i \in DOMAIN Reported : CountingKey(Reported[i].cat) = key})
    <3>1. Tallies(errorsByCategory, Reported, errorCount)
      BY <2>1, <2>6 DEF CountInv
    <3>2. DOMAIN Reported = 1 .. errorCount
      BY <2>2, <2>3
    <3>. QED  BY <3>1, <3>2 DEF Tallies, Total, Copies, Tally
  <2>7. flags.output = "junit" => XmlComplete(Last(stderr).testcases)
    BY <2>1 DEF ExitInv
  <2>. QED  BY <2>3, <2>5, <2>6, <2>7 DEF ExitCodeTellsErrors, IsCounting, XmlComplete
<1>. QED  BY Invariance, <1>1, PTL

\* With --quiet nothing is printed on stdout where no errors are found, and a file
\* is named as done only if errors were reported for that very file.
THEOREM Quiet == Spec => []QuietIsQuiet
BY Invariance, PTL DEF Inv
----------------------------------------------------------------------------
(***************************************************************************)
(* Filters: the last one that speaks of a category decides                 *)
(***************************************************************************)
\* r[i] tells whether the first i filters of fs filter cat.
Filters(fs, cat, r) ==
    /\ r \in [0 .. Len(fs) -> BOOLEAN]
    /\ r[0] = FALSE
    /\ \A i \in 1 .. Len(fs) :
          r[i] = IF IsPrefix(fs[i].prefix, cat) THEN fs[i].sign = "-" ELSE r[i - 1]

\* IsFiltered is a fold over the filters.
LEMMA IsFilteredUnfold ==
    ASSUME filters \in Seq(Filter), NEW cat
    PROVE  \E r : Filters(filters, cat, r) /\ IsFiltered(cat) = r[Len(filters)]
<1> DEFINE n == Len(filters)
           W == BOOLEAN
           b == FALSE
           Step(w, i) == IF IsPrefix(filters[i].prefix, cat) THEN filters[i].sign = "-" ELSE w
           g == [p \in (1 .. n) \X W |-> Step(p[2], p[1])]
           Eq(it) == it = [S \in SUBSET (1 .. n) |->
                IF S = {} THEN b ELSE Step(it[S \ {Max(S)}], Max(S))]
<1>1. n \in Nat /\ DOMAIN filters = 1 .. n /\ b \in W
  OBVIOUS
<1>2. \A w \in W, i \in 1 .. n : Step(w, i) \in W
  OBVIOUS
<1>. HIDE DEF n, W, b
<1>3. g \in [(1 .. n) \X W -> W]
  <2> HIDE DEF Step
  <2>. QED  BY <1>2
<1>4. \A w \in W, i \in 1 .. n : g[<<i, w>>] = Step(w, i)
  <2> HIDE DEF Step
  <2>. QED  OBVIOUS
<1>. HIDE DEF g
<1>5. PICK it \in [SUBSET (1 .. n) -> W] : FoldsSets(n, b, g, it)
  BY <1>1, <1>3, FoldExists
<1>6. Eq(it)
  <2>. HIDE DEF Step
  <2>1. ASSUME NEW S \in SUBSET (1 .. n), S # {}
        PROVE  it[S] = Step(it[S \ {Max(S)}], Max(S))
    <3>1. Max(S) \in 1 .. n /\ S \ {Max(S)} \in SUBSET (1 .. n)
      BY <1>1, <2>1, MaxOfPositions
    <3>2. it[S] = g[<<Max(S), it[S \ {Max(S)}]>>] /\ it[S \ {Max(S)}] \in W
      BY <1>5, <2>1, <3>1 DEF FoldsSets
    <3>. QED  BY <1>4, <3>1, <3>2
  <2>2. it[{}] = b
    BY <1>5 DEF FoldsSets
  <2>3. \A S \in SUBSET (1 .. n) : it[S] =
           IF S = {} THEN b ELSE Step(it[S \ {Max(S)}], Max(S))
    BY <2>1, <2>2
  <2>. QED  BY <1>5, <2>3
<1>7. PICK fold : Eq(fold) /\ IsFiltered(cat) = fold[1 .. n]
  BY <1>1, <1>6 DEF IsFiltered, FoldLeft, MapThenFoldSet, b
<1>8. FoldsTo(n, W, b, g, fold[1 .. n])
  <2>1. fold[{}] = b
    BY <1>7
  <2>2. ASSUME NEW S \in SUBSET (1 .. n), S # {}, fold[S \ {Max(S)}] \in W
        PROVE  fold[S] = g[<<Max(S), fold[S \ {Max(S)}]>>]
    <3>1. fold[S] = Step(fold[S \ {Max(S)}], Max(S))
      BY <1>7, <2>2
    <3>2. Max(S) \in 1 .. n
      BY <1>1, <2>2, MaxOfPositions
    <3>. HIDE DEF Step
    <3>3. g[<<Max(S), fold[S \ {Max(S)}]>>] = Step(fold[S \ {Max(S)}], Max(S))
      BY <1>4, <2>2, <3>2, Zenon
    <3>. QED  BY <3>1, <3>3
  <2>. HIDE DEF Step
  <2>3. \A S \in SUBSET (1 .. n) : S # {} /\ fold[S \ {Max(S)}] \in W =>
            fold[S] = g[<<Max(S), fold[S \ {Max(S)}]>>]
    BY <2>2, Zenon
  <2>4. FoldsWithin(n, W, b, g, fold)
    BY <2>1, <2>3 DEF FoldsWithin
  <2>. QED  BY <1>1, <1>3, <2>4, FoldWalks
<1>9. PICK r : IsFold(n, W, b, g, r) /\ fold[1 .. n] = r[n]
  BY <1>8 DEF FoldsTo
<1>10. ASSUME NEW i \in 1 .. n  PROVE r[i] = Step(r[i - 1], i)
  <2>1. i - 1 \in 0 .. n /\ r[i - 1] \in W /\ r[i] = g[<<i, r[i - 1]>>]
    BY <1>1, <1>9 DEF IsFold
  <2>. HIDE DEF Step
  <2>. QED  BY <1>4, <2>1
<1>. QED  BY <1>7, <1>9, <1>10 DEF IsFold, Filters, n, W, b

\* The last of the first k filters that speaks of cat takes it away.
TakenAway(fs, cat, k) ==
    \E i \in 1 .. k : /\ IsPrefix(fs[i].prefix, cat)
                      /\ \A j \in (i + 1) .. k : ~IsPrefix(fs[j].prefix, cat)
                      /\ fs[i].sign = "-"

\* One filter more.
LEMMA TakenAwayOne ==
    ASSUME NEW fs, NEW cat, NEW k \in Nat
    PROVE  TakenAway(fs, cat, k + 1) <=>
              IF IsPrefix(fs[k + 1].prefix, cat) THEN fs[k + 1].sign = "-"
              ELSE TakenAway(fs, cat, k)
<1> DEFINE P(i) == IsPrefix(fs[i].prefix, cat)
<1>1. CASE P(k + 1)
  <2>1. ASSUME fs[k + 1].sign = "-"  PROVE TakenAway(fs, cat, k + 1)
    <3>1. k + 1 \in 1 .. (k + 1) /\ (k + 1 + 1) .. (k + 1) = {}
      OBVIOUS
    <3>. QED  BY <1>1, <2>1, <3>1 DEF TakenAway
  <2>2. ASSUME TakenAway(fs, cat, k + 1)  PROVE fs[k + 1].sign = "-"
    <3>1. PICK i \in 1 .. (k + 1) : /\ P(i) /\ fs[i].sign = "-"
                                    /\ \A j \in (i + 1) .. (k + 1) : ~P(j)
      BY <2>2 DEF TakenAway
    <3>2. i # k + 1 => k + 1 \in (i + 1) .. (k + 1)
      OBVIOUS
    <3>. QED  BY <1>1, <3>1, <3>2
  <2>. QED  BY <1>1, <2>1, <2>2
<1>2. CASE ~P(k + 1)
  <2>1. ASSUME TakenAway(fs, cat, k)  PROVE TakenAway(fs, cat, k + 1)
    <3>1. PICK i \in 1 .. k : /\ P(i) /\ fs[i].sign = "-"
                              /\ \A j \in (i + 1) .. k : ~P(j)
      BY <2>1 DEF TakenAway
    <3>2. i \in 1 .. (k + 1) /\ \A j \in (i + 1) .. (k + 1) : j = k + 1 \/ j \in (i + 1) .. k
      OBVIOUS
    <3>3. \A j \in (i + 1) .. (k + 1) : ~P(j)
      BY <1>2, <3>1, <3>2
    <3>. QED  BY <3>1, <3>2, <3>3 DEF TakenAway
  <2>2. ASSUME TakenAway(fs, cat, k + 1)  PROVE TakenAway(fs, cat, k)
    <3>1. PICK i \in 1 .. (k + 1) : /\ P(i) /\ fs[i].sign = "-"
                                    /\ \A j \in (i + 1) .. (k + 1) : ~P(j)
      BY <2>2 DEF TakenAway
    <3>2. i # k + 1
      BY <1>2, <3>1
    <3>3. i \in 1 .. k /\ \A j \in (i + 1) .. k : j \in (i + 1) .. (k + 1)
      BY <3>2
    <3>. QED  BY <3>1, <3>3 DEF TakenAway
  <2>. QED  BY <1>2, <2>1, <2>2
<1>. QED  BY <1>1, <1>2

\* IsFiltered and Passes are opposites.
LEMMA FilteredOrPasses ==
    ASSUME filters \in Seq(Filter), AllSigned(filters), NEW cat
    PROVE  IsFiltered(cat) <=> ~Passes(filters, cat)
<1>1. PICK r : Filters(filters, cat, r) /\ IsFiltered(cat) = r[Len(filters)]
  BY IsFilteredUnfold
<1>2. PICK n \in Nat : n = Len(filters)
  OBVIOUS
<1> DEFINE S == {k \in Nat : k <= n => (r[k] <=> TakenAway(filters, cat, k))}
<1>3. 0 \in S
  <2>1. r[0] = FALSE /\ 1 .. 0 = {}
    BY <1>1 DEF Filters
  <2>2. ~TakenAway(filters, cat, 0)
    BY <2>1 DEF TakenAway
  <2>. QED  BY <2>1, <2>2
<1>4. ASSUME NEW k \in Nat, k \in S  PROVE k + 1 \in S
  <2> SUFFICES ASSUME k + 1 <= n  PROVE r[k + 1] <=> TakenAway(filters, cat, k + 1)
    OBVIOUS
  <2>1. k <= n /\ k + 1 \in 1 .. Len(filters) /\ k + 1 - 1 = k
    BY <1>2
  <2>2. r[k] <=> TakenAway(filters, cat, k)
    BY <1>4, <2>1
  <2>3. PICK j \in 1 .. Len(filters) : j = k + 1
    BY <2>1
  <2>4. r[j] = IF IsPrefix(filters[j].prefix, cat) THEN filters[j].sign = "-" ELSE r[j - 1]
    BY <1>1 DEF Filters
  <2>5. j - 1 = k
    BY <2>1, <2>3
  <2>6. r[j] <=> IF IsPrefix(filters[j].prefix, cat) THEN filters[j].sign = "-"
                 ELSE TakenAway(filters, cat, k)
    BY <2>2, <2>4, <2>5
  <2>. QED  BY <2>3, <2>6, TakenAwayOne
<1> HIDE DEF S
<1>5. \A k \in Nat : k \in S
  BY <1>3, <1>4, InductiveSet
<1>6. r[n] <=> TakenAway(filters, cat, n)
  BY <1>5 DEF S
<1>7. DOMAIN filters = 1 .. n
  BY <1>2
<1>8. \A i \in 1 .. n : filters[i].sign = "-" <=> filters[i].sign # "+"
  BY <1>7 DEF AllSigned
<1>9. TakenAway(filters, cat, n) <=> ~Passes(filters, cat)
  BY <1>2, <1>7, <1>8 DEF TakenAway, Passes
<1>. QED  BY <1>1, <1>2, <1>6, <1>9
----------------------------------------------------------------------------
(***************************************************************************)
(* CPPLINT.cfg: what is read of it                                         *)
(***************************************************************************)
\* What one line does.
LEMMA ReadOptionFields ==
    ASSUME NEW acc \in Read, NEW opt, NEW dir, NEW base, NEW new,
           new = ReadOption(acc, opt, dir, base)
    PROVE  /\ acc.ignore => new = acc
           /\ ~acc.ignore =>
                 /\ new.ignore <=> opt.name = "exclude_files" /\ base \in opt.val
                 /\ new.keepLooking <=> acc.keepLooking /\ opt.name # "noparent"
                 /\ new.filters = IF opt.name = "filter" THEN Append(acc.filters, opt.val)
                                  ELSE acc.filters
                 /\ new.settings = ReadSetting(acc.settings, opt, dir)
<1>1. CASE acc.ignore
  BY <1>1 DEF ReadOption
<1>2. CASE ~acc.ignore
  BY <1>2 DEF ReadOption
<1>. QED  BY <1>1, <1>2

\* A file is ignored from the first pattern on that matches.
LEMMA ReadIgnores ==
    ASSUME NEW opts, Len(opts) \in Nat, NEW dir, NEW base, NEW r, Reads(opts, dir, base, r)
    PROVE  \A k \in 0 .. Len(opts) :
              r[k].ignore <=>
                 \E i \in 1 .. k : opts[i].name = "exclude_files" /\ base \in opts[i].val
<1> DEFINE X(i) == opts[i].name = "exclude_files" /\ base \in opts[i].val
           Same(k) == r[k].ignore <=> \E i \in 1 .. k : X(i)
           S == {k \in Nat : k <= Len(opts) => Same(k)}
<1>1. 0 \in S
  <2>1. r[0].ignore = FALSE /\ 1 .. 0 = {}
    BY DEF Reads, ReadNothing
  <2>. QED  BY <2>1
<1>2. ASSUME NEW k \in Nat, k \in S  PROVE k + 1 \in S
  <2> SUFFICES ASSUME k + 1 <= Len(opts)  PROVE Same(k + 1)
    OBVIOUS
  <2>1. PICK j \in 1 .. Len(opts) : j = k + 1
    OBVIOUS
  <2>2. k \in 0 .. Len(opts) /\ j - 1 = k
    BY <2>1
  <2>3. Same(k)
    BY <1>2, <2>2
  <2>4. r[j] = ReadOption(r[k], opts[j], dir, base) /\ r[k] \in Read
    BY <2>2 DEF Reads
  <2>5. /\ r[k].ignore => r[j] = r[k]
        /\ ~r[k].ignore => (r[j].ignore <=> X(j))
    BY <2>4, ReadOptionFields
  <2> HIDE DEF X
  <2>6. (\E i \in 1 .. j : X(i)) <=> (\E i \in 1 .. k : X(i)) \/ X(j)
    BY <2>1
  <2>7. r[j].ignore <=> \E i \in 1 .. j : X(i)
    BY <2>3, <2>5, <2>6
  <2>. QED  BY <2>1, <2>7
<1> HIDE DEF S
<1>3. \A k \in Nat : k \in S
  BY <1>1, <1>2, InductiveSet
<1>4. \A k \in 0 .. Len(opts) : Same(k)
  BY <1>3 DEF S
<1>. QED  BY <1>4

\* Until then, "noparent" is what ends the search.
LEMMA ReadLooks ==
    ASSUME NEW opts, Len(opts) \in Nat, NEW dir, NEW base, NEW r, Reads(opts, dir, base, r)
    PROVE  \A k \in 0 .. Len(opts) : ~r[k].ignore =>
              (r[k].keepLooking <=> \A i \in 1 .. k : opts[i].name # "noparent")
<1> DEFINE X(i) == opts[i].name # "noparent"
           Same(k) == ~r[k].ignore => (r[k].keepLooking <=> \A i \in 1 .. k : X(i))
           S == {k \in Nat : k <= Len(opts) => Same(k)}
<1>1. 0 \in S
  <2>1. r[0].keepLooking = TRUE /\ 1 .. 0 = {}
    BY DEF Reads, ReadNothing
  <2>. QED  BY <2>1
<1>2. ASSUME NEW k \in Nat, k \in S  PROVE k + 1 \in S
  <2> SUFFICES ASSUME k + 1 <= Len(opts)  PROVE Same(k + 1)
    OBVIOUS
  <2>1. PICK j \in 1 .. Len(opts) : j = k + 1
    OBVIOUS
  <2>2. k \in 0 .. Len(opts) /\ j - 1 = k
    BY <2>1
  <2>3. Same(k)
    BY <1>2, <2>2
  <2>4. r[j] = ReadOption(r[k], opts[j], dir, base) /\ r[k] \in Read
    BY <2>2 DEF Reads
  <2>5. /\ r[k].ignore => r[j] = r[k]
        /\ ~r[k].ignore => (r[j].keepLooking <=> r[k].keepLooking /\ X(j))
    BY <2>4, ReadOptionFields
  <2> HIDE DEF X
  <2>6. (\A i \in 1 .. j : X(i)) <=> (\A i \in 1 .. k : X(i)) /\ X(j)
    BY <2>1
  <2>7. ~r[j].ignore => (r[j].keepLooking <=> \A i \in 1 .. j : X(i))
    BY <2>3, <2>5, <2>6
  <2>. QED  BY <2>1, <2>7
<1> HIDE DEF S
<1>3. \A k \in Nat : k \in S
  BY <1>1, <1>2, InductiveSet
<1>4. \A k \in 0 .. Len(opts) : Same(k)
  BY <1>3 DEF S
<1>. QED  BY <1>4

\* Without options that last, only the root is changed.
Lasting == {"linelength", "extensions", "headers"}
SameSettings(s, t) ==
    s.lineLength = t.lineLength /\ s.extensions = t.extensions /\ s.headers = t.headers

\* Options that do not last leave the settings alone, but for the root.
LEMMA ReadKeepsSettings ==
    ASSUME NEW opts, Len(opts) \in Nat, NEW dir, NEW base, NEW r, Reads(opts, dir, base, r),
           \A i \in 1 .. Len(opts) : opts[i].name \notin Lasting
    PROVE  \A k \in 0 .. Len(opts) : SameSettings(r[k].settings, settings)
<1> DEFINE Same(k) == SameSettings(r[k].settings, settings)
           S == {k \in Nat : k <= Len(opts) => Same(k)}
<1>1. 0 \in S
  <2>1. r[0].settings = settings
    BY DEF Reads, ReadNothing
  <2>. QED  BY <2>1 DEF SameSettings
<1>2. ASSUME NEW k \in Nat, k \in S  PROVE k + 1 \in S
  <2> SUFFICES ASSUME k + 1 <= Len(opts)  PROVE Same(k + 1)
    OBVIOUS
  <2>1. PICK j \in 1 .. Len(opts) : j = k + 1
    OBVIOUS
  <2>2. k \in 0 .. Len(opts) /\ j - 1 = k
    BY <2>1
  <2>3. Same(k)
    BY <1>2, <2>2
  <2>4. r[j] = ReadOption(r[k], opts[j], dir, base) /\ r[k] \in Read
    BY <2>2 DEF Reads
  <2>5. \/ r[j] = r[k]
        \/ r[j].settings = ReadSetting(r[k].settings, opts[j], dir)
    BY <2>4, ReadOptionFields
  <2>6. PICK s \in Settings : s = r[k].settings
    BY <2>4 DEF Read
  <2>7. SameSettings(ReadSetting(s, opts[j], dir), s)
    <3>1. opts[j].name \notin Lasting
      OBVIOUS
    <3>2. ReadSetting(s, opts[j], dir) = s \/
             \E x : ReadSetting(s, opts[j], dir) = [s EXCEPT !.root = x]
      BY <3>1 DEF ReadSetting, Lasting
    <3>. QED  BY <3>2 DEF SameSettings, Settings
  <2>8. SameSettings(r[j].settings, settings)
    BY <2>3, <2>5, <2>6, <2>7 DEF SameSettings
  <2>. QED  BY <2>1, <2>8
<1> HIDE DEF S
<1>3. \A k \in Nat : k \in S
  BY <1>1, <1>2, InductiveSet
<1>4. \A k \in 0 .. Len(opts) : Same(k)
  BY <1>3 DEF S
<1>. QED  BY <1>4

\* The options of a CPPLINT.cfg are a sequence of what the code looks at.
OptionsOK(opts) ==
    /\ Len(opts) \in Nat /\ DOMAIN opts = 1 .. Len(opts)
    /\ \A i \in DOMAIN opts : OptionOK(opts[i])

\* q[i] has the filter lines among the first i options.
Lines(opts, q) ==
    /\ q \in [0 .. Len(opts) -> Seq(Seq(Filter))]
    /\ q[0] = <<>>
    /\ \A i \in 1 .. Len(opts) :
          q[i] = IF opts[i].name = "filter" THEN Append(q[i - 1], opts[i].val) ELSE q[i - 1]

\* FilterLines collects the values of the filter options.
LEMMA FilterLinesUnfold ==
    ASSUME NEW opts, OptionsOK(opts)
    PROVE  \E q : Lines(opts, q) /\ FilterLines(opts) = q[Len(opts)]
<1> DEFINE V == {opts[i].val : i \in DOMAIN opts}
           at == {i \in DOMAIN opts : opts[i].name = "filter"}
<1>1. PICK n \in Nat : n = Len(opts) /\ DOMAIN opts = 1 .. n
  BY DEF OptionsOK
<1>2. PICK s : s = [i \in DOMAIN opts |-> opts[i].val]
  OBVIOUS
<1>3. /\ s \in Seq(V) /\ Len(s) = n
      /\ \A i \in 1 .. n : s[i] = opts[i].val
  <2>1. \A i \in 1 .. n : opts[i].val \in V
    BY <1>1
  <2> HIDE DEF V
  <2>2. s = [i \in 1 .. n |-> opts[i].val]
    BY <1>1, <1>2
  <2>. QED  BY <2>1, <2>2
<1>4. \A i \in 1 .. n : i \in at <=> opts[i].name = "filter"
  BY <1>1
<1>5. FilterLines(opts) = Select(s, at)
  BY <1>2 DEF FilterLines
<1> HIDE DEF V, at
<1>6. PICK q : Selects(s, V, at, q) /\ Select(s, at) = q[Len(s)]
  BY <1>3, SelectUnfold
<1>7. /\ q \in [0 .. n -> Seq(V)] /\ q[0] = <<>>
      /\ \A i \in 1 .. n :
            q[i] = IF opts[i].name = "filter" THEN Append(q[i - 1], opts[i].val) ELSE q[i - 1]
  BY <1>3, <1>4, <1>6 DEF Selects
<1>8. \A i \in 1 .. n : opts[i].name = "filter" => opts[i].val \in Seq(Filter)
  BY <1>1 DEF OptionsOK, OptionOK
<1>9. PICK F : F = Seq(Filter)
  OBVIOUS
<1> DEFINE S == {k \in Nat : k <= n => q[k] \in Seq(F)}
<1>10. 0 \in S
  <2>1. <<>> \in Seq(F)
    OBVIOUS
  <2>. QED  BY <1>7, <2>1
<1>11. ASSUME NEW k \in Nat, k \in S  PROVE k + 1 \in S
  <2> SUFFICES ASSUME k + 1 <= n  PROVE q[k + 1] \in Seq(F)
    OBVIOUS
  <2>1. PICK j \in 1 .. n : j = k + 1
    OBVIOUS
  <2>2. k <= n /\ j - 1 = k
    BY <2>1
  <2>3. q[k] \in Seq(F)
    BY <1>11, <2>2
  <2>4. PICK x \in Seq(F) : x = q[k]
    BY <2>3
  <2>5. q[j] = IF opts[j].name = "filter" THEN Append(x, opts[j].val) ELSE x
    BY <1>7, <2>2, <2>4
  <2>6. CASE opts[j].name = "filter"
    <3>1. opts[j].val \in F
      BY <1>8, <1>9, <2>6
    <3>2. Append(x, opts[j].val) \in Seq(F)
      BY <3>1
    <3>. QED  BY <2>1, <2>5, <2>6, <3>2
  <2>7. CASE opts[j].name # "filter"
    BY <2>1, <2>5, <2>7
  <2>. QED  BY <2>6, <2>7
<1> HIDE DEF S
<1>12. \A k \in Nat : k \in S
  BY <1>10, <1>11, InductiveSet
<1>13. \A k \in 0 .. n : q[k] \in Seq(F)
  BY <1>12 DEF S
<1>14. q \in [0 .. n -> Seq(F)]
  <2>1. q = [k \in 0 .. n |-> q[k]]
    BY <1>7
  <2>. QED  BY <1>13, <2>1
<1>15. Lines(opts, q)
  BY <1>1, <1>7, <1>9, <1>14 DEF Lines
<1>. QED  BY <1>1, <1>3, <1>5, <1>6, <1>15

\* They are lists of filters, and so are all of them together.
LEMMA FilterLinesType ==
    ASSUME NEW opts, OptionsOK(opts)
    PROVE  FilterLines(opts) \in Seq(Seq(Filter)) /\ FiltersOf(opts) \in Seq(Filter)
<1>1. PICK q : Lines(opts, q) /\ FilterLines(opts) = q[Len(opts)]
  BY FilterLinesUnfold
<1>2. Len(opts) \in 0 .. Len(opts)
  BY DEF OptionsOK
<1>3. FilterLines(opts) \in Seq(Seq(Filter))
  BY <1>1, <1>2 DEF Lines
<1>4. Reverse(FilterLines(opts)) \in Seq(Seq(Filter))
  BY <1>3, ReverseType
<1>. QED  BY <1>3, <1>4, FlattenType DEF FiltersOf

\* While nothing has excluded the file, the filter lines are appended one by one.
LEMMA ReadFilters ==
    ASSUME NEW opts, OptionsOK(opts), NEW dir, NEW base, NEW r, Reads(opts, dir, base, r),
           cfgFilters \in Seq(Seq(Filter)), NEW q, Lines(opts, q)
    PROVE  \A k \in 0 .. Len(opts) : ~r[k].ignore => r[k].filters = cfgFilters \o q[k]
<1>0. PICK n \in Nat : n = Len(opts) /\ DOMAIN opts = 1 .. n
  BY DEF OptionsOK
<1>1. PICK F : F = Seq(Filter)
  OBVIOUS
<1>2. PICK c \in Seq(F) : c = cfgFilters
  BY <1>1
<1> DEFINE Same(k) == ~r[k].ignore => r[k].filters = c \o q[k]
           S == {k \in Nat : k <= n => Same(k)}
<1>3. \A k \in 0 .. n : q[k] \in Seq(F)
  BY <1>0, <1>1 DEF Lines
<1>4. 0 \in S
  <2>1. r[0].filters = c /\ q[0] = <<>>
    BY <1>2 DEF Reads, ReadNothing, Lines
  <2>2. c \o <<>> = c
    OBVIOUS
  <2>. QED  BY <2>1, <2>2
<1>5. ASSUME NEW k \in Nat, k \in S  PROVE k + 1 \in S
  <2> SUFFICES ASSUME k + 1 <= n  PROVE Same(k + 1)
    OBVIOUS
  <2>1. PICK j \in 1 .. n : j = k + 1
    OBVIOUS
  <2>2. k \in 0 .. n /\ j - 1 = k
    BY <2>1
  <2>3. Same(k)
    BY <1>5, <2>2
  <2>4. r[j] = ReadOption(r[k], opts[j], dir, base) /\ r[k] \in Read
    BY <1>0, <2>2 DEF Reads
  <2>5. /\ r[k].ignore => r[j] = r[k]
        /\ ~r[k].ignore =>
              r[j].filters = IF opts[j].name = "filter" THEN Append(r[k].filters, opts[j].val)
                             ELSE r[k].filters
    BY <2>4, ReadOptionFields
  <2>6. q[j] = IF opts[j].name = "filter" THEN Append(q[k], opts[j].val) ELSE q[k]
    BY <1>0, <2>2 DEF Lines
  <2>7. PICK x \in Seq(F) : x = q[k]
    BY <1>3, <2>2
  <2>8. ASSUME opts[j].name = "filter"
        PROVE  Append(c \o x, opts[j].val) = c \o Append(x, opts[j].val)
    <3>1. opts[j].val \in F
      BY <1>0, <1>1, <2>8 DEF OptionsOK, OptionOK
    <3>2. PICK e \in F : e = opts[j].val
      BY <3>1
    <3>3. <<e>> \in Seq(F) /\ c \o x \in Seq(F)
      OBVIOUS
    <3>4. Append(c \o x, e) = (c \o x) \o <<e>> /\ Append(x, e) = x \o <<e>>
      BY <3>3, AppendIsConcat
    <3>5. (c \o x) \o <<e>> = c \o (x \o <<e>>)
      BY <3>3
    <3>. QED  BY <3>2, <3>4, <3>5
  <2>9. ~r[j].ignore => r[j].filters = c \o q[j]
    BY <2>3, <2>5, <2>6, <2>7, <2>8
  <2>. QED  BY <2>1, <2>9
<1> HIDE DEF S
<1>6. \A k \in Nat : k \in S
  BY <1>4, <1>5, InductiveSet
<1>7. \A k \in 0 .. n : Same(k)
  BY <1>6 DEF S
<1>. QED  BY <1>0, <1>2, <1>7

\* All lines of a CPPLINT.cfg together, against what the usage text says of them.
ReadsAsDocumented(opts, base, read) ==
    /\ read.ignore <=> Excludes(opts, base)
    /\ ~read.ignore =>
          /\ read.keepLooking <=> \A i \in DOMAIN opts : opts[i].name # "noparent"
          /\ read.filters = cfgFilters \o FilterLines(opts)
    /\ (\A i \in DOMAIN opts : opts[i].name \notin Lasting) =>
          SameSettings(read.settings, settings)

\* A CPPLINT.cfg is read as documented.
LEMMA ReadOptionsAre ==
    ASSUME NEW opts, OptionsOK(opts), NEW dir \in Seq(STRING), NEW base, file \in Path,
           cfgFilters \in Seq(Seq(Filter)), settings \in Settings
    PROVE  ReadsAsDocumented(opts, base, ReadOptions(opts, dir, base))
<1>1. /\ Len(opts) \in Nat /\ DOMAIN opts = 1 .. Len(opts)
      /\ \A i \in DOMAIN opts : OptionOK(opts[i])
  BY DEF OptionsOK
<1>2. PICK r : Reads(opts, dir, base, r) /\ ReadOptions(opts, dir, base) = r[Len(opts)]
  BY <1>1, ReadOptionsUnfold
<1>3. PICK q : Lines(opts, q) /\ FilterLines(opts) = q[Len(opts)]
  BY FilterLinesUnfold
<1>4. Len(opts) \in 0 .. Len(opts)
  BY <1>1
<1>5. r[Len(opts)].ignore <=> Excludes(opts, base)
  BY <1>1, <1>2, <1>4, ReadIgnores DEF Excludes
<1>6. ~r[Len(opts)].ignore =>
         (r[Len(opts)].keepLooking <=> \A i \in DOMAIN opts : opts[i].name # "noparent")
  BY <1>1, <1>2, <1>4, ReadLooks
<1>7. ~r[Len(opts)].ignore => r[Len(opts)].filters = cfgFilters \o FilterLines(opts)
  BY <1>2, <1>3, <1>4, ReadFilters
<1>8. (\A i \in DOMAIN opts : opts[i].name \notin Lasting) =>
         SameSettings(r[Len(opts)].settings, settings)
  BY <1>1, <1>2, <1>4, ReadKeepsSettings
<1>. QED  BY <1>2, <1>5, <1>6, <1>7, <1>8 DEF ReadsAsDocumented
----------------------------------------------------------------------------
(***************************************************************************)
(* The directories above a file, and the climb through them                *)
(***************************************************************************)
\* What is read of any directory is in order.
LEMMA OptionsType ==
    ASSUME NEW d \in Disks
    PROVE  /\ \A dir : OptionsOK(Options(d, dir))
           /\ OptionsOK(<<>>) /\ FilterLines(<<>>) = <<>>
<1>1. OptionsOK(<<>>)
  BY DEF OptionsOK
<1>2. ASSUME NEW dir \in DOMAIN d.cfg  PROVE OptionsOK(d.cfg[dir].options)
  BY CppLintAssumption DEF OptionsOK
<1>3. ASSUME NEW dir  PROVE OptionsOK(Options(d, dir))
  BY <1>1, <1>2 DEF Options
<1>4. FilterLines(<<>>) = <<>>
  <2>1. PICK q : Lines(<<>>, q) /\ FilterLines(<<>>) = q[Len(<<>>)]
    BY <1>1, FilterLinesUnfold
  <2>. QED  BY <2>1 DEF Lines
<1>. QED  BY <1>1, <1>3, <1>4

\* The filters of the directories from the one that is top deep, one by one.
FilterList(d, f, top) ==
    [i \in 1..(Len(f) - top) |-> FiltersOf(Options(d, SubSeq(f, 1, top + i - 1)))]

\* The list has the filters of one directory after the other.
LEMMA FilterListType ==
    ASSUME NEW d \in Disks, NEW f, Len(f) \in Nat, NEW top \in 0 .. Len(f)
    PROVE  /\ FilterList(d, f, top) \in Seq(Seq(Filter))
           /\ Len(FilterList(d, f, top)) = Len(f) - top
           /\ \A i \in 1 .. (Len(f) - top) : FilterList(d, f, top)[i] =
                 FiltersOf(Options(d, SubSeq(f, 1, top + i - 1)))
           /\ FiltersFrom(d, f, top) = FlattenSeq(FilterList(d, f, top))
           /\ FiltersFrom(d, f, top) \in Seq(Filter)
<1>1. PICK F : F = Seq(Filter)
  OBVIOUS
<1>2. \A i \in 1 .. (Len(f) - top) : FiltersOf(Options(d, SubSeq(f, 1, top + i - 1))) \in F
  BY <1>1, OptionsType, FilterLinesType
<1>3. PICK n \in Nat : n = Len(f) - top
  OBVIOUS
<1>4. FilterList(d, f, top) \in Seq(F) /\ Len(FilterList(d, f, top)) = n
  BY <1>2, <1>3 DEF FilterList
<1>5. FiltersFrom(d, f, top) = FlattenSeq(FilterList(d, f, top))
  BY DEF FiltersFrom, FilterList
<1>6. FiltersFrom(d, f, top) \in Seq(Filter)
  BY <1>1, <1>4, <1>5, FlattenType
<1>7. \A i \in 1 .. (Len(f) - top) : FilterList(d, f, top)[i] =
                 FiltersOf(Options(d, SubSeq(f, 1, top + i - 1)))
  BY DEF FilterList
<1>. QED  BY <1>1, <1>3, <1>4, <1>5, <1>6, <1>7

\* No directory yet, and one more.
LEMMA FiltersFromSteps ==
    ASSUME NEW d \in Disks, NEW f, Len(f) \in Nat
    PROVE  /\ FiltersFrom(d, f, Len(f)) = <<>>
           /\ \A t \in 1 .. Len(f) :
                 FiltersFrom(d, f, t - 1) =
                    FiltersOf(Options(d, SubSeq(f, 1, t - 1))) \o FiltersFrom(d, f, t)
<1>1. PICK n \in Nat : n = Len(f)
  OBVIOUS
<1>2. PICK F : F = Seq(Filter)
  OBVIOUS
<1>3. FiltersFrom(d, f, n) = <<>>
  <2>1. /\ FilterList(d, f, n) \in Seq(F) /\ Len(FilterList(d, f, n)) = n - n
        /\ FiltersFrom(d, f, n) = FlattenSeq(FilterList(d, f, n))
    <3>1. n \in 0 .. Len(f)
      BY <1>1
    <3>. QED  BY <1>1, <1>2, <3>1, FilterListType
  <2>2. FilterList(d, f, n) = <<>>
    BY <2>1, EmptySeq
  <2>. QED  BY <2>1, <2>2, FlattenFew
<1>4. ASSUME NEW t \in 1 .. n
      PROVE  FiltersFrom(d, f, t - 1) =
                FiltersOf(Options(d, SubSeq(f, 1, t - 1))) \o FiltersFrom(d, f, t)
  <2>1. PICK a : a = FilterList(d, f, t - 1)
    OBVIOUS
  <2>2. PICK b : b = FilterList(d, f, t)
    OBVIOUS
  <2>3. PICK x : x = FiltersOf(Options(d, SubSeq(f, 1, t - 1)))
    OBVIOUS
  <2>4. t - 1 \in 0 .. Len(f) /\ t \in 0 .. Len(f)
    BY <1>1
  <2>5. /\ a \in Seq(F) /\ Len(a) = n - (t - 1)
        /\ \A i \in 1 .. (n - (t - 1)) :
              a[i] = FiltersOf(Options(d, SubSeq(f, 1, (t - 1) + i - 1)))
        /\ FiltersFrom(d, f, t - 1) = FlattenSeq(a)
    <3>1. PICK k \in 0 .. Len(f) : k = t - 1
      BY <2>4
    <3>2. /\ FilterList(d, f, k) \in Seq(Seq(Filter)) /\ Len(FilterList(d, f, k)) = Len(f) - k
          /\ \A i \in 1 .. (Len(f) - k) :
                FilterList(d, f, k)[i] = FiltersOf(Options(d, SubSeq(f, 1, k + i - 1)))
          /\ FiltersFrom(d, f, k) = FlattenSeq(FilterList(d, f, k))
      BY FilterListType
    <3>. QED  BY <1>1, <1>2, <2>1, <3>1, <3>2
  <2>6. /\ b \in Seq(F) /\ Len(b) = n - t
        /\ \A i \in 1 .. (n - t) : b[i] = FiltersOf(Options(d, SubSeq(f, 1, t + i - 1)))
        /\ FiltersFrom(d, f, t) = FlattenSeq(b)
    <3>1. /\ FilterList(d, f, t) \in Seq(Seq(Filter)) /\ Len(FilterList(d, f, t)) = Len(f) - t
          /\ \A i \in 1 .. (Len(f) - t) :
                FilterList(d, f, t)[i] = FiltersOf(Options(d, SubSeq(f, 1, t + i - 1)))
          /\ FiltersFrom(d, f, t) = FlattenSeq(FilterList(d, f, t))
      BY <2>4, FilterListType
    <3>. QED  BY <1>1, <1>2, <2>2, <3>1
  <2>7. x \in F
    BY <1>2, <2>3, OptionsType, FilterLinesType
  <2>8. PICK c \in Seq(F) : c = <<x>> \o b
    <3>1. <<x>> \o b \in Seq(F)
      BY <2>6, <2>7
    <3>. QED  BY <3>1
  <2>9. Len(c) = n - t + 1 /\ c[1] = x /\ \A i \in 1 .. (n - t) : c[i + 1] = b[i]
    <3>1. <<x>> \in Seq(F) /\ Len(<<x>>) = 1
      BY <2>7
    <3>. QED  BY <2>6, <2>8, <3>1
  <2>10. a = c
    <3>1. Len(a) = Len(c)
      BY <2>5, <2>9
    <3>2. ASSUME NEW i \in 1 .. Len(a)  PROVE a[i] = c[i]
      <4>1. i \in 1 .. (n - (t - 1))
        BY <2>5
      <4>2. CASE i = 1
        <5>1. (t - 1) + i - 1 = t - 1
          BY <4>2
        <5>. QED  BY <2>3, <2>5, <2>9, <4>1, <4>2, <5>1
      <4>3. CASE i # 1
        <5>1. PICK k \in 1 .. (n - t) : i = k + 1
          <6>1. i - 1 \in 1 .. (n - t) /\ i = i - 1 + 1
            BY <4>1, <4>3
          <6>. QED  BY <6>1
        <5>2. (t - 1) + i - 1 = t + k - 1
          BY <5>1
        <5>3. a[i] = FiltersOf(Options(d, SubSeq(f, 1, t + k - 1)))
          BY <2>5, <4>1, <5>2
        <5>. QED  BY <2>6, <2>9, <5>1, <5>3
      <4>. QED  BY <4>2, <4>3
    <3>. QED  BY <2>5, <3>1, <3>2, SeqEqual
  <2>11. FlattenSeq(<<x>> \o b) = x \o FlattenSeq(b)
    BY <1>2, <2>6, <2>7, FlattenEnds
  <2>. QED  BY <2>3, <2>5, <2>6, <2>8, <2>10, <2>11
<1>. QED  BY <1>1, <1>3, <1>4

\* Below the outermost directory nothing ends the search.
LEMMA OutermostIs ==
    ASSUME NEW d, NEW f, Len(f) \in Nat, Len(f) # 0
    PROVE  /\ Outermost(d, f) \in 0 .. (Len(f) - 1)
           /\ Outermost(d, f) = 0 \/ IsTop(d, SubSeq(f, 1, Outermost(d, f)))
           /\ \A i \in 0 .. (Len(f) - 1) : IsTop(d, SubSeq(f, 1, i)) => i <= Outermost(d, f)
<1> DEFINE T == {0} \cup {i \in 0..(Len(f) - 1) : IsTop(d, SubSeq(f, 1, i))}
<1>1. PICK n \in Nat : n = Len(f) - 1
  OBVIOUS
<1>2. T \in SUBSET (0 .. n) /\ 0 \in T
  BY <1>1
<1>3. /\ \A i \in T : i = 0 \/ IsTop(d, SubSeq(f, 1, i))
      /\ \A i \in 0 .. n : IsTop(d, SubSeq(f, 1, i)) => i \in T
  BY <1>1
<1>4. Outermost(d, f) = Max(T)
  BY DEF Outermost
<1> HIDE DEF T
<1>5. Max(T) \in T /\ \A x \in T : x <= Max(T)
  BY <1>2, MaxOfBounded
<1>. QED  BY <1>1, <1>2, <1>3, <1>4, <1>5

\* The depth of the last directory looked at, when dep of f is left to climb.
Visited(d, f, dep) == IF dep = 0 THEN Outermost(d, f) ELSE dep

\* What climbing has collected: the filters of the directories looked at, none of
\* which excludes the file.
Climb(d, f, dep, cf) ==
    /\ dep > 0 => Outermost(d, f) < dep
    /\ FlattenSeq(Reverse(cf)) = FiltersFrom(d, f, Visited(d, f, dep))
    /\ \A i \in Visited(d, f, dep) .. (Len(f) - 1) :
          ~Excludes(Options(d, SubSeq(f, 1, i)), f[i + 1])

\* Before the first directory.
LEMMA ClimbBegins ==
    ASSUME NEW d \in Disks, NEW f, Len(f) \in Nat, Len(f) # 0
    PROVE  Climb(d, f, Len(f), <<>>)
<1>1. Visited(d, f, Len(f)) = Len(f) /\ Outermost(d, f) < Len(f)
  BY OutermostIs DEF Visited
<1>2. Reverse(<<>>) = <<>>
  BY DEF Reverse
<1>3. FlattenSeq(<<>>) = <<>>
  BY FlattenFew
<1>4. FiltersFrom(d, f, Len(f)) = <<>>
  BY FiltersFromSteps
<1>. QED  BY <1>1, <1>2, <1>3, <1>4 DEF Climb

\* One directory further up.
LEMMA ClimbGoesOn ==
    ASSUME NEW d \in Disks, NEW f, Len(f) \in Nat, Len(f) # 0, NEW dep \in 1 .. Len(f),
           NEW cf \in Seq(Seq(Filter)), Climb(d, f, dep, cf),
           NEW dir, dir = SubSeq(f, 1, dep - 1), ~Excludes(Options(d, dir), f[dep]),
           NEW next, next = IF IsTop(d, dir) THEN 0 ELSE dep - 1
    PROVE  Climb(d, f, next, cf \o FilterLines(Options(d, dir)))
<1>1. PICK top : top = Outermost(d, f)
  OBVIOUS
<1>2. /\ top \in 0 .. (Len(f) - 1)
      /\ top = 0 \/ IsTop(d, SubSeq(f, 1, top))
      /\ \A i \in 0 .. (Len(f) - 1) : IsTop(d, SubSeq(f, 1, i)) => i <= top
  BY <1>1, OutermostIs
<1>3. top < dep
  BY <1>1 DEF Climb
<1>4. /\ next > 0 => top < next
      /\ Visited(d, f, next) = dep - 1
  <2>1. CASE IsTop(d, dir)
    <3>1. dep - 1 \in 0 .. (Len(f) - 1)
      OBVIOUS
    <3>2. dep - 1 <= top
      BY <1>2, <2>1, <3>1
    <3>3. top = dep - 1 /\ next = 0
      BY <1>2, <1>3, <2>1, <3>2
    <3>. QED  BY <1>1, <3>3 DEF Visited
  <2>2. CASE ~IsTop(d, dir)
    <3>1. top # dep - 1 \/ top = 0
      BY <1>2, <2>2
    <3>2. next = dep - 1 /\ next \in Nat
      BY <2>2
    <3>3. CASE next = 0
      <4>1. top = 0
        BY <1>2, <1>3, <3>2, <3>3
      <4>. QED  BY <1>1, <3>2, <3>3, <4>1 DEF Visited
    <3>4. CASE next # 0
      <4>1. next > 0 /\ top < next
        BY <1>2, <1>3, <3>1, <3>2, <3>4
      <4>. QED  BY <3>2, <3>4, <4>1 DEF Visited
    <3>. QED  BY <3>3, <3>4
  <2>. QED  BY <2>1, <2>2
<1>5. Visited(d, f, dep) = dep
  BY DEF Visited
<1>6. PICK F : F = Seq(Filter)
  OBVIOUS
<1>7. PICK ls \in Seq(F) : ls = FilterLines(Options(d, dir))
  BY <1>6, OptionsType, FilterLinesType
<1>8. PICK c \in Seq(F) : c = cf
  BY <1>6
<1>9. Reverse(ls) \in Seq(F) /\ Reverse(c) \in Seq(F)
  BY ReverseType
<1>10. FlattenSeq(Reverse(c \o ls)) = FlattenSeq(Reverse(ls)) \o FlattenSeq(Reverse(c))
  <2>1. Reverse(c \o ls) = Reverse(ls) \o Reverse(c)
    BY ReverseOfConcat
  <2>2. PICK a \in Seq(F) : a = Reverse(ls)
    BY <1>9
  <2>3. PICK b \in Seq(F) : b = Reverse(c)
    BY <1>9
  <2>4. FlattenSeq(a \o b) = FlattenSeq(a) \o FlattenSeq(b)
    BY <1>6, FlattenConcat
  <2>. QED  BY <2>1, <2>2, <2>3, <2>4
<1>11. FlattenSeq(Reverse(ls)) = FiltersOf(Options(d, dir))
  BY <1>7 DEF FiltersOf
<1>12. FlattenSeq(Reverse(c)) = FiltersFrom(d, f, dep)
  BY <1>5, <1>8 DEF Climb
<1>13. FiltersFrom(d, f, dep - 1) =
          FiltersOf(Options(d, dir)) \o FiltersFrom(d, f, dep)
  BY FiltersFromSteps
<1>14. FlattenSeq(Reverse(cf \o FilterLines(Options(d, dir)))) =
          FiltersFrom(d, f, Visited(d, f, next))
  BY <1>4, <1>7, <1>8, <1>10, <1>11, <1>12, <1>13
<1>15. ASSUME NEW i \in (dep - 1) .. (Len(f) - 1)
       PROVE  ~Excludes(Options(d, SubSeq(f, 1, i)), f[i + 1])
  <2>1. CASE i = dep - 1
    <3>1. i + 1 = dep
      BY <2>1
    <3>. QED  BY <2>1, <3>1
  <2>2. CASE i # dep - 1
    <3>1. i \in dep .. (Len(f) - 1)
      BY <2>2
    <3>. QED  BY <1>5, <3>1 DEF Climb
  <2>. QED  BY <2>1, <2>2
<1>. QED  BY <1>1, <1>4, <1>14, <1>15 DEF Climb

\* At the end, the filters are those of the usage text, and nothing excludes the
\* file; a directory that does so on the way is one the file is subject to.
LEMMA ClimbEnds ==
    ASSUME NEW d \in Disks, NEW f, Len(f) \in Nat, Len(f) # 0, NEW cf,
           Climb(d, f, 0, cf)
    PROVE  /\ FlattenSeq(Reverse(cf)) = FiltersFrom(d, f, Outermost(d, f))
           /\ ~IsExcluded(d, f)
BY DEF Climb, Visited, IsExcluded

\* A directory that excludes the file.
LEMMA ClimbExcluded ==
    ASSUME NEW d \in Disks, NEW f, Len(f) \in Nat, Len(f) # 0, NEW dep \in 1 .. Len(f),
           NEW cf, Climb(d, f, dep, cf),
           Excludes(Options(d, SubSeq(f, 1, dep - 1)), f[dep])
    PROVE  IsExcluded(d, f)
<1>1. Outermost(d, f) \in 0 .. (Len(f) - 1) /\ Outermost(d, f) < dep
  BY OutermostIs DEF Climb
<1>2. dep - 1 \in Outermost(d, f) .. (Len(f) - 1) /\ dep - 1 + 1 = dep
  BY <1>1
<1>. QED  BY <1>2 DEF IsExcluded
----------------------------------------------------------------------------
(***************************************************************************)
(* Findings and NOLINT comments: what is shown is what is wanted           *)
(***************************************************************************)
\* The comments of the lines in read suppress x.
ByComment(src, x, read) ==
    \E j \in read : \E n \in NolintOf(src, j) :
        /\ n.cat = "*" \/ (n.cat = x.cat /\ n.cat \in ErrorCategories)
        /\ x.line = IF n.next THEN j + 1 ELSE j

BySuppressions(supp, x) == <<x.cat, x.line>> \in supp \/ <<"*", x.line>> \in supp

\* supp is what the comments of the lines in read ask for.
SuppressionsOf(src, read, supp) ==
    supp = UNION {Suppressed(NolintOf(src, j), j) : j \in read}

\* Suppressions and comments say the same.
LEMMA CommentsSuppress ==
    ASSUME NEW src, NEW read, NEW supp, SuppressionsOf(src, read, supp), NEW x \in Finding
    PROVE  BySuppressions(supp, x) <=> ByComment(src, x, read)
<1>1. x.cat # "*"
  BY DEF Finding, Category
<1>2. ASSUME NEW c, NEW l
      PROVE  <<c, l>> \in supp <=>
                \E j \in read : \E n \in NolintOf(src, j) :
                    /\ n.cat \in ErrorCategories \cup {"*"}
                    /\ n.cat = c /\ SuppressedLine(n, j) = l
  <2>1. <<c, l>> \in supp <=> \E j \in read : <<c, l>> \in Suppressed(NolintOf(src, j), j)
    BY DEF SuppressionsOf
  <2>2. ASSUME NEW j
        PROVE  <<c, l>> \in Suppressed(NolintOf(src, j), j) <=>
                  \E n \in NolintOf(src, j) :
                      /\ n.cat \in ErrorCategories \cup {"*"}
                      /\ n.cat = c /\ SuppressedLine(n, j) = l
    BY DEF Suppressed
  <2>. QED  BY <2>1, <2>2
<1>3. <<x.cat, x.line>> \in supp <=>
         \E j \in read : \E n \in NolintOf(src, j) :
             n.cat \in ErrorCategories /\ n.cat = x.cat /\ SuppressedLine(n, j) = x.line
  BY <1>1, <1>2
<1>4. <<"*", x.line>> \in supp <=>
         \E j \in read : \E n \in NolintOf(src, j) :
             n.cat = "*" /\ SuppressedLine(n, j) = x.line
  BY <1>2
<1>. QED  BY <1>3, <1>4 DEF BySuppressions, ByComment, SuppressedLine

\* What Error shows of xs is what is wanted of them.
LEMMA ShownIsWanted ==
    ASSUME filters \in Seq(Filter), AllSigned(filters), NEW src, NEW read, NEW supp,
           NEW xs \in Seq(Finding),
           \A i \in 1 .. Len(xs) : BySuppressions(supp, xs[i]) <=> ByComment(src, xs[i], read)
    PROVE  Shown(xs, supp, src.global) = Wanted(flags, filters, src, xs, read)
<1>1. ASSUME NEW i \in DOMAIN xs
      PROVE  ShouldPrintError(xs[i], supp, src.global)
                <=> IsWanted(flags, filters, src, xs[i], read)
  <2>1. IsFiltered(xs[i].cat) <=> ~Passes(filters, xs[i].cat)
    BY FilteredOrPasses
  <2>2. BySuppressions(supp, xs[i]) <=> ByComment(src, xs[i], read)
    OBVIOUS
  <2>3. IsErrorSuppressedByNolint(xs[i], supp, src.global)
           <=> xs[i].cat \in src.global \/ ByComment(src, xs[i], read)
    BY <2>2 DEF IsErrorSuppressedByNolint, BySuppressions
  <2>4. IsWanted(flags, filters, src, xs[i], read) <=>
           /\ xs[i].conf >= flags.verbose /\ Passes(filters, xs[i].cat)
           /\ xs[i].cat \notin src.global /\ ~ByComment(src, xs[i], read)
    BY DEF IsWanted, ByComment
  <2>. QED  BY <2>1, <2>3, <2>4 DEF ShouldPrintError
<1>2. {i \in DOMAIN xs : ShouldPrintError(xs[i], supp, src.global)}
         = {i \in DOMAIN xs : IsWanted(flags, filters, src, xs[i], read)}
  BY <1>1
<1>. QED  BY <1>2 DEF Shown, Wanted

\* What is wanted is a sequence of findings.
LEMMA WantedType ==
    ASSUME NEW cmd, NEW fs, NEW src, NEW read, NEW xs \in Seq(Finding)
    PROVE  Wanted(cmd, fs, src, xs, read) \in Seq(Finding)
BY SelectType DEF Wanted

\* What is wanted of a concatenation.
Joined(zs, xs, ys) == zs = xs \o ys

LEMMA WantedConcat ==
    ASSUME NEW cmd, NEW fs, NEW src, NEW read, NEW xs \in Seq(Finding), NEW ys \in Seq(Finding),
           NEW zs, Joined(zs, xs, ys)
    PROVE  Joined(Wanted(cmd, fs, src, zs, read),
                  Wanted(cmd, fs, src, xs, read), Wanted(cmd, fs, src, ys, read))
<1> DEFINE At(s) == {i \in DOMAIN s : IsWanted(cmd, fs, src, s[i], read)}
<1>1. zs = xs \o ys
  BY DEF Joined
<1>2. /\ Len(zs) = Len(xs) + Len(ys) /\ Len(xs) \in Nat
      /\ \A i \in 1 .. Len(xs) : zs[i] = xs[i]
      /\ \A i \in 1 .. Len(ys) : zs[Len(xs) + i] = ys[i]
  BY <1>1, Concatenation
<1>3. DOMAIN zs = 1 .. Len(zs) /\ DOMAIN xs = 1 .. Len(xs) /\ DOMAIN ys = 1 .. Len(ys)
  <2>1. zs \in Seq(Finding)
    BY <1>1
  <2>. QED  BY <2>1
<1>4. \A i \in 1 .. Len(xs) : i \in At(zs) <=> i \in At(xs)
  <2>1. \A i \in 1 .. Len(xs) : i \in 1 .. Len(zs)
    BY <1>2
  <2>. QED  BY <1>2, <1>3, <2>1
<1>5. \A i \in 1 .. Len(ys) : Len(xs) + i \in At(zs) <=> i \in At(ys)
  <2>1. \A i \in 1 .. Len(ys) : Len(xs) + i \in 1 .. Len(zs)
    BY <1>2
  <2>. QED  BY <1>2, <1>3, <2>1
<1>6. /\ Wanted(cmd, fs, src, zs, read) = Select(zs, At(zs))
      /\ Wanted(cmd, fs, src, xs, read) = Select(xs, At(xs))
      /\ Wanted(cmd, fs, src, ys, read) = Select(ys, At(ys))
  BY DEF Wanted
<1> HIDE DEF At
<1>7. Splits(xs, ys, At(zs), At(xs), At(ys))
  BY <1>4, <1>5 DEF Splits
<1>8. Select(xs \o ys, At(zs)) = Select(xs, At(xs)) \o Select(ys, At(ys))
  BY <1>7, SelectConcat
<1>. QED  BY <1>1, <1>6, <1>8 DEF Joined

\* The copyright is looked for before any comment is read.
LEMMA ShownCopyright ==
    ASSUME filters \in Seq(Filter), AllSigned(filters), NEW src
    PROVE  Shown(IF src.copyright THEN <<>> ELSE <<CopyrightMissing>>, {}, {})
              = WantedCopyright(flags, filters, src)
<1> DEFINE At(s) == {i \in DOMAIN s : ShouldPrintError(s[i], {}, {})}
<1>1. \A s : Shown(s, {}, {}) = Select(s, At(s))
  BY DEF Shown
<1>2. CASE src.copyright
  <2>1. <<>> \in Seq(Finding) /\ \A i \in 1 .. Len(<<>>) : i \notin At(<<>>)
    OBVIOUS
  <2> HIDE DEF At
  <2>2. Select(<<>>, At(<<>>)) = <<>>
    BY <2>1, SelectNone
  <2>. QED  BY <1>1, <1>2, <2>2 DEF WantedCopyright
<1>3. CASE ~src.copyright
  <2>1. PICK s : s = <<CopyrightMissing>>
    OBVIOUS
  <2>2. s \in Seq(Finding)
    BY <2>1, FindingsType
  <2>3. Len(s) = 1 /\ s[1] = CopyrightMissing
    BY <2>1
  <2>4. ShouldPrintError(CopyrightMissing, {}, {}) <=>
           CopyrightMissing.conf >= flags.verbose /\ Passes(filters, CopyrightMissing.cat)
    BY FilteredOrPasses DEF ShouldPrintError, IsErrorSuppressedByNolint
  <2>5. DOMAIN s = 1 .. 1
    BY <2>2, <2>3
  <2>6. \A i \in 1 .. Len(s) : i \in At(s) <=> ShouldPrintError(CopyrightMissing, {}, {})
    <3>1. \A i \in 1 .. Len(s) : i = 1
      BY <2>3
    <3>. QED  BY <2>3, <2>5, <3>1
  <2> HIDE DEF At
  <2>7. CASE ShouldPrintError(CopyrightMissing, {}, {})
    <3>1. Select(s, At(s)) = s
      BY <2>2, <2>6, <2>7, SelectAll
    <3>. QED  BY <1>1, <1>3, <2>1, <2>4, <2>7, <3>1 DEF WantedCopyright
  <2>8. CASE ~ShouldPrintError(CopyrightMissing, {}, {})
    <3>1. Select(s, At(s)) = <<>>
      BY <2>2, <2>6, <2>8, SelectNone
    <3>. QED  BY <1>1, <1>3, <2>1, <2>4, <2>8, <3>1 DEF WantedCopyright
  <2>. QED  BY <2>7, <2>8
<1>. QED  BY <1>2, <1>3

\* A line has at most one comment.
LEMMA OneComment ==
    ASSUME NEW src \in Source, NEW k
    PROVE  \A m, n \in NolintOf(src, k) : m = n
<1>1. src.lines \in Seq(CodeLine)
  BY DEF Source
<1>2. CASE k \in DOMAIN src.lines
  <2>1. src.lines[k] \in CodeLine
    BY <1>1, <1>2
  <2>2. \A m, n \in src.lines[k].nolint : m = n
    BY <2>1 DEF CodeLine
  <2>. QED  BY <1>2, <2>2 DEF NolintOf
<1>3. CASE k \notin DOMAIN src.lines
  BY <1>3 DEF NolintOf
<1>. QED  BY <1>2, <1>3

\* What the checks of line k find.
OnLine(cmd, src, k) ==
    src.lines[k].found \o TooLong(src.lines[k].width, cmd.lineLength, k)

\* What is found on a line are findings.
LEMMA LineType ==
    ASSUME NEW src \in Source, NEW cmd, NEW k \in 1 .. Len(src.lines)
    PROVE  /\ OnLine(cmd, src, k) \in Seq(Finding)
           /\ k \in Nat /\ Len(src.lines) \in Nat
           /\ NolintOf(src, k) = src.lines[k].nolint
<1>1. src.lines \in Seq(CodeLine)
  BY DEF Source
<1>2. PICK l \in CodeLine : l = src.lines[k]
  BY <1>1
<1>3. PICK c \in Seq(Finding) : c = l.found
  <2>1. l.found \in Seq(Finding)
    BY DEF CodeLine
  <2>. QED  BY <2>1
<1>4. k \in Nat /\ Len(src.lines) \in Nat /\ k \in DOMAIN src.lines
  BY <1>1
<1>5. PICK b \in Seq(Finding) : b = TooLong(l.width, cmd.lineLength, k)
  BY <1>4, FindingsType
<1>6. c \o b \in Seq(Finding)
  OBVIOUS
<1>. QED  BY <1>2, <1>3, <1>4, <1>5, <1>6 DEF OnLine, NolintOf

\* What is wanted when the comment of line k is read and found is then reported.
WantedNow(cmd, fs, src, k, found, read) ==
    Wanted(cmd, fs, src, UnknownNolint(NolintOf(src, k), k) \o found, read)

\* The two parts.
LEMMA WantedNowParts ==
    ASSUME NEW cmd, NEW fs, NEW src, NEW k, NEW found \in Seq(Finding), NEW read,
           NEW us \in Seq(Finding), us = UnknownNolint(NolintOf(src, k), k)
    PROVE  Joined(WantedNow(cmd, fs, src, k, found, read),
                  Wanted(cmd, fs, src, us, read), Wanted(cmd, fs, src, found, read))
<1>1. PICK zs : zs = us \o found
  OBVIOUS
<1>2. WantedNow(cmd, fs, src, k, found, read) = Wanted(cmd, fs, src, zs, read)
  BY <1>1 DEF WantedNow
<1>3. Joined(zs, us, found)
  BY <1>1 DEF Joined
<1>. QED  BY <1>2, <1>3, WantedConcat

\* They are findings.
LEMMA WantedNowType ==
    ASSUME NEW src, NEW cmd, NEW fs, NEW k \in Nat, NEW found \in Seq(Finding), NEW read
    PROVE  WantedNow(cmd, fs, src, k, found, read) \in Seq(Finding)
<1>1. PICK u \in Seq(Finding) : u = UnknownNolint(NolintOf(src, k), k)
  <2>1. UnknownNolint(NolintOf(src, k), k) \in Seq(Finding)
    BY FindingsType
  <2>. QED  BY <2>1
<1>2. u \o found \in Seq(Finding)
  OBVIOUS
<1>. QED  BY <1>1, <1>2, WantedType DEF WantedNow

\* What is wanted of a line of the file, ...
LEMMA WantedOfLineType ==
    ASSUME NEW src \in Source, NEW cmd, NEW fs, NEW k \in 1 .. Len(src.lines)
    PROVE  /\ WantedOfLine(cmd, fs, src, k) =
                 WantedNow(cmd, fs, src, k, OnLine(cmd, src, k), LinesRead(cmd, src, k))
           /\ WantedOfLine(cmd, fs, src, k) \in Seq(Finding)
<1>1. WantedOfLine(cmd, fs, src, k) =
         WantedNow(cmd, fs, src, k, OnLine(cmd, src, k), LinesRead(cmd, src, k))
  BY LineType DEF WantedOfLine, OnLine, WantedNow
<1>2. OnLine(cmd, src, k) \in Seq(Finding) /\ k \in Nat
  BY LineType
<1>. QED  BY <1>1, <1>2, WantedNowType

\* ... and of a line of the header guard.
LEMMA WantedOfGuardType ==
    ASSUME NEW src \in Source, NEW cmd, NEW fs, NEW i \in 1 .. Len(GuardOf(src, cmd)),
           NEW at, at = GuardOf(src, cmd)[i]
    PROVE  /\ WantedOfGuard(cmd, fs, src, i) =
                 WantedNow(cmd, fs, src, at.line, at.found, GuardRead(cmd, src, i))
           /\ WantedOfGuard(cmd, fs, src, i) \in Seq(Finding)
           /\ at.line \in Nat /\ at.found \in Seq(Finding)
<1>1. WantedOfGuard(cmd, fs, src, i) =
         WantedNow(cmd, fs, src, at.line, at.found, GuardRead(cmd, src, i))
  BY DEF WantedOfGuard, WantedNow
<1>2. at.line \in Nat /\ at.found \in Seq(Finding)
  BY GuardType
<1>. QED  BY <1>1, <1>2, WantedNowType

\* b, followed by the first n of the values of F.
UpTo(b, F, n) == b \o FlattenSeq([k \in 1 .. n |-> F[k]])

\* It grows one by one.
LEMMA UpToSteps ==
    ASSUME NEW b \in Seq(Finding), NEW N \in Nat, NEW F \in [1 .. N -> Seq(Finding)]
    PROVE  /\ UpTo(b, F, 0) = b
           /\ \A k \in 1 .. N : UpTo(b, F, k) = UpTo(b, F, k - 1) \o F[k]
           /\ \A n \in 0 .. N : UpTo(b, F, n) \in Seq(Finding)
<1>1. PICK V : V = Seq(Finding)
  OBVIOUS
<1> DEFINE Some(n) == [k \in 1 .. n |-> F[k]]
<1>2. ASSUME NEW n \in 0 .. N
      PROVE  /\ Some(n) \in Seq(V) /\ Len(Some(n)) = n
             /\ \A k \in 1 .. n : Some(n)[k] = F[k]
  <2>1. n \in Nat /\ \A k \in 1 .. n : F[k] \in V
    BY <1>1
  <2>2. Some(n) \in Seq(V) /\ Len(Some(n)) = n
    BY <2>1
  <2>. QED  BY <2>2
<1>3. \A n : UpTo(b, F, n) = b \o FlattenSeq(Some(n))
  BY DEF UpTo
<1> HIDE DEF Some
<1>4. ASSUME NEW n \in 0 .. N  PROVE FlattenSeq(Some(n)) \in V
  BY <1>1, <1>2, FlattenType
<1>5. UpTo(b, F, 0) = b
  <2>1. 0 \in 0 .. N
    OBVIOUS
  <2>2. Some(0) \in Seq(V) /\ Len(Some(0)) = 0
    BY <1>2, <2>1
  <2>3. Some(0) = <<>>
    BY <2>2, EmptySeq
  <2>4. FlattenSeq(<<>>) = <<>>
    BY FlattenFew
  <2>5. b \o <<>> = b
    BY <1>1
  <2>. QED  BY <1>3, <2>3, <2>4, <2>5
<1>6. ASSUME NEW k \in 1 .. N  PROVE UpTo(b, F, k) = UpTo(b, F, k - 1) \o F[k]
  <2>1. k \in 0 .. N
    OBVIOUS
  <2>2. PICK m \in 0 .. N : m = k - 1
    OBVIOUS
  <2>3. PICK a : a = Some(k)
    OBVIOUS
  <2>4. PICK c : c = Some(m)
    OBVIOUS
  <2>5. PICK x \in V : x = F[k]
    BY <1>1
  <2>6. a \in Seq(V) /\ Len(a) = k /\ \A i \in 1 .. k : a[i] = F[i]
    BY <1>2, <2>1, <2>3
  <2>7. c \in Seq(V) /\ Len(c) = m /\ \A i \in 1 .. m : c[i] = F[i]
    BY <1>2, <2>4
  <2>8. a = Append(c, x)
    <3>1. Append(c, x) \in Seq(V) /\ Len(Append(c, x)) = m + 1
      BY <2>7
    <3>2. m + 1 = k /\ k \in 1 .. k /\ \A i \in 1 .. k : i = k \/ i \in 1 .. m
      BY <2>2
    <3>3. \A i \in 1 .. m : Append(c, x)[i] = c[i]
      BY <2>7
    <3>4. Append(c, x)[k] = x
      BY <2>7, <3>2
    <3>5. \A i \in 1 .. k : a[i] = Append(c, x)[i]
      BY <2>5, <2>6, <2>7, <3>2, <3>3, <3>4
    <3>. QED  BY <2>6, <3>1, <3>2, <3>5, SeqEqual
  <2>9. FlattenSeq(Append(c, x)) = FlattenSeq(c) \o x
    BY <1>1, <2>7, FlattenEnds
  <2>10. PICK y \in V : y = FlattenSeq(c)
    BY <1>4, <2>4
  <2>11. (b \o y) \o x = b \o (y \o x)
    BY <1>1
  <2>12. UpTo(b, F, k) = b \o (y \o x)
    BY <1>3, <2>3, <2>8, <2>9, <2>10
  <2>13. UpTo(b, F, k - 1) = b \o y
    BY <1>3, <2>2, <2>4, <2>10
  <2>. QED  BY <2>5, <2>11, <2>12, <2>13
<1>7. ASSUME NEW n \in 0 .. N  PROVE UpTo(b, F, n) \in Seq(Finding)
  <2>1. PICK y \in V : y = FlattenSeq(Some(n))
    BY <1>4
  <2>2. b \o y \in V
    BY <1>1
  <2>. QED  BY <1>1, <1>3, <2>1, <2>2
<1>. QED  BY <1>5, <1>6, <1>7

\* What is wanted before any comment is read.
WantedBefore(cmd, fs, src) ==
    WantedCopyright(cmd, fs, src) \o Wanted(cmd, fs, src, src.early, {})

\* They are findings.
LEMMA WantedBeforeType ==
    ASSUME NEW src \in Source, NEW cmd, NEW fs
    PROVE  WantedBefore(cmd, fs, src) \in Seq(Finding)
<1>1. src.early \in Seq(Finding)
  BY DEF Source
<1>2. PICK a \in Seq(Finding) : a = Wanted(cmd, fs, src, src.early, {})
  BY <1>1, WantedType
<1>3. <<CopyrightMissing>> \in Seq(Finding) /\ <<>> \in Seq(Finding)
  BY FindingsType
<1>4. PICK b \in Seq(Finding) : b = WantedCopyright(cmd, fs, src)
  BY <1>3 DEF WantedCopyright
<1>5. b \o a \in Seq(Finding)
  OBVIOUS
<1>. QED  BY <1>2, <1>4, <1>5 DEF WantedBefore

\* What is wanted, one line of the header guard after the other, ...
LEMMA WantedUpToGuardSteps ==
    ASSUME NEW src \in Source, NEW cmd, NEW fs, NEW N, N = Len(GuardOf(src, cmd))
    PROVE  /\ WantedUpToGuard(cmd, fs, src, 0) = WantedBefore(cmd, fs, src)
           /\ \A i \in 1 .. N :
                 WantedUpToGuard(cmd, fs, src, i) =
                    WantedUpToGuard(cmd, fs, src, i - 1) \o WantedOfGuard(cmd, fs, src, i)
           /\ \A n \in 0 .. N : WantedUpToGuard(cmd, fs, src, n) \in Seq(Finding)
<1>1. N \in Nat
  BY GuardType
<1>2. PICK b \in Seq(Finding) : b = WantedBefore(cmd, fs, src)
  BY WantedBeforeType
<1>3. PICK F : F = [i \in 1 .. N |-> WantedOfGuard(cmd, fs, src, i)]
  OBVIOUS
<1>4. F \in [1 .. N -> Seq(Finding)]
  BY <1>3, WantedOfGuardType
<1>5. ASSUME NEW n \in 0 .. N
      PROVE  WantedUpToGuard(cmd, fs, src, n) = UpTo(b, F, n)
  <2>1. \A i \in 1 .. n : F[i] = WantedOfGuard(cmd, fs, src, i)
    BY <1>1, <1>3
  <2>2. [i \in 1 .. n |-> WantedOfGuard(cmd, fs, src, i)] = [i \in 1 .. n |-> F[i]]
    BY <2>1
  <2>. QED  BY <1>2, <2>2 DEF WantedUpToGuard, WantedBefore, UpTo
<1>6. 0 \in 0 .. N /\ \A k \in 1 .. N : k \in 0 .. N /\ k - 1 \in 0 .. N
  BY <1>1
<1>7. /\ UpTo(b, F, 0) = b
      /\ \A k \in 1 .. N : UpTo(b, F, k) = UpTo(b, F, k - 1) \o F[k]
      /\ \A n \in 0 .. N : UpTo(b, F, n) \in Seq(Finding)
  BY <1>1, <1>4, UpToSteps
<1>8. ASSUME NEW i \in 1 .. N
      PROVE  WantedUpToGuard(cmd, fs, src, i) =
                WantedUpToGuard(cmd, fs, src, i - 1) \o WantedOfGuard(cmd, fs, src, i)
  <2>1. F[i] = WantedOfGuard(cmd, fs, src, i)
    BY <1>3
  <2>2. /\ WantedUpToGuard(cmd, fs, src, i) = UpTo(b, F, i)
        /\ WantedUpToGuard(cmd, fs, src, i - 1) = UpTo(b, F, i - 1)
    BY <1>5, <1>6
  <2>. QED  BY <1>7, <2>1, <2>2
<1>. QED  BY <1>2, <1>5, <1>6, <1>7, <1>8

\* ... and one line of the file after the other.
LEMMA WantedUpToSteps ==
    ASSUME NEW src \in Source, NEW cmd, NEW fs
    PROVE  /\ WantedUpTo(cmd, fs, src, 0) =
                 WantedUpToGuard(cmd, fs, src, Len(GuardOf(src, cmd)))
           /\ \A k \in 1 .. Len(src.lines) :
                 WantedUpTo(cmd, fs, src, k) =
                    WantedUpTo(cmd, fs, src, k - 1) \o WantedOfLine(cmd, fs, src, k)
           /\ \A n \in 0 .. Len(src.lines) : WantedUpTo(cmd, fs, src, n) \in Seq(Finding)
<1>1. PICK N \in Nat : N = Len(src.lines)
  BY DEF Source
<1>2. PICK b \in Seq(Finding) : b = WantedUpToGuard(cmd, fs, src, Len(GuardOf(src, cmd)))
  <2>1. Len(GuardOf(src, cmd)) \in 0 .. Len(GuardOf(src, cmd))
    BY GuardType
  <2>. QED  BY <2>1, WantedUpToGuardSteps
<1>3. PICK F : F = [k \in 1 .. N |-> WantedOfLine(cmd, fs, src, k)]
  OBVIOUS
<1>4. F \in [1 .. N -> Seq(Finding)]
  BY <1>1, <1>3, WantedOfLineType
<1>5. ASSUME NEW n \in 0 .. N
      PROVE  WantedUpTo(cmd, fs, src, n) = UpTo(b, F, n)
  <2>1. \A k \in 1 .. n : F[k] = WantedOfLine(cmd, fs, src, k)
    BY <1>3
  <2>2. [k \in 1 .. n |-> WantedOfLine(cmd, fs, src, k)] = [k \in 1 .. n |-> F[k]]
    BY <2>1
  <2>. QED  BY <1>2, <2>2 DEF WantedUpTo, UpTo
<1>6. 0 \in 0 .. N /\ \A k \in 1 .. N : k \in 0 .. N /\ k - 1 \in 0 .. N
  OBVIOUS
<1>7. /\ UpTo(b, F, 0) = b
      /\ \A k \in 1 .. N : UpTo(b, F, k) = UpTo(b, F, k - 1) \o F[k]
      /\ \A n \in 0 .. N : UpTo(b, F, n) \in Seq(Finding)
  BY <1>4, UpToSteps
<1>8. ASSUME NEW k \in 1 .. N
      PROVE  WantedUpTo(cmd, fs, src, k) =
                WantedUpTo(cmd, fs, src, k - 1) \o WantedOfLine(cmd, fs, src, k)
  <2>1. F[k] = WantedOfLine(cmd, fs, src, k)
    BY <1>3
  <2>2. /\ WantedUpTo(cmd, fs, src, k) = UpTo(b, F, k)
        /\ WantedUpTo(cmd, fs, src, k - 1) = UpTo(b, F, k - 1)
    BY <1>5, <1>6
  <2>. QED  BY <1>7, <2>1, <2>2
<1>. QED  BY <1>1, <1>2, <1>5, <1>6, <1>7, <1>8

\* Messages for findings.
LEMMA MessagesForType ==
    ASSUME NEW f \in Path, NEW xs \in Seq(Finding)
    PROVE  /\ MessagesFor(f, xs) \in Seq(Messages) /\ Len(MessagesFor(f, xs)) = Len(xs)
           /\ \A i \in 1 .. Len(xs) :
                 MessagesFor(f, xs)[i] = [file |-> f, line |-> xs[i].line, cat |-> xs[i].cat,
                                          conf |-> xs[i].conf]
<1>1. PICK n \in Nat : n = Len(xs) /\ DOMAIN xs = 1 .. n
  OBVIOUS
<1>2. \A i \in 1 .. n : [file |-> f, line |-> xs[i].line, cat |-> xs[i].cat,
                         conf |-> xs[i].conf] \in Messages
  <2>1. \A i \in 1 .. n : xs[i] \in Finding
    BY <1>1
  <2>. QED  BY <2>1 DEF Finding, Messages
<1>3. MessagesFor(f, xs) = [i \in 1 .. n |-> [file |-> f, line |-> xs[i].line,
                                             cat |-> xs[i].cat, conf |-> xs[i].conf]]
  BY <1>1 DEF MessagesFor
<1>. QED  BY <1>1, <1>2, <1>3

\* The messages of a concatenation.
LEMMA MessagesForConcat ==
    ASSUME NEW f \in Path, NEW xs \in Seq(Finding), NEW ys \in Seq(Finding)
    PROVE  MessagesFor(f, xs \o ys) = MessagesFor(f, xs) \o MessagesFor(f, ys)
<1>1. PICK zs \in Seq(Finding) : zs = xs \o ys
  <2>1. xs \o ys \in Seq(Finding)
    OBVIOUS
  <2>. QED  BY <2>1
<1>2. /\ Len(zs) = Len(xs) + Len(ys) /\ Len(xs) \in Nat /\ Len(ys) \in Nat
      /\ \A i \in 1 .. Len(xs) : zs[i] = xs[i]
      /\ \A i \in 1 .. Len(ys) : zs[Len(xs) + i] = ys[i]
  BY <1>1, Concatenation
<1>3. PICK a \in Seq(Messages) : a = MessagesFor(f, xs)
  BY MessagesForType
<1>4. PICK b \in Seq(Messages) : b = MessagesFor(f, ys)
  BY MessagesForType
<1>5. PICK c \in Seq(Messages) : c = MessagesFor(f, zs)
  BY MessagesForType
<1> DEFINE M(x) == [file |-> f, line |-> x.line, cat |-> x.cat, conf |-> x.conf]
<1>6. Len(a) = Len(xs) /\ \A i \in 1 .. Len(xs) : a[i] = M(xs[i])
  BY <1>3, MessagesForType
<1>7. Len(b) = Len(ys) /\ \A i \in 1 .. Len(ys) : b[i] = M(ys[i])
  BY <1>4, MessagesForType
<1>8. Len(c) = Len(zs) /\ \A i \in 1 .. Len(zs) : c[i] = M(zs[i])
  BY <1>5, MessagesForType
<1> HIDE DEF M
<1>9. PICK d \in Seq(Messages) : d = a \o b
  <2>1. a \o b \in Seq(Messages)
    OBVIOUS
  <2>. QED  BY <2>1
<1>10. /\ Len(d) = Len(a) + Len(b)
       /\ \A i \in 1 .. Len(a) : d[i] = a[i]
       /\ \A i \in 1 .. Len(b) : d[Len(a) + i] = b[i]
  BY <1>9, Concatenation
<1>11. ASSUME NEW i \in 1 .. Len(c)  PROVE c[i] = d[i]
  <2>1. CASE i \in 1 .. Len(xs)
    <3>1. c[i] = M(zs[i]) /\ zs[i] = xs[i] /\ d[i] = M(xs[i])
      BY <1>2, <1>6, <1>8, <1>10, <2>1
    <3>. QED  BY <3>1
  <2>2. CASE i \notin 1 .. Len(xs)
    <3>1. PICK j \in 1 .. Len(ys) : i = Len(xs) + j
      <4>1. i - Len(xs) \in 1 .. Len(ys) /\ i = Len(xs) + (i - Len(xs))
        BY <1>2, <1>8, <2>2
      <4>. QED  BY <4>1
    <3>2. c[i] = M(zs[i]) /\ zs[i] = ys[j] /\ d[i] = M(ys[j])
      BY <1>2, <1>6, <1>7, <1>8, <1>10, <3>1
    <3>. QED  BY <3>2
  <2>. QED  BY <2>1, <2>2
<1>12. Len(c) = Len(d)
  BY <1>2, <1>6, <1>7, <1>8, <1>10
<1>13. c = d
  BY <1>11, <1>12, SeqEqual
<1>. QED  BY <1>1, <1>3, <1>4, <1>5, <1>9, <1>13

\* What is expected is a sequence of messages.
LEMMA ExpectedType ==
    ASSUME NEW cmd, NEW d \in Disks, NEW f \in DOMAIN d.files
    PROVE  ExpectedFor(cmd, d, f) \in Seq(Messages)
<1>1. f \in Path /\ d.files[f] \in Source
  BY CppLintAssumption
<1>2. PICK src \in Source : src = d.files[f]
  BY <1>1
<1>3. PICK fs : fs = FiltersFor(cmd, d, f)
  OBVIOUS
<1>4. Len(src.lines) \in Nat /\ src.late \in Seq(Finding) /\ src.lines \in Seq(CodeLine)
  BY DEF Source
<1>5. PICK a \in Seq(Finding) : a = WantedUpTo(cmd, fs, src, Len(src.lines))
  <2>1. Len(src.lines) \in 0 .. Len(src.lines)
    BY <1>4
  <2>. QED  BY <2>1, WantedUpToSteps
<1>6. PICK b \in Seq(Finding) :
         b = Wanted(cmd, fs, src, src.late \o StrayCR(src.lines),
                    LinesRead(cmd, src, Len(src.lines)))
  <2>1. PICK cr \in Seq(Finding) : cr = StrayCR(src.lines)
    BY <1>4, StrayCRType
  <2>2. src.late \o cr \in Seq(Finding)
    BY <1>4
  <2>. QED  BY <2>1, <2>2, WantedType
<1>7. PICK c \in Seq(Finding) : c = WantedInAll(cmd, fs, src)
  <2>1. a \o b \in Seq(Finding)
    OBVIOUS
  <2>. QED  BY <1>5, <1>6, <2>1 DEF WantedInAll
<1>8. MessagesFor(f, c) \in Seq(Messages) /\ <<>> \in Seq(Messages)
  BY <1>1, MessagesForType
<1>. QED  BY <1>2, <1>3, <1>7, <1>8 DEF ExpectedFor
----------------------------------------------------------------------------
(***************************************************************************)
(* The inductive invariant of what is documented                           *)
(***************************************************************************)
\* The files that have been processed are reported on as documented.
ExpectedList(cmd, d, fs) == [i \in DOMAIN fs |-> ExpectedFor(cmd, d, fs[i])]
ExpectedOf(cmd, d, fs) == FlattenSeq(ExpectedList(cmd, d, fs))

\* Its parts and the whole are messages.
LEMMA ExpectedOfType ==
    ASSUME NEW cmd, NEW d \in Disks, NEW fs \in Seq(DOMAIN d.files)
    PROVE  /\ ExpectedList(cmd, d, fs) \in Seq(Seq(Messages))
           /\ Len(ExpectedList(cmd, d, fs)) = Len(fs)
           /\ ExpectedOf(cmd, d, fs) \in Seq(Messages)
<1>1. DOMAIN fs = 1 .. Len(fs) /\ Len(fs) \in Nat
  OBVIOUS
<1>2. PICK ss : ss = ExpectedList(cmd, d, fs)
  OBVIOUS
<1>3. ss \in Seq(Seq(Messages)) /\ Len(ss) = Len(fs)
  <2>1. ASSUME NEW i \in 1 .. Len(fs)  PROVE ExpectedFor(cmd, d, fs[i]) \in Seq(Messages)
    <3>1. fs[i] \in DOMAIN d.files
      BY <1>1
    <3>. QED  BY <3>1, ExpectedType
  <2>2. ss \in [1 .. Len(fs) -> Seq(Messages)]
    BY <1>1, <1>2, <2>1 DEF ExpectedList
  <2>. QED  BY <1>1, <2>2, SeqDef
<1>4. FlattenSeq(ss) \in Seq(Messages)
  BY <1>3, FlattenType
<1>. QED  BY <1>2, <1>3, <1>4 DEF ExpectedOf

\* It grows file by file.
LEMMA ExpectedOfSteps ==
    ASSUME NEW cmd, NEW d \in Disks, NEW fs \in Seq(DOMAIN d.files), NEW f \in DOMAIN d.files
    PROVE  ExpectedOf(cmd, d, Append(fs, f)) = ExpectedOf(cmd, d, fs) \o ExpectedFor(cmd, d, f)
<1>1. PICK ss : ss = ExpectedList(cmd, d, fs)
  OBVIOUS
<1>2. DOMAIN fs = 1 .. Len(fs) /\ Len(fs) \in Nat
  OBVIOUS
<1>3. ss \in Seq(Seq(Messages)) /\ Len(ss) = Len(fs)
  BY <1>1, ExpectedOfType
<1>4. PICK gs : gs = Append(fs, f)
  OBVIOUS
<1>5. PICK tt : tt = ExpectedList(cmd, d, gs)
  OBVIOUS
<1>6. PICK e \in Seq(Messages) : e = ExpectedFor(cmd, d, f)
  <2>1. ExpectedFor(cmd, d, f) \in Seq(Messages)
    BY ExpectedType
  <2>. QED  BY <2>1
<1>7. tt = Append(ss, e)
  <2>1. /\ DOMAIN gs = 1 .. Len(fs) + 1 /\ gs[Len(fs) + 1] = f
        /\ \A i \in 1 .. Len(fs) : gs[i] = fs[i]
    BY <1>2, <1>4
  <2>2. PICK u : u = Append(ss, e)
    OBVIOUS
  <2>3. PICK M : M = Seq(Messages)
    OBVIOUS
  <2>4. ss \in Seq(M) /\ e \in M
    BY <1>3, <1>6, <2>3
  <2>5. /\ DOMAIN u = 1 .. Len(ss) + 1 /\ u[Len(ss) + 1] = e
        /\ \A i \in 1 .. Len(ss) : u[i] = ss[i]
        /\ u = [i \in 1 .. Len(ss) + 1 |-> u[i]]
    <3>1. u \in Seq(M) /\ Len(u) = Len(ss) + 1
      BY <2>2, <2>4
    <3>2. u[Len(ss) + 1] = e /\ \A i \in 1 .. Len(ss) : u[i] = ss[i]
      BY <2>2, <2>4
    <3>3. DOMAIN u = 1 .. Len(u) /\ u = [i \in 1 .. Len(u) |-> u[i]]
      BY <3>1
    <3>. QED  BY <3>1, <3>2, <3>3
  <2>6. ASSUME NEW i \in 1 .. Len(fs) + 1  PROVE ExpectedFor(cmd, d, gs[i]) = u[i]
    <3>1. CASE i = Len(fs) + 1
      BY <1>3, <1>6, <2>1, <2>5, <3>1
    <3>2. CASE i # Len(fs) + 1
      <4>1. i \in 1 .. Len(fs)
        BY <1>2, <3>2
      <4>. QED  BY <1>1, <1>2, <1>3, <2>1, <2>5, <4>1 DEF ExpectedList
    <3>. QED  BY <3>1, <3>2
  <2>. QED  BY <1>3, <1>5, <2>1, <2>2, <2>5, <2>6 DEF ExpectedList
<1>8. FlattenSeq(tt) = FlattenSeq(ss) \o e
  BY <1>3, <1>7, FlattenEnds
<1>. QED  BY <1>1, <1>4, <1>5, <1>6, <1>8 DEF ExpectedOf

\* The filters in force: outside a file those of the command line, in a file that
\* is looked at those that the configuration files give it.
FilterInv ==
    /\ pc \in {"file", "config"} => filters = DefaultFilters \o flags.filter
    /\ InFile => filtersBackup = DefaultFilters \o flags.filter
    /\ pc \in {"read", "guard", "lines", "done"} =>
          filters = FiltersFor(flags, disk, file) /\ ~IsExcluded(disk, file)

\* While the configuration files are read.
ClimbInv == pc = "config" => Climb(disk, file, depth, cfgFilters)

\* The settings are those of the command line, if no configuration file has any.
SettingsInv ==
    NoLastingSettings /\ (pc = "file" \/ InFile) => SameSettings(settings, flags)

\* The comments of the lines read so far are in force.
NolintInv ==
    /\ pc \in {"guard", "lines"} => globalSuppressions = disk.files[file].global
    /\ NoLastingSettings /\ pc = "guard" =>
          /\ lineNo <= Len(GuardOf(disk.files[file], flags)) + 1
          /\ SuppressionsOf(disk.files[file],
                            GuardRead(flags, disk.files[file], lineNo - 1), suppressions)
    /\ NoLastingSettings /\ pc = "lines" =>
          /\ lineNo <= Len(disk.files[file].lines) + 1
          /\ SuppressionsOf(disk.files[file],
                            LinesRead(flags, disk.files[file], lineNo - 1), suppressions)

\* A file whose lines are looked at is one to be checked.
CheckedInv ==
    NoLastingSettings /\ pc \in {"guard", "lines"} => IsChecked(flags, disk, file)

\* What has been reported of the file being processed.
SoFar ==
    IF pc = "guard"
      THEN MessagesFor(file, WantedUpToGuard(flags, FiltersFor(flags, disk, file),
                                             disk.files[file], lineNo - 1))
    ELSE IF pc = "lines"
      THEN MessagesFor(file, WantedUpTo(flags, FiltersFor(flags, disk, file),
                                        disk.files[file], lineNo - 1))
    ELSE IF pc = "done" THEN ExpectedFor(flags, disk, file)
    ELSE <<>>

ReportInv == NoLastingSettings => Reported = ExpectedOf(flags, disk, finished) \o SoFar

DocInv ==
    FilterInv /\ ClimbInv /\ SettingsInv /\ NolintInv /\ CheckedInv /\ ReportInv

\* The inputs stay as they are.
LEMMA InputsStay ==
    ASSUME [Next]_vars
    PROVE  UNCHANGED <<flags, disk>> /\ (NoLastingSettings' <=> NoLastingSettings)
<1>1. UNCHANGED <<flags, disk>>
  BY DEF Next, BadArguments, ParseArguments, BeginFile, ReadConfig, AddConfigFilters,
         Unreadable, WrongExtension, BeginData, CheckForHeaderGuard, BeginLines,
         ProcessLine, EndData, Done, Finish, vars, inputs
<1>. QED  BY <1>1 DEF NoLastingSettings

\* One directory of the climb: it excludes the file, or its filters are taken along.
LEMMA ReadConfigClimbs ==
    ASSUME TypeOK, Shape, ClimbInv, ReadConfig
    PROVE  /\ \/ pc' = "config" /\ UNCHANGED <<file, filters, finished>>
                 /\ Climb(disk, file, depth', cfgFilters')
              \/ pc' = "file" /\ filters' = filtersBackup /\ IsExcluded(disk, file)
                 /\ finished' = Append(finished, file)
           /\ NoLastingSettings => SameSettings(settings', settings)
<1>1. pc = "config" /\ depth > 0
  BY DEF ReadConfig
<1>2. InFile
  BY <1>1 DEF InFile
<1>3. /\ file \in Path /\ file \in Seq(STRING) /\ Len(file) \in Nat /\ Len(file) # 0
      /\ disk \in Disks /\ cfgFilters \in Seq(Seq(Filter)) /\ settings \in Settings
  BY <1>2, SourceType DEF TypeOK, Shape
<1>4. depth \in 1 .. Len(file) /\ Climb(disk, file, depth, cfgFilters)
  BY <1>1, <1>3 DEF TypeOK, ClimbInv
<1>5. PICK dir : dir = SubSeq(file, 1, depth - 1)
  OBVIOUS
<1>6. dir \in Seq(STRING)
  <2>1. \A i \in 1 .. depth - 1 : file[i] \in STRING
    BY <1>3, <1>4
  <2>. QED  BY <1>3, <1>4, <1>5, <2>1, SubSeqProperties
<1>7. PICK opts : opts = Options(disk, dir)
  OBVIOUS
<1>8. OptionsOK(opts)
  BY <1>3, <1>7, OptionsType
<1>9. PICK next : next = IF IsTop(disk, dir) THEN 0 ELSE depth - 1
  OBVIOUS
<1>10. ASSUME ~Excludes(opts, file[depth])
       PROVE  Climb(disk, file, next, cfgFilters \o FilterLines(opts))
  BY <1>3, <1>4, <1>5, <1>7, <1>9, <1>10, ClimbGoesOn
<1>11. Excludes(opts, file[depth]) => IsExcluded(disk, file)
  BY <1>3, <1>4, <1>5, <1>7, ClimbExcluded
<1>12. ASSUME opts = <<>>
       PROVE  Climb(disk, file, next, cfgFilters)
  <2>1. ~Excludes(opts, file[depth])
    BY <1>12 DEF Excludes
  <2>2. FilterLines(opts) = <<>>
    BY <1>3, <1>12, OptionsType
  <2>3. cfgFilters \o <<>> = cfgFilters
    BY <1>3
  <2>. QED  BY <1>10, <2>1, <2>2, <2>3
<1>13. SameSettings(settings, settings)
  BY DEF SameSettings
<1>14. CASE dir \notin DOMAIN disk.cfg
  <2>1. opts = <<>> /\ next = depth - 1
    BY <1>7, <1>9, <1>14 DEF Options, IsTop
  <2>2. /\ depth' = depth - 1
        /\ UNCHANGED <<pc, file, filters, finished, settings, cfgFilters>>
    BY <1>5, <1>14 DEF ReadConfig, fileVars
  <2>. QED  BY <1>1, <1>12, <1>13, <2>1, <2>2
<1>15. CASE dir \in DOMAIN disk.cfg /\ ~disk.cfg[dir].readable
  <2>1. opts = <<>> /\ next = 0
    BY <1>7, <1>9, <1>15 DEF Options, IsTop
  <2>2. /\ depth' = 0
        /\ UNCHANGED <<pc, file, filters, finished, settings, cfgFilters>>
    BY <1>5, <1>15 DEF ReadConfig, fileVars
  <2>. QED  BY <1>1, <1>12, <1>13, <2>1, <2>2
<1>16. CASE dir \in DOMAIN disk.cfg /\ disk.cfg[dir].readable
  <2>1. opts = disk.cfg[dir].options
    BY <1>7, <1>16 DEF Options
  <2>2. PICK read : read = ReadOptions(opts, dir, file[depth])
    OBVIOUS
  <2>3. ReadsAsDocumented(opts, file[depth], read)
    BY <1>3, <1>6, <1>8, <2>2, ReadOptionsAre
  <2>4. /\ settings' = read.settings /\ cfgFilters' = read.filters
        /\ depth' = IF read.keepLooking THEN depth - 1 ELSE 0
        /\ IF read.ignore
             THEN filters' = filtersBackup /\ finished' = Append(finished, file) /\ pc' = "file"
             ELSE UNCHANGED <<pc, filters, finished>>
        /\ UNCHANGED file
    BY <1>5, <1>16, <2>1, <2>2 DEF ReadConfig, RestoreFilters
  <2>5. NoLastingSettings => SameSettings(settings', settings)
    <3>1. NoLastingSettings => \A i \in DOMAIN opts : opts[i].name \notin Lasting
      BY <1>7, <1>16 DEF NoLastingSettings, Lasting
    <3>. QED  BY <2>3, <2>4, <3>1 DEF ReadsAsDocumented
  <2>6. CASE read.ignore
    <3>1. IsExcluded(disk, file)
      BY <1>11, <2>3, <2>6 DEF ReadsAsDocumented
    <3>. QED  BY <2>4, <2>5, <2>6, <3>1
  <2>7. CASE ~read.ignore
    <3>1. /\ ~Excludes(opts, file[depth])
          /\ read.keepLooking <=> \A i \in DOMAIN opts : opts[i].name # "noparent"
          /\ cfgFilters' = cfgFilters \o FilterLines(opts)
      BY <2>3, <2>4, <2>7 DEF ReadsAsDocumented
    <3>2. IsTop(disk, dir) <=> ~read.keepLooking
      BY <1>7, <1>16, <3>1 DEF IsTop
    <3>3. depth' = next
      BY <1>9, <2>4, <3>2
    <3>4. Climb(disk, file, depth', cfgFilters')
      BY <1>10, <3>1, <3>3
    <3>. QED  BY <1>1, <2>4, <2>5, <2>7, <3>4
  <2>. QED  BY <2>6, <2>7
<1>. QED  BY <1>14, <1>15, <1>16

\* The filters.
LEMMA FilterInvStep ==
    ASSUME TypeOK, Shape, FilterInv, ClimbInv, [Next]_vars
    PROVE  FilterInv'
<1>1. UNCHANGED <<flags, disk>>
  BY InputsStay
<1>2. CASE ParseArguments
  BY <1>1, <1>2 DEF ParseArguments, FilterInv, InFile
<1>3. CASE BeginFile
  BY <1>1, <1>3 DEF BeginFile, FilterInv, InFile
<1>4. CASE ReadConfig
  <2>1. UNCHANGED filtersBackup /\ pc = "config"
    BY <1>4 DEF ReadConfig
  <2>. QED  BY <1>1, <1>4, <2>1, ReadConfigClimbs DEF FilterInv, InFile
<1>5. CASE AddConfigFilters
  <2>1. /\ pc = "config" /\ depth = 0 /\ UNCHANGED <<file, filtersBackup>>
        /\ \/ pc' = "traceback"
           \/ pc' = "read" /\ filters' = filters \o FlattenSeq(Reverse(cfgFilters))
    BY <1>5 DEF AddConfigFilters, fileVars
  <2>2. Len(file) \in Nat /\ Len(file) # 0 /\ disk \in Disks
    BY <2>1, SourceType DEF InFile, TypeOK
  <2>3. Climb(disk, file, 0, cfgFilters)
    BY <2>1 DEF ClimbInv
  <2>4. /\ FlattenSeq(Reverse(cfgFilters)) = FiltersFrom(disk, file, Outermost(disk, file))
        /\ ~IsExcluded(disk, file)
    BY <2>2, <2>3, ClimbEnds
  <2>5. filters = DefaultFilters \o flags.filter /\ filtersBackup = DefaultFilters \o flags.filter
    BY <2>1 DEF FilterInv, InFile
  <2>6. pc' = "read" => filters' = FiltersFor(flags, disk, file)
    BY <2>1, <2>4, <2>5 DEF FiltersFor
  <2>. QED  BY <1>1, <2>1, <2>4, <2>5, <2>6 DEF FilterInv, InFile
<1>6. CASE Unreadable \/ Done
  <2>1. /\ pc \in {"read", "done"} /\ pc' = "file" /\ filters' = filtersBackup
    BY <1>6 DEF Unreadable, Done, RestoreFilters
  <2>. QED  BY <1>1, <2>1 DEF FilterInv, InFile
<1>7. CASE WrongExtension \/ BeginData \/ CheckForHeaderGuard \/ BeginLines \/ ProcessLine
           \/ EndData \/ UNCHANGED vars
  <2>1. /\ UNCHANGED <<file, filters, filtersBackup>>
        /\ pc' = pc \/ (pc \in {"read", "guard", "lines"} /\ pc' \in {"guard", "lines", "done"})
    BY <1>7 DEF WrongExtension, BeginData, CheckForHeaderGuard, BeginLines, ProcessLine,
                EndData, vars, fileVars, filterVars
  <2>. QED  BY <1>1, <2>1 DEF FilterInv, InFile
<1>8. CASE BadArguments \/ Finish
  <2>1. pc' \in {"usage", "traceback", "exit"}
    BY <1>8 DEF BadArguments, Finish
  <2>. QED  BY <2>1 DEF FilterInv, InFile
<1>. QED  BY <1>2, <1>3, <1>4, <1>5, <1>6, <1>7, <1>8 DEF Next

\* The climb.
LEMMA ClimbStep ==
    ASSUME TypeOK, Shape, ClimbInv, [Next]_vars
    PROVE  ClimbInv'
<1>1. UNCHANGED <<flags, disk>>
  BY InputsStay
<1>2. CASE BeginFile
  <2>1. /\ filenames # <<>> /\ file' = Head(filenames) /\ depth' = Len(file')
        /\ cfgFilters' = <<>>
    BY <1>2 DEF BeginFile
  <2>2. PICK f : f = Head(filenames)
    OBVIOUS
  <2>3. f \in DOMAIN disk.files /\ disk \in Disks
    BY <2>1, <2>2 DEF Shape, TypeOK
  <2>4. f \in Seq(STRING) /\ f # <<>>
    BY <2>3, CppLintAssumption DEF Path
  <2>5. Len(f) \in Nat /\ Len(f) # 0
    BY <2>4, EmptySeq
  <2>6. Climb(disk, f, Len(f), <<>>)
    BY <2>3, <2>5, ClimbBegins
  <2>. QED  BY <1>1, <2>1, <2>2, <2>6 DEF ClimbInv
<1>3. CASE ReadConfig
  BY <1>1, <1>3, ReadConfigClimbs DEF ClimbInv
<1>4. CASE ~(BeginFile \/ ReadConfig)
  <2>1. pc' = "config" => UNCHANGED <<pc, file, depth, cfgFilters>>
    BY <1>4 DEF Next, BadArguments, ParseArguments, AddConfigFilters, Unreadable,
                WrongExtension, BeginData, CheckForHeaderGuard, BeginLines, ProcessLine,
                EndData, Done, Finish, vars, fileVars, cfgVars
  <2>. QED  BY <1>1, <2>1 DEF ClimbInv
<1>. QED  BY <1>2, <1>3, <1>4

\* The settings.
LEMMA SettingsStep ==
    ASSUME TypeOK, Shape, ClimbInv, SettingsInv, [Next]_vars
    PROVE  SettingsInv'
<1>1. UNCHANGED <<flags, disk>> /\ (NoLastingSettings' <=> NoLastingSettings)
  BY InputsStay
<1>2. CASE ParseArguments
  <2>1. PICK s : s = [lineLength |-> flags.lineLength, extensions |-> settings.extensions,
                      headers |-> settings.headers, root |-> flags.root]
    OBVIOUS
  <2>2. settings' = ProcessHppHeadersOption(ProcessExtensionsOption(s, flags.extensions),
                                            flags.headers)
    BY <1>2, <2>1 DEF ParseArguments
  <2>3. PICK t : t = ProcessExtensionsOption(s, flags.extensions)
    OBVIOUS
  <2>4. PICK u : u = ProcessHppHeadersOption(t, flags.headers)
    OBVIOUS
  <2>5. t.lineLength = flags.lineLength /\ t.extensions = flags.extensions
        /\ DOMAIN t = {"lineLength", "extensions", "headers", "root"}
    BY <2>1, <2>3 DEF ProcessExtensionsOption
  <2>6. SameSettings(u, flags)
    BY <2>4, <2>5 DEF ProcessHppHeadersOption, SameSettings
  <2>7. settings' = u
    BY <2>2, <2>3, <2>4
  <2>. QED  BY <1>1, <2>6, <2>7 DEF SettingsInv
<1>3. CASE ReadConfig
  <2>1. InFile
    BY <1>3 DEF ReadConfig, InFile
  <2>2. NoLastingSettings => SameSettings(settings', settings)
    BY <1>3, ReadConfigClimbs
  <2>3. NoLastingSettings => SameSettings(settings', flags)
    BY <2>1, <2>2 DEF SettingsInv, SameSettings
  <2>. QED  BY <1>1, <2>3 DEF SettingsInv
<1>4. CASE ~(ParseArguments \/ ReadConfig)
  <2>1. /\ UNCHANGED settings
        /\ (pc = "file" \/ InFile)' => (pc = "file" \/ InFile)
    BY <1>4 DEF Next, BadArguments, BeginFile, AddConfigFilters, Unreadable, WrongExtension,
                BeginData, CheckForHeaderGuard, BeginLines, ProcessLine, EndData, Done,
                Finish, vars, cfgVars, InFile
  <2>. QED  BY <1>1, <2>1 DEF SettingsInv
<1>. QED  BY <1>2, <1>3, <1>4

\* The parts of a source file.
LEMMA SourceParts ==
    ASSUME NEW src \in Source
    PROVE  /\ src.early \in Seq(Finding) /\ src.late \in Seq(Finding)
           /\ src.lines \in Seq(CodeLine) /\ Len(src.lines) \in Nat
           /\ StrayCR(src.lines) \in Seq(Finding)
<1>1. src.early \in Seq(Finding) /\ src.late \in Seq(Finding) /\ src.lines \in Seq(CodeLine)
  BY DEF Source
<1>2. Len(src.lines) \in Nat
  BY <1>1
<1>. QED  BY <1>1, <1>2, StrayCRType

\* One more line of comments.
And(read, k) == read \cup {k}

LEMMA OneMoreLine ==
    ASSUME NEW src, NEW read, NEW supp, SuppressionsOf(src, read, supp), NEW k, NEW new,
           new = supp \cup Suppressed(NolintOf(src, k), k)
    PROVE  SuppressionsOf(src, And(read, k), new)
BY DEF SuppressionsOf, And

\* The comment that is complained of suppresses nothing.
LEMMA UnknownSuppressesNothing ==
    ASSUME NEW src \in Source, NEW read, NEW k, NEW x,
           UnknownNolint(NolintOf(src, k), k) # <<>>
    PROVE  ByComment(src, x, read) <=> ByComment(src, x, And(read, k))
<1>1. \A m, n \in NolintOf(src, k) : m = n
  BY OneComment
<1>2. PICK n \in NolintOf(src, k) : n.cat \notin ErrorCategories \cup LegacyCategories \cup {"*"}
  BY DEF UnknownNolint
<1>3. \A m \in NolintOf(src, k) : m.cat # "*" /\ m.cat \notin ErrorCategories
  BY <1>1, <1>2
<1> DEFINE At(j) == \E m \in NolintOf(src, j) :
                       /\ m.cat = "*" \/ (m.cat = x.cat /\ m.cat \in ErrorCategories)
                       /\ x.line = IF m.next THEN j + 1 ELSE j
<1>4. ~At(k)
  BY <1>3
<1>5. \A j : j \in And(read, k) <=> j \in read \/ j = k
  BY DEF And
<1>6. /\ ByComment(src, x, And(read, k)) <=> \E j \in And(read, k) : At(j)
      /\ ByComment(src, x, read) <=> \E j \in read : At(j)
  BY DEF ByComment
<1> HIDE DEF At
<1>. QED  BY <1>4, <1>5, <1>6, Zenon

\* The lines read, one by one.
LEMMA ReadBefore ==
    ASSUME NEW src, NEW cmd
    PROVE  /\ GuardRead(cmd, src, 0) = {}
           /\ LinesRead(cmd, src, 0) = GuardRead(cmd, src, Len(GuardOf(src, cmd)))
BY DEF GuardRead, LinesRead

LEMMA GuardReadSteps ==
    ASSUME NEW src, NEW cmd, NEW n \in Nat, NEW i \in 1 .. n
    PROVE  GuardRead(cmd, src, i) = And(GuardRead(cmd, src, i - 1), GuardOf(src, cmd)[i].line)
<1>1. \A j : j \in 1 .. i <=> j \in 1 .. i - 1 \/ j = i
  OBVIOUS
<1>. QED  BY <1>1 DEF GuardRead, And

LEMMA LinesReadSteps ==
    ASSUME NEW src, NEW cmd, NEW n \in Nat, NEW k \in 1 .. n
    PROVE  LinesRead(cmd, src, k) = And(LinesRead(cmd, src, k - 1), k)
<1>1. \A j : j \in 1 .. k <=> j \in 1 .. k - 1 \/ j = k
  OBVIOUS
<1>. QED  BY <1>1 DEF LinesRead, And

\* The comment of a line is read and what is found there reported: what is wanted.
LEMMA ParsedIsWanted ==
    ASSUME Shape, file \in Path, UNCHANGED flags, AllSigned(filters),
           NEW src \in Source, globalSuppressions = src.global,
           NEW read, SuppressionsOf(src, read, suppressions),
           NEW k \in Nat, NEW found \in Seq(Finding),
           ParseAndReport(NolintOf(src, k), k, found)
    PROVE  Reported' = Reported \o
              MessagesFor(file, WantedNow(flags, filters, src, k, found, And(read, k)))
<1>1. filters \in Seq(Filter)
  BY DEF Shape
<1>2. PICK new : new = suppressions'
  OBVIOUS
<1>3. PICK all : all = And(read, k)
  OBVIOUS
<1>4. new = suppressions \cup Suppressed(NolintOf(src, k), k)
  BY <1>2 DEF ParseAndReport
<1>5. SuppressionsOf(src, all, new)
  BY <1>3, <1>4, OneMoreLine
<1>6. PICK us \in Seq(Finding) : us = UnknownNolint(NolintOf(src, k), k)
  <2>1. UnknownNolint(NolintOf(src, k), k) \in Seq(Finding)
    BY FindingsType
  <2>. QED  BY <2>1
<1>7. Report(Shown(us, suppressions, src.global) \o Shown(found, new, src.global))
  BY <1>2, <1>6 DEF ParseAndReport
<1>8. Shown(us, suppressions, src.global) = Wanted(flags, filters, src, us, all)
  <2>1. ASSUME NEW i \in 1 .. Len(us)
        PROVE  BySuppressions(suppressions, us[i]) <=> ByComment(src, us[i], all)
    <3>1. us[i] \in Finding /\ us # <<>>
      OBVIOUS
    <3>2. BySuppressions(suppressions, us[i]) <=> ByComment(src, us[i], read)
      BY <3>1, CommentsSuppress
    <3>3. ByComment(src, us[i], read) <=> ByComment(src, us[i], all)
      BY <1>3, <1>6, <3>1, UnknownSuppressesNothing
    <3>. QED  BY <3>2, <3>3
  <2>. QED  BY <1>1, <2>1, ShownIsWanted
<1>9. Shown(found, new, src.global) = Wanted(flags, filters, src, found, all)
  <2>1. ASSUME NEW i \in 1 .. Len(found)
        PROVE  BySuppressions(new, found[i]) <=> ByComment(src, found[i], all)
    <3>1. found[i] \in Finding
      OBVIOUS
    <3>. QED  BY <1>5, <3>1, CommentsSuppress
  <2>. QED  BY <1>1, <2>1, ShownIsWanted
<1>10. PICK ys : ys = WantedNow(flags, filters, src, k, found, all)
  OBVIOUS
<1>11. ys \in Seq(Finding)
  BY <1>10, WantedNowType
<1>12. ys = Wanted(flags, filters, src, us, all) \o Wanted(flags, filters, src, found, all)
  <2>1. Joined(ys, Wanted(flags, filters, src, us, all), Wanted(flags, filters, src, found, all))
    BY <1>6, <1>10, WantedNowParts
  <2>. QED  BY <2>1 DEF Joined
<1>13. Report(ys)
  BY <1>7, <1>8, <1>9, <1>12
<1>14. Reported' = Reported \o MessagesFor(file, ys)
  BY <1>11, <1>13, ReportAppends
<1>. QED  BY <1>3, <1>10, <1>14

\* The filters and the source of a file that is looked at.
LEMMA LookedAt ==
    ASSUME TypeOK, Shape, FilterInv, pc \in {"read", "guard", "lines"}
    PROVE  /\ filters \in Seq(Filter) /\ AllSigned(filters)
           /\ filters = FiltersFor(flags, disk, file)
           /\ file \in Path /\ file \in DOMAIN disk.files /\ disk \in Disks
           /\ disk.files[file] \in Source
<1>1. InFile
  BY DEF InFile
<1>. QED  BY <1>1, SourceType DEF TypeOK, Shape, FilterInv

\* Before any comment is read.
LEMMA BeginDataReports ==
    ASSUME TypeOK, Shape, FilterInv, BeginData
    PROVE  Reported' = Reported \o
              MessagesFor(file, WantedUpToGuard(flags, FiltersFor(flags, disk, file),
                                                disk.files[file], 0))
<1>1. pc = "read" /\ UNCHANGED flags
  BY DEF BeginData, inputs
<1>2. PICK src \in Source : src = disk.files[file]
  BY <1>1, LookedAt
<1>3. PICK fs : fs = FiltersFor(flags, disk, file)
  OBVIOUS
<1>4. filters \in Seq(Filter) /\ AllSigned(filters) /\ filters = fs /\ file \in Path
  BY <1>1, <1>3, LookedAt
<1>5. Report(  Shown(IF src.copyright THEN <<>> ELSE <<CopyrightMissing>>, {}, {})
            \o Shown(src.early, {}, src.global))
  BY <1>2 DEF BeginData
<1>6. Shown(IF src.copyright THEN <<>> ELSE <<CopyrightMissing>>, {}, {})
         = WantedCopyright(flags, fs, src)
  BY <1>4, ShownCopyright
<1>7. Shown(src.early, {}, src.global) = Wanted(flags, fs, src, src.early, {})
  <2>1. \A x : BySuppressions({}, x) <=> ByComment(src, x, {})
    BY DEF BySuppressions, ByComment
  <2>2. PICK xs \in Seq(Finding) : xs = src.early
    <3>1. src.early \in Seq(Finding)
      BY SourceParts
    <3>. QED  BY <3>1
  <2>3. \A i \in 1 .. Len(xs) : BySuppressions({}, xs[i]) <=> ByComment(src, xs[i], {})
    BY <2>1
  <2>4. Shown(xs, {}, src.global) = Wanted(flags, filters, src, xs, {})
    BY <1>4, <2>3, ShownIsWanted
  <2>. QED  BY <1>4, <2>2, <2>4
<1>8. PICK ys : ys = WantedBefore(flags, fs, src)
  OBVIOUS
<1>9. ys \in Seq(Finding) /\ ys = WantedUpToGuard(flags, fs, src, 0)
  BY <1>8, WantedBeforeType, WantedUpToGuardSteps
<1>10. Report(ys)
  BY <1>5, <1>6, <1>7, <1>8 DEF WantedBefore
<1>11. Reported' = Reported \o MessagesFor(file, ys)
  BY <1>1, <1>4, <1>9, <1>10, ReportAppends
<1>. QED  BY <1>2, <1>3, <1>9, <1>11

\* The header guard is looked at under the settings of the command line.
LEMMA SameGuard ==
    ASSUME SettingsInv, NoLastingSettings, InFile, NEW src
    PROVE  GuardOf(src, settings) = GuardOf(src, flags)
BY DEF SettingsInv, SameSettings, GuardOf, GetHeaderExtensions

\* Where CheckForHeaderGuard and ProcessLine are.
LEMMA GuardPlace ==
    ASSUME TypeOK, Shape, FilterInv, NolintInv, SettingsInv, NoLastingSettings, pc = "guard",
           NEW src, src = disk.files[file], NEW g, g = GuardOf(src, flags)
    PROVE  /\ g = GuardOf(src, settings) /\ Len(g) \in Nat
           /\ lineNo <= Len(g) => lineNo \in 1 .. Len(g)
           /\ lineNo > Len(g) => lineNo - 1 = Len(g)
           /\ globalSuppressions = src.global
           /\ SuppressionsOf(src, GuardRead(flags, src, lineNo - 1), suppressions)
           /\ src \in Source
<1>1. src \in Source
  BY LookedAt
<1>2. g = GuardOf(src, settings)
  BY SameGuard DEF InFile
<1>3. lineNo \in Nat /\ lineNo # 0 /\ Len(g) \in Nat
  BY <1>1, GuardType DEF TypeOK, Shape
<1>4. /\ lineNo <= Len(g) + 1 /\ globalSuppressions = src.global
      /\ SuppressionsOf(src, GuardRead(flags, src, lineNo - 1), suppressions)
  BY DEF NolintInv
<1>5. lineNo <= Len(g) => lineNo \in 1 .. Len(g)
  BY <1>3
<1>6. lineNo > Len(g) => lineNo - 1 = Len(g)
  BY <1>3, <1>4
<1>. QED  BY <1>1, <1>2, <1>3, <1>4, <1>5, <1>6

LEMMA LinePlace ==
    ASSUME TypeOK, Shape, FilterInv, NolintInv, NoLastingSettings, pc = "lines",
           NEW src, src = disk.files[file]
    PROVE  /\ Len(src.lines) \in Nat
           /\ lineNo <= Len(src.lines) => lineNo \in 1 .. Len(src.lines)
           /\ lineNo > Len(src.lines) => lineNo - 1 = Len(src.lines)
           /\ globalSuppressions = src.global
           /\ SuppressionsOf(src, LinesRead(flags, src, lineNo - 1), suppressions)
           /\ src \in Source
<1>1. src \in Source
  BY LookedAt
<1>2. lineNo \in Nat /\ lineNo # 0 /\ Len(src.lines) \in Nat
  BY <1>1, SourceParts DEF TypeOK, Shape
<1>3. /\ lineNo <= Len(src.lines) + 1 /\ globalSuppressions = src.global
      /\ SuppressionsOf(src, LinesRead(flags, src, lineNo - 1), suppressions)
  BY DEF NolintInv
<1>4. lineNo <= Len(src.lines) => lineNo \in 1 .. Len(src.lines)
  BY <1>2
<1>5. lineNo > Len(src.lines) => lineNo - 1 = Len(src.lines)
  BY <1>2, <1>3
<1>. QED  BY <1>1, <1>2, <1>3, <1>4, <1>5

\* A line of the header guard.
LEMMA GuardReports ==
    ASSUME TypeOK, Shape, FilterInv, NolintInv, SettingsInv, NoLastingSettings,
           CheckForHeaderGuard
    PROVE  /\ lineNo \in 1 .. Len(GuardOf(disk.files[file], flags))
           /\ Reported' = Reported \o
                MessagesFor(file, WantedOfGuard(flags, FiltersFor(flags, disk, file),
                                                disk.files[file], lineNo))
<1>1. PICK src : src = disk.files[file]
  OBVIOUS
<1>2. PICK g : g = GuardOf(src, flags)
  OBVIOUS
<1>3. pc = "guard" /\ UNCHANGED flags
  BY DEF CheckForHeaderGuard, inputs
<1>4. /\ src \in Source /\ g = GuardOf(src, settings) /\ Len(g) \in Nat
      /\ lineNo <= Len(g) => lineNo \in 1 .. Len(g)
      /\ globalSuppressions = src.global
      /\ SuppressionsOf(src, GuardRead(flags, src, lineNo - 1), suppressions)
  BY <1>1, <1>2, <1>3, GuardPlace
<1>5. PICK at : at = g[lineNo]
  OBVIOUS
<1>6. lineNo <= Len(g) /\ ParseAndReport(NolintOf(src, at.line), at.line, at.found)
  BY <1>1, <1>4, <1>5 DEF CheckForHeaderGuard
<1>7. PICK i \in 1 .. Len(g) : i = lineNo
  BY <1>4, <1>6
<1>8. PICK fs : fs = FiltersFor(flags, disk, file)
  OBVIOUS
<1>9. AllSigned(filters) /\ filters = fs /\ file \in Path
  BY <1>3, <1>8, LookedAt
<1>10. /\ WantedOfGuard(flags, fs, src, i) =
             WantedNow(flags, fs, src, at.line, at.found, GuardRead(flags, src, i))
       /\ at.line \in Nat /\ at.found \in Seq(Finding)
  BY <1>2, <1>4, <1>5, <1>7, WantedOfGuardType
<1>11. GuardRead(flags, src, i) = And(GuardRead(flags, src, i - 1), at.line)
  <2>1. GuardRead(flags, src, i) = And(GuardRead(flags, src, i - 1), GuardOf(src, flags)[i].line)
    BY <1>4, <1>7, GuardReadSteps, Zenon
  <2>2. GuardOf(src, flags)[i].line = at.line
    BY <1>2, <1>5, <1>7, Zenon
  <2>. QED  BY <2>1, <2>2, Zenon
<1>12. PICK read : read = GuardRead(flags, src, i - 1)
  OBVIOUS
<1>13. SuppressionsOf(src, read, suppressions)
  BY <1>4, <1>7, <1>12
<1>14. Reported' = Reported \o
          MessagesFor(file, WantedNow(flags, filters, src, at.line, at.found, And(read, at.line)))
  BY <1>3, <1>4, <1>6, <1>9, <1>10, <1>13, ParsedIsWanted
<1>. QED  BY <1>1, <1>2, <1>7, <1>8, <1>9, <1>10, <1>11, <1>12, <1>14

\* A line.
LEMMA ProcessLineReports ==
    ASSUME TypeOK, Shape, FilterInv, NolintInv, SettingsInv, NoLastingSettings, ProcessLine
    PROVE  /\ lineNo \in 1 .. Len(disk.files[file].lines)
           /\ Reported' = Reported \o
                MessagesFor(file, WantedOfLine(flags, FiltersFor(flags, disk, file),
                                               disk.files[file], lineNo))
<1>1. PICK src : src = disk.files[file]
  OBVIOUS
<1>2. pc = "lines" /\ UNCHANGED flags /\ lineNo <= Len(src.lines)
  BY <1>1 DEF ProcessLine, inputs
<1>3. /\ src \in Source /\ lineNo \in 1 .. Len(src.lines)
      /\ globalSuppressions = src.global
      /\ SuppressionsOf(src, LinesRead(flags, src, lineNo - 1), suppressions)
  BY <1>1, <1>2, LinePlace
<1>4. PICK k \in 1 .. Len(src.lines) : k = lineNo
  BY <1>3
<1>5. settings.lineLength = flags.lineLength
  BY <1>2 DEF SettingsInv, SameSettings, InFile
<1>6. PICK found : found = OnLine(flags, src, k)
  OBVIOUS
<1>7. found \in Seq(Finding) /\ k \in Nat /\ NolintOf(src, k) = src.lines[k].nolint
  BY <1>3, <1>6, LineType
<1>8. ParseAndReport(NolintOf(src, k), k, found)
  BY <1>1, <1>4, <1>5, <1>6, <1>7 DEF ProcessLine, OnLine
<1>9. PICK fs : fs = FiltersFor(flags, disk, file)
  OBVIOUS
<1>10. AllSigned(filters) /\ filters = fs /\ file \in Path
  BY <1>2, <1>9, LookedAt
<1>11. WantedOfLine(flags, fs, src, k) =
          WantedNow(flags, fs, src, k, found, LinesRead(flags, src, k))
  BY <1>3, <1>6, WantedOfLineType
<1>12. PICK read : read = LinesRead(flags, src, k - 1)
  OBVIOUS
<1>13. LinesRead(flags, src, k) = And(read, k)
  <2>1. Len(src.lines) \in Nat
    BY <1>1, <1>2, LinePlace
  <2>. QED  BY <1>12, <2>1, LinesReadSteps, Zenon
<1>14. SuppressionsOf(src, read, suppressions)
  BY <1>3, <1>4, <1>12
<1>15. Reported' = Reported \o
          MessagesFor(file, WantedNow(flags, filters, src, k, found, And(read, k)))
  BY <1>2, <1>3, <1>7, <1>8, <1>10, <1>14, ParsedIsWanted
<1>. QED  BY <1>1, <1>4, <1>9, <1>10, <1>11, <1>13, <1>15

\* After the last line.
LEMMA EndDataReports ==
    ASSUME TypeOK, Shape, FilterInv, NolintInv, NoLastingSettings, EndData,
           NEW src, src = disk.files[file], NEW k, k = Len(src.lines)
    PROVE  /\ lineNo - 1 = k
           /\ Reported' = Reported \o
                MessagesFor(file, Wanted(flags, FiltersFor(flags, disk, file), src,
                                         src.late \o StrayCR(src.lines),
                                         LinesRead(flags, src, k)))
<1>1. pc = "lines" /\ UNCHANGED flags /\ lineNo > Len(src.lines)
  BY DEF EndData, inputs
<1>2. /\ src \in Source /\ lineNo - 1 = k
      /\ globalSuppressions = src.global
      /\ SuppressionsOf(src, LinesRead(flags, src, lineNo - 1), suppressions)
  BY <1>1, LinePlace
<1>3. PICK fs : fs = FiltersFor(flags, disk, file)
  OBVIOUS
<1>4. filters \in Seq(Filter) /\ AllSigned(filters) /\ filters = fs /\ file \in Path
  BY <1>1, <1>3, LookedAt
<1>5. PICK read : read = LinesRead(flags, src, k)
  OBVIOUS
<1>6. SuppressionsOf(src, read, suppressions)
  BY <1>2, <1>5
<1>8. PICK xs \in Seq(Finding) : xs = src.late \o StrayCR(src.lines)
  <2>1. src.late \in Seq(Finding) /\ StrayCR(src.lines) \in Seq(Finding)
    BY <1>2, SourceParts
  <2>2. src.late \o StrayCR(src.lines) \in Seq(Finding)
    BY <2>1
  <2>. QED  BY <2>2
<1>9. Report(Shown(xs, suppressions, src.global))
  BY <1>2, <1>8 DEF EndData
<1>10. Shown(xs, suppressions, src.global) = Wanted(flags, fs, src, xs, read)
  <2>1. ASSUME NEW i \in 1 .. Len(xs)
        PROVE  BySuppressions(suppressions, xs[i]) <=> ByComment(src, xs[i], read)
    <3>1. xs[i] \in Finding
      OBVIOUS
    <3>. QED  BY <1>6, <3>1, CommentsSuppress
  <2>. QED  BY <1>4, <2>1, ShownIsWanted
<1>11. PICK ys : ys = Wanted(flags, fs, src, xs, read)
  OBVIOUS
<1>12. ys \in Seq(Finding)
  BY <1>11, WantedType
<1>13. Reported' = Reported \o MessagesFor(file, ys)
  BY <1>1, <1>4, <1>9, <1>10, <1>11, <1>12, ReportAppends
<1>. QED  BY <1>2, <1>3, <1>5, <1>8, <1>11, <1>13

\* The comments read so far.
LEMMA CommentsStep ==
    ASSUME TypeOK, Shape, FilterInv, SettingsInv, NolintInv, [Next]_vars
    PROVE  NolintInv'
<1>1. UNCHANGED <<flags, disk>> /\ (NoLastingSettings' <=> NoLastingSettings)
  BY InputsStay
<1>2. PICK src : src = disk.files[file]
  OBVIOUS
<1>3. CASE BeginData
  <2>1. /\ suppressions' = {} /\ globalSuppressions' = src.global
        /\ lineNo' = 1 /\ pc' = "guard" /\ UNCHANGED file /\ InFile
    BY <1>2, <1>3 DEF BeginData, InFile, fileVars
  <2>2. src \in Source
    BY <1>2, <2>1, SourceType
  <2>3. Len(GuardOf(src, flags)) \in Nat
    BY <2>2, GuardType
  <2>4. GuardRead(flags, src, 0) = {}
    BY ReadBefore
  <2>5. SuppressionsOf(src, GuardRead(flags, src, 0), {})
    BY <2>4 DEF SuppressionsOf
  <2>6. lineNo' - 1 = 0 /\ lineNo' <= Len(GuardOf(src, flags)) + 1
    BY <2>1, <2>3
  <2>. QED  BY <1>1, <1>2, <2>1, <2>5, <2>6 DEF NolintInv
<1>4. CASE CheckForHeaderGuard
  <2>1. /\ pc = "guard" /\ pc' = "guard" /\ lineNo' = lineNo + 1
        /\ UNCHANGED <<file, globalSuppressions>>
    BY <1>4 DEF CheckForHeaderGuard, fileVars
  <2>2. globalSuppressions = src.global
    BY <1>2, <2>1 DEF NolintInv
  <2> SUFFICES ASSUME NoLastingSettings
               PROVE  /\ lineNo' <= Len(GuardOf(src, flags)) + 1
                      /\ SuppressionsOf(src, GuardRead(flags, src, lineNo' - 1), suppressions')
    BY <1>1, <1>2, <2>1, <2>2 DEF NolintInv
  <2>3. PICK g : g = GuardOf(src, flags)
    OBVIOUS
  <2>4. /\ src \in Source /\ g = GuardOf(src, settings) /\ Len(g) \in Nat
        /\ lineNo <= Len(g) => lineNo \in 1 .. Len(g)
        /\ SuppressionsOf(src, GuardRead(flags, src, lineNo - 1), suppressions)
    BY <1>2, <2>1, <2>3, GuardPlace
  <2>5. PICK k : k = g[lineNo].line
    OBVIOUS
  <2>6. lineNo <= Len(g) /\ suppressions' = suppressions \cup Suppressed(NolintOf(src, k), k)
    BY <1>2, <1>4, <2>4, <2>5 DEF CheckForHeaderGuard, ParseAndReport
  <2>7. lineNo \in 1 .. Len(g)
    BY <2>4, <2>6
  <2>8. GuardRead(flags, src, lineNo) = And(GuardRead(flags, src, lineNo - 1), k)
    <3>1. GuardOf(src, flags)[lineNo].line = k
      BY <2>3, <2>5, Zenon
    <3>. QED  BY <2>4, <2>7, <3>1, GuardReadSteps, Zenon
  <2>9. PICK new : new = suppressions'
    OBVIOUS
  <2>10. SuppressionsOf(src, GuardRead(flags, src, lineNo), new)
    <3>1. new = suppressions \cup Suppressed(NolintOf(src, k), k)
      BY <2>6, <2>9, Zenon
    <3>2. SuppressionsOf(src, And(GuardRead(flags, src, lineNo - 1), k), new)
      BY <2>4, <3>1, OneMoreLine, Zenon
    <3>. QED  BY <2>8, <3>2, Zenon
  <2>11. lineNo' - 1 = lineNo /\ lineNo' <= Len(g) + 1
    BY <2>1, <2>4, <2>7
  <2>. QED  BY <2>3, <2>9, <2>10, <2>11
<1>5. CASE BeginLines
  <2>1. /\ pc = "guard" /\ pc' = "lines" /\ lineNo' = 1
        /\ UNCHANGED <<file, suppressions, globalSuppressions>>
        /\ lineNo > Len(GuardOf(src, settings))
    BY <1>2, <1>5 DEF BeginLines, fileVars, nolintVars
  <2>2. globalSuppressions = src.global
    BY <1>2, <2>1 DEF NolintInv
  <2> SUFFICES ASSUME NoLastingSettings
               PROVE  /\ lineNo' <= Len(src.lines) + 1
                      /\ SuppressionsOf(src, LinesRead(flags, src, lineNo' - 1), suppressions)
    BY <1>1, <1>2, <2>1, <2>2 DEF NolintInv
  <2>3. PICK g : g = GuardOf(src, flags)
    OBVIOUS
  <2>4. /\ src \in Source /\ g = GuardOf(src, settings)
        /\ lineNo > Len(g) => lineNo - 1 = Len(g)
        /\ SuppressionsOf(src, GuardRead(flags, src, lineNo - 1), suppressions)
    BY <1>2, <2>1, <2>3, GuardPlace
  <2>5. LinesRead(flags, src, 0) = GuardRead(flags, src, lineNo - 1)
    <3>1. lineNo - 1 = Len(GuardOf(src, flags))
      BY <2>1, <2>3, <2>4
    <3>. QED  BY <3>1, ReadBefore, Zenon
  <2>6. Len(src.lines) \in Nat
    BY <2>4, SourceParts
  <2>7. lineNo' - 1 = 0 /\ lineNo' <= Len(src.lines) + 1
    BY <2>1, <2>6
  <2>. QED  BY <2>4, <2>5, <2>7
<1>6. CASE ProcessLine
  <2>1. /\ pc = "lines" /\ pc' = "lines" /\ lineNo <= Len(src.lines) /\ lineNo' = lineNo + 1
        /\ suppressions' = suppressions \cup Suppressed(src.lines[lineNo].nolint, lineNo)
        /\ UNCHANGED <<file, globalSuppressions>>
    BY <1>2, <1>6 DEF ProcessLine, ParseAndReport, fileVars
  <2>2. globalSuppressions = src.global
    BY <1>2, <2>1 DEF NolintInv
  <2> SUFFICES ASSUME NoLastingSettings
               PROVE  /\ lineNo' <= Len(src.lines) + 1
                      /\ SuppressionsOf(src, LinesRead(flags, src, lineNo' - 1), suppressions')
    BY <1>1, <1>2, <2>1, <2>2 DEF NolintInv
  <2>3. /\ src \in Source /\ lineNo \in 1 .. Len(src.lines) /\ Len(src.lines) \in Nat
        /\ SuppressionsOf(src, LinesRead(flags, src, lineNo - 1), suppressions)
    BY <1>2, <2>1, LinePlace
  <2>4. NolintOf(src, lineNo) = src.lines[lineNo].nolint
    BY <2>3, LineType, Zenon
  <2>5. LinesRead(flags, src, lineNo) = And(LinesRead(flags, src, lineNo - 1), lineNo)
    BY <2>3, LinesReadSteps, Zenon
  <2>6. PICK new : new = suppressions'
    OBVIOUS
  <2>7. SuppressionsOf(src, LinesRead(flags, src, lineNo), new)
    <3>1. new = suppressions \cup Suppressed(NolintOf(src, lineNo), lineNo)
      BY <2>1, <2>4, <2>6, Zenon
    <3>. QED  BY <2>3, <2>5, <3>1, OneMoreLine, Zenon
  <2>8. lineNo' - 1 = lineNo /\ lineNo' <= Len(src.lines) + 1
    BY <2>1, <2>3
  <2>. QED  BY <2>6, <2>7, <2>8
<1>7. CASE ~(BeginData \/ CheckForHeaderGuard \/ BeginLines \/ ProcessLine)
  <2>1. pc' \in {"guard", "lines"} =>
           UNCHANGED <<pc, file, lineNo, suppressions, globalSuppressions>>
    BY <1>7 DEF Next, BadArguments, ParseArguments, BeginFile, ReadConfig, AddConfigFilters,
                Unreadable, WrongExtension, EndData, Done, Finish, vars, fileVars, nolintVars
  <2>. QED  BY <1>1, <2>1 DEF NolintInv
<1>. QED  BY <1>3, <1>4, <1>5, <1>6, <1>7

\* Same extensions.
LEMMA SameExtensions ==
    ASSUME NEW s, NEW cmd, SameSettings(s, cmd)
    PROVE  GetAllExtensions(s) =
              GetAllExtensions([extensions |-> cmd.extensions, headers |-> cmd.headers])
BY DEF SameSettings, GetAllExtensions, GetHeaderExtensions

\* The file whose lines are looked at.
LEMMA CheckedStep ==
    ASSUME TypeOK, Shape, FilterInv, SettingsInv, CheckedInv, [Next]_vars
    PROVE  CheckedInv'
<1>1. UNCHANGED <<flags, disk>> /\ (NoLastingSettings' <=> NoLastingSettings)
  BY InputsStay
<1>2. CASE BeginData
  <2> SUFFICES ASSUME NoLastingSettings  PROVE IsChecked(flags, disk, file)
    <3>1. UNCHANGED file
      BY <1>2 DEF BeginData, fileVars
    <3>. QED  BY <1>1, <3>1 DEF CheckedInv
  <2>1. /\ pc = "read" /\ disk.files[file].readable
        /\ disk.files[file].ext \in GetAllExtensions(settings)
    BY <1>2 DEF BeginData
  <2>2. SameSettings(settings, flags)
    BY <2>1 DEF SettingsInv, InFile
  <2>3. ~IsExcluded(disk, file)
    BY <2>1 DEF FilterInv
  <2>. QED  BY <2>1, <2>2, <2>3, SameExtensions DEF IsChecked
<1>3. CASE ~BeginData
  <2>1. (UNCHANGED file /\ pc \in {"guard", "lines"}) \/ pc' \notin {"guard", "lines"}
    BY <1>3 DEF Next, BadArguments, ParseArguments, BeginFile, ReadConfig, AddConfigFilters,
                Unreadable, WrongExtension, CheckForHeaderGuard, BeginLines, ProcessLine, EndData,
                Done, Finish, vars, fileVars
  <2>. QED  BY <1>1, <2>1 DEF CheckedInv
<1>. QED  BY <1>2, <1>3

\* A step outside the checks leaves the report alone.
LEMMA OthersReportNothing ==
    ASSUME TypeOK, Shape, [Next]_vars,
           pc \notin {"read", "guard", "lines"} \/ Unreadable \/ WrongExtension \/ BeginLines
              \/ UNCHANGED vars
    PROVE  Reported' = Reported
<1>1. Reported \in Seq(Messages)
  BY ReportedType DEF Shape
<1>2. CASE pc \notin {"read", "guard", "lines"}
  <2>1. PICK ms : Appends(ms) /\ (ms # <<>> => pc \in {"read", "guard", "lines"})
    BY StepReports DEF Reporting
  <2>2. Reported' = Reported \o <<>>
    BY <1>2, <2>1 DEF Appends
  <2>. QED  BY <1>1, <2>2
<1>3. CASE Unreadable \/ WrongExtension
  <2>1. InFile /\ UNCHANGED <<flags, junitFailures>>
    BY <1>3 DEF Unreadable, WrongExtension, InFile, inputs
  <2>2. \E ns \in Seq(Notes) : PrintError(ns)
    <3>1. Note("unreadable") \in Notes /\ Note("extension") \in Notes
      BY <2>1, NoteType
    <3>2. <<Note("unreadable")>> \in Seq(Notes) /\ <<Note("extension")>> \in Seq(Notes)
      BY <3>1
    <3>. QED  BY <1>3, <3>2 DEF Unreadable, WrongExtension
  <2>. QED  BY <2>1, <2>2, PrintErrorKeeps
<1>4. CASE BeginLines \/ UNCHANGED vars
  BY <1>4 DEF BeginLines, vars, inputs, junitVars, Reported
<1>. QED  BY <1>2, <1>3, <1>4

\* A file that is done with: what was reported of it is all that there is to report.
LEMMA FileDone ==
    ASSUME TypeOK, Shape, ReportInv, NoLastingSettings, InFile, pc # "lines",
           UNCHANGED <<flags, disk>>, finished' = Append(finished, file), pc' = "file",
           Reported' = Reported,
           SoFar = ExpectedFor(flags, disk, file)
    PROVE  ReportInv'
<1>1. disk \in Disks /\ finished \in Seq(DOMAIN disk.files) /\ file \in DOMAIN disk.files
  BY SourceType DEF TypeOK, Shape
<1>2. Reported = ExpectedOf(flags, disk, finished) \o ExpectedFor(flags, disk, file)
  BY DEF ReportInv
<1>3. PICK fs : fs = Append(finished, file)
  OBVIOUS
<1>4. fs \in Seq(DOMAIN disk.files)
  BY <1>1, <1>3
<1>5. /\ ExpectedOf(flags, disk, fs) = Reported
      /\ ExpectedOf(flags, disk, fs) \in Seq(Messages)
  BY <1>1, <1>2, <1>3, <1>4, ExpectedOfSteps, ExpectedOfType
<1>6. Reported = ExpectedOf(flags, disk, fs) \o <<>>
  BY <1>5
<1>7. SoFar' = <<>>
  BY DEF SoFar
<1>. QED  BY <1>3, <1>6, <1>7 DEF ReportInv

\* What has been reported grows by what the checks of the file find.
LEMMA FileGoesOn ==
    ASSUME TypeOK, Shape, ReportInv, NoLastingSettings, UNCHANGED <<flags, disk, finished>>,
           InFile, SoFar \in Seq(Messages), NEW ms \in Seq(Messages), Reported' = Reported \o ms,
           SoFar' = SoFar \o ms
    PROVE  ReportInv'
<1>1. disk \in Disks /\ finished \in Seq(DOMAIN disk.files) /\ file \in DOMAIN disk.files
  BY SourceType DEF TypeOK, Shape
<1>2. PICK e \in Seq(Messages) : e = ExpectedOf(flags, disk, finished)
  <2>1. ExpectedOf(flags, disk, finished) \in Seq(Messages)
    BY <1>1, ExpectedOfType
  <2>. QED  BY <2>1
<1>3. PICK s \in Seq(Messages) : s = SoFar
  OBVIOUS
<1>4. Reported = e \o s
  BY <1>2, <1>3 DEF ReportInv
<1>5. (e \o s) \o ms = e \o (s \o ms)
  OBVIOUS
<1>6. Reported' = ExpectedOf(flags, disk, finished) \o SoFar'
  BY <1>2, <1>3, <1>4, <1>5
<1>. QED  BY <1>6 DEF ReportInv

\* The report.
LEMMA ReportStep ==
    ASSUME Inv, DocInv, [Next]_vars
    PROVE  ReportInv'
<1>1. UNCHANGED <<flags, disk>> /\ (NoLastingSettings' <=> NoLastingSettings)
  BY InputsStay
<1> SUFFICES ASSUME NoLastingSettings  PROVE ReportInv'
  BY <1>1 DEF ReportInv
<1>2. /\ TypeOK /\ Shape
      /\ FilterInv /\ ClimbInv /\ SettingsInv /\ NolintInv /\ CheckedInv /\ ReportInv
  BY DEF Inv, DocInv
<1>3. ASSUME UNCHANGED finished, SoFar = <<>>, SoFar' = <<>>, Reported' = Reported
      PROVE  ReportInv'
  BY <1>1, <1>2, <1>3 DEF ReportInv
<1>4. CASE BadArguments \/ ParseArguments \/ BeginFile \/ AddConfigFilters \/ Finish
  <2>1. /\ pc \in {"args", "file", "config"} /\ UNCHANGED finished
        /\ pc' \in {"usage", "traceback", "file", "config", "read", "exit"}
    BY <1>4 DEF BadArguments, ParseArguments, BeginFile, AddConfigFilters, Finish, fileVars
  <2>2. SoFar = <<>> /\ SoFar' = <<>>
    BY <2>1 DEF SoFar
  <2>3. Reported' = Reported
    BY <1>2, <2>1, OthersReportNothing
  <2>. QED  BY <1>3, <2>1, <2>2, <2>3
<1>5. CASE ReadConfig
  <2>1. pc = "config"
    BY <1>5 DEF ReadConfig
  <2>2. Reported' = Reported
    BY <1>2, <2>1, OthersReportNothing
  <2>3. SoFar = <<>>
    BY <2>1 DEF SoFar
  <2>4. CASE pc' = "config" /\ UNCHANGED finished
    <3>1. SoFar' = <<>>
      BY <2>4 DEF SoFar
    <3>. QED  BY <1>3, <2>2, <2>3, <2>4, <3>1
  <2>5. CASE pc' = "file" /\ IsExcluded(disk, file) /\ finished' = Append(finished, file)
    <3>1. ExpectedFor(flags, disk, file) = <<>>
      BY <2>5 DEF ExpectedFor, IsChecked
    <3>2. InFile
      BY <2>1 DEF InFile
    <3>. QED  BY <1>1, <1>2, <2>1, <2>2, <2>3, <2>5, <3>1, <3>2, FileDone
  <2>. QED  BY <1>2, <1>5, <2>4, <2>5, ReadConfigClimbs
<1>6. CASE Unreadable
  <2>1. /\ pc = "read" /\ ~disk.files[file].readable /\ pc' = "file"
        /\ finished' = Append(finished, file)
    BY <1>6 DEF Unreadable
  <2>2. Reported' = Reported
    BY <1>2, <1>6, OthersReportNothing
  <2>3. SoFar = <<>> /\ InFile /\ pc # "lines"
    BY <2>1 DEF SoFar, InFile
  <2>4. ExpectedFor(flags, disk, file) = <<>>
    BY <2>1 DEF ExpectedFor, IsChecked
  <2>. QED  BY <1>1, <1>2, <2>1, <2>2, <2>3, <2>4, FileDone
<1>7. CASE WrongExtension
  <2>1. /\ pc = "read" /\ disk.files[file].ext \notin GetAllExtensions(settings) /\ pc' = "done"
        /\ UNCHANGED <<file, finished>>
    BY <1>7 DEF WrongExtension, fileVars
  <2>2. Reported' = Reported
    BY <1>2, <1>7, OthersReportNothing
  <2>3. SameSettings(settings, flags)
    BY <1>2, <2>1 DEF SettingsInv, InFile
  <2>4. ~IsChecked(flags, disk, file)
    BY <2>1, <2>3, SameExtensions DEF IsChecked
  <2>5. ExpectedFor(flags, disk, file) = <<>>
    BY <2>4 DEF ExpectedFor
  <2>6. SoFar = <<>> /\ SoFar' = <<>>
    BY <1>1, <2>1, <2>5 DEF SoFar
  <2>. QED  BY <1>3, <2>1, <2>2, <2>6
<1>8. CASE BeginData
  <2>1. pc = "read" /\ pc' = "guard" /\ lineNo' = 1 /\ UNCHANGED <<file, finished>>
    BY <1>8 DEF BeginData, fileVars
  <2>2. PICK src \in Source : src = disk.files[file]
    BY <1>2, <2>1, LookedAt
  <2>3. file \in Path
    BY <1>2, <2>1, LookedAt
  <2>4. PICK ms : ms = MessagesFor(file, WantedUpToGuard(flags, FiltersFor(flags, disk, file), src, 0))
    OBVIOUS
  <2>5. ms \in Seq(Messages)
    <3>1. 0 \in 0 .. Len(GuardOf(src, flags))
      BY GuardType
    <3>2. WantedUpToGuard(flags, FiltersFor(flags, disk, file), src, 0) \in Seq(Finding)
      BY <3>1, WantedUpToGuardSteps
    <3>. QED  BY <2>3, <2>4, <3>2, MessagesForType
  <2>6. Reported' = Reported \o ms
    BY <1>2, <1>8, <2>2, <2>4, BeginDataReports
  <2>7. SoFar = <<>> /\ InFile
    BY <2>1 DEF SoFar, InFile
  <2>8. SoFar' = ms
    <3>1. lineNo' - 1 = 0
      BY <2>1
    <3>. QED  BY <1>1, <2>1, <2>2, <2>4, <3>1 DEF SoFar
  <2>9. SoFar' = SoFar \o ms /\ SoFar \in Seq(Messages)
    BY <2>5, <2>7, <2>8
  <2>. QED  BY <1>1, <1>2, <2>1, <2>5, <2>6, <2>7, <2>9, FileGoesOn
<1>9. CASE CheckForHeaderGuard
  <2>1. /\ pc = "guard" /\ pc' = "guard" /\ lineNo' = lineNo + 1 /\ UNCHANGED <<file, finished>>
    BY <1>9 DEF CheckForHeaderGuard, fileVars
  <2>2. PICK src \in Source : src = disk.files[file]
    BY <1>2, <2>1, LookedAt
  <2>3. file \in Path
    BY <1>2, <2>1, LookedAt
  <2>4. PICK N : N = Len(GuardOf(src, flags))
    OBVIOUS
  <2>5. PICK fs : fs = FiltersFor(flags, disk, file)
    OBVIOUS
  <2>6. PICK xs : xs = WantedOfGuard(flags, fs, src, lineNo)
    OBVIOUS
  <2>7. PICK ms : ms = MessagesFor(file, xs)
    OBVIOUS
  <2>8. lineNo \in 1 .. N /\ Reported' = Reported \o ms
    BY <1>2, <1>9, <2>2, <2>4, <2>5, <2>6, <2>7, GuardReports
  <2>9. N \in Nat /\ lineNo - 1 \in 0 .. N /\ lineNo' - 1 = lineNo
    <3>1. N \in Nat
      BY <2>4, GuardType
    <3>. QED  BY <2>1, <2>8, <3>1
  <2>10. PICK old : old = WantedUpToGuard(flags, fs, src, lineNo - 1)
    OBVIOUS
  <2>11. xs \in Seq(Finding)
    BY <2>4, <2>6, <2>8, WantedOfGuardType
  <2>12. old \in Seq(Finding) /\ WantedUpToGuard(flags, fs, src, lineNo) = old \o xs
    BY <2>4, <2>6, <2>8, <2>9, <2>10, WantedUpToGuardSteps
  <2>13. ms \in Seq(Messages) /\ MessagesFor(file, old) \in Seq(Messages)
    BY <2>3, <2>7, <2>11, <2>12, MessagesForType
  <2>14. SoFar = MessagesFor(file, old) /\ InFile
    BY <2>1, <2>2, <2>5, <2>10 DEF SoFar, InFile
  <2>15. SoFar' = MessagesFor(file, old \o xs)
    BY <1>1, <2>1, <2>2, <2>5, <2>9, <2>12 DEF SoFar
  <2>16. SoFar' = SoFar \o ms /\ SoFar \in Seq(Messages)
    BY <2>3, <2>7, <2>11, <2>12, <2>13, <2>14, <2>15, MessagesForConcat
  <2>. QED  BY <1>1, <1>2, <2>1, <2>8, <2>13, <2>14, <2>16, FileGoesOn
<1>10. CASE BeginLines
  <2>1. /\ pc = "guard" /\ pc' = "lines" /\ lineNo' = 1 /\ UNCHANGED <<file, finished>>
        /\ lineNo > Len(GuardOf(disk.files[file], settings))
    BY <1>10 DEF BeginLines, fileVars
  <2>2. PICK src \in Source : src = disk.files[file]
    BY <1>2, <2>1, LookedAt
  <2>3. lineNo - 1 = Len(GuardOf(src, flags))
    BY <1>2, <2>1, <2>2, GuardPlace
  <2>4. PICK fs : fs = FiltersFor(flags, disk, file)
    OBVIOUS
  <2>5. WantedUpTo(flags, fs, src, 0) = WantedUpToGuard(flags, fs, src, lineNo - 1)
    BY <2>3, WantedUpToSteps
  <2>6. lineNo' - 1 = 0
    BY <2>1
  <2>7. SoFar = MessagesFor(file, WantedUpToGuard(flags, fs, src, lineNo - 1))
    BY <2>1, <2>2, <2>4 DEF SoFar
  <2>8. SoFar' = MessagesFor(file, WantedUpTo(flags, fs, src, 0))
    BY <1>1, <2>1, <2>2, <2>4, <2>6 DEF SoFar
  <2>9. Reported' = Reported
    BY <1>2, <1>10, OthersReportNothing
  <2>. QED  BY <1>1, <1>2, <2>1, <2>5, <2>7, <2>8, <2>9 DEF ReportInv
<1>11. CASE ProcessLine
  <2>1. /\ pc = "lines" /\ pc' = "lines" /\ lineNo' = lineNo + 1 /\ UNCHANGED <<file, finished>>
    BY <1>11 DEF ProcessLine, fileVars
  <2>2. PICK src \in Source : src = disk.files[file]
    BY <1>2, <2>1, LookedAt
  <2>3. file \in Path
    BY <1>2, <2>1, LookedAt
  <2>4. PICK fs : fs = FiltersFor(flags, disk, file)
    OBVIOUS
  <2>5. PICK xs : xs = WantedOfLine(flags, fs, src, lineNo)
    OBVIOUS
  <2>6. PICK ms : ms = MessagesFor(file, xs)
    OBVIOUS
  <2>7. lineNo \in 1 .. Len(src.lines) /\ Reported' = Reported \o ms
    BY <1>2, <1>11, <2>2, <2>4, <2>5, <2>6, ProcessLineReports
  <2>8. lineNo - 1 \in 0 .. Len(src.lines) /\ lineNo' - 1 = lineNo
    <3>1. Len(src.lines) \in Nat
      BY SourceParts
    <3>. QED  BY <2>1, <2>7, <3>1
  <2>9. PICK old : old = WantedUpTo(flags, fs, src, lineNo - 1)
    OBVIOUS
  <2>10. xs \in Seq(Finding)
    BY <2>5, <2>7, WantedOfLineType
  <2>11. old \in Seq(Finding) /\ WantedUpTo(flags, fs, src, lineNo) = old \o xs
    BY <2>5, <2>7, <2>8, <2>9, WantedUpToSteps
  <2>12. ms \in Seq(Messages) /\ MessagesFor(file, old) \in Seq(Messages)
    BY <2>3, <2>6, <2>10, <2>11, MessagesForType
  <2>13. SoFar = MessagesFor(file, old) /\ InFile
    BY <2>1, <2>2, <2>4, <2>9 DEF SoFar, InFile
  <2>14. SoFar' = MessagesFor(file, old \o xs)
    BY <1>1, <2>1, <2>2, <2>4, <2>8, <2>11 DEF SoFar
  <2>15. SoFar' = SoFar \o ms /\ SoFar \in Seq(Messages)
    BY <2>3, <2>6, <2>10, <2>11, <2>12, <2>13, <2>14, MessagesForConcat
  <2>. QED  BY <1>1, <1>2, <2>1, <2>7, <2>12, <2>13, <2>15, FileGoesOn
<1>12. CASE EndData
  <2>1. pc = "lines" /\ pc' = "done" /\ UNCHANGED <<file, finished>>
    BY <1>12 DEF EndData, fileVars
  <2>2. PICK src \in Source : src = disk.files[file]
    BY <1>2, <2>1, LookedAt
  <2>3. file \in Path
    BY <1>2, <2>1, LookedAt
  <2>4. PICK k \in Nat : k = Len(src.lines)
    BY SourceParts
  <2>5. PICK fs : fs = FiltersFor(flags, disk, file)
    OBVIOUS
  <2>6. PICK old : old = WantedUpTo(flags, fs, src, k)
    OBVIOUS
  <2>7. PICK xs : xs = Wanted(flags, fs, src, src.late \o StrayCR(src.lines),
                             LinesRead(flags, src, k))
    OBVIOUS
  <2>8. PICK ms : ms = MessagesFor(file, xs)
    OBVIOUS
  <2>9. lineNo - 1 = k /\ Reported' = Reported \o ms
    BY <1>2, <1>12, <2>2, <2>4, <2>5, <2>7, <2>8, EndDataReports
  <2>10. old \in Seq(Finding) /\ xs \in Seq(Finding)
    <3>1. src.late \o StrayCR(src.lines) \in Seq(Finding)
      BY SourceParts
    <3>2. xs \in Seq(Finding)
      BY <2>7, <3>1, WantedType
    <3>3. k \in 0 .. Len(src.lines)
      BY <2>4
    <3>. QED  BY <2>6, <3>2, <3>3, WantedUpToSteps
  <2>11. ms \in Seq(Messages) /\ MessagesFor(file, old) \in Seq(Messages)
    BY <2>3, <2>8, <2>10, MessagesForType
  <2>12. SoFar = MessagesFor(file, old) /\ InFile
    BY <2>1, <2>2, <2>5, <2>6, <2>9 DEF SoFar, InFile
  <2>13. IsChecked(flags, disk, file)
    BY <1>2, <2>1 DEF CheckedInv
  <2>14. ExpectedFor(flags, disk, file) = MessagesFor(file, old \o xs)
    BY <2>2, <2>4, <2>5, <2>6, <2>7, <2>13 DEF ExpectedFor, WantedInAll
  <2>15. SoFar' = ExpectedFor(flags, disk, file)
    BY <1>1, <2>1 DEF SoFar
  <2>16. SoFar' = SoFar \o ms /\ SoFar \in Seq(Messages)
    BY <2>3, <2>8, <2>10, <2>11, <2>12, <2>14, <2>15, MessagesForConcat
  <2>. QED  BY <1>1, <1>2, <2>1, <2>9, <2>11, <2>12, <2>16, FileGoesOn
<1>13. CASE Done
  <2>1. pc = "done" /\ pc' = "file" /\ finished' = Append(finished, file)
    BY <1>13 DEF Done
  <2>2. Reported' = Reported
    BY <1>2, <2>1, OthersReportNothing
  <2>3. SoFar = ExpectedFor(flags, disk, file) /\ InFile /\ pc # "lines"
    BY <2>1 DEF SoFar, InFile
  <2>. QED  BY <1>1, <1>2, <2>1, <2>2, <2>3, FileDone
<1>14. CASE UNCHANGED vars
  <2>1. Reported' = Reported
    BY <1>2, <1>14, OthersReportNothing
  <2>2. UNCHANGED <<pc, file, finished, lineNo>>
    BY <1>14 DEF vars, fileVars
  <2>3. SoFar' = SoFar
    BY <1>1, <2>2 DEF SoFar
  <2>. QED  BY <1>1, <1>2, <2>1, <2>2, <2>3 DEF ReportInv
<1>. QED
  BY <1>4, <1>5, <1>6, <1>7, <1>8, <1>9, <1>10, <1>11, <1>12, <1>13, <1>14 DEF Next

\* Initially.
LEMMA InitDoc == Init => DocInv
<1> SUFFICES ASSUME Init PROVE DocInv
  OBVIOUS
<1>1. pc = "args" /\ finished = <<>>
  BY DEF Init
<1>2. FilterInv /\ ClimbInv /\ SettingsInv /\ NolintInv /\ CheckedInv
  BY <1>1 DEF FilterInv, ClimbInv, SettingsInv, NolintInv, CheckedInv, InFile
<1>3. Reported = <<>>
  <2>1. TypeOK /\ Shape /\ CountInv
    BY InitInv DEF Inv
  <2>2. errorCount = Len(Reported) /\ errorCount = 0
    BY <2>1 DEF CountInv, Init
  <2>3. Reported \in Seq(Messages)
    BY <2>1, ReportedType DEF Shape
  <2>. QED  BY <2>2, <2>3, EmptySeq
<1>4. ExpectedOf(flags, disk, finished) = <<>>
  <2>1. ExpectedList(flags, disk, finished) = <<>>
    BY <1>1 DEF ExpectedList
  <2>. QED  BY <2>1, FlattenFew DEF ExpectedOf
<1>5. SoFar = <<>>
  BY <1>1 DEF SoFar
<1>6. ReportInv
  BY <1>3, <1>4, <1>5 DEF ReportInv
<1>. QED  BY <1>2, <1>6 DEF DocInv

\* The errors reported so far are, file by file and in order, those that the command
\* line, the configuration files above the file and its own NOLINT comments let
\* through, whatever files were processed before.
THEOREM Documented == Spec => []ReportedAsDocumented
<1>1. Inv /\ DocInv /\ [Next]_vars => DocInv'
  <2> SUFFICES ASSUME Inv, DocInv, [Next]_vars  PROVE DocInv'
    OBVIOUS
  <2>1. /\ TypeOK /\ Shape
        /\ FilterInv /\ ClimbInv /\ SettingsInv /\ NolintInv /\ CheckedInv /\ ReportInv
    BY DEF Inv, DocInv
  <2>. QED
    BY <2>1, FilterInvStep, ClimbStep, SettingsStep, CommentsStep, CheckedStep, ReportStep DEF DocInv
<1>2. Inv /\ DocInv => ReportedAsDocumented
  <2> SUFFICES ASSUME Inv, ReportInv, NoLastingSettings, pc = "file"
               PROVE  Reported = ExpectedOf(flags, disk, finished)
    BY DEF ReportedAsDocumented, DocInv, ExpectedOf, ExpectedList
  <2>1. disk \in Disks /\ finished \in Seq(DOMAIN disk.files)
    BY DEF Inv, TypeOK, Shape
  <2>2. Reported = ExpectedOf(flags, disk, finished) \o <<>>
    BY DEF ReportInv, SoFar
  <2>3. ExpectedOf(flags, disk, finished) \in Seq(Messages)
    BY <2>1, ExpectedOfType
  <2>. QED  BY <2>2, <2>3
<1>. QED  BY Invariance, InitDoc, <1>1, <1>2, PTL DEF Spec
=============================================================================
