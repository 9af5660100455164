-------------------------- MODULE InductionLemmas --------------------------
(***************************************************************************)
(* Induction over the naturals, stated about sets so that a proof can use  *)
(* it without instantiating an operator: to show P(n) for all n, take the  *)
(* set {n \in Nat : P(n)}.  From it, recursion over finite sets, which is  *)
(* how the folds of the community modules are defined, and sums.           *)
(***************************************************************************)
EXTENDS Integers, FiniteSetsExt, FiniteSetTheorems, WellFoundedInduction, TLAPS

\* A set of naturals that is not empty has a least element.
LEMMA LeastNatural ==
    ASSUME NEW S \in SUBSET Nat, S # {}
    PROVE  \E m \in S : \A n \in S : m <= n
<1> DEFINE R == OpToRel(<, Nat)
<1>1. IsWellFoundedOn(R, Nat)
  BY NatLessThanWellFounded, Zenon
<1>2. \A x, y \in Nat : <<x, y>> \in R <=> x < y
  BY DEF OpToRel
<1> HIDE DEF R
<1>3. PICK m \in S : \A n \in S : ~(<<n, m>> \in R)
  BY <1>1, WFMin, Zenon
<1>4. \A n \in S : ~(n < m)
  BY <1>2, <1>3
<1>. QED  BY <1>4

\* Induction from n to n + 1.
LEMMA InductiveSet ==
    ASSUME NEW S, 0 \in S, \A n \in Nat : n \in S => n + 1 \in S
    PROVE  \A n \in Nat : n \in S
<1> SUFFICES ASSUME Nat \ S # {}  PROVE FALSE
  OBVIOUS
<1>1. PICK m \in Nat \ S : \A n \in Nat \ S : m <= n
  BY LeastNatural
<1>2. m # 0 /\ m - 1 \in Nat
  BY <1>1
<1>3. m - 1 \in S
  BY <1>1, <1>2
<1>. QED  BY <1>2, <1>3

\* Min of a set of naturals is its least element.
LEMMA MinOfNaturals ==
    ASSUME NEW S \in SUBSET Nat, S # {}
    PROVE  Min(S) \in S /\ \A n \in S : Min(S) <= n
<1>1. \E m \in S : \A n \in S : m =< n
  BY LeastNatural
<1>. QED  BY <1>1 DEF Min

\* Max of a set that has a greatest element is that element.
LEMMA MaxIs ==
    ASSUME NEW S \in SUBSET Nat, NEW m \in S, \A n \in S : n <= m
    PROVE  Max(S) = m
<1>1. \A n \in S : m >= n
  OBVIOUS
<1>2. Max(S) \in S /\ \A n \in S : Max(S) >= n
  BY <1>1 DEF Max
<1>3. Max(S) \in Nat /\ m \in Nat
  BY <1>2
<1>. QED  BY <1>1, <1>2, <1>3

\* A set of naturals with a bound has a greatest element, and Max is it.
LEMMA MaxOfBounded ==
    ASSUME NEW n \in Nat, NEW S \in SUBSET (0 .. n), S # {}
    PROVE  Max(S) \in S /\ \A x \in S : x <= Max(S)
<1> DEFINE T == {k \in Nat : \E x \in S : k = n - x}
<1>1. T \in SUBSET Nat /\ T # {}
  <2>1. PICK x \in S : TRUE
    OBVIOUS
  <2>2. x \in 0 .. n
    BY <2>1
  <2>3. n - x \in T
    BY <2>2
  <2>. QED  BY <2>3
<1>2. PICK k \in T : \A j \in T : k <= j
  BY <1>1, LeastNatural
<1>3. PICK m \in S : k = n - m
  BY <1>2
<1>4. ASSUME NEW x \in S  PROVE x <= m
  <2>1. x \in 0 .. n /\ m \in 0 .. n
    OBVIOUS
  <2>2. n - x \in T
    BY <2>1
  <2>. QED  BY <1>2, <1>3, <2>1, <2>2
<1>5. S \in SUBSET Nat
  OBVIOUS
<1>. QED  BY <1>4, <1>5, MaxIs
----------------------------------------------------------------------------
\* ch picks an element of every subset of A that has one.
Chooses(A, ch) == \A s \in SUBSET A : s # {} => ch[s] \in s

\* it is defined on the subsets of A by taking away the element ch picks.
TakesAway(A, b, ch, g, it) ==
    \A s \in SUBSET A : it[s] = IF s = {} THEN b ELSE g[<<ch[s], it[s \ {ch[s]}]>>]

\* A function on the subsets of a finite set may be defined by taking away one
\* chosen element at a time.
LEMMA SetRecursion ==
    ASSUME NEW A, IsFiniteSet(A), NEW V, NEW b \in V,
           NEW ch, Chooses(A, ch), NEW g \in [A \X V -> V]
    PROVE  \E it \in [SUBSET A -> V] : TakesAway(A, b, ch, g, it)
<1> DEFINE D(n) == {s \in SUBSET A : Cardinality(s) <= n}
           Solves(n, it) ==
              /\ it \in [D(n) -> V]
              /\ \A s \in D(n) : it[s] = IF s = {} THEN b ELSE g[<<ch[s], it[s \ {ch[s]}]>>]
           S == {n \in Nat : \E it : Solves(n, it)}
<1> USE DEF Chooses
<1>1. \A s \in SUBSET A : IsFiniteSet(s) /\ Cardinality(s) \in Nat
  BY FS_Subset, FS_CardinalityType
<1>2. 0 \in S
  <2>1. \A s \in D(0) : s = {}
    BY <1>1, FS_EmptySet
  <2>2. Solves(0, [s \in D(0) |-> b])
    BY <2>1
  <2>. QED  BY <2>2
<1>3. ASSUME NEW m \in Nat, m \in S  PROVE m + 1 \in S
  <2>1. PICK it : Solves(m, it)
    BY <1>3
  <2> DEFINE new == [s \in D(m + 1) |->
                        IF s = {} THEN b ELSE g[<<ch[s], it[s \ {ch[s]}]>>]]
  <2>2. ASSUME NEW s \in D(m + 1), s # {}
        PROVE  ch[s] \in A /\ s \ {ch[s]} \in D(m) /\ s \ {ch[s]} \in D(m + 1)
    <3>1. ch[s] \in s /\ s \subseteq A
      BY <2>2
    <3>2. Cardinality(s \ {ch[s]}) = Cardinality(s) - 1
      BY <1>1, <3>1, FS_RemoveElement
    <3>3. Cardinality(s) \in Nat /\ Cardinality(s) <= m + 1
      BY <1>1
    <3>4. Cardinality(s \ {ch[s]}) <= m /\ Cardinality(s \ {ch[s]}) <= m + 1
      BY <3>2, <3>3
    <3>. QED  BY <3>1, <3>4
  <2>3. \A s \in D(m) : s \in D(m + 1) /\ new[s] = it[s]
    <3>1. ASSUME NEW s \in D(m)  PROVE s \in D(m + 1)
      BY <1>1
    <3>2. \A s \in D(m) : it[s] = IF s = {} THEN b ELSE g[<<ch[s], it[s \ {ch[s]}]>>]
      BY <2>1
    <3>. HIDE DEF D
    <3>. QED  BY <3>1, <3>2
  <2>4. new \in [D(m + 1) -> V]
    <3>1. ASSUME NEW s \in D(m + 1), s # {}  PROVE g[<<ch[s], it[s \ {ch[s]}]>>] \in V
      <4>1. it[s \ {ch[s]}] \in V
        BY <2>1, <2>2, <3>1
      <4>. QED  BY <2>2, <3>1, <4>1
    <3>. HIDE DEF D
    <3>. QED  BY <3>1
  <2>5. ASSUME NEW s \in D(m + 1)
        PROVE  new[s] = IF s = {} THEN b ELSE g[<<ch[s], new[s \ {ch[s]}]>>]
    <3>1. s # {} => new[s \ {ch[s]}] = it[s \ {ch[s]}]
      BY <2>2, <2>3
    <3>. HIDE DEF D
    <3>. QED  BY <3>1
  <2>. HIDE DEF new, D
  <2>6. Solves(m + 1, new)
    BY <2>4, <2>5
  <2>7. m + 1 \in Nat
    OBVIOUS
  <2>. HIDE DEF Solves
  <2>. QED  BY <2>6, <2>7
<1>. HIDE DEF S
<1>4. Cardinality(A) \in S
  <2>1. Cardinality(A) \in Nat
    BY FS_CardinalityType
  <2>. QED  BY <1>2, <1>3, <2>1, InductiveSet
<1>5. D(Cardinality(A)) = SUBSET A
  <2>1. \A s \in SUBSET A : Cardinality(s) <= Cardinality(A)
    BY FS_Subset
  <2>. QED  BY <2>1
<1>6. PICK it : Solves(Cardinality(A), it)
  BY <1>4 DEF S
<1>. HIDE DEF D
<1>7. it \in [SUBSET A -> V] /\ TakesAway(A, b, ch, g, it)
  BY <1>5, <1>6 DEF TakesAway
<1>. QED  BY <1>7

\* Induction on a finite set, with the element ch picks put in last.
LEMMA SetInduction ==
    ASSUME NEW A, IsFiniteSet(A), NEW ch, Chooses(A, ch),
           NEW T, {} \in T,
           \A s \in SUBSET A : s # {} /\ s \ {ch[s]} \in T => s \in T
    PROVE  \A s \in SUBSET A : s \in T
<1> DEFINE S == {n \in Nat : \A s \in SUBSET A : Cardinality(s) = n => s \in T}
<1>1. \A s \in SUBSET A : IsFiniteSet(s) /\ Cardinality(s) \in Nat
  BY FS_Subset, FS_CardinalityType
<1>2. 0 \in S
  <2>1. ASSUME NEW s \in SUBSET A, Cardinality(s) = 0  PROVE s = {}
    BY <1>1, <2>1, FS_EmptySet
  <2>. QED  BY <2>1
<1>3. ASSUME NEW n \in Nat, n \in S  PROVE n + 1 \in S
  <2> SUFFICES ASSUME NEW s \in SUBSET A, Cardinality(s) = n + 1  PROVE s \in T
    OBVIOUS
  <2>1. s # {}
    <3>1. n + 1 # 0
      OBVIOUS
    <3>. QED  BY <3>1, FS_EmptySet
  <2>2. ch[s] \in s
    BY <2>1 DEF Chooses
  <2>3. Cardinality(s \ {ch[s]}) = n /\ s \ {ch[s]} \in SUBSET A
    <3>1. Cardinality(s \ {ch[s]}) = Cardinality(s) - 1
      BY <1>1, <2>2, FS_RemoveElement
    <3>. QED  BY <3>1
  <2>4. s \ {ch[s]} \in T
    BY <1>3, <2>3
  <2>. QED  BY <2>1, <2>4
<1>. HIDE DEF S
<1>4. \A n \in Nat : n \in S
  BY <1>2, <1>3, InductiveSet
<1>. QED  BY <1>1, <1>4 DEF S
----------------------------------------------------------------------------
\* it holds the sums of f over the subsets of A, in the order of CHOOSE.
IsSum(A, f, it) ==
    /\ it \in [SUBSET A -> Int]
    /\ it[{}] = 0
    /\ \A s \in SUBSET A :
          s # {} => it[s] = f[CHOOSE x \in s : TRUE] + it[s \ {CHOOSE x \in s : TRUE}]

\* SumFunctionOnSet is such a sum.
LEMMA SumUnfold ==
    ASSUME NEW A, IsFiniteSet(A), NEW f, \A x \in A : f[x] \in Int
    PROVE  \E it : IsSum(A, f, it) /\ SumFunctionOnSet(f, A) = it[A]
<1> DEFINE ch == [s \in SUBSET A |-> CHOOSE x \in s : TRUE]
           g == [p \in A \X Int |-> f[p[1]] + p[2]]
           SumEq(it) == it = [s \in SUBSET A |->
                                IF s = {} THEN 0
                                ELSE f[CHOOSE x \in s : TRUE] + it[s \ {CHOOSE x \in s : TRUE}]]
<1>1. \A s \in SUBSET A : ch[s] = CHOOSE x \in s : TRUE
  OBVIOUS
<1>2. \A s \in SUBSET A : s # {} => ch[s] \in s
  BY <1>1
<1>3. g \in [A \X Int -> Int] /\ \A x \in A, i \in Int : g[<<x, i>>] = f[x] + i
  OBVIOUS
<1>. HIDE DEF ch, g
<1>4. PICK it \in [SUBSET A -> Int] : \A s \in SUBSET A :
         it[s] = IF s = {} THEN 0 ELSE g[<<ch[s], it[s \ {ch[s]}]>>]
  <2>1. Chooses(A, ch)
    BY <1>2 DEF Chooses
  <2>2. 0 \in Int
    OBVIOUS
  <2>3. \E it \in [SUBSET A -> Int] : TakesAway(A, 0, ch, g, it)
    BY <1>3, <2>1, <2>2, SetRecursion, Zenon
  <2>. QED  BY <2>3 DEF TakesAway
<1>5. ASSUME NEW s \in SUBSET A, s # {}
      PROVE  it[s] = f[CHOOSE x \in s : TRUE] + it[s \ {CHOOSE x \in s : TRUE}]
  <2>1. ch[s] \in A /\ s \ {ch[s]} \in SUBSET A
    BY <1>2, <1>5
  <2>2. it[s \ {ch[s]}] \in Int
    BY <1>4, <2>1
  <2>3. it[s] = g[<<ch[s], it[s \ {ch[s]}]>>]
    BY <1>4, <1>5
  <2>4. it[s] = f[ch[s]] + it[s \ {ch[s]}]
    BY <1>3, <2>1, <2>2, <2>3
  <2>. QED  BY <1>1, <2>4
<1>6. SumEq(it)
  <2>1. it[{}] = 0
    BY <1>4
  <2>2. \A s \in SUBSET A :
           it[s] = IF s = {} THEN 0
                   ELSE f[CHOOSE x \in s : TRUE] + it[s \ {CHOOSE x \in s : TRUE}]
    BY <1>5, <2>1
  <2>. QED  BY <1>4, <2>2
<1>7. PICK sum : SumEq(sum) /\ SumFunctionOnSet(f, A) = sum[A]
  BY <1>6 DEF SumFunctionOnSet, FoldFunctionOnSet, MapThenFoldSet
<1>8. \A s \in SUBSET A : s # {} => (CHOOSE x \in s : TRUE) \in s
  OBVIOUS
<1>9. /\ sum[{}] = 0
      /\ \A s \in SUBSET A :
            s # {} => sum[s] = f[CHOOSE x \in s : TRUE] + sum[s \ {CHOOSE x \in s : TRUE}]
      /\ sum = [s \in SUBSET A |-> sum[s]]
  BY <1>7
<1>10. \A s \in SUBSET A : sum[s] \in Int
  <2> DEFINE T == {s \in SUBSET A : sum[s] \in Int}
  <2>1. {} \in T
    BY <1>9
  <2>2. ASSUME NEW s \in SUBSET A, s # {}, s \ {ch[s]} \in T  PROVE s \in T
    <3>1. f[ch[s]] \in Int
      BY <1>2, <2>2
    <3>2. sum[s] = f[ch[s]] + sum[s \ {ch[s]}]
      BY <1>1, <1>9, <2>2
    <3>. QED  BY <2>2, <3>1, <3>2
  <2>3. Chooses(A, ch)
    BY <1>2 DEF Chooses
  <2>. HIDE DEF T
  <2>4. \A s \in SUBSET A : s \in T
    BY <2>1, <2>2, <2>3, SetInduction
  <2>. QED  BY <2>4 DEF T
<1>11. IsSum(A, f, sum)
  <2>1. sum \in [SUBSET A -> Int]
    BY <1>9, <1>10
  <2>. QED  BY <1>9, <2>1 DEF IsSum
<1>. QED  BY <1>7, <1>11

\* Any element may be taken out of a sum first.
LEMMA SumRemove ==
    ASSUME NEW A, IsFiniteSet(A), NEW f, \A x \in A : f[x] \in Int, NEW it, IsSum(A, f, it)
    PROVE  \A s \in SUBSET A : \A x \in s : it[s] = f[x] + it[s \ {x}]
<1> DEFINE S == {n \in Nat : \A s \in SUBSET A : Cardinality(s) = n =>
                                \A x \in s : it[s] = f[x] + it[s \ {x}]}
<1>1. \A s \in SUBSET A : IsFiniteSet(s) /\ Cardinality(s) \in Nat
  BY FS_Subset, FS_CardinalityType
<1>2. 0 \in S
  BY <1>1, FS_EmptySet
<1>3. ASSUME NEW n \in Nat, n \in S  PROVE n + 1 \in S
  <2> SUFFICES ASSUME NEW s \in SUBSET A, Cardinality(s) = n + 1, NEW x \in s
               PROVE  it[s] = f[x] + it[s \ {x}]
    OBVIOUS
  <2>1. PICK y : y = CHOOSE z \in s : TRUE
    OBVIOUS
  <2>2. y \in s /\ it[s] = f[y] + it[s \ {y}]
    BY <2>1 DEF IsSum
  <2>3. CASE x = y
    BY <2>2, <2>3
  <2>4. CASE x # y
    <3>1. /\ Cardinality(s \ {y}) = n /\ Cardinality(s \ {x}) = n
          /\ s \ {y} \in SUBSET A /\ s \ {x} \in SUBSET A
      <4>1. Cardinality(s \ {y}) = Cardinality(s) - 1 /\ Cardinality(s \ {x}) = Cardinality(s) - 1
        BY <1>1, <2>2, FS_RemoveElement
      <4>. QED  BY <4>1
    <3>2. it[s \ {y}] = f[x] + it[(s \ {y}) \ {x}]
      BY <1>3, <2>4, <3>1
    <3>3. it[s \ {x}] = f[y] + it[(s \ {x}) \ {y}]
      BY <1>3, <2>2, <2>4, <3>1
    <3>4. (s \ {x}) \ {y} = (s \ {y}) \ {x} /\ (s \ {y}) \ {x} \in SUBSET A
      OBVIOUS
    <3>5. f[x] \in Int /\ f[y] \in Int /\ it[(s \ {y}) \ {x}] \in Int
      BY <2>2, <3>4 DEF IsSum
    <3>6. PICK rest \in Int : it[(s \ {y}) \ {x}] = rest /\ it[(s \ {x}) \ {y}] = rest
      BY <3>4, <3>5
    <3>. QED  BY <2>2, <3>2, <3>3, <3>5, <3>6
  <2>. QED  BY <2>3, <2>4
<1>. HIDE DEF S
<1>4. \A n \in Nat : n \in S
  BY <1>2, <1>3, InductiveSet
<1>. QED  BY <1>1, <1>4 DEF S

\* h takes the summands of f to equal ones of g, no two to the same one.
Renames(A, f, B, g, h) ==
    /\ \A x \in A : h[x] \in B /\ g[h[x]] = f[x]
    /\ \A x, y \in A : h[x] = h[y] => x = y

\* Summands may be renamed.
LEMMA SumRenamed ==
    ASSUME NEW A, IsFiniteSet(A), NEW f, \A x \in A : f[x] \in Int,
           NEW B, IsFiniteSet(B), NEW g, \A x \in B : g[x] \in Int,
           NEW h, Renames(A, f, B, g, h),
           NEW itA, IsSum(A, f, itA), NEW itB, IsSum(B, g, itB)
    PROVE  itA[A] = itB[{h[x] : x \in A}]
<1> DEFINE S == {n \in Nat : \A s \in SUBSET A : Cardinality(s) = n =>
                                itA[s] = itB[{h[x] : x \in s}]}
<1>1. \A s \in SUBSET A : IsFiniteSet(s) /\ Cardinality(s) \in Nat
  BY FS_Subset, FS_CardinalityType
<1>2. 0 \in S
  <2>1. ASSUME NEW s \in SUBSET A, Cardinality(s) = 0  PROVE s = {}
    BY <1>1, <2>1, FS_EmptySet
  <2>2. {h[x] : x \in {}} = {}
    OBVIOUS
  <2>3. itA[{}] = itB[{h[x] : x \in {}}]
    BY <2>2 DEF IsSum
  <2>. QED  BY <2>1, <2>3
<1>3. ASSUME NEW n \in Nat, n \in S  PROVE n + 1 \in S
  <2> SUFFICES ASSUME NEW s \in SUBSET A, Cardinality(s) = n + 1
               PROVE  itA[s] = itB[{h[x] : x \in s}]
    OBVIOUS
  <2>1. s # {}
    <3>1. n + 1 # 0
      OBVIOUS
    <3>. QED  BY <3>1, FS_EmptySet
  <2>2. PICK x \in s : TRUE
    BY <2>1
  <2>3. itA[s] = f[x] + itA[s \ {x}]
    BY SumRemove
  <2>4. {h[y] : y \in s} \in SUBSET B /\ h[x] \in {h[y] : y \in s}
    BY DEF Renames
  <2>5. itB[{h[y] : y \in s}] = g[h[x]] + itB[{h[y] : y \in s} \ {h[x]}]
    BY <2>4, SumRemove
  <2>6. {h[y] : y \in s} \ {h[x]} = {h[y] : y \in s \ {x}}
    BY DEF Renames
  <2>7. Cardinality(s \ {x}) = n /\ s \ {x} \in SUBSET A
    <3>1. Cardinality(s \ {x}) = Cardinality(s) - 1
      BY <1>1, FS_RemoveElement
    <3>. QED  BY <3>1
  <2>8. itA[s \ {x}] = itB[{h[y] : y \in s \ {x}}]
    BY <1>3, <2>7
  <2>9. g[h[x]] = f[x]
    BY DEF Renames
  <2>. QED  BY <2>3, <2>5, <2>6, <2>8, <2>9
<1>. HIDE DEF S
<1>4. \A n \in Nat : n \in S
  BY <1>2, <1>3, InductiveSet
<1>. QED  BY <1>1, <1>4 DEF S

\* The same for the sums of the library.
LEMMA SumBijection ==
    ASSUME NEW A, IsFiniteSet(A), NEW f, \A x \in A : f[x] \in Int,
           NEW B, IsFiniteSet(B), NEW g, \A x \in B : g[x] \in Int,
           NEW h, Renames(A, f, B, g, h), \A y \in B : \E x \in A : y = h[x]
    PROVE  SumFunctionOnSet(f, A) = SumFunctionOnSet(g, B)
<1>1. PICK itA : IsSum(A, f, itA) /\ SumFunctionOnSet(f, A) = itA[A]
  BY SumUnfold
<1>2. PICK itB : IsSum(B, g, itB) /\ SumFunctionOnSet(g, B) = itB[B]
  BY SumUnfold
<1>3. {h[x] : x \in A} = B
  BY DEF Renames
<1>4. itA[A] = itB[{h[x] : x \in A}]
  BY <1>1, <1>2, SumRenamed
<1>. QED  BY <1>1, <1>2, <1>3, <1>4

\* A sum of integers is an integer, and nothing sums up to zero.
LEMMA SumType ==
    ASSUME NEW A, IsFiniteSet(A), NEW f, \A x \in A : f[x] \in Int
    PROVE  SumFunctionOnSet(f, A) \in Int /\ (A = {} => SumFunctionOnSet(f, A) = 0)
<1>1. PICK itA : IsSum(A, f, itA) /\ SumFunctionOnSet(f, A) = itA[A]
  BY SumUnfold
<1>2. itA[A] \in Int
  BY <1>1 DEF IsSum
<1>3. A = {} => itA[A] = 0
  BY <1>1 DEF IsSum
<1>. QED  BY <1>1, <1>2, <1>3

\* A sum over a set with one more element.
LEMMA SumAdd ==
    ASSUME NEW A, IsFiniteSet(A), NEW f, \A x \in A : f[x] \in Int,
           NEW x, x \notin A,
           NEW g, \A y \in A : g[y] = f[y], g[x] \in Int
    PROVE  SumFunctionOnSet(g, A \cup {x}) = g[x] + SumFunctionOnSet(f, A)
<1> DEFINE B == A \cup {x}
           h == [y \in A |-> y]
<1>1. IsFiniteSet(B) /\ \A y \in B : g[y] \in Int
  BY FS_AddElement
<1>2. PICK itA : IsSum(A, f, itA) /\ SumFunctionOnSet(f, A) = itA[A]
  BY SumUnfold
<1>3. PICK itB : IsSum(B, g, itB) /\ SumFunctionOnSet(g, B) = itB[B]
  BY <1>1, SumUnfold
<1>4. Renames(A, f, B, g, h)
  BY DEF Renames
<1>5. {h[y] : y \in A} = A
  OBVIOUS
<1>6. B \ {x} = A /\ x \in B /\ B \in SUBSET B
  OBVIOUS
<1>. HIDE DEF B, h
<1>7. itA[A] = itB[{h[y] : y \in A}]
  BY <1>1, <1>2, <1>3, <1>4, SumRenamed
<1>8. itB[B] = g[x] + itB[B \ {x}]
  BY <1>1, <1>3, <1>6, SumRemove
<1>9. SumFunctionOnSet(g, B) = g[x] + SumFunctionOnSet(f, A)
  BY <1>2, <1>3, <1>5, <1>6, <1>7, <1>8
<1>. QED  BY <1>9 DEF B

\* A sum of naturals is a natural.
LEMMA SumNat ==
    ASSUME NEW A, IsFiniteSet(A), NEW f, \A x \in A : f[x] \in Nat
    PROVE  SumFunctionOnSet(f, A) \in Nat
<1> DEFINE ch == [s \in SUBSET A |-> CHOOSE x \in s : TRUE]
<1>1. Chooses(A, ch) /\ \A s \in SUBSET A : ch[s] = CHOOSE x \in s : TRUE
  BY DEF Chooses
<1>. HIDE DEF ch
<1>2. \A x \in A : f[x] \in Int
  OBVIOUS
<1>3. PICK it : IsSum(A, f, it) /\ SumFunctionOnSet(f, A) = it[A]
  BY <1>2, SumUnfold
<1> DEFINE T == {s \in SUBSET A : it[s] \in Nat}
<1>4. {} \in T
  BY <1>3 DEF IsSum
<1>5. ASSUME NEW s \in SUBSET A, s # {}, s \ {ch[s]} \in T  PROVE s \in T
  <2>1. it[s] = f[ch[s]] + it[s \ {ch[s]}] /\ f[ch[s]] \in Nat
    BY <1>1, <1>3, <1>5 DEF IsSum, Chooses
  <2>. QED  BY <1>5, <2>1
<1>. HIDE DEF T
<1>6. \A s \in SUBSET A : s \in T
  BY <1>1, <1>4, <1>5, SetInduction
<1>. QED  BY <1>3, <1>6 DEF T
----------------------------------------------------------------------------
\* r[i] is what the first i steps of a fold over 1 .. n make of b.
IsFold(n, V, b, g, r) ==
    /\ r \in [0 .. n -> V]
    /\ r[0] = b
    /\ \A i \in 1 .. n : r[i] = g[<<i, r[i - 1]>>]

\* v is the result of the fold.
FoldsTo(n, V, b, g, v) == \E r : IsFold(n, V, b, g, r) /\ v = r[n]

\* it is defined on the subsets of 1 .. n by taking away the greatest element, as
\* FoldLeft is.
FoldsSets(n, b, g, it) ==
    \A s \in SUBSET (1 .. n) : it[s] = IF s = {} THEN b ELSE g[<<Max(s), it[s \ {Max(s)}]>>]

\* The same, as long as the values stay in V.
FoldsWithin(n, V, b, g, it) ==
    /\ it[{}] = b
    /\ \A s \in SUBSET (1 .. n) : s # {} /\ it[s \ {Max(s)}] \in V =>
          it[s] = g[<<Max(s), it[s \ {Max(s)}]>>]

\* The greatest element of a set of positions is one of them.
LEMMA MaxOfPositions ==
    ASSUME NEW n \in Nat, NEW s \in SUBSET (1 .. n), s # {}
    PROVE  Max(s) \in s /\ Max(s) \in 1 .. n /\ s \ {Max(s)} \in SUBSET (1 .. n)
<1>1. s \in SUBSET (0 .. n)
  OBVIOUS
<1>2. Max(s) \in s
  BY <1>1, MaxOfBounded
<1>. QED  BY <1>2

\* There is such a function for every step g.
LEMMA FoldExists ==
    ASSUME NEW n \in Nat, NEW V, NEW b \in V, NEW g \in [(1 .. n) \X V -> V]
    PROVE  \E it \in [SUBSET (1 .. n) -> V] : FoldsSets(n, b, g, it)
<1> DEFINE A == 1 .. n
           ch == [s \in SUBSET A |-> Max(s)]
<1>1. IsFiniteSet(A)
  BY FS_Interval
<1>2. Chooses(A, ch)
  BY MaxOfPositions DEF Chooses
<1>3. \A s \in SUBSET A : ch[s] = Max(s)
  OBVIOUS
<1>4. g \in [A \X V -> V]
  OBVIOUS
<1> HIDE DEF A, ch
<1>5. PICK it \in [SUBSET A -> V] : TakesAway(A, b, ch, g, it)
  BY <1>1, <1>2, <1>4, SetRecursion, Zenon
<1>6. \A s \in SUBSET A : it[s] = IF s = {} THEN b ELSE g[<<Max(s), it[s \ {Max(s)}]>>]
  BY <1>3, <1>5 DEF TakesAway
<1>. QED  BY <1>5, <1>6 DEF FoldsSets, A

\* A function on sets that takes away the greatest element, as long as its values
\* are in V, is a fold.
LEMMA FoldWalks ==
    ASSUME NEW n \in Nat, NEW V, NEW b \in V, NEW g \in [(1 .. n) \X V -> V],
           NEW it, FoldsWithin(n, V, b, g, it)
    PROVE  FoldsTo(n, V, b, g, it[1 .. n])
<1> USE DEF FoldsWithin
<1> DEFINE r == [i \in 0 .. n |-> it[1 .. i]]
<1>1. 1 .. 0 = {} /\ r[0] = b
  <2>1. 1 .. 0 = {}
    OBVIOUS
  <2>. QED  BY <2>1
<1>2. ASSUME NEW i \in 1 .. n, r[i - 1] \in V
      PROVE  r[i] = g[<<i, r[i - 1]>>] /\ r[i] \in V
  <2> DEFINE s == 1 .. i
  <2>1. s \in SUBSET (1 .. n) /\ s # {} /\ s \in SUBSET Nat
    <3>1. 1 \in s
      OBVIOUS
    <3>. QED  BY <3>1
  <2>2. i \in s /\ (\A k \in s : k <= i) /\ s \ {i} = 1 .. (i - 1) /\ i - 1 \in 0 .. n
    OBVIOUS
  <2>3. r[i] = it[s] /\ r[i - 1] = it[1 .. (i - 1)]
    BY <2>2
  <2> HIDE DEF s, r
  <2>4. Max(s) = i
    BY <2>1, <2>2, MaxIs
  <2>5. it[s \ {Max(s)}] = r[i - 1]
    BY <2>2, <2>3, <2>4
  <2>6. it[s] = g[<<i, r[i - 1]>>]
    BY <1>2, <2>1, <2>4, <2>5
  <2>7. g[<<i, r[i - 1]>>] \in V
    BY <1>2
  <2>. QED  BY <2>3, <2>6, <2>7
<1> DEFINE S == {k \in Nat : k <= n => r[k] \in V}
<1>3. 0 \in S
  BY <1>1
<1>4. ASSUME NEW k \in Nat, k \in S  PROVE k + 1 \in S
  <2>1. CASE k + 1 <= n
    <3>1. k + 1 \in 1 .. n /\ k + 1 - 1 = k /\ r[k] \in V
      BY <1>4, <2>1
    <3> HIDE DEF r
    <3>2. PICK j \in 1 .. n : j = k + 1
      BY <3>1
    <3>3. r[j - 1] \in V
      BY <3>1, <3>2
    <3>4. r[j] \in V
      BY <1>2, <3>3, Zenon
    <3>. QED  BY <3>2, <3>4
  <2>2. CASE ~(k + 1 <= n)
    BY <2>2
  <2>. QED  BY <2>1, <2>2
<1> HIDE DEF S
<1>5. \A k \in Nat : k \in S
  BY <1>3, <1>4, InductiveSet
<1>6. \A k \in 0 .. n : r[k] \in V
  <2> HIDE DEF r
  <2>1. \A k \in 0 .. n : k \in Nat /\ k <= n
    OBVIOUS
  <2>. QED  BY <1>5, <2>1 DEF S
<1>7. r \in [0 .. n -> V]
  BY <1>6
<1>8. \A i \in 1 .. n : i - 1 \in 0 .. n
  OBVIOUS
<1>9. n \in 0 .. n /\ r[n] = it[1 .. n]
  OBVIOUS
<1> HIDE DEF r
<1>10. \A i \in 1 .. n : r[i] = g[<<i, r[i - 1]>>]
  BY <1>2, <1>6, <1>8
<1>11. IsFold(n, V, b, g, r)
  BY <1>1, <1>7, <1>10 DEF IsFold
<1>. QED  BY <1>9, <1>11 DEF FoldsTo

\* Every step g has its fold.
LEMMA FoldDefined ==
    ASSUME NEW n \in Nat, NEW V, NEW b \in V, NEW g \in [(1 .. n) \X V -> V]
    PROVE  \E r : IsFold(n, V, b, g, r)
<1>1. PICK it \in [SUBSET (1 .. n) -> V] : FoldsSets(n, b, g, it)
  BY FoldExists
<1>2. it[{}] = b
  BY <1>1 DEF FoldsSets
<1>3. \A s \in SUBSET (1 .. n) : s # {} => it[s] = g[<<Max(s), it[s \ {Max(s)}]>>]
  BY <1>1 DEF FoldsSets
<1>4. FoldsWithin(n, V, b, g, it)
  BY <1>2, <1>3 DEF FoldsWithin
<1>5. FoldsTo(n, V, b, g, it[1 .. n])
  BY <1>4, FoldWalks
<1>. QED  BY <1>5 DEF FoldsTo
=============================================================================
