---------------------------- MODULE CacheProofs ----------------------------
(***************************************************************************)
(* Proofs about Cache.                                                     *)
(*                                                                         *)
(* The first part is about any number of threads: what the lock does       *)
(* protect, the map, the nodes' identifiers and the occupancy.  The second *)
(* is about one caller, for which the pointers of the list follow the      *)
(* order of use through every single assignment.                           *)
(***************************************************************************)
EXTENDS Cache, InductionLemmas, SequenceTheorems

\* A path of the map is the identifier of the node it is mapped to.
MapInv ==
    \A u \in Urls : mapping[u] # None =>
        /\ entry[mapping[u]] \in Entry
        /\ entry[mapping[u]].url = u

\* An insertion under way has the lock, a resource that fits the cache and a path
\* that is not mapped.
InsertInv ==
    \A t \in Threads : pc[t] = "insert" =>
        /\ writer = t
        /\ local[t].new \in Entry
        /\ local[t].new.size <= Capacity
        /\ mapping[local[t].new.url] = None

\* The part of the invariant that needs no order of the list.
HeapInv == TypeOK /\ MapInv /\ InsertInv

\* The initial state has it.
LEMMA HeapInit == Init => HeapInv
<1> SUFFICES ASSUME Init  PROVE HeapInv
  OBVIOUS
<1>. USE CacheAssumption DEF Init
<1>1. TypeOK
  <2>1. 0 \in 0 .. Word - 1
    OBVIOUS
  <2>2. <<>> \in Seq(Entry)
    OBVIOUS
  <2>3. local \in [Threads -> [node : Nodes \cup {None}, before : List \cup {None},
                               after : List \cup {None}, new : Entry \cup {NoEntry}]]
    BY DEF NoLocal
  <2>4. next \in [List -> List \cup {None}] /\ prev \in [List -> List \cup {None}]
    BY DEF List
  <2>. QED  BY <2>1, <2>2, <2>3, <2>4 DEF TypeOK
<1>2. MapInv
  BY DEF MapInv
<1>3. InsertInv
  BY DEF InsertInv
<1>. QED  BY <1>1, <1>2, <1>3 DEF HeapInv

\* Sizes are numbers.
LEMMA SizesAreNumbers == \A s \in Sizes : s \in Int /\ 0 <= s /\ s < Word
BY CacheAssumption

\* The allocated nodes are finitely many, and their sizes are numbers.
LEMMA AllocatedFinite ==
    ASSUME HeapInv
    PROVE  /\ Allocated \subseteq Nodes
           /\ IsFiniteSet(Allocated)
           /\ \A n \in Allocated : entry[n] \in Entry /\ entry[n].size \in Int
           /\ \A n \in Allocated : entry[n].url \in Urls /\ mapping[entry[n].url] = n
           /\ \A n \in Allocated : n \in List
<1>1. Allocated \subseteq Nodes
  BY DEF HeapInv, TypeOK, Allocated
<1>2. IsFiniteSet(Allocated)
  BY <1>1, CacheAssumption, FS_Subset
<1>3. \A n \in Allocated : entry[n] \in Entry
  BY DEF HeapInv, MapInv, Allocated
<1>4. \A n \in Allocated : entry[n].size \in Int
  BY <1>3, SizesAreNumbers DEF Entry
<1>5. \A n \in Allocated : entry[n].url \in Urls /\ mapping[entry[n].url] = n
  BY DEF HeapInv, MapInv, Allocated
<1>. QED  BY <1>1, <1>2, <1>3, <1>4, <1>5 DEF List
----------------------------------------------------------------------------
\* it holds what is left of the entries of order at the places of each set.
IsKept(it) ==
    /\ it \in [SUBSET (1 .. Len(order)) -> Seq(Entry)]
    /\ it[{}] = <<>>
    /\ \A s \in SUBSET (1 .. Len(order)) : s # {} =>
          it[s] = IF mapping[order[Max(s)].url] = None THEN it[s \ {Max(s)}]
                  ELSE Append(it[s \ {Max(s)}], order[Max(s)])

\* StillCached is defined by that recursion.
LEMMA StillCachedUnfold ==
    ASSUME order \in Seq(Entry)
    PROVE  \E it : IsKept(it) /\ StillCached = it[1 .. Len(order)]
<1> DEFINE A == 1 .. Len(order)
           ch == [s \in SUBSET A |-> Max(s)]
           g == [p \in A \X Seq(Entry) |->
                    IF mapping[order[p[1]].url] = None THEN p[2] ELSE Append(p[2], order[p[1]])]
           KeptEq(it) == it = [s \in SUBSET A |->
                IF s = {} THEN <<>>
                ELSE IF mapping[order[Max(s)].url] = None THEN it[s \ {Max(s)}]
                     ELSE Append(it[s \ {Max(s)}], order[Max(s)])]
<1>1. Len(order) \in Nat /\ IsFiniteSet(A)
  BY FS_Interval
<1>2. Chooses(A, ch)
  <2>1. ASSUME NEW s \in SUBSET A, s # {}  PROVE Max(s) \in s
    <3>1. s \in SUBSET (0 .. Len(order))
      BY <1>1
    <3>. QED  BY <1>1, <2>1, <3>1, MaxOfBounded
  <2>. QED  BY <2>1 DEF Chooses
<1>3. g \in [A \X Seq(Entry) -> Seq(Entry)]
  <2>1. ASSUME NEW x \in A, NEW q \in Seq(Entry)  PROVE Append(q, order[x]) \in Seq(Entry)
    BY <1>1
  <2>. QED  BY <2>1
<1>4. \A x \in A, q \in Seq(Entry) : g[<<x, q>>] =
         IF mapping[order[x].url] = None THEN q ELSE Append(q, order[x])
  OBVIOUS
<1>5. \A s \in SUBSET A : ch[s] = Max(s)
  OBVIOUS
<1>6. DOMAIN order = A
  BY <1>1
<1>. HIDE DEF A, ch, g
<1>7. <<>> \in Seq(Entry)
  OBVIOUS
<1>8. PICK it \in [SUBSET A -> Seq(Entry)] : TakesAway(A, <<>>, ch, g, it)
  BY <1>1, <1>2, <1>3, <1>7, SetRecursion, Zenon
<1>9. ASSUME NEW s \in SUBSET A, s # {}
      PROVE  it[s] = IF mapping[order[Max(s)].url] = None THEN it[s \ {Max(s)}]
                     ELSE Append(it[s \ {Max(s)}], order[Max(s)])
  <2>1. ch[s] \in A /\ s \ {ch[s]} \in SUBSET A
    BY <1>2, <1>9 DEF Chooses
  <2>2. it[s \ {ch[s]}] \in Seq(Entry)
    BY <1>8, <2>1
  <2>3. it[s] = g[<<ch[s], it[s \ {ch[s]}]>>]
    BY <1>8, <1>9 DEF TakesAway
  <2>4. it[s] = IF mapping[order[ch[s]].url] = None THEN it[s \ {ch[s]}]
                ELSE Append(it[s \ {ch[s]}], order[ch[s]])
    BY <1>4, <2>1, <2>2, <2>3
  <2>. QED  BY <1>5, <2>4
<1>10. it[{}] = <<>>
  BY <1>8 DEF TakesAway
<1>11. KeptEq(it)
  <2>1. \A s \in SUBSET A : it[s] =
          IF s = {} THEN <<>>
          ELSE IF mapping[order[Max(s)].url] = None THEN it[s \ {Max(s)}]
               ELSE Append(it[s \ {Max(s)}], order[Max(s)])
    BY <1>9, <1>10
  <2>. QED  BY <1>8, <2>1
<1>12. PICK kept : KeptEq(kept) /\ StillCached = kept[A]
  BY <1>6, <1>11 DEF StillCached, FoldLeft, MapThenFoldSet
<1>13. /\ kept[{}] = <<>>
       /\ \A s \in SUBSET A : s # {} =>
             kept[s] = IF mapping[order[Max(s)].url] = None THEN kept[s \ {Max(s)}]
                       ELSE Append(kept[s \ {Max(s)}], order[Max(s)])
       /\ kept = [s \in SUBSET A |-> kept[s]]
  BY <1>12
<1>14. \A s \in SUBSET A : kept[s] \in Seq(Entry)
  <2> DEFINE T == {s \in SUBSET A : kept[s] \in Seq(Entry)}
  <2>1. {} \in T
    BY <1>7, <1>13
  <2>2. ASSUME NEW s \in SUBSET A, s # {}, s \ {ch[s]} \in T  PROVE s \in T
    <3>1. ch[s] = Max(s) /\ order[Max(s)] \in Entry
      <4>1. ch[s] = Max(s) /\ ch[s] \in A
        BY <1>2, <1>5, <2>2 DEF Chooses
      <4>. QED  BY <4>1 DEF A
    <3>2. kept[s \ {Max(s)}] \in Seq(Entry)
      BY <2>2, <3>1
    <3>3. Append(kept[s \ {Max(s)}], order[Max(s)]) \in Seq(Entry)
      BY <3>1, <3>2
    <3>. QED  BY <1>13, <2>2, <3>2, <3>3
  <2>. HIDE DEF T
  <2>3. \A s \in SUBSET A : s \in T
    BY <1>1, <1>2, <2>1, <2>2, SetInduction
  <2>. QED  BY <2>3 DEF T
<1>15. kept \in [SUBSET A -> Seq(Entry)]
  BY <1>13, <1>14
<1>. QED  BY <1>12, <1>13, <1>15 DEF IsKept, A

\* It is a sequence of entries.
LEMMA StillCachedType ==
    ASSUME order \in Seq(Entry)
    PROVE  StillCached \in Seq(Entry)
<1>1. PICK it : IsKept(it) /\ StillCached = it[1 .. Len(order)]
  BY StillCachedUnfold
<1>. QED  BY <1>1 DEF IsKept

\* When the first d entries have been evicted, it is the rest.
LEMMA StillCachedIs ==
    ASSUME order \in Seq(Entry), NEW d \in 0 .. Len(order),
           \A i \in 1 .. Len(order) : mapping[order[i].url] = None <=> i <= d
    PROVE  StillCached = SubSeq(order, d + 1, Len(order))
<1>1. PICK it : IsKept(it) /\ StillCached = it[1 .. Len(order)]
  BY StillCachedUnfold
<1> DEFINE S == {k \in Nat : k <= Len(order) => it[1 .. k] = SubSeq(order, d + 1, k)}
<1>2. 0 \in S
  <2>1. 1 .. 0 = {} /\ SubSeq(order, d + 1, 0) = <<>>
    OBVIOUS
  <2>. QED  BY <1>1, <2>1 DEF IsKept
<1>3. ASSUME NEW k \in Nat, k \in S  PROVE k + 1 \in S
  <2> SUFFICES ASSUME k + 1 <= Len(order)  PROVE it[1 .. k + 1] = SubSeq(order, d + 1, k + 1)
    OBVIOUS
  <2> DEFINE s == 1 .. k + 1
  <2>1. s \in SUBSET (1 .. Len(order)) /\ s # {} /\ s \in SUBSET Nat
    <3>1. Len(order) \in Nat
      OBVIOUS
    <3>2. \A j \in s : j \in 1 .. Len(order) /\ j \in Nat
      BY <3>1
    <3>3. 1 \in s
      OBVIOUS
    <3>. QED  BY <3>2, <3>3
  <2>2. k + 1 \in s /\ \A n \in s : n <= k + 1
    OBVIOUS
  <2>3. s \ {k + 1} = 1 .. k
    OBVIOUS
  <2>. HIDE DEF s
  <2>4. Max(s) = k + 1
    BY <2>1, <2>2, MaxIs
  <2>5. it[s] = IF mapping[order[k + 1].url] = None THEN it[1 .. k]
                ELSE Append(it[1 .. k], order[k + 1])
    BY <1>1, <2>1, <2>3, <2>4 DEF IsKept
  <2>6. it[1 .. k] = SubSeq(order, d + 1, k)
    BY <1>3
  <2>7. CASE k + 1 <= d
    <3>1. SubSeq(order, d + 1, k) = <<>> /\ SubSeq(order, d + 1, k + 1) = <<>>
      BY <2>7
    <3>2. mapping[order[k + 1].url] = None
      <4>1. k + 1 \in 1 .. Len(order)
        OBVIOUS
      <4>. QED  BY <2>7, <4>1
    <3>. QED  BY <2>5, <2>6, <3>1, <3>2 DEF s
  <2>8. CASE k + 1 > d
    <3>1. SubSeq(order, d + 1, k + 1) = SubSeq(order, d + 1, k) \o <<order[k + 1]>>
      <4>1. d + 1 \in 1 .. Len(order) /\ k + 1 \in d + 1 .. Len(order) /\ k + 1 - 1 = k
        BY <2>8
      <4>2. SubSeq(order, d + 1, k + 1) = SubSeq(order, d + 1, k + 1 - 1) \o <<order[k + 1]>>
        BY <4>1, SubSeqRecursiveSecond
      <4>. QED  BY <4>1, <4>2
    <3>2. SubSeq(order, d + 1, k) \in Seq(Entry) /\ order[k + 1] \in Entry
      OBVIOUS
    <3>3. SubSeq(order, d + 1, k + 1) = Append(SubSeq(order, d + 1, k), order[k + 1])
      BY <3>1, <3>2, AppendIsConcat
    <3>. QED  BY <2>5, <2>6, <2>8, <3>3 DEF s
  <2>. QED  BY <2>7, <2>8
<1>. HIDE DEF S
<1>4. \A k \in Nat : k \in S
  BY <1>2, <1>3, InductiveSet
<1>. QED  BY <1>1, <1>4 DEF S
----------------------------------------------------------------------------
\* Every step keeps it.
LEMMA HeapStep == HeapInv /\ [Next]_vars => HeapInv'
<1> SUFFICES ASSUME HeapInv, [Next]_vars  PROVE HeapInv'
  OBVIOUS
<1>. USE CacheAssumption
<1>1. TypeOK /\ MapInv /\ InsertInv
  BY DEF HeapInv
<1>2. CASE UNCHANGED vars
  BY <1>1, <1>2 DEF HeapInv, TypeOK, MapInv, InsertInv, vars, heapVars, lockVars, Allocated
<1>3. ASSUME NEW t \in Threads, LoadNext(t)  PROVE HeapInv'
  <2>1. CASE Miss(t)
    BY <1>1, <2>1 DEF Miss, HeapInv, TypeOK, MapInv, InsertInv, vars, heapVars, lockVars
  <2>2. CASE Hit(t)
    <3>1. PICK u \in Urls, i \in DOMAIN order :
            /\ mapping[u] # None
            /\ local' = [local EXCEPT ![t] =
                 [node |-> mapping[u], before |-> prev[mapping[u]],
                  after |-> next[mapping[u]], new |-> NoEntry]]
            /\ order' = Append(RemoveAt(order, i), entry[mapping[u]])
      BY <2>2 DEF Hit
    <3>2. mapping[u] \in Nodes /\ mapping[u] \in List /\ entry[mapping[u]] \in Entry
      BY <1>1, <3>1 DEF TypeOK, MapInv, List
    <3>3. local' \in [Threads -> [node : Nodes \cup {None}, before : List \cup {None},
                                  after : List \cup {None}, new : Entry \cup {NoEntry}]]
      <4>1. prev[mapping[u]] \in List \cup {None} /\ next[mapping[u]] \in List \cup {None}
        BY <1>1, <3>2 DEF TypeOK
      <4>. QED  BY <1>1, <3>1, <3>2, <4>1 DEF TypeOK
    <3>4. \A s \in Threads : s # t => local'[s].new = local[s].new
      BY <1>1, <3>1 DEF TypeOK
    <3>5. RemoveAt(order, i) \in Seq(Entry)
      BY <1>1 DEF TypeOK, RemoveAt
    <3>6. order' \in Seq(Entry)
      BY <3>1, <3>2, <3>5
    <3>7. pc' = [pc EXCEPT ![t] = "unlinkNext"] /\ readers' = readers \cup {t}
          /\ UNCHANGED <<heapVars, writer>>
      BY <2>2 DEF Hit, Goto
    <3>8. TypeOK'
      BY <1>1, <3>3, <3>6, <3>7 DEF TypeOK, heapVars
    <3>9. InsertInv'
      BY <1>1, <3>4, <3>7 DEF InsertInv, heapVars, TypeOK
    <3>. QED  BY <1>1, <3>7, <3>8, <3>9 DEF HeapInv, MapInv, heapVars
  <2>3. CASE UnlinkNext(t)
    <3>1. TypeOK'
      BY <1>1, <2>3 DEF UnlinkNext, TypeOK, Goto, lockVars
    <3>. QED  BY <1>1, <2>3, <3>1 DEF UnlinkNext, HeapInv, MapInv, InsertInv, Goto, lockVars, TypeOK
  <2>4. CASE UnlinkPrev(t)
    <3>1. TypeOK'
      BY <1>1, <2>4 DEF UnlinkPrev, TypeOK, Goto, lockVars
    <3>. QED  BY <1>1, <2>4, <3>1 DEF UnlinkPrev, HeapInv, MapInv, InsertInv, Goto, lockVars, TypeOK
  <2>5. CASE ReadTail(t)
    <3>1. local' = [local EXCEPT ![t].before = prev[Tailer]] /\ pc' = [pc EXCEPT ![t] = "linkNext"]
          /\ UNCHANGED <<heapVars, lockVars, order>>
      BY <2>5 DEF ReadTail, Goto
    <3>2. prev[Tailer] \in List \cup {None}
      BY <1>1 DEF TypeOK, List
    <3>3. TypeOK'
      BY <1>1, <3>1, <3>2, SMTT(30) DEF TypeOK, lockVars, heapVars
    <3>4. \A s \in Threads : local'[s].new = local[s].new
      BY <1>1, <3>1 DEF TypeOK
    <3>. QED  BY <1>1, <3>1, <3>3, <3>4 DEF HeapInv, MapInv, InsertInv, lockVars, heapVars, TypeOK
  <2>6. CASE LinkNext(t)
    <3>1. TypeOK'
      BY <1>1, <2>6 DEF LinkNext, TypeOK, Goto, lockVars, List
    <3>. QED  BY <1>1, <2>6, <3>1 DEF LinkNext, HeapInv, MapInv, InsertInv, Goto, lockVars, TypeOK
  <2>7. CASE LinkPrev(t)
    <3>1. TypeOK'
      BY <1>1, <2>7 DEF LinkPrev, TypeOK, Goto, lockVars, List
    <3>. QED  BY <1>1, <2>7, <3>1 DEF LinkPrev, HeapInv, MapInv, InsertInv, Goto, lockVars, TypeOK
  <2>8. CASE LinkNode(t)
    <3>1. local' = [local EXCEPT ![t] = NoLocal] /\ pc' = [pc EXCEPT ![t] = "idle"]
      BY <2>8 DEF LinkNode, Goto
    <3>2. local' \in [Threads -> [node : Nodes \cup {None}, before : List \cup {None},
                                  after : List \cup {None}, new : Entry \cup {NoEntry}]]
      BY <1>1, <3>1 DEF TypeOK, NoLocal
    <3>3. prev' \in [List -> List \cup {None}] /\ next' \in [List -> List \cup {None}]
      BY <1>1, <2>8 DEF LinkNode, TypeOK, List
    <3>4. TypeOK'
      BY <1>1, <2>8, <3>1, <3>2, <3>3 DEF LinkNode, TypeOK
    <3>5. InsertInv'
      BY <1>1, <2>8, <3>1 DEF LinkNode, InsertInv, TypeOK
    <3>. QED  BY <1>1, <2>8, <3>4, <3>5 DEF LinkNode, HeapInv, MapInv
  <2>. QED  BY <1>3, <2>1, <2>2, <2>3, <2>4, <2>5, <2>6, <2>7, <2>8 DEF LoadNext
<1>4. ASSUME NEW t \in Threads, InsertNext(t)  PROVE HeapInv'
  <2>1. CASE InsertRefused(t)
    BY <1>1, <2>1 DEF InsertRefused, HeapInv, TypeOK, MapInv, InsertInv, vars, heapVars, lockVars
  <2>2. CASE InsertBegin(t)
    <3>1. PICK u \in Urls, s \in Sizes :
            /\ mapping[u] = None /\ s <= Capacity
            /\ local' = [local EXCEPT ![t].new = [url |-> u, size |-> s]]
      BY <2>2 DEF InsertBegin
    <3>2. writer = None /\ writer' = t /\ pc' = [pc EXCEPT ![t] = "insert"]
          /\ UNCHANGED <<heapVars, readers, order>>
      BY <2>2 DEF InsertBegin, Goto
    <3>3. [url |-> u, size |-> s] \in Entry
      BY DEF Entry
    <3>4. TypeOK'
      <4>1. local' \in [Threads -> [node : Nodes \cup {None}, before : List \cup {None},
                                    after : List \cup {None}, new : Entry \cup {NoEntry}]]
        BY <1>1, <3>1, <3>3 DEF TypeOK
      <4>. QED  BY <1>1, <3>2, <4>1 DEF TypeOK, heapVars
    <3>5. \A r \in Threads : pc'[r] = "insert" => r = t
      BY <1>1, <3>2 DEF TypeOK, InsertInv
    <3>6. local'[t].new = [url |-> u, size |-> s]
      BY <1>1, <3>1 DEF TypeOK
    <3>7. InsertInv'
      BY <3>1, <3>2, <3>3, <3>5, <3>6 DEF InsertInv, heapVars
    <3>. QED  BY <1>1, <3>2, <3>4, <3>7 DEF HeapInv, MapInv, heapVars
  <2>3. CASE Evict(t)
    <3>1. PICK n \in Allocated :
            /\ next' = [next EXCEPT ![prev[n]] = next[n]]
            /\ prev' = [prev EXCEPT ![next[n]] = prev[n]]
            /\ mapping' = [mapping EXCEPT ![entry[n].url] = None]
            /\ occupancy' = (occupancy - entry[n].size) % Word
      BY <2>3 DEF Evict
    <3>2. UNCHANGED <<entry, lockVars, pc, local, order>>
      BY <2>3 DEF Evict
    <3>3. n \in List /\ entry[n].size \in Int
      BY AllocatedFinite
    <3>4. occupancy' \in 0 .. Word - 1
      BY <1>1, <3>1, <3>3 DEF TypeOK
    <3>5. TypeOK'
      BY <1>1, <3>1, <3>2, <3>3, <3>4 DEF TypeOK, lockVars
    <3>6. MapInv'
      BY <1>1, <3>1, <3>2 DEF TypeOK, MapInv
    <3>7. InsertInv'
      BY <1>1, <3>1, <3>2 DEF TypeOK, InsertInv, lockVars, Entry
    <3>. QED  BY <3>5, <3>6, <3>7 DEF HeapInv
  <2>4. CASE InsertEnd(t)
    <3> DEFINE new == local[t].new
               last == prev[Tailer]
    <3>1. PICK n \in Nodes \ Allocated :
            /\ entry' = [entry EXCEPT ![n] = new]
            /\ next' = [next EXCEPT ![last] = n, ![n] = Tailer]
            /\ prev' = [prev EXCEPT ![Tailer] = n, ![n] = last]
            /\ mapping' = [mapping EXCEPT ![new.url] = n]
            /\ occupancy' = (occupancy + new.size) % Word
            /\ order' = Append(StillCached, entry'[n])
      BY <2>4 DEF InsertEnd
    <3>2. writer' = None /\ local' = [local EXCEPT ![t] = NoLocal]
          /\ pc' = [pc EXCEPT ![t] = "idle"] /\ readers' = readers /\ pc[t] = "insert"
      BY <2>4 DEF InsertEnd, Goto
    <3>3. new \in Entry /\ new.url \in Urls /\ new.size \in Int /\ writer = t
      <4>1. new \in Entry /\ writer = t
        BY <1>1, <3>2 DEF InsertInv
      <4>. QED  BY <4>1, SizesAreNumbers DEF Entry
    <3>4. n \in List /\ last \in List \cup {None} /\ Tailer \in List
      BY <1>1 DEF TypeOK, List
    <3>. HIDE DEF new, last
    <3>5. occupancy' \in 0 .. Word - 1
      BY <1>1, <3>1, <3>3 DEF TypeOK
    <3>6. entry' \in [List -> Entry \cup {NoEntry}] /\ entry'[n] = new
      BY <1>1, <3>1, <3>3, <3>4 DEF TypeOK
    <3>7. next' \in [List -> List \cup {None}] /\ prev' \in [List -> List \cup {None}]
      BY <1>1, <3>1, <3>4 DEF TypeOK
    <3>8. local' \in [Threads -> [node : Nodes \cup {None}, before : List \cup {None},
                                  after : List \cup {None}, new : Entry \cup {NoEntry}]]
      BY <1>1, <3>2 DEF TypeOK, NoLocal
    <3>9. order' \in Seq(Entry)
      <4>1. StillCached \in Seq(Entry)
        BY <1>1, StillCachedType DEF TypeOK
      <4>. QED  BY <3>1, <3>3, <3>6, <4>1
    <3>10. mapping' \in [Urls -> Nodes \cup {None}]
      BY <1>1, <3>1, <3>3 DEF TypeOK
    <3>11. TypeOK'
      BY <1>1, <3>2, <3>5, <3>6, <3>7, <3>8, <3>9, <3>10 DEF TypeOK
    <3>12. MapInv'
      <4>1. \A u \in Urls : mapping[u] # n
        BY <1>1, CacheAssumption DEF Allocated, TypeOK
      <4>2. ASSUME NEW u \in Urls, mapping'[u] # None
            PROVE  entry'[mapping'[u]] \in Entry /\ entry'[mapping'[u]].url = u
        <5>1. CASE u = new.url
          BY <1>1, <3>1, <3>3, <3>6, <5>1 DEF TypeOK
        <5>2. CASE u # new.url
          <6>1. mapping'[u] = mapping[u] /\ mapping[u] # n /\ mapping[u] \in List
            BY <1>1, <3>1, <4>1, <4>2, <5>2 DEF TypeOK, List
          <6>2. entry'[mapping'[u]] = entry[mapping[u]]
            BY <1>1, <3>1, <6>1 DEF TypeOK
          <6>. QED  BY <1>1, <4>2, <6>1, <6>2 DEF MapInv
        <5>. QED  BY <5>1, <5>2
      <4>. QED  BY <4>2 DEF MapInv
    <3>13. InsertInv'
      <4>1. \A r \in Threads : pc'[r] # "insert"
        BY <1>1, <3>2, <3>3 DEF TypeOK, InsertInv
      <4>. QED  BY <4>1 DEF InsertInv
    <3>. QED  BY <3>11, <3>12, <3>13 DEF HeapInv
  <2>. QED  BY <1>4, <2>1, <2>2, <2>3, <2>4 DEF InsertNext
<1>5. ASSUME NEW t \in Threads, Clear(t)  PROVE HeapInv'
  <2>1. TypeOK'
    <3>1. <<>> \in Seq(Entry) /\ 0 \in 0 .. Word - 1
      OBVIOUS
    <3>. QED  BY <1>1, <1>5, <3>1 DEF Clear, TypeOK, lockVars, List
  <2>2. MapInv'
    BY <1>5 DEF Clear, MapInv
  <2>3. InsertInv'
    BY <1>1, <1>5 DEF Clear, InsertInv, lockVars, Entry
  <2>. QED  BY <2>1, <2>2, <2>3 DEF HeapInv
<1>. QED  BY <1>2, <1>3, <1>4, <1>5 DEF Next
----------------------------------------------------------------------------
\* The sizes summed up.
SizeOf == [n \in Nodes |-> entry[n].size]

\* The occupancy of allocated nodes is a sum of naturals.
LEMMA SizesAllocated ==
    ASSUME HeapInv
    PROVE  \A n \in Allocated : SizeOf[n] = entry[n].size /\ SizeOf[n] \in Nat /\ SizeOf[n] \in Int
<1>1. \A n \in Allocated : n \in Nodes /\ entry[n] \in Entry
  BY AllocatedFinite
<1>2. \A n \in Allocated : SizeOf[n] = entry[n].size /\ entry[n].size \in Sizes
  BY <1>1 DEF SizeOf, Entry
<1>. QED  BY <1>2, SizesAreNumbers

\* The empty cache is empty.
LEMMA OccupancyInit == Init => OccupancyExact
<1> SUFFICES ASSUME Init  PROVE OccupancyExact
  OBVIOUS
<1>1. Allocated = {} /\ occupancy = 0
  BY DEF Init, Allocated
<1>2. IsFiniteSet(Allocated) /\ \A n \in Allocated : SizeOf[n] \in Int
  BY <1>1, FS_EmptySet
<1>3. SumFunctionOnSet(SizeOf, Allocated) = 0
  BY <1>1, <1>2, SumType
<1>. QED  BY <1>1, <1>3, CacheAssumption DEF OccupancyExact, SizeOf

\* Steps that neither map nor free a node leave the occupancy as it is.
LEMMA OccupancySame ==
    ASSUME OccupancyExact, UNCHANGED <<mapping, entry, occupancy>>
    PROVE  OccupancyExact'
<1>1. Allocated' = Allocated
  BY DEF Allocated
<1>. QED  BY <1>1 DEF OccupancyExact

\* The occupancy follows every step, and the unsigned arithmetic never wraps.
LEMMA OccupancyStep == HeapInv /\ OccupancyExact /\ [Next]_vars => OccupancyExact'
<1> SUFFICES ASSUME HeapInv, OccupancyExact, [Next]_vars  PROVE OccupancyExact'
  OBVIOUS
<1>1. TypeOK /\ MapInv /\ InsertInv
  BY DEF HeapInv
<1>2. occupancy = SumFunctionOnSet(SizeOf, Allocated) /\ occupancy <= Capacity
  BY DEF OccupancyExact, SizeOf
<1>3. Capacity \in Nat /\ Word \in Nat /\ Capacity < Word /\ occupancy \in Nat
  BY <1>1, CacheAssumption DEF TypeOK
<1>4. CASE UNCHANGED vars
  BY <1>4, OccupancySame DEF vars, heapVars
<1>5. ASSUME NEW t \in Threads, LoadNext(t)  PROVE OccupancyExact'
  <2>1. UNCHANGED <<mapping, entry, occupancy>>
    BY <1>5 DEF LoadNext, Miss, Hit, UnlinkNext, UnlinkPrev, ReadTail, LinkNext, LinkPrev,
                LinkNode, vars, heapVars
  <2>. QED  BY <2>1, OccupancySame
<1>6. ASSUME NEW t \in Threads, InsertRefused(t) \/ InsertBegin(t)  PROVE OccupancyExact'
  <2>1. UNCHANGED <<mapping, entry, occupancy>>
    BY <1>6 DEF InsertRefused, InsertBegin, vars, heapVars
  <2>. QED  BY <2>1, OccupancySame
<1>7. ASSUME NEW t \in Threads, Evict(t)  PROVE OccupancyExact'
  <2>1. PICK n \in Allocated :
          /\ mapping' = [mapping EXCEPT ![entry[n].url] = None]
          /\ occupancy' = (occupancy - entry[n].size) % Word
    BY <1>7 DEF Evict
  <2>2. PICK rest : rest = Allocated \ {n}
    OBVIOUS
  <2>3. Allocated' = rest
    <3>1. entry[n].url \in Urls /\ mapping[entry[n].url] = n
      BY AllocatedFinite
    <3>2. \A u \in Urls : mapping[u] = n => u = entry[n].url
      BY <1>1, <3>1, CacheAssumption DEF MapInv, Allocated
    <3>3. \A u \in Urls : mapping'[u] = IF u = entry[n].url THEN None ELSE mapping[u]
      BY <1>1, <2>1 DEF TypeOK
    <3>. QED  BY <2>2, <3>1, <3>2, <3>3 DEF Allocated
  <2>4. entry' = entry
    BY <1>7 DEF Evict
  <2>5. IsFiniteSet(rest) /\ rest \cup {n} = Allocated /\ n \notin rest
    BY <2>2, AllocatedFinite, FS_Subset
  <2>6. \A m \in rest : SizeOf[m] \in Nat /\ SizeOf[m] \in Int
    BY <2>2, SizesAllocated
  <2>7. SizeOf[n] = entry[n].size /\ SizeOf[n] \in Nat /\ SizeOf[n] \in Int
    BY SizesAllocated
  <2>8. SumFunctionOnSet(SizeOf, rest) \in Nat
    BY <2>5, <2>6, SumNat
  <2>9. SumFunctionOnSet(SizeOf, rest \cup {n}) = SizeOf[n] + SumFunctionOnSet(SizeOf, rest)
    BY <2>5, <2>6, <2>7, SumAdd
  <2>10. occupancy - entry[n].size = SumFunctionOnSet(SizeOf, rest)
    <3>1. occupancy = SizeOf[n] + SumFunctionOnSet(SizeOf, rest)
      BY <1>2, <2>5, <2>9
    <3>2. PICK a \in Nat, b \in Nat : a = SizeOf[n] /\ b = SumFunctionOnSet(SizeOf, rest)
      BY <2>7, <2>8
    <3>3. occupancy = a + b /\ entry[n].size = a
      BY <2>7, <3>1, <3>2
    <3>. QED  BY <3>2, <3>3
  <2>11. occupancy - entry[n].size <= Capacity
    BY <1>2, <1>3, <2>7
  <2>12. occupancy' = SumFunctionOnSet(SizeOf, rest) /\ occupancy' <= Capacity
    BY <1>3, <2>1, <2>8, <2>10, <2>11
  <2>13. SizeOf' = SizeOf
    BY <2>4 DEF SizeOf
  <2>. QED  BY <2>3, <2>12, <2>13 DEF OccupancyExact, SizeOf
<1>8. ASSUME NEW t \in Threads, InsertEnd(t)  PROVE OccupancyExact'
  <2>1. PICK n \in Nodes \ Allocated :
          /\ entry' = [entry EXCEPT ![n] = local[t].new]
          /\ mapping' = [mapping EXCEPT ![local[t].new.url] = n]
          /\ occupancy' = (occupancy + local[t].new.size) % Word
    BY <1>8 DEF InsertEnd
  <2>2. PICK new \in Entry : new = local[t].new /\ new.size <= Capacity /\ mapping[new.url] = None
    BY <1>1, <1>8 DEF InsertEnd, InsertInv
  <2>3. new.url \in Urls /\ new.size \in Nat /\ new.size \in Int
    BY SizesAreNumbers DEF Entry
  <2>4. Allocated' = Allocated \cup {n}
    BY <1>1, <2>1, <2>2, <2>3, CacheAssumption DEF Allocated, TypeOK
  <2>5. n \in List /\ Allocated \subseteq Nodes /\ IsFiniteSet(Allocated)
    BY AllocatedFinite DEF List
  <2>6. \A m \in Allocated : SizeOf[m] \in Nat /\ SizeOf[m] \in Int
    BY SizesAllocated
  <2>7. PICK g : g = SizeOf'
    OBVIOUS
  <2>8. \A m \in Nodes : g[m] = entry'[m].size
    BY <2>7 DEF SizeOf
  <2>9. g[n] = new.size
    BY <1>1, <2>1, <2>2, <2>5, <2>8 DEF TypeOK
  <2>10. \A m \in Allocated : g[m] = SizeOf[m]
    <3>1. ASSUME NEW m \in Allocated  PROVE g[m] = SizeOf[m]
      <4>1. m \in Nodes /\ m \in List /\ m # n
        BY <2>5 DEF List
      <4>2. entry'[m] = entry[m]
        BY <1>1, <2>1, <4>1 DEF TypeOK
      <4>. QED  BY <2>8, <4>1, <4>2 DEF SizeOf
    <3>. QED  BY <3>1
  <2>11. SumFunctionOnSet(g, Allocated \cup {n}) = g[n] + SumFunctionOnSet(SizeOf, Allocated)
    BY <2>3, <2>5, <2>6, <2>9, <2>10, SumAdd
  <2>12. occupancy + new.size <= Capacity
    <3>1. CASE Allocated = {}
      <4>1. occupancy = 0
        BY <1>2, <2>5, <2>6, <3>1, SumType
      <4>. QED  BY <2>2, <2>3, <4>1
    <3>2. CASE Allocated # {}
      <4>1. ~((Capacity - occupancy) % Word < new.size)
        BY <1>8, <2>2, <3>2 DEF InsertEnd, MustEvict
      <4>2. (Capacity - occupancy) % Word = Capacity - occupancy
        BY <1>2, <1>3
      <4>. QED  BY <1>3, <2>3, <4>1, <4>2
    <3>. QED  BY <3>1, <3>2
  <2>13. occupancy' = occupancy + new.size
    <3>1. occupancy + new.size \in Nat /\ occupancy + new.size < Word
      BY <1>3, <2>3, <2>12
    <3>2. (occupancy + new.size) % Word = occupancy + new.size
      BY <1>3, <3>1
    <3>. QED  BY <2>1, <2>2, <3>2
  <2>14. occupancy' = SumFunctionOnSet(g, Allocated') /\ occupancy' <= Capacity
    BY <1>2, <1>3, <2>3, <2>4, <2>9, <2>11, <2>12, <2>13
  <2>. QED  BY <2>7, <2>14 DEF OccupancyExact, SizeOf
<1>9. ASSUME NEW t \in Threads, Clear(t)  PROVE OccupancyExact'
  <2>1. PICK none : none = Allocated'
    OBVIOUS
  <2>2. none = {}
    BY <1>9, <2>1 DEF Clear, Allocated
  <2>3. PICK g : g = SizeOf'
    OBVIOUS
  <2>4. SumFunctionOnSet(g, none) = 0
    BY <2>2, FS_EmptySet, SumType
  <2>5. occupancy' = 0
    BY <1>9 DEF Clear
  <2>6. occupancy' = SumFunctionOnSet(g, none) /\ occupancy' <= Capacity
    BY <1>3, <2>4, <2>5
  <2>. QED  BY <2>1, <2>3, <2>6 DEF OccupancyExact, SizeOf
<1>. QED  BY <1>4, <1>5, <1>6, <1>7, <1>8, <1>9 DEF Next, InsertNext

\* The race of tryLoad leaves the map alone: whatever the threads do, the node a
\* path is mapped to is a node made for that very path, so no two paths share one
\* and a lookup never returns another resource.  The pointers of the list are not
\* so well off: they may lead to a node that has been freed.
THEOREM MapNamesItsNodes == Spec => [](TypeOK /\ MapInv)
<1>1. HeapInv => TypeOK /\ MapInv
  BY DEF HeapInv
<1>. QED  BY <1>1, HeapInit, HeapStep, PTL DEF Spec

\* Whatever the threads do, occupancy_ is the sum of the sizes of the cached
\* resources and at most the capacity, so the unsigned capacity_ - occupancy_ of
\* the eviction loop and the subtraction in evictOne never wrap around.
THEOREM OccupancyNeverWraps == Spec => []OccupancyExact
BY HeapInit, HeapStep, OccupancyInit, OccupancyStep, PTL DEF Spec
----------------------------------------------------------------------------
(***************************************************************************)
(* One caller                                                              *)
(***************************************************************************)
\* The cache is used by one thread, as by a server with a single sub reactor.  With
\* more, the list operations under the shared lock interleave and the list breaks:
\* that is what the run "shared" shows.
SoleCaller == \E t : Threads = {t}

\* The first d entries of the history are evicted; the others are cached, each in
\* the node its path is mapped to, and nothing else is.
Caching(d) ==
    /\ \A i \in 1 .. Len(order) : mapping[order[i].url] = None <=> i <= d
    /\ \A i \in 1 .. Len(order) : i > d => entry[mapping[order[i].url]] = order[i]
    /\ \A i, j \in 1 .. Len(order) : order[i].url = order[j].url => i = j
    /\ \A u \in Urls : mapping[u] # None => \E i \in 1 .. Len(order) : order[i].url = u

\* The i-th place of a list of the entries from lo to hi between the sentinels.
At(lo, hi, i) ==
    IF i < lo THEN Header ELSE IF i > hi THEN Tailer ELSE mapping[order[i].url]

\* Such a list is linked forwards after, and backwards before, the places I.
NextLinks(lo, hi, I) == \A i \in I : next[At(lo, hi, i)] = At(lo, hi, i + 1)
PrevLinks(lo, hi, I) == \A i \in I : prev[At(lo, hi, i)] = At(lo, hi, i - 1)

\* The whole list is linked.
Linked(lo, hi) == NextLinks(lo, hi, lo - 1 .. hi) /\ PrevLinks(lo, hi, lo .. hi + 1)

\* The resource of a hit is the newest of the history from the start, and its node
\* is outside of the list of the others until it is linked at the end.
Moving(t) ==
    /\ Caching(0)
    /\ Len(order) > 0
    /\ local[t].node = mapping[order[Len(order)].url]
    /\ readers = {t} /\ writer = None

\* The neighbours read by removeFromList are those of a gap at k.
Gap(t, k) ==
    /\ local[t].before = At(1, Len(order) - 1, k - 1)
    /\ local[t].after = At(1, Len(order) - 1, k)

\* What the thread knows of the list at each of its labels.
IdleInv(t) == Caching(0) /\ Linked(1, Len(order)) /\ Quiet

UnlinkNextInv(t) ==
    /\ Moving(t)
    /\ \E k \in 1 .. Len(order) :
         /\ Gap(t, k)
         /\ NextLinks(1, Len(order) - 1, (0 .. Len(order) - 1) \ {k - 1})
         /\ PrevLinks(1, Len(order) - 1, (1 .. Len(order)) \ {k})

UnlinkPrevInv(t) ==
    /\ Moving(t)
    /\ \E k \in 1 .. Len(order) :
         /\ Gap(t, k)
         /\ NextLinks(1, Len(order) - 1, 0 .. Len(order) - 1)
         /\ PrevLinks(1, Len(order) - 1, (1 .. Len(order)) \ {k})

ReadTailInv(t) == Moving(t) /\ Linked(1, Len(order) - 1)

LinkNextInv(t) ==
    /\ Moving(t)
    /\ Linked(1, Len(order) - 1)
    /\ local[t].before = At(1, Len(order) - 1, Len(order) - 1)

LinkPrevInv(t) ==
    /\ Moving(t)
    /\ local[t].before = At(1, Len(order) - 1, Len(order) - 1)
    /\ NextLinks(1, Len(order), 0 .. Len(order) - 1)
    /\ PrevLinks(1, Len(order) - 1, 1 .. Len(order))

LinkNodeInv(t) ==
    /\ Moving(t)
    /\ local[t].before = At(1, Len(order) - 1, Len(order) - 1)
    /\ NextLinks(1, Len(order), 0 .. Len(order) - 1)
    /\ PrevLinks(1, Len(order), 1 .. Len(order) - 1)
    /\ prev[Tailer] = local[t].node

\* What the cache would hold after n evictions, with the new resource, is too much.
TooMuch(t, n) ==
    ~(LRUCache!Occupancy(SubSeq(order, n + 1, Len(order))) + local[t].new.size <= Capacity)

EvictingInv(t) ==
    /\ readers = {} /\ writer = t
    /\ \A i \in 1 .. Len(order) : order[i].url # local[t].new.url
    /\ \E d \in 0 .. Len(order) :
         /\ Caching(d)
         /\ Linked(d + 1, Len(order))
         /\ \A n \in 0 .. d - 1 : TooMuch(t, n)

ListInv ==
    \A t \in Threads :
        /\ pc[t] = "idle" => IdleInv(t)
        /\ pc[t] = "unlinkNext" => UnlinkNextInv(t)
        /\ pc[t] = "unlinkPrev" => UnlinkPrevInv(t)
        /\ pc[t] = "readTail" => ReadTailInv(t)
        /\ pc[t] = "linkNext" => LinkNextInv(t)
        /\ pc[t] = "linkPrev" => LinkPrevInv(t)
        /\ pc[t] = "linkNode" => LinkNodeInv(t)
        /\ pc[t] = "insert" => EvictingInv(t)
----------------------------------------------------------------------------
\* The entries of the history.
LEMMA OrderEntries ==
    ASSUME HeapInv
    PROVE  /\ Len(order) \in Nat /\ DOMAIN order = 1 .. Len(order)
           /\ \A i \in 1 .. Len(order) :
                 order[i] \in Entry /\ order[i].url \in Urls
                 /\ order[i].size \in Nat /\ order[i].size \in Int
<1>1. order \in Seq(Entry)
  BY DEF HeapInv, TypeOK
<1>2. \A i \in 1 .. Len(order) : order[i] \in Entry
  BY <1>1
<1>3. \A e \in Entry : e.url \in Urls /\ e.size \in Nat /\ e.size \in Int
  BY SizesAreNumbers DEF Entry
<1>. QED  BY <1>1, <1>2, <1>3

\* The places of a list are list nodes, all different.
LEMMA AtDistinct ==
    ASSUME HeapInv, NEW d \in Nat, Caching(d),
           NEW lo \in Nat, NEW hi \in Nat, d < lo, lo <= hi + 1, hi <= Len(order)
    PROVE  /\ \A i \in Int : At(lo, hi, i) \in List
           /\ \A i, j \in lo - 1 .. hi + 1 : At(lo, hi, i) = At(lo, hi, j) => i = j
<1>1. order \in Seq(Entry) /\ Len(order) \in Nat /\ mapping \in [Urls -> Nodes \cup {None}]
  BY DEF HeapInv, TypeOK
<1>2. \A i \in lo .. hi : i \in 1 .. Len(order) /\ i > d
  BY <1>1
<1>3. \A i \in lo .. hi : mapping[order[i].url] \in Nodes
  <2>1. \A i \in lo .. hi : mapping[order[i].url] # None
    BY <1>1, <1>2 DEF Caching
  <2>2. \A i \in lo .. hi : order[i].url \in Urls
    BY <1>2, OrderEntries
  <2>. QED  BY <1>1, <2>1, <2>2
<1>4. \A i, j \in lo .. hi : mapping[order[i].url] = mapping[order[j].url] => i = j
  <2>1. \A i \in lo .. hi : entry[mapping[order[i].url]] = order[i]
    BY <1>1, <1>2 DEF Caching
  <2>2. \A i, j \in lo .. hi : order[i].url = order[j].url => i = j
    BY <1>1, <1>2 DEF Caching
  <2>. QED  BY <2>1, <2>2
<1>5. ASSUME NEW i \in Int  PROVE At(lo, hi, i) \in List
  BY <1>3 DEF At, List
<1>6. ASSUME NEW i \in lo - 1 .. hi + 1, NEW j \in lo - 1 .. hi + 1,
             At(lo, hi, i) = At(lo, hi, j)
      PROVE  i = j
  <2>1. \A m \in lo - 1 .. hi + 1 :
           \/ m = lo - 1 /\ At(lo, hi, m) = Header
           \/ m \in lo .. hi /\ At(lo, hi, m) = mapping[order[m].url]
           \/ m = hi + 1 /\ At(lo, hi, m) = Tailer
    <3>1. ASSUME NEW m \in lo - 1 .. hi + 1
          PROVE  \/ m = lo - 1 /\ m < lo
                 \/ m \in lo .. hi /\ ~(m < lo) /\ ~(m > hi)
                 \/ m = hi + 1 /\ ~(m < lo) /\ m > hi
      OBVIOUS
    <3>. QED  BY <3>1 DEF At
  <2>2. Header # Tailer /\ Header \notin Nodes /\ Tailer \notin Nodes
    BY CacheAssumption
  <2>. QED  BY <1>3, <1>4, <1>6, <2>1, <2>2
<1>. QED  BY <1>5, <1>6

\* A step of the thread that leaves the map and the history alone leaves the
\* places where they are.
LEMMA AtSame ==
    ASSUME UNCHANGED <<mapping, order>>
    PROVE  \A lo, hi, i : At(lo, hi, i)' = At(lo, hi, i)
BY DEF At

\* A step that leaves the map, the entries, the history, the lock and the node
\* in hand alone leaves the thread in the middle of its move.
LEMMA MovingSame ==
    ASSUME NEW t \in Threads, Moving(t), UNCHANGED <<mapping, entry, order, readers, writer>>,
           local[t].node' = local[t].node
    PROVE  Moving(t)'
BY DEF Moving, Caching

\* The bounds of the list of a moving node.
LEMMA MovingBounds ==
    ASSUME HeapInv, NEW t \in Threads, Moving(t)
    PROVE  /\ Len(order) \in Nat /\ Len(order) >= 1
           /\ next \in [List -> List \cup {None}] /\ prev \in [List -> List \cup {None}]
           /\ \A i \in Int : At(1, Len(order) - 1, i) \in List
           /\ \A i, j \in 0 .. Len(order) :
                 At(1, Len(order) - 1, i) = At(1, Len(order) - 1, j) => i = j
<1>1. Len(order) \in Nat /\ Len(order) >= 1 /\ Caching(0)
  BY DEF HeapInv, TypeOK, Moving
<1>2. Len(order) - 1 \in Nat /\ 1 <= Len(order) - 1 + 1 /\ Len(order) - 1 <= Len(order)
      /\ 0 \in Nat /\ 1 \in Nat /\ 0 < 1
  BY <1>1
<1>3. /\ \A i \in Int : At(1, Len(order) - 1, i) \in List
      /\ \A i, j \in 1 - 1 .. (Len(order) - 1) + 1 :
            At(1, Len(order) - 1, i) = At(1, Len(order) - 1, j) => i = j
  BY <1>1, <1>2, AtDistinct
<1>. QED  BY <1>1, <1>3 DEF HeapInv, TypeOK

\* removeFromList closes the gap forwards ...
LEMMA UnlinkNextKeeps ==
    ASSUME HeapInv, NEW t \in Threads, UnlinkNextInv(t), UnlinkNext(t)
    PROVE  UnlinkPrevInv(t)'
<1>1. /\ next' = [next EXCEPT ![local[t].before] = local[t].after]
      /\ UNCHANGED <<mapping, entry, prev, readers, writer, local, order>>
  BY DEF UnlinkNext, lockVars
<1>2. Moving(t) /\ Moving(t)'
  BY <1>1, MovingSame DEF UnlinkNextInv
<1>3. PICK k \in 1 .. Len(order) :
         /\ Gap(t, k)
         /\ NextLinks(1, Len(order) - 1, (0 .. Len(order) - 1) \ {k - 1})
         /\ PrevLinks(1, Len(order) - 1, (1 .. Len(order)) \ {k})
  BY DEF UnlinkNextInv
<1>4. \A lo, hi, i : At(lo, hi, i)' = At(lo, hi, i)
  BY <1>1, AtSame
<1>5. Gap(t, k)' /\ PrevLinks(1, Len(order) - 1, (1 .. Len(order)) \ {k})'
  BY <1>1, <1>3, <1>4 DEF Gap, PrevLinks
<1>6. ASSUME NEW i \in 0 .. Len(order) - 1
      PROVE  next'[At(1, Len(order) - 1, i)] = At(1, Len(order) - 1, i + 1)
  <2>1. local[t].before = At(1, Len(order) - 1, k - 1) /\ local[t].after = At(1, Len(order) - 1, k)
    BY <1>3 DEF Gap
  <2>2. At(1, Len(order) - 1, i) \in List
    BY <1>2, MovingBounds
  <2>3. CASE i = k - 1
    BY <1>1, <1>2, <2>1, <2>2, <2>3, MovingBounds
  <2>4. CASE i # k - 1
    <3>1. At(1, Len(order) - 1, i) # At(1, Len(order) - 1, k - 1)
      BY <1>2, <2>4, MovingBounds
    <3>2. next'[At(1, Len(order) - 1, i)] = next[At(1, Len(order) - 1, i)]
      BY <1>1, <1>2, <2>1, <2>2, <3>1, MovingBounds
    <3>. QED  BY <1>3, <2>4, <3>2 DEF NextLinks
  <2>. QED  BY <2>3, <2>4
<1>7. NextLinks(1, Len(order) - 1, 0 .. Len(order) - 1)'
  BY <1>1, <1>4, <1>6 DEF NextLinks
<1>. QED  BY <1>1, <1>2, <1>5, <1>7 DEF UnlinkPrevInv

\* ... and backwards,
LEMMA UnlinkPrevKeeps ==
    ASSUME HeapInv, NEW t \in Threads, UnlinkPrevInv(t), UnlinkPrev(t)
    PROVE  ReadTailInv(t)'
<1>1. /\ prev' = [prev EXCEPT ![local[t].after] = local[t].before]
      /\ UNCHANGED <<mapping, entry, next, readers, writer, local, order>>
  BY DEF UnlinkPrev, lockVars
<1>2. Moving(t) /\ Moving(t)'
  BY <1>1, MovingSame DEF UnlinkPrevInv
<1>3. PICK k \in 1 .. Len(order) :
         /\ Gap(t, k)
         /\ NextLinks(1, Len(order) - 1, 0 .. Len(order) - 1)
         /\ PrevLinks(1, Len(order) - 1, (1 .. Len(order)) \ {k})
  BY DEF UnlinkPrevInv
<1>4. \A lo, hi, i : At(lo, hi, i)' = At(lo, hi, i)
  BY <1>1, AtSame
<1>5. NextLinks(1, Len(order) - 1, 0 .. Len(order) - 1)'
  BY <1>1, <1>3, <1>4 DEF NextLinks
<1>6. ASSUME NEW i \in 1 .. Len(order)
      PROVE  prev'[At(1, Len(order) - 1, i)] = At(1, Len(order) - 1, i - 1)
  <2>1. local[t].before = At(1, Len(order) - 1, k - 1) /\ local[t].after = At(1, Len(order) - 1, k)
    BY <1>3 DEF Gap
  <2>2. At(1, Len(order) - 1, i) \in List
    BY <1>2, MovingBounds
  <2>3. CASE i = k
    BY <1>1, <1>2, <2>1, <2>2, <2>3, MovingBounds
  <2>4. CASE i # k
    <3>1. At(1, Len(order) - 1, i) # At(1, Len(order) - 1, k)
      BY <1>2, <2>4, MovingBounds
    <3>2. prev'[At(1, Len(order) - 1, i)] = prev[At(1, Len(order) - 1, i)]
      BY <1>1, <1>2, <2>1, <2>2, <3>1, MovingBounds
    <3>. QED  BY <1>3, <2>4, <3>2 DEF PrevLinks
  <2>. QED  BY <2>3, <2>4
<1>7. PrevLinks(1, Len(order) - 1, 1 .. Len(order))'
  BY <1>1, <1>4, <1>6 DEF PrevLinks
<1>8. Len(order) \in Nat /\ 1 - 1 = 0 /\ Len(order) - 1 + 1 = Len(order)
  BY <1>2, MovingBounds
<1>9. Linked(1, Len(order) - 1)'
  BY <1>1, <1>5, <1>7, <1>8 DEF Linked
<1>. QED  BY <1>2, <1>9 DEF ReadTailInv

\* appendToTail reads the last node of the list,
LEMMA ReadTailKeeps ==
    ASSUME HeapInv, NEW t \in Threads, ReadTailInv(t), ReadTail(t)
    PROVE  LinkNextInv(t)'
<1>1. /\ local' = [local EXCEPT ![t].before = prev[Tailer]]
      /\ UNCHANGED <<mapping, entry, next, prev, readers, writer, order>>
  BY DEF ReadTail, lockVars, heapVars
<1>2. local'[t].before = prev[Tailer] /\ local'[t].node = local[t].node
  BY <1>1 DEF HeapInv, TypeOK
<1>3. Moving(t) /\ Moving(t)'
  BY <1>1, <1>2, MovingSame DEF ReadTailInv
<1>4. \A lo, hi, i : At(lo, hi, i)' = At(lo, hi, i)
  BY <1>1, AtSame
<1>5. Linked(1, Len(order) - 1)'
  BY <1>1, <1>4 DEF ReadTailInv, Linked, NextLinks, PrevLinks
<1>6. Len(order) \in Nat /\ Len(order) >= 1
  BY <1>3, MovingBounds
<1>7. At(1, Len(order) - 1, Len(order)) = Tailer
  BY <1>6 DEF At
<1>8. prev[At(1, Len(order) - 1, Len(order))] = At(1, Len(order) - 1, Len(order) - 1)
  BY <1>6 DEF ReadTailInv, Linked, PrevLinks
<1>. QED  BY <1>1, <1>2, <1>3, <1>4, <1>5, <1>7, <1>8 DEF LinkNextInv

\* The place of the moving node is one after the others.
LEMMA MovingLast ==
    ASSUME HeapInv, NEW t \in Threads, Moving(t)
    PROVE  /\ \A i \in Int : i < Len(order) => At(1, Len(order), i) = At(1, Len(order) - 1, i)
           /\ At(1, Len(order), Len(order)) = local[t].node
           /\ At(1, Len(order), Len(order) + 1) = Tailer
           /\ At(1, Len(order) - 1, Len(order)) = Tailer
           /\ \A i, j \in 0 .. Len(order) + 1 :
                 At(1, Len(order), i) = At(1, Len(order), j) => i = j
           /\ \A i \in Int : At(1, Len(order), i) \in List
<1>1. Len(order) \in Nat /\ Len(order) >= 1 /\ Caching(0)
      /\ local[t].node = mapping[order[Len(order)].url]
  BY DEF HeapInv, TypeOK, Moving
<1>2. 1 <= Len(order) + 1 /\ Len(order) <= Len(order) /\ 0 \in Nat /\ 1 \in Nat /\ 0 < 1
  BY <1>1
<1>3. /\ \A i \in Int : At(1, Len(order), i) \in List
      /\ \A i, j \in 1 - 1 .. Len(order) + 1 : At(1, Len(order), i) = At(1, Len(order), j) => i = j
  BY <1>1, <1>2, AtDistinct
<1>4. \A i \in Int : i < Len(order) => At(1, Len(order), i) = At(1, Len(order) - 1, i)
  BY <1>1 DEF At
<1>5. /\ At(1, Len(order), Len(order)) = local[t].node
      /\ At(1, Len(order), Len(order) + 1) = Tailer
      /\ At(1, Len(order) - 1, Len(order)) = Tailer
  BY <1>1 DEF At
<1>. QED  BY <1>3, <1>4, <1>5

\* links the node behind it,
LEMMA LinkNextKeeps ==
    ASSUME HeapInv, NEW t \in Threads, LinkNextInv(t), LinkNext(t)
    PROVE  LinkPrevInv(t)'
<1>1. /\ next' = [next EXCEPT ![local[t].before] = local[t].node]
      /\ UNCHANGED <<mapping, entry, prev, readers, writer, local, order>>
  BY DEF LinkNext, lockVars
<1>2. Moving(t) /\ Moving(t)'
  BY <1>1, MovingSame DEF LinkNextInv
<1>3. \A lo, hi, i : At(lo, hi, i)' = At(lo, hi, i)
  BY <1>1, AtSame
<1>4. Len(order) \in Nat /\ Len(order) >= 1 /\ next \in [List -> List \cup {None}]
  BY <1>2, MovingBounds
<1>5. PrevLinks(1, Len(order) - 1, 1 .. Len(order))'
  BY <1>1, <1>3, <1>4 DEF LinkNextInv, Linked, PrevLinks
<1>6. local[t].before = At(1, Len(order), Len(order) - 1)
  BY <1>2, <1>4, MovingLast DEF LinkNextInv
<1>7. ASSUME NEW i \in 0 .. Len(order) - 1
      PROVE  next'[At(1, Len(order), i)] = At(1, Len(order), i + 1)
  <2>1. At(1, Len(order), i) \in List
    BY <1>2, MovingLast
  <2>2. CASE i = Len(order) - 1
    <3>1. At(1, Len(order), i + 1) = local[t].node
      BY <1>2, <1>4, <2>2, MovingLast
    <3>. QED  BY <1>1, <1>4, <1>6, <2>1, <2>2, <3>1
  <2>3. CASE i # Len(order) - 1
    <3>1. At(1, Len(order), i) # At(1, Len(order), Len(order) - 1)
      BY <1>2, <1>4, <2>3, MovingLast
    <3>2. next'[At(1, Len(order), i)] = next[At(1, Len(order), i)]
      BY <1>1, <1>4, <1>6, <2>1, <3>1
    <3>3. /\ At(1, Len(order), i) = At(1, Len(order) - 1, i)
          /\ At(1, Len(order), i + 1) = At(1, Len(order) - 1, i + 1)
      BY <1>2, <1>4, <2>3, MovingLast
    <3>4. next[At(1, Len(order) - 1, i)] = At(1, Len(order) - 1, i + 1)
      BY <1>4 DEF LinkNextInv, Linked, NextLinks
    <3>. QED  BY <3>2, <3>3, <3>4
  <2>. QED  BY <2>2, <2>3
<1>8. NextLinks(1, Len(order), 0 .. Len(order) - 1)'
  BY <1>1, <1>3, <1>7 DEF NextLinks
<1>. QED  BY <1>1, <1>2, <1>3, <1>5, <1>8 DEF LinkPrevInv, LinkNextInv

\* makes the sentinel point back at it,
LEMMA LinkPrevKeeps ==
    ASSUME HeapInv, NEW t \in Threads, LinkPrevInv(t), LinkPrev(t)
    PROVE  LinkNodeInv(t)'
<1>1. /\ prev' = [prev EXCEPT ![Tailer] = local[t].node]
      /\ UNCHANGED <<mapping, entry, next, readers, writer, local, order>>
  BY DEF LinkPrev, lockVars
<1>2. Moving(t) /\ Moving(t)'
  BY <1>1, MovingSame DEF LinkPrevInv
<1>3. \A lo, hi, i : At(lo, hi, i)' = At(lo, hi, i)
  BY <1>1, AtSame
<1>4. Len(order) \in Nat /\ Len(order) >= 1 /\ prev \in [List -> List \cup {None}]
  BY <1>2, MovingBounds
<1>5. NextLinks(1, Len(order), 0 .. Len(order) - 1)'
  BY <1>1, <1>3 DEF LinkPrevInv, NextLinks
<1>6. prev'[Tailer] = local[t].node
  BY <1>1, <1>4 DEF List
<1>7. ASSUME NEW i \in 1 .. Len(order) - 1
      PROVE  prev'[At(1, Len(order), i)] = At(1, Len(order), i - 1)
  <2>1. At(1, Len(order), i) # At(1, Len(order), Len(order) + 1)
    BY <1>2, <1>4, MovingLast
  <2>2. At(1, Len(order), i) # Tailer
    BY <1>2, <2>1, MovingLast
  <2>3. /\ At(1, Len(order), i) = At(1, Len(order) - 1, i)
        /\ At(1, Len(order), i - 1) = At(1, Len(order) - 1, i - 1)
    BY <1>2, <1>4, MovingLast
  <2>4. prev[At(1, Len(order) - 1, i)] = At(1, Len(order) - 1, i - 1)
    BY <1>4 DEF LinkPrevInv, PrevLinks
  <2>. QED  BY <1>1, <1>4, <2>2, <2>3, <2>4
<1>8. PrevLinks(1, Len(order), 1 .. Len(order) - 1)'
  BY <1>1, <1>3, <1>7 DEF PrevLinks
<1>. QED  BY <1>1, <1>2, <1>3, <1>5, <1>6, <1>8 DEF LinkNodeInv, LinkPrevInv

\* and sets the node's own pointers: the list is whole again.
LEMMA LinkNodeKeeps ==
    ASSUME HeapInv, NEW t \in Threads, LinkNodeInv(t), LinkNode(t)
    PROVE  IdleInv(t)'
<1>1. /\ prev' = [prev EXCEPT ![local[t].node] = local[t].before]
      /\ next' = [next EXCEPT ![local[t].node] = Tailer]
      /\ readers' = readers \ {t}
      /\ UNCHANGED <<mapping, entry, writer, order>>
  BY DEF LinkNode
<1>2. Moving(t) /\ Caching(0)' /\ Quiet'
  BY <1>1 DEF LinkNodeInv, Moving, Caching, Quiet
<1>3. \A lo, hi, i : At(lo, hi, i)' = At(lo, hi, i)
  BY <1>1, AtSame
<1>4. Len(order) \in Nat /\ Len(order) >= 1
      /\ prev \in [List -> List \cup {None}] /\ next \in [List -> List \cup {None}]
  BY <1>2, MovingBounds
<1>5. local[t].node = At(1, Len(order), Len(order)) /\ local[t].node \in List
  BY <1>2, <1>4, MovingLast
<1>6. ASSUME NEW i \in 0 .. Len(order)
      PROVE  next'[At(1, Len(order), i)] = At(1, Len(order), i + 1)
  <2>1. CASE i = Len(order)
    BY <1>1, <1>2, <1>4, <1>5, <2>1, MovingLast
  <2>2. CASE i # Len(order)
    <3>1. At(1, Len(order), i) # local[t].node /\ At(1, Len(order), i) \in List
      BY <1>2, <1>4, <1>5, <2>2, MovingLast
    <3>2. next[At(1, Len(order), i)] = At(1, Len(order), i + 1)
      BY <1>4, <2>2 DEF LinkNodeInv, NextLinks
    <3>. QED  BY <1>1, <1>4, <3>1, <3>2
  <2>. QED  BY <2>1, <2>2
<1>7. ASSUME NEW i \in 1 .. Len(order) + 1
      PROVE  prev'[At(1, Len(order), i)] = At(1, Len(order), i - 1)
  <2>1. CASE i = Len(order)
    <3>1. local[t].before = At(1, Len(order), i - 1)
      BY <1>2, <1>4, <2>1, MovingLast DEF LinkNodeInv
    <3>. QED  BY <1>1, <1>4, <1>5, <2>1, <3>1
  <2>2. CASE i # Len(order)
    <3>1. At(1, Len(order), i) # local[t].node /\ At(1, Len(order), i) \in List
      BY <1>2, <1>4, <1>5, <2>2, MovingLast
    <3>2. prev'[At(1, Len(order), i)] = prev[At(1, Len(order), i)]
      BY <1>1, <1>4, <3>1
    <3>3. CASE i = Len(order) + 1
      <4>1. At(1, Len(order), i) = Tailer /\ At(1, Len(order), i - 1) = local[t].node
        BY <1>2, <1>4, <1>5, <3>3, MovingLast
      <4>. QED  BY <3>2, <4>1 DEF LinkNodeInv
    <3>4. CASE i # Len(order) + 1
      BY <1>4, <2>2, <3>2, <3>4 DEF LinkNodeInv, PrevLinks
    <3>. QED  BY <3>3, <3>4
  <2>. QED  BY <2>1, <2>2
<1>8. Linked(1, Len(order))'
  BY <1>1, <1>3, <1>4, <1>6, <1>7 DEF Linked, NextLinks, PrevLinks
<1>. QED  BY <1>2, <1>8 DEF IdleInv

\* The entry at place i of s has gone to the end.
IsMoved(s, i, moved) ==
    /\ Len(moved) = Len(s)
    /\ \A j \in 1 .. Len(s) : j < i => moved[j] = s[j]
    /\ \A j \in 1 .. Len(s) : i <= j /\ j < Len(s) => moved[j] = s[j + 1]
    /\ moved[Len(s)] = s[i]

\* That is what a hit at place i does to the history.
LEMMA MovedToEnd ==
    ASSUME NEW s \in Seq(Entry), NEW i \in 1 .. Len(s), NEW moved,
           moved = Append(RemoveAt(s, i), s[i])
    PROVE  IsMoved(s, i, moved)
<1>1. Len(s) \in Nat /\ Len(s) >= 1 /\ i - 1 \in Nat /\ i + 1 \in Nat
  OBVIOUS
<1> DEFINE a == SubSeq(s, 1, i - 1)
           b == SubSeq(s, i + 1, Len(s))
<1>2. a \in Seq(Entry) /\ Len(a) = i - 1 /\ \A j \in 1 .. i - 1 : a[j] = s[j]
  BY <1>1
<1>3. b \in Seq(Entry) /\ Len(b) = Len(s) - i /\ \A j \in 1 .. Len(s) - i : b[j] = s[i + j]
  <2>1. \A j \in i + 1 .. Len(s) : s[j] \in Entry
    BY <1>1
  <2>2. /\ b \in Seq(Entry)
        /\ Len(b) = IF i + 1 <= Len(s) THEN Len(s) - (i + 1) + 1 ELSE 0
        /\ \A j \in 1 .. Len(s) - (i + 1) + 1 : b[j] = s[(i + 1) + j - 1]
    BY <1>1, <2>1, SubSeqProperties
  <2>. HIDE DEF b
  <2>. QED  BY <1>1, <2>2
<1>4. RemoveAt(s, i) = a \o b
  BY DEF RemoveAt
<1>. HIDE DEF a, b
<1>5. /\ a \o b \in Seq(Entry) /\ Len(a \o b) = Len(s) - 1
      /\ \A j \in 1 .. Len(s) - 1 : (a \o b)[j] = IF j <= i - 1 THEN a[j] ELSE b[j - (i - 1)]
  BY <1>1, <1>2, <1>3
<1>6. PICK r \in Seq(Entry) :
        /\ moved = Append(r, s[i]) /\ Len(r) = Len(s) - 1
        /\ \A j \in 1 .. Len(s) - 1 : r[j] = IF j <= i - 1 THEN a[j] ELSE b[j - (i - 1)]
  BY <1>4, <1>5
<1>7. Len(moved) = Len(s) /\ moved[Len(s)] = s[i] /\ \A j \in 1 .. Len(s) - 1 : moved[j] = r[j]
  BY <1>1, <1>6
<1>8. \A j \in 1 .. Len(s) : j < i => moved[j] = s[j]
  <2> SUFFICES ASSUME NEW j \in 1 .. Len(s), j < i  PROVE moved[j] = s[j]
    OBVIOUS
  <2>1. j \in 1 .. Len(s) - 1 /\ j <= i - 1 /\ j \in 1 .. i - 1
    BY <1>1
  <2>. QED  BY <1>2, <1>6, <1>7, <2>1
<1>9. ASSUME NEW j \in 1 .. Len(s), i <= j, j < Len(s)  PROVE moved[j] = s[j + 1]
  <2>1. j \in 1 .. Len(s) - 1 /\ ~(j <= i - 1) /\ j - (i - 1) \in 1 .. Len(s) - i
        /\ i + (j - (i - 1)) = j + 1
    BY <1>1, <1>9
  <2>. QED  BY <1>3, <1>6, <1>7, <2>1
<1>. QED  BY <1>7, <1>8, <1>9 DEF IsMoved

\* A hit makes its entry the newest and leaves a gap where its node was.
LEMMA HitKeeps ==
    ASSUME HeapInv, NEW t \in Threads, IdleInv(t), Hit(t)
    PROVE  /\ UnlinkNextInv(t)'
           /\ \E u \in Urls : \E i \in DOMAIN order :
                order[i].url = u /\ order' = Append(RemoveAt(order, i), order[i])
<1>0. PICK L \in Nat : L = Len(order)
  BY OrderEntries
<1>1. order \in Seq(Entry) /\ L \in Nat /\ DOMAIN order = 1 .. L /\ Caching(0) /\ Linked(1, L)
  BY <1>0, OrderEntries DEF HeapInv, TypeOK, IdleInv
<1>2. PICK u \in Urls, i \in 1 .. L :
        /\ mapping[u] # None /\ order[i].url = u
        /\ local' = [local EXCEPT ![t] = [node |-> mapping[u], before |-> prev[mapping[u]],
                                          after |-> next[mapping[u]], new |-> NoEntry]]
        /\ order' = Append(RemoveAt(order, i), entry[mapping[u]])
  BY <1>1 DEF Hit
<1>3. UNCHANGED <<mapping, entry, next, prev, writer>> /\ readers' = readers \cup {t}
  BY DEF Hit, heapVars
<1>4. entry[mapping[u]] = order[i]
  BY <1>0, <1>1, <1>2 DEF Caching
<1>5. order' = Append(RemoveAt(order, i), order[i])
  BY <1>2, <1>4
<1>6. PICK moved : moved = order'
  OBVIOUS
<1>7. /\ Len(moved) = L
      /\ \A j \in 1 .. L : j < i => moved[j] = order[j]
      /\ \A j \in 1 .. L : i <= j /\ j < L => moved[j] = order[j + 1]
      /\ moved[L] = order[i]
  <2>1. i \in 1 .. Len(order) /\ moved = Append(RemoveAt(order, i), order[i])
    BY <1>0, <1>5, <1>6
  <2>2. /\ Len(moved) = Len(order)
        /\ \A j \in 1 .. Len(order) : j < i => moved[j] = order[j]
        /\ \A j \in 1 .. Len(order) : i <= j /\ j < Len(order) => moved[j] = order[j + 1]
        /\ moved[Len(order)] = order[i]
    <3>1. IsMoved(order, i, moved)
      BY <1>1, <2>1, MovedToEnd
    <3>. QED  BY <3>1 DEF IsMoved
  <2>. QED  BY <1>0, <2>2
<1>8. PICK p \in [1 .. L -> 1 .. L] :
        /\ \A j \in 1 .. L : p[j] \in 1 .. L /\ moved[j] = order[p[j]]
        /\ \A j, k \in 1 .. L : p[j] = p[k] => j = k
        /\ \A j \in 1 .. L : \E k \in 1 .. L : p[k] = j
  <2> DEFINE p == [j \in 1 .. L |-> IF j < i THEN j ELSE IF j < L THEN j + 1 ELSE i]
  <2>1. p \in [1 .. L -> 1 .. L]
    BY <1>1
  <2>2. \A j \in 1 .. L : moved[j] = order[p[j]]
    BY <1>1, <1>7
  <2>3. \A j, k \in 1 .. L : p[j] = p[k] => j = k
    BY <1>1
  <2>4. ASSUME NEW j \in 1 .. L  PROVE \E k \in 1 .. L : p[k] = j
    <3>1. CASE j < i
      BY <1>1, <3>1
    <3>2. CASE j = i
      <4>1. L \in 1 .. L /\ p[L] = i
        BY <1>1
      <4>. QED  BY <3>2, <4>1
    <3>3. CASE j > i
      <4>1. j - 1 \in 1 .. L /\ p[j - 1] = j
        BY <1>1, <3>3
      <4>. QED  BY <4>1
    <3>. QED  BY <1>1, <3>1, <3>2, <3>3
  <2>. HIDE DEF p
  <2>. QED  BY <2>1, <2>2, <2>3, <2>4
<1>9. Caching(0)'
  <2>0. /\ \A j \in 1 .. L : mapping[order[j].url] # None
        /\ \A j \in 1 .. L : entry[mapping[order[j].url]] = order[j]
        /\ \A j, k \in 1 .. L : order[j].url = order[k].url => j = k
        /\ \A v \in Urls : mapping[v] # None => \E j \in 1 .. L : order[j].url = v
    BY <1>0, <1>1 DEF Caching
  <2>1. ASSUME NEW j \in 1 .. L  PROVE mapping[moved[j].url] = None <=> j <= 0
    <3>1. PICK k \in 1 .. L : moved[j] = order[k]
      BY <1>8
    <3>2. mapping[moved[j].url] # None
      BY <2>0, <3>1
    <3>. QED  BY <3>2
  <2>2. ASSUME NEW j \in 1 .. L  PROVE entry[mapping[moved[j].url]] = moved[j]
    <3>1. PICK k \in 1 .. L : moved[j] = order[k]
      BY <1>8
    <3>. QED  BY <2>0, <3>1
  <2>3. ASSUME NEW j \in 1 .. L, NEW k \in 1 .. L, moved[j].url = moved[k].url  PROVE j = k
    <3>1. PICK pj \in 1 .. L : pj = p[j] /\ moved[j] = order[pj]
      BY <1>8
    <3>2. PICK pk \in 1 .. L : pk = p[k] /\ moved[k] = order[pk]
      BY <1>8
    <3>3. order[pj].url = order[pk].url
      BY <2>3, <3>1, <3>2
    <3>4. pj = pk
      BY <2>0, <3>3, Zenon
    <3>5. p[j] = p[k]
      BY <3>1, <3>2, <3>4
    <3>. QED  BY <1>8, <3>5, Zenon
  <2>4. ASSUME NEW v \in Urls, mapping[v] # None  PROVE \E j \in 1 .. L : moved[j].url = v
    <3>1. PICK k \in 1 .. L : order[k].url = v
      BY <2>0, <2>4
    <3>2. PICK j \in 1 .. L : p[j] = k /\ moved[j] = order[p[j]]
      BY <1>8
    <3>. QED  BY <3>1, <3>2
  <2>. QED  BY <1>3, <1>6, <1>7, <2>1, <2>2, <2>3, <2>4 DEF Caching
<1>10. /\ local'[t].node = mapping[u] /\ local'[t].before = prev[mapping[u]]
       /\ local'[t].after = next[mapping[u]]
  BY <1>2 DEF HeapInv, TypeOK
<1>11. Moving(t)'
  <2>1. readers = {} /\ writer = None
    BY DEF IdleInv, Quiet
  <2>2. Len(moved) > 0 /\ moved[Len(moved)] = order[i]
    BY <1>1, <1>7
  <2>. QED  BY <1>2, <1>3, <1>6, <1>9, <1>10, <2>1, <2>2 DEF Moving
<1>12. ASSUME NEW j \in 0 .. L
       PROVE  At(1, L - 1, j)' = IF j < i THEN At(1, L, j) ELSE At(1, L, j + 1)
  <2>1. CASE j = 0
    BY <1>1, <2>1 DEF At
  <2>2. CASE j > 0 /\ j < i
    <3>1. j \in 1 .. L /\ ~(j < 1) /\ ~(j > L - 1) /\ ~(j > L) /\ j < i
      BY <1>1, <2>2
    <3>2. moved[j] = order[j]
      BY <1>7, <3>1
    <3>3. At(1, L - 1, j)' = mapping[order[j].url]
      BY <1>3, <1>6, <3>1, <3>2 DEF At
    <3>4. At(1, L, j) = mapping[order[j].url]
      BY <3>1 DEF At
    <3>. QED  BY <3>1, <3>3, <3>4
  <2>3. CASE i <= j /\ j < L
    <3>0. /\ ~(j < 1) /\ ~(j > L - 1) /\ ~(j + 1 < 1) /\ ~(j + 1 > L) /\ ~(j < i)
          /\ j \in 1 .. L
      BY <1>1, <2>3
    <3>1. /\ ~(j < 1) /\ ~(j > L - 1) /\ ~(j + 1 < 1) /\ ~(j + 1 > L) /\ ~(j < i)
          /\ moved[j] = order[j + 1]
      BY <1>7, <2>3, <3>0
    <3>2. At(1, L - 1, j)' = mapping[order[j + 1].url]
      BY <1>3, <1>6, <3>1 DEF At
    <3>3. At(1, L, j + 1) = mapping[order[j + 1].url]
      BY <3>1 DEF At
    <3>. QED  BY <3>1, <3>2, <3>3
  <2>4. CASE j = L /\ ~(j < i)
    BY <1>1, <2>4 DEF At
  <2>. QED  BY <1>1, <2>1, <2>2, <2>3, <2>4
<1>13. mapping[u] = At(1, L, i)
  BY <1>1, <1>2 DEF At
<1>14. /\ \A j \in 0 .. L : next[At(1, L, j)] = At(1, L, j + 1)
       /\ \A j \in 1 .. L + 1 : prev[At(1, L, j)] = At(1, L, j - 1)
  <2>1. 1 - 1 = 0
    OBVIOUS
  <2>. QED  BY <1>1, <2>1 DEF Linked, NextLinks, PrevLinks
<1>15. PICK at : at = [j \in 0 .. L |-> At(1, L - 1, j)']
  OBVIOUS
<1>16. \A j \in 0 .. L : /\ At(1, L - 1, j)' = at[j]
                         /\ j < i => at[j] = At(1, L, j)
                         /\ j >= i => at[j] = At(1, L, j + 1)
  BY <1>1, <1>12, <1>15
<1>17. Gap(t, i)'
  <2>0. i \in 0 .. L /\ i \in 1 .. L + 1 /\ i - 1 \in 0 .. L /\ i - 1 < i /\ i >= i
    BY <1>1
  <2>1. local'[t].before = At(1, L, i - 1) /\ local'[t].after = At(1, L, i + 1)
    BY <1>10, <1>13, <1>14, <2>0
  <2>2. at[i - 1] = At(1, L, i - 1) /\ at[i] = At(1, L, i + 1)
    BY <1>16, <2>0
  <2>3. At(1, L - 1, i - 1)' = at[i - 1] /\ At(1, L - 1, i)' = at[i]
    BY <1>16, <2>0
  <2>. QED  BY <1>6, <1>7, <2>1, <2>2, <2>3 DEF Gap
<1>18. NextLinks(1, Len(order) - 1, (0 .. Len(order) - 1) \ {i - 1})'
  <2>1. ASSUME NEW j \in (0 .. L - 1) \ {i - 1}
        PROVE  next[at[j]] = at[j + 1]
    <3>0. j \in 0 .. L /\ j + 1 \in 0 .. L
      BY <1>1
    <3>1. CASE j < i - 1
      <4>1. j < i /\ j + 1 < i
        BY <3>1
      <4>2. at[j] = At(1, L, j) /\ at[j + 1] = At(1, L, j + 1)
        BY <1>16, <3>0, <4>1
      <4>. QED  BY <1>14, <3>0, <4>2
    <3>2. CASE j > i - 1
      <4>0. j >= i /\ j + 1 >= i
        BY <3>2
      <4>1. at[j] = At(1, L, j + 1) /\ at[j + 1] = At(1, L, j + 1 + 1)
        BY <1>16, <3>0, <4>0
      <4>2. j + 1 \in 0 .. L
        BY <1>1
      <4>. QED  BY <1>14, <4>1, <4>2
    <3>. QED  BY <1>1, <3>1, <3>2
  <2>2. ASSUME NEW j \in (0 .. L - 1) \ {i - 1}
        PROVE  next'[At(1, L - 1, j)'] = At(1, L - 1, j + 1)'
    <3>1. j \in 0 .. L /\ j + 1 \in 0 .. L
      BY <1>1
    <3>. QED  BY <1>3, <1>16, <2>1, <3>1
  <2>. QED  BY <1>6, <1>7, <2>2 DEF NextLinks
<1>19. PrevLinks(1, Len(order) - 1, (1 .. Len(order)) \ {i})'
  <2>1. ASSUME NEW j \in (1 .. L) \ {i}
        PROVE  prev[at[j]] = at[j - 1]
    <3>1. CASE j < i
      <4>1. at[j] = At(1, L, j) /\ at[j - 1] = At(1, L, j - 1)
        BY <1>1, <1>16, <3>1
      <4>. QED  BY <1>1, <1>14, <4>1
    <3>2. CASE j > i
      <4>0. j \in 0 .. L /\ j >= i /\ j - 1 \in 0 .. L /\ j - 1 >= i /\ j - 1 + 1 = j
        BY <1>1, <3>2
      <4>1. at[j] = At(1, L, j + 1) /\ at[j - 1] = At(1, L, j)
        BY <1>16, <4>0
      <4>2. j + 1 \in 1 .. L + 1 /\ j + 1 - 1 = j
        BY <1>1
      <4>. QED  BY <1>14, <4>1, <4>2
    <3>. QED  BY <1>1, <3>1, <3>2
  <2>2. ASSUME NEW j \in (1 .. L) \ {i}
        PROVE  prev'[At(1, L - 1, j)'] = At(1, L - 1, j - 1)'
    <3>1. j \in 0 .. L /\ j - 1 \in 0 .. L
      BY <1>1
    <3>. QED  BY <1>3, <1>16, <2>1, <3>1
  <2>. QED  BY <1>6, <1>7, <2>2 DEF PrevLinks
<1>20. i \in 1 .. Len(order')
  BY <1>6, <1>7
<1>21. UnlinkNextInv(t)'
  BY <1>11, <1>17, <1>18, <1>19, <1>20 DEF UnlinkNextInv
<1>. QED  BY <1>1, <1>2, <1>5, <1>21
----------------------------------------------------------------------------
\* The occupancy of the abstract cache is a sum over the places of its sequence.
LEMMA OccupancyIs ==
    ASSUME NEW s
    PROVE  LRUCache!Occupancy(s) = SumFunctionOnSet([i \in DOMAIN s |-> s[i].size], DOMAIN s)
<1>1. DOMAIN [i \in DOMAIN s |-> s[i].size] = DOMAIN s
  OBVIOUS
<1>. QED  BY <1>1 DEF LRUCache!Occupancy, LRUCache!SumFunction, LRUCache!SumFunctionOnSet,
                LRUCache!FoldFunctionOnSet, LRUCache!MapThenFoldSet,
                SumFunctionOnSet, FoldFunctionOnSet, MapThenFoldSet

\* What is left after d evictions is what the nodes in use hold.
LEMMA OccupancyOfRest ==
    ASSUME HeapInv, OccupancyExact, NEW d \in 0 .. Len(order), Caching(d)
    PROVE  LRUCache!Occupancy(SubSeq(order, d + 1, Len(order))) = occupancy
<1>1. PICK L \in Nat : L = Len(order)
  BY OrderEntries
<1>2. order \in Seq(Entry) /\ d \in Nat /\ d <= L
  BY <1>1 DEF HeapInv, TypeOK
<1>3. PICK s : s = SubSeq(order, d + 1, Len(order))
  OBVIOUS
<1>4. s \in Seq(Entry) /\ Len(s) = L - d /\ \A i \in 1 .. L - d : s[i] = order[d + i]
  <2>1. \A i \in d + 1 .. L : order[i] \in Entry
    BY <1>1, <1>2, OrderEntries
  <2>2. /\ SubSeq(order, d + 1, L) \in Seq(Entry)
        /\ Len(SubSeq(order, d + 1, L)) = IF d + 1 <= L THEN L - (d + 1) + 1 ELSE 0
        /\ \A i \in 1 .. L - (d + 1) + 1 : SubSeq(order, d + 1, L)[i] = order[(d + 1) + i - 1]
    BY <1>2, <2>1, SubSeqProperties
  <2>3. \A i \in 1 .. L - d : (d + 1) + i - 1 = d + i
    BY <1>2
  <2>4. L - (d + 1) + 1 = L - d
    BY <1>2
  <2>. QED  BY <1>1, <1>2, <1>3, <2>2, <2>3, <2>4
<1>5. DOMAIN s = 1 .. L - d /\ IsFiniteSet(1 .. L - d)
  <2>1. DOMAIN s = 1 .. L - d
    BY <1>2, <1>4
  <2>2. 1 \in Int /\ L - d \in Int
    BY <1>2
  <2>. QED  BY <2>1, <2>2, FS_Interval
<1> DEFINE f == [i \in 1 .. L - d |-> s[i].size]
           h == [i \in 1 .. L - d |-> mapping[order[d + i].url]]
<1>6. \A i \in 1 .. L - d : d + i \in 1 .. L /\ d + i > d
  BY <1>2
<1>7. \A i \in 1 .. L - d : f[i] = order[d + i].size /\ f[i] \in Int
  BY <1>1, <1>4, <1>6, OrderEntries
<1>8. ASSUME NEW i \in 1 .. L - d
      PROVE  h[i] \in Allocated /\ entry[h[i]] = order[d + i]
  <2>1. PICK j \in 1 .. L : j = d + i /\ j > d
    BY <1>6
  <2>2. mapping[order[j].url] # None /\ entry[mapping[order[j].url]] = order[j]
    BY <1>1, <1>2, <2>1 DEF Caching
  <2>3. order[j].url \in Urls
    BY <1>1, OrderEntries
  <2>. QED  BY <2>1, <2>2, <2>3 DEF Allocated
<1>9. ASSUME NEW i \in 1 .. L - d, NEW j \in 1 .. L - d, h[i] = h[j]  PROVE i = j
  <2>1. order[d + i] = order[d + j]
    BY <1>8, <1>9
  <2>2. \A m, n \in 1 .. L : order[m].url = order[n].url => m = n
    BY <1>1 DEF Caching
  <2>3. d + i = d + j
    BY <1>6, <2>1, <2>2
  <2>. QED  BY <1>2, <2>3
<1>10. ASSUME NEW n \in Allocated  PROVE \E i \in 1 .. L - d : n = h[i]
  <2>1. PICK u \in Urls : mapping[u] = n /\ n # None
    BY DEF Allocated
  <2>2. PICK j \in 1 .. L : order[j].url = u
    BY <1>1, <2>1 DEF Caching
  <2>3. j > d
    BY <1>1, <1>2, <2>1, <2>2 DEF Caching
  <2>4. j - d \in 1 .. L - d /\ d + (j - d) = j
    BY <1>2, <2>3
  <2>. QED  BY <2>1, <2>2, <2>4
<1>11. \A n \in Allocated : SizeOf[n] = entry[n].size /\ SizeOf[n] \in Int
  BY SizesAllocated
<1>. HIDE DEF f, h
<1>12. Renames(1 .. L - d, f, Allocated, SizeOf, h)
  <2>1. \A i \in 1 .. L - d : h[i] \in Allocated /\ SizeOf[h[i]] = f[i]
    BY <1>7, <1>8, <1>11
  <2>. QED  BY <1>9, <2>1 DEF Renames
<1>13. SumFunctionOnSet(f, 1 .. L - d) = SumFunctionOnSet(SizeOf, Allocated)
  <2>1. IsFiniteSet(Allocated) /\ IsFiniteSet(1 .. L - d)
    BY <1>5, AllocatedFinite
  <2>2. \A i \in 1 .. L - d : f[i] \in Int
    BY <1>7
  <2>3. \A n \in Allocated : SizeOf[n] \in Int
    BY <1>11
  <2>4. \A n \in Allocated : \E i \in 1 .. L - d : n = h[i]
    BY <1>10
  <2>5. PICK A : A = 1 .. L - d
    OBVIOUS
  <2>6. PICK B, g : B = Allocated /\ g = SizeOf
    OBVIOUS
  <2>7. /\ IsFiniteSet(A) /\ (\A i \in A : f[i] \in Int)
        /\ IsFiniteSet(B) /\ (\A n \in B : g[n] \in Int)
        /\ Renames(A, f, B, g, h) /\ \A n \in B : \E i \in A : n = h[i]
    BY <1>12, <2>1, <2>2, <2>3, <2>4, <2>5, <2>6
  <2>8. SumFunctionOnSet(f, A) = SumFunctionOnSet(g, B)
    BY <2>7, SumBijection
  <2>. QED  BY <2>5, <2>6, <2>8
<1>14. LRUCache!Occupancy(s) = SumFunctionOnSet(f, 1 .. L - d)
  BY <1>5, OccupancyIs DEF f
<1>. QED  BY <1>3, <1>13, <1>14 DEF OccupancyExact, SizeOf

\* An insertion starts with a whole list and a path that is not in the history.
LEMMA InsertBeginKeeps ==
    ASSUME HeapInv, NEW t \in Threads, IdleInv(t), InsertBegin(t)
    PROVE  EvictingInv(t)'
<1>1. PICK u \in Urls, s \in Sizes :
        /\ mapping[u] = None
        /\ local' = [local EXCEPT ![t].new = [url |-> u, size |-> s]]
  BY DEF InsertBegin
<1>2. readers' = readers /\ readers = {} /\ writer' = t
      /\ UNCHANGED <<mapping, entry, next, prev, order>>
  BY DEF InsertBegin, heapVars
<1>3. local'[t].new.url = u
  BY <1>1 DEF HeapInv, TypeOK
<1>4. Caching(0) /\ Linked(1, Len(order)) /\ Len(order) \in Nat
  BY OrderEntries DEF IdleInv
<1>5. \A i \in 1 .. Len(order) : order[i].url # u
  BY <1>1, <1>4 DEF Caching
<1>6. Caching(0)'
  BY <1>2, <1>4 DEF Caching
<1>7. Linked(0 + 1, Len(order))'
  BY <1>2, <1>4, AtSame DEF Linked, NextLinks, PrevLinks
<1>8. 0 \in 0 .. Len(order') /\ \A n \in 0 .. 0 - 1 : TooMuch(t, n)'
  BY <1>2, <1>4
<1>. QED  BY <1>2, <1>3, <1>5, <1>6, <1>7, <1>8 DEF EvictingInv

\* The eviction loop goes on while what is left does not leave room.
LEMMA EvictionNeeded ==
    ASSUME HeapInv, OccupancyExact, NEW t \in Threads, pc[t] = "insert"
    PROVE  /\ MustEvict(t) => ~(occupancy + local[t].new.size <= Capacity)
           /\ ~MustEvict(t) => occupancy + local[t].new.size <= Capacity
<1>1. /\ local[t].new.size \in Int /\ local[t].new.size <= Capacity
      /\ Capacity \in Nat /\ Word \in Nat /\ Capacity < Word
  <2>1. local[t].new \in Entry /\ local[t].new.size <= Capacity
    BY DEF HeapInv, InsertInv
  <2>2. local[t].new.size \in Sizes
    BY <2>1 DEF Entry
  <2>. QED  BY <2>1, <2>2, SizesAreNumbers, CacheAssumption
<1>2. occupancy \in Nat /\ occupancy <= Capacity
  BY <1>1 DEF HeapInv, TypeOK, OccupancyExact
<1>3. (Capacity - occupancy) % Word = Capacity - occupancy
  BY <1>1, <1>2
<1>4. CASE Allocated = {}
  <2>1. occupancy = 0
    <3>1. SumFunctionOnSet(SizeOf, Allocated) = 0
      BY <1>4, FS_EmptySet, SumType
    <3>. QED  BY <3>1 DEF OccupancyExact, SizeOf
  <2>. QED  BY <1>1, <1>4, <2>1 DEF MustEvict
<1>5. CASE Allocated # {}
  BY <1>1, <1>2, <1>3, <1>5 DEF MustEvict
<1>. QED  BY <1>4, <1>5

\* evictOne takes the first node out of the list, and its entry is the oldest one.
LEMMA EvictKeeps ==
    ASSUME HeapInv, OccupancyExact, NEW t \in Threads, EvictingInv(t), Evict(t)
    PROVE  EvictingInv(t)'
<1>1. PICK L \in Nat : L = Len(order)
  BY OrderEntries
<1>2. PICK d \in 0 .. L :
        Caching(d) /\ Linked(d + 1, L) /\ \A n \in 0 .. d - 1 : TooMuch(t, n)
  BY <1>1 DEF EvictingInv
<1>3. /\ next \in [List -> List \cup {None}] /\ prev \in [List -> List \cup {None}]
      /\ mapping \in [Urls -> Nodes \cup {None}]
  BY DEF HeapInv, TypeOK
<1>4. /\ \A i \in Int : At(d + 1, L, i) \in List
      /\ \A i, j \in d .. L + 1 : At(d + 1, L, i) = At(d + 1, L, j) => i = j
  <2>1. /\ d \in Nat /\ d + 1 \in Nat /\ d < d + 1 /\ d + 1 <= L + 1 /\ L <= Len(order)
        /\ (d + 1) - 1 = d
    BY <1>1
  <2>2. /\ \A i \in Int : At(d + 1, L, i) \in List
        /\ \A i, j \in (d + 1) - 1 .. L + 1 : At(d + 1, L, i) = At(d + 1, L, j) => i = j
    BY <1>2, <2>1, AtDistinct
  <2>. QED  BY <2>1, <2>2
<1>5. /\ \A i \in d .. L : next[At(d + 1, L, i)] = At(d + 1, L, i + 1)
      /\ \A i \in d + 1 .. L + 1 : prev[At(d + 1, L, i)] = At(d + 1, L, i - 1)
  <2>1. (d + 1) - 1 = d
    OBVIOUS
  <2>. QED  BY <1>2, <2>1 DEF Linked, NextLinks, PrevLinks
<1>6. PICK at : at = [i \in d .. L + 1 |-> At(d + 1, L, i)]
  OBVIOUS
<1>7. /\ \A i \in d .. L + 1 : at[i] = At(d + 1, L, i) /\ at[i] \in List
      /\ \A i, j \in d .. L + 1 : at[i] = at[j] => i = j
      /\ \A i \in d .. L : next[at[i]] = at[i + 1]
      /\ \A i \in d + 1 .. L + 1 : prev[at[i]] = at[i - 1]
  <2>1. \A i \in d .. L + 1 : at[i] = At(d + 1, L, i) /\ at[i] \in List
    BY <1>4, <1>6
  <2>2. \A i, j \in d .. L + 1 : at[i] = at[j] => i = j
    BY <1>4, <2>1
  <2>3. ASSUME NEW i \in d .. L  PROVE next[at[i]] = at[i + 1]
    <3>1. i \in d .. L + 1 /\ i + 1 \in d .. L + 1
      OBVIOUS
    <3>. QED  BY <1>5, <2>1, <3>1
  <2>4. ASSUME NEW i \in d + 1 .. L + 1  PROVE prev[at[i]] = at[i - 1]
    <3>1. i \in d .. L + 1 /\ i - 1 \in d .. L + 1
      OBVIOUS
    <3>. QED  BY <1>5, <2>1, <3>1
  <2>. QED  BY <2>1, <2>2, <2>3, <2>4
<1>8. at[d] = Header /\ at[L + 1] = Tailer
  <2>1. d \in d .. L + 1 /\ L + 1 \in d .. L + 1 /\ d < d + 1 /\ ~(L + 1 < d + 1) /\ L + 1 > L
    OBVIOUS
  <2>. QED  BY <1>7, <2>1 DEF At
<1>9. PICK n : n = next[Header]
  OBVIOUS
<1>10. /\ n \in Allocated
       /\ next' = [next EXCEPT ![prev[n]] = next[n]]
       /\ prev' = [prev EXCEPT ![next[n]] = prev[n]]
       /\ mapping' = [mapping EXCEPT ![entry[n].url] = None]
       /\ UNCHANGED <<entry, readers, writer, local, order>>
       /\ pc[t] = "insert" /\ MustEvict(t)
  BY <1>9 DEF Evict, lockVars
<1>11. n = at[d + 1]
  <2>1. d \in d .. L
    OBVIOUS
  <2>. QED  BY <1>7, <1>8, <1>9, <2>1
<1>12. d < L
  <2>1. n # Tailer
    BY <1>10, AllocatedFinite, CacheAssumption
  <2>. QED  BY <1>8, <1>11, <2>1
<1>13. /\ d + 1 \in d .. L /\ d + 1 \in d + 1 .. L + 1 /\ d + 2 \in d .. L + 1
       /\ d + 1 + 1 = d + 2 /\ d + 1 - 1 = d /\ d + 1 \in 1 .. L
  BY <1>12
<1>14. prev[n] = Header /\ next[n] = at[d + 2]
  BY <1>7, <1>8, <1>11, <1>13
<1>15. n = mapping[order[d + 1].url] /\ entry[n] = order[d + 1]
  <2>1. d + 1 \in d .. L + 1 /\ ~(d + 1 < d + 1) /\ ~(d + 1 > L) /\ d + 1 > d
    BY <1>12
  <2>2. n = mapping[order[d + 1].url]
    BY <1>7, <1>11, <2>1 DEF At
  <2>. QED  BY <1>1, <1>2, <1>13, <2>1, <2>2 DEF Caching
<1>16. /\ next' = [next EXCEPT ![Header] = at[d + 2]]
       /\ prev' = [prev EXCEPT ![at[d + 2]] = Header]
       /\ mapping' = [mapping EXCEPT ![order[d + 1].url] = None]
  BY <1>10, <1>14, <1>15
<1>17. \A i \in 1 .. L : mapping'[order[i].url] = IF i = d + 1 THEN None ELSE mapping[order[i].url]
  <2>1. \A i \in 1 .. L : order[i].url \in Urls
    BY <1>1, OrderEntries
  <2>2. \A i \in 1 .. L : order[i].url = order[d + 1].url => i = d + 1
    BY <1>1, <1>2, <1>13 DEF Caching
  <2>. QED  BY <1>3, <1>13, <1>16, <2>1, <2>2
<1>18. Caching(d + 1)'
  <2>1. ASSUME NEW i \in 1 .. L  PROVE mapping'[order[i].url] = None <=> i <= d + 1
    <3>1. mapping[order[i].url] = None <=> i <= d
      BY <1>1, <1>2 DEF Caching
    <3>2. CASE i = d + 1
      BY <1>17, <3>2
    <3>3. CASE i # d + 1
      <4>1. i <= d <=> i <= d + 1
        BY <3>3
      <4>. QED  BY <1>17, <3>1, <3>3, <4>1
    <3>. QED  BY <3>2, <3>3
  <2>2. ASSUME NEW i \in 1 .. L, i > d + 1  PROVE entry[mapping'[order[i].url]] = order[i]
    <3>1. i # d + 1 /\ i > d
      BY <2>2
    <3>. QED  BY <1>1, <1>2, <1>17, <3>1 DEF Caching
  <2>3. \A i, j \in 1 .. L : order[i].url = order[j].url => i = j
    BY <1>1, <1>2 DEF Caching
  <2>4. ASSUME NEW u \in Urls, mapping'[u] # None  PROVE \E i \in 1 .. L : order[i].url = u
    <3>1. mapping[u] # None
      BY <1>3, <1>16, <2>4
    <3>. QED  BY <1>1, <1>2, <3>1 DEF Caching
  <2>. QED  BY <1>1, <1>10, <2>1, <2>2, <2>3, <2>4 DEF Caching
<1>19. ASSUME NEW i \in d + 1 .. L + 1
       PROVE  At(d + 2, L, i)' = IF i = d + 1 THEN Header ELSE at[i]
  <2>1. i \in d .. L + 1
    OBVIOUS
  <2>2. CASE i = d + 1
    <3>1. i < d + 2
      BY <2>2
    <3>. QED  BY <2>2, <3>1 DEF At
  <2>3. CASE i > d + 1 /\ i <= L
    <3>1. ~(i < d + 2) /\ ~(i < d + 1) /\ ~(i > L) /\ i # d + 1 /\ i \in 1 .. L
      BY <2>3
    <3>2. At(d + 2, L, i)' = mapping'[order[i].url]
      BY <1>10, <3>1 DEF At
    <3>3. At(d + 1, L, i) = mapping[order[i].url]
      BY <3>1 DEF At
    <3>. QED  BY <1>7, <1>17, <2>1, <3>1, <3>2, <3>3
  <2>4. CASE i = L + 1
    <3>1. ~(i < d + 2) /\ i > L /\ i # d + 1
      BY <1>12, <2>4
    <3>2. At(d + 2, L, i)' = Tailer
      BY <3>1 DEF At
    <3>. QED  BY <1>8, <2>4, <3>1, <3>2
  <2>. QED  BY <2>2, <2>3, <2>4
<1>20. Linked(d + 2, L)'
  <2>1. ASSUME NEW i \in d + 1 .. L
        PROVE  next'[At(d + 2, L, i)'] = At(d + 2, L, i + 1)'
    <3>1. i \in d + 1 .. L + 1 /\ i + 1 \in d + 1 .. L + 1 /\ i + 1 # d + 1
          /\ i \in d .. L /\ i \in d .. L + 1 /\ d \in d .. L + 1 /\ i # d
      OBVIOUS
    <3>2. At(d + 2, L, i + 1)' = at[i + 1]
      BY <1>19, <3>1
    <3>3. CASE i = d + 1
      <4>1. At(d + 2, L, i)' = Header /\ Header \in List
        BY <1>19, <3>1, <3>3 DEF List
      <4>. QED  BY <1>3, <1>13, <1>16, <3>2, <3>3, <4>1
    <3>4. CASE i # d + 1
      <4>1. At(d + 2, L, i)' = at[i]
        BY <1>19, <3>1, <3>4
      <4>2. at[i] # Header /\ at[i] \in List
        BY <1>7, <1>8, <3>1
      <4>. QED  BY <1>3, <1>7, <1>16, <3>1, <3>2, <4>1, <4>2
    <3>. QED  BY <3>3, <3>4
  <2>2. ASSUME NEW i \in d + 2 .. L + 1
        PROVE  prev'[At(d + 2, L, i)'] = At(d + 2, L, i - 1)'
    <3>1. i \in d + 1 .. L + 1 /\ i - 1 \in d + 1 .. L + 1 /\ i # d + 1
          /\ i \in d .. L + 1
      OBVIOUS
    <3>2. At(d + 2, L, i)' = at[i]
      BY <1>19, <3>1
    <3>3. CASE i = d + 2
      <4>1. At(d + 2, L, i - 1)' = Header
        BY <1>19, <3>1, <3>3
      <4>2. at[d + 2] \in List
        BY <1>7, <1>13
      <4>. QED  BY <1>3, <1>16, <3>2, <3>3, <4>1, <4>2
    <3>4. CASE i # d + 2
      <4>1. i - 1 # d + 1
        BY <3>4
      <4>2. At(d + 2, L, i - 1)' = at[i - 1]
        BY <1>19, <3>1, <4>1
      <4>3. at[i] # at[d + 2] /\ at[i] \in List
        BY <1>7, <1>13, <3>1, <3>4
      <4>. QED  BY <1>3, <1>7, <1>16, <3>1, <3>2, <4>2, <4>3
    <3>. QED  BY <3>3, <3>4
  <2>3. (d + 2) - 1 = d + 1
    OBVIOUS
  <2>. QED  BY <2>1, <2>2, <2>3 DEF Linked, NextLinks, PrevLinks
<1>21. \A m \in 0 .. (d + 1) - 1 : TooMuch(t, m)'
  <2>1. TooMuch(t, d)
    <3>1. LRUCache!Occupancy(SubSeq(order, d + 1, Len(order))) = occupancy
      BY <1>1, <1>2, OccupancyOfRest
    <3>. QED  BY <1>10, <3>1, EvictionNeeded DEF TooMuch
  <2>2. \A m \in 0 .. (d + 1) - 1 : m \in 0 .. d - 1 \/ m = d
    OBVIOUS
  <2>3. \A m \in 0 .. (d + 1) - 1 : TooMuch(t, m)
    BY <1>2, <2>1, <2>2
  <2>4. \A m : TooMuch(t, m)' <=> TooMuch(t, m)
    BY <1>10 DEF TooMuch
  <2>. QED  BY <2>3, <2>4
<1>22. d + 1 \in 0 .. Len(order') /\ (d + 1) + 1 = d + 2 /\ Len(order') = L
  BY <1>1, <1>10, <1>12
<1>23. Linked((d + 1) + 1, Len(order))'
  BY <1>20, <1>22
<1>24. \A i \in 1 .. Len(order') : order'[i].url # local'[t].new.url
  BY <1>10 DEF EvictingInv
<1>25. readers' = {} /\ writer' = t
  BY <1>10 DEF EvictingInv
<1>. QED  BY <1>18, <1>21, <1>22, <1>23, <1>24, <1>25 DEF EvictingInv

\* The new node goes to the end of the list and its entry to the end of what is
\* left of the history.
LEMMA InsertEndKeeps ==
    ASSUME HeapInv, OccupancyExact, NEW t \in Threads, EvictingInv(t), InsertEnd(t)
    PROVE  IdleInv(t)' /\ LRUCache!Next
<1>1. PICK L \in Nat : L = Len(order)
  BY OrderEntries
<1>2. PICK d \in 0 .. L :
        Caching(d) /\ Linked(d + 1, L) /\ \A n \in 0 .. d - 1 : TooMuch(t, n)
  BY <1>1 DEF EvictingInv
<1>3. /\ next \in [List -> List \cup {None}] /\ prev \in [List -> List \cup {None}]
      /\ mapping \in [Urls -> Nodes \cup {None}] /\ entry \in [List -> Entry \cup {NoEntry}]
      /\ order \in Seq(Entry) /\ Header \in List /\ Tailer \in List
  BY DEF HeapInv, TypeOK, List
<1>4. PICK e \in Entry : e = local[t].new /\ e.size <= Capacity /\ mapping[e.url] = None
  BY DEF HeapInv, InsertInv, InsertEnd
<1>5. e.url \in Urls /\ e.size \in Sizes /\ e = [url |-> e.url, size |-> e.size]
  BY DEF Entry
<1>6. PICK last : last = prev[Tailer]
  OBVIOUS
<1>7. PICK n \in Nodes \ Allocated :
        /\ entry' = [entry EXCEPT ![n] = e]
        /\ next' = [next EXCEPT ![last] = n, ![n] = Tailer]
        /\ prev' = [prev EXCEPT ![Tailer] = n, ![n] = last]
        /\ mapping' = [mapping EXCEPT ![e.url] = n]
        /\ order' = Append(StillCached, entry'[n])
  BY <1>4, <1>6 DEF InsertEnd
<1>8. readers' = {} /\ writer' = None
  BY DEF InsertEnd, EvictingInv
<1>9. /\ n \in List /\ n # Header /\ n # Tailer /\ n # None /\ entry'[n] = e
      /\ \A u \in Urls : mapping[u] # n
  <2>1. n \in List /\ n # Header /\ n # Tailer /\ n # None
    BY CacheAssumption DEF List
  <2>2. \A u \in Urls : mapping[u] # n
    BY <2>1 DEF Allocated
  <2>. QED  BY <1>3, <1>7, <2>1, <2>2
<1>10. PICK at : at = [i \in d .. L + 1 |-> At(d + 1, L, i)]
  OBVIOUS
<1>11. /\ \A i \in d .. L + 1 : at[i] = At(d + 1, L, i) /\ at[i] \in List
       /\ \A i, j \in d .. L + 1 : at[i] = at[j] => i = j
  <2>1. /\ d \in Nat /\ d + 1 \in Nat /\ d < d + 1 /\ d + 1 <= L + 1 /\ L <= Len(order)
        /\ (d + 1) - 1 = d
    BY <1>1
  <2>2. /\ \A i \in Int : At(d + 1, L, i) \in List
        /\ \A i, j \in (d + 1) - 1 .. L + 1 : At(d + 1, L, i) = At(d + 1, L, j) => i = j
    BY <1>2, <2>1, AtDistinct
  <2>3. \A i \in d .. L + 1 : at[i] = At(d + 1, L, i)
    BY <1>10
  <2>. QED  BY <2>1, <2>2, <2>3
<1>12. /\ \A i \in d .. L : next[at[i]] = at[i + 1]
       /\ \A i \in d + 1 .. L + 1 : prev[at[i]] = at[i - 1]
  <2>1. /\ \A i \in d .. L : next[At(d + 1, L, i)] = At(d + 1, L, i + 1)
        /\ \A i \in d + 1 .. L + 1 : prev[At(d + 1, L, i)] = At(d + 1, L, i - 1)
    <3>1. (d + 1) - 1 = d
      OBVIOUS
    <3>. QED  BY <1>2, <3>1 DEF Linked, NextLinks, PrevLinks
  <2>2. ASSUME NEW i \in d .. L  PROVE next[at[i]] = at[i + 1]
    <3>1. i \in d .. L + 1 /\ i + 1 \in d .. L + 1
      OBVIOUS
    <3>. QED  BY <1>11, <2>1, <3>1
  <2>3. ASSUME NEW i \in d + 1 .. L + 1  PROVE prev[at[i]] = at[i - 1]
    <3>1. i \in d .. L + 1 /\ i - 1 \in d .. L + 1
      OBVIOUS
    <3>. QED  BY <1>11, <2>1, <3>1
  <2>. QED  BY <2>2, <2>3
<1>13. /\ at[d] = Header /\ at[L + 1] = Tailer
       /\ \A i \in d + 1 .. L : at[i] = mapping[order[i].url] /\ i \in 1 .. L
  <2>1. d \in d .. L + 1 /\ L + 1 \in d .. L + 1 /\ d < d + 1 /\ ~(L + 1 < d + 1) /\ L + 1 > L
    OBVIOUS
  <2>2. at[d] = Header /\ at[L + 1] = Tailer
    BY <1>11, <2>1 DEF At
  <2>3. ASSUME NEW i \in d + 1 .. L  PROVE at[i] = mapping[order[i].url] /\ i \in 1 .. L
    <3>1. i \in d .. L + 1 /\ ~(i < d + 1) /\ ~(i > L) /\ i \in 1 .. L
      OBVIOUS
    <3>. QED  BY <1>11, <3>1 DEF At
  <2>. QED  BY <2>2, <2>3
<1>14. \A i \in d .. L + 1 : at[i] # n
  <2>1. \A i \in d + 1 .. L : at[i] # n
    BY <1>1, <1>9, <1>13, OrderEntries
  <2>2. \A i \in d .. L + 1 : i = d \/ i \in d + 1 .. L \/ i = L + 1
    OBVIOUS
  <2>. QED  BY <1>9, <1>13, <2>1, <2>2
<1>15. last = at[L]
  <2>1. L + 1 \in d + 1 .. L + 1 /\ L + 1 - 1 = L
    OBVIOUS
  <2>. QED  BY <1>6, <1>12, <1>13, <2>1
\* the history
<1>16. PICK rest \in Seq(Entry) :
         /\ rest = SubSeq(order, d + 1, Len(order)) /\ order' = Append(rest, e)
         /\ Len(rest) = L - d /\ \A i \in 1 .. L - d : rest[i] = order[d + i]
  <2>1. \A i \in 1 .. Len(order) : mapping[order[i].url] = None <=> i <= d
    BY <1>2 DEF Caching
  <2>2. d \in 0 .. Len(order)
    BY <1>1
  <2>3. StillCached = SubSeq(order, d + 1, Len(order))
    BY <1>3, <2>1, <2>2, StillCachedIs
  <2>4. \A i \in d + 1 .. L : order[i] \in Entry
    BY <1>1, <1>3
  <2>5. /\ SubSeq(order, d + 1, L) \in Seq(Entry)
        /\ Len(SubSeq(order, d + 1, L)) = IF d + 1 <= L THEN L - (d + 1) + 1 ELSE 0
        /\ \A i \in 1 .. L - (d + 1) + 1 : SubSeq(order, d + 1, L)[i] = order[(d + 1) + i - 1]
    BY <2>4, SubSeqProperties
  <2>6. \A i \in 1 .. L - d : (d + 1) + i - 1 = d + i
    OBVIOUS
  <2>7. L - (d + 1) + 1 = L - d
    OBVIOUS
  <2>8. /\ Len(SubSeq(order, d + 1, L)) = L - d
        /\ \A i \in 1 .. L - d : SubSeq(order, d + 1, L)[i] = order[d + i]
    BY <2>5, <2>6, <2>7
  <2>. QED  BY <1>1, <1>7, <1>9, <2>3, <2>5, <2>8
<1>17. PICK M \in Nat : M = L - d + 1
  OBVIOUS
<1>18. PICK added : added = order'
  OBVIOUS
<1>19. /\ Len(added) = M /\ added[M] = e
       /\ \A i \in 1 .. M - 1 : added[i] = order[d + i] /\ d + i \in d + 1 .. L
  <2>0. Len(rest) + 1 = M
    BY <1>16, <1>17
  <2>1. Len(added) = M /\ added[M] = e
    BY <1>16, <1>18, <2>0, AppendProperties
  <2>2. ASSUME NEW i \in 1 .. M - 1  PROVE added[i] = order[d + i] /\ d + i \in d + 1 .. L
    <3>1. i \in 1 .. L - d /\ d + i \in d + 1 .. L
      BY <1>17
    <3>2. added[i] = rest[i]
      BY <1>16, <1>18, <3>1
    <3>. QED  BY <1>16, <3>1, <3>2
  <2>. QED  BY <2>1, <2>2
<1>20. /\ mapping'[e.url] = n
       /\ \A u \in Urls : u # e.url => mapping'[u] = mapping[u]
       /\ \A m \in List : m # n => entry'[m] = entry[m]
  BY <1>3, <1>5, <1>7
<1>21. ASSUME NEW i \in 1 .. M - 1
       PROVE  /\ added[i].url # e.url
              /\ mapping'[added[i].url] = at[d + i]
              /\ at[d + i] # None /\ entry'[at[d + i]] = added[i]
  <2>1. PICK j \in d + 1 .. L : j = d + i
    BY <1>19
  <2>2. added[i] = order[j] /\ j \in 1 .. L /\ j \in d .. L + 1 /\ j > d
    BY <1>13, <1>19, <2>1
  <2>3. order[j].url # e.url /\ order[j].url \in Urls
    BY <1>1, <1>4, <2>2, OrderEntries DEF EvictingInv
  <2>4. at[j] = mapping[order[j].url] /\ at[j] # n /\ at[j] \in List
    BY <1>11, <1>13, <1>14, <2>2
  <2>5. mapping[order[j].url] # None /\ entry[mapping[order[j].url]] = order[j]
    BY <1>1, <1>2, <2>2 DEF Caching
  <2>. QED  BY <1>20, <2>1, <2>2, <2>3, <2>4, <2>5
<1>22. Caching(0)'
  <2>1. \A i \in 1 .. M : i \in 1 .. M - 1 \/ i = M
    OBVIOUS
  <2>2. ASSUME NEW i \in 1 .. M  PROVE mapping'[added[i].url] = None <=> i <= 0
    <3>1. mapping'[added[i].url] # None
      BY <1>9, <1>19, <1>20, <1>21, <2>1
    <3>. QED  BY <3>1
  <2>3. ASSUME NEW i \in 1 .. M  PROVE entry'[mapping'[added[i].url]] = added[i]
    BY <1>9, <1>19, <1>20, <1>21, <2>1
  <2>4. ASSUME NEW i \in 1 .. M, NEW j \in 1 .. M, added[i].url = added[j].url  PROVE i = j
    <3>1. CASE i \in 1 .. M - 1 /\ j \in 1 .. M - 1
      <4>1. added[i] = order[d + i] /\ added[j] = order[d + j]
            /\ d + i \in 1 .. L /\ d + j \in 1 .. L
        BY <1>13, <1>19, <3>1
      <4>2. \A k, m \in 1 .. L : order[k].url = order[m].url => k = m
        BY <1>1, <1>2 DEF Caching
      <4>3. d + i = d + j
        BY <2>4, <4>1, <4>2
      <4>. QED  BY <4>3
    <3>2. CASE i \in 1 .. M - 1 /\ j = M
      BY <1>19, <1>21, <2>4, <3>2
    <3>3. CASE i = M /\ j \in 1 .. M - 1
      BY <1>19, <1>21, <2>4, <3>3
    <3>. QED  BY <2>1, <3>1, <3>2, <3>3
  <2>5. ASSUME NEW u \in Urls, mapping'[u] # None  PROVE \E i \in 1 .. M : added[i].url = u
    <3>1. CASE u = e.url
      <4>1. M \in 1 .. M
        BY <1>17
      <4>. QED  BY <1>19, <3>1, <4>1
    <3>2. CASE u # e.url
      <4>1. mapping[u] # None
        BY <1>20, <2>5, <3>2
      <4>2. PICK j \in 1 .. L : order[j].url = u
        BY <1>1, <1>2, <4>1 DEF Caching
      <4>3. j > d
        BY <1>1, <1>2, <4>1, <4>2 DEF Caching
      <4>4. j - d \in 1 .. M - 1 /\ j - d \in 1 .. M /\ d + (j - d) = j
        BY <1>17, <4>3
      <4>. QED  BY <1>19, <4>2, <4>4
    <3>. QED  BY <3>1, <3>2
  <2>. QED  BY <1>18, <1>19, <2>2, <2>3, <2>4, <2>5 DEF Caching
\* the list
<1>23. /\ \A i \in 0 .. M - 1 : At(1, M, i)' = at[d + i]
       /\ At(1, M, M)' = n /\ At(1, M, M + 1)' = Tailer
  <2>1. ASSUME NEW i \in 1 .. M - 1  PROVE At(1, M, i)' = at[d + i]
    <3>1. ~(i < 1) /\ ~(i > M)
      BY <1>17
    <3>2. At(1, M, i)' = mapping'[added[i].url]
      BY <1>18, <3>1 DEF At
    <3>. QED  BY <1>21, <3>2
  <2>2. At(1, M, 0)' = Header /\ d + 0 = d
    BY DEF At
  <2>3. ~(M < 1) /\ ~(M > M) /\ ~(M + 1 < 1) /\ M + 1 > M
    BY <1>17
  <2>4. At(1, M, M)' = n
    BY <1>18, <1>19, <1>20, <2>3 DEF At
  <2>5. At(1, M, M + 1)' = Tailer
    BY <2>3 DEF At
  <2>6. \A i \in 0 .. M - 1 : i = 0 \/ i \in 1 .. M - 1
    OBVIOUS
  <2>. QED  BY <1>13, <2>1, <2>2, <2>4, <2>5, <2>6
<1>24. /\ next'[n] = Tailer /\ prev'[n] = last
       /\ next'[last] = n /\ prev'[Tailer] = n
       /\ \A m \in List : m # n /\ m # last => next'[m] = next[m]
       /\ \A m \in List : m # n /\ m # Tailer => prev'[m] = prev[m]
  <2>1. last \in List /\ last # n
    <3>1. L \in d .. L + 1
      OBVIOUS
    <3>. QED  BY <1>11, <1>14, <1>15, <3>1
  <2>. QED  BY <1>3, <1>7, <1>9, <2>1
<1>25. Linked(1, M)'
  <2>1. ASSUME NEW i \in 0 .. M  PROVE next'[At(1, M, i)'] = At(1, M, i + 1)'
    <3>1. CASE i < M - 1
      <4>1. /\ i \in 0 .. M - 1 /\ i + 1 \in 0 .. M - 1 /\ d + i \in d .. L
            /\ d + i \in d .. L + 1 /\ L \in d .. L + 1 /\ d + i # L /\ d + (i + 1) = d + i + 1
        BY <1>17, <3>1
      <4>2. at[d + i] # last /\ at[d + i] # n /\ at[d + i] \in List
        BY <1>11, <1>14, <1>15, <4>1
      <4>3. next'[at[d + i]] = at[d + i + 1]
        BY <1>12, <1>24, <4>1, <4>2
      <4>. QED  BY <1>23, <4>1, <4>3
    <3>2. CASE i = M - 1
      <4>1. i \in 0 .. M - 1 /\ d + i = L /\ i + 1 = M
        BY <1>17, <3>2
      <4>. QED  BY <1>15, <1>23, <1>24, <4>1
    <3>3. CASE i = M
      BY <1>23, <1>24, <3>3
    <3>. QED  BY <3>1, <3>2, <3>3
  <2>2. ASSUME NEW i \in 1 .. M + 1  PROVE prev'[At(1, M, i)'] = At(1, M, i - 1)'
    <3>1. CASE i < M
      <4>1. /\ i \in 0 .. M - 1 /\ i - 1 \in 0 .. M - 1 /\ d + i \in d + 1 .. L + 1
            /\ d + i \in d .. L + 1 /\ L + 1 \in d .. L + 1 /\ d + i # L + 1
            /\ d + (i - 1) = d + i - 1
        BY <1>17, <3>1
      <4>2. at[d + i] # Tailer /\ at[d + i] # n /\ at[d + i] \in List
        BY <1>11, <1>13, <1>14, <4>1
      <4>3. prev'[at[d + i]] = at[d + i - 1]
        BY <1>12, <1>24, <4>1, <4>2
      <4>. QED  BY <1>23, <4>1, <4>3
    <3>2. CASE i = M
      <4>1. i - 1 \in 0 .. M - 1 /\ d + (i - 1) = L
        BY <1>17, <3>2
      <4>. QED  BY <1>15, <1>23, <1>24, <3>2, <4>1
    <3>3. CASE i = M + 1
      <4>1. i - 1 = M
        BY <3>3
      <4>. QED  BY <1>23, <1>24, <3>3, <4>1
    <3>. QED  BY <3>1, <3>2, <3>3
  <2>3. 1 - 1 = 0
    OBVIOUS
  <2>. QED  BY <2>1, <2>2, <2>3 DEF Linked, NextLinks, PrevLinks
<1>26. IdleInv(t)'
  BY <1>8, <1>18, <1>19, <1>22, <1>25 DEF IdleInv, Quiet
\* the abstract cache
<1>27. LRUCache!Insert(e.url, e.size)
  <2>1. ~LRUCache!Cached(e.url)
    BY <1>1, <1>4, OrderEntries DEF LRUCache!Cached, EvictingInv
  <2>2. LRUCache!Occupancy(SubSeq(order, d + 1, Len(order))) + e.size <= Capacity
    <3>1. LRUCache!Occupancy(SubSeq(order, d + 1, Len(order))) = occupancy
      BY <1>1, <1>2, OccupancyOfRest
    <3>2. pc[t] = "insert" /\ ~MustEvict(t)
      BY DEF InsertEnd
    <3>. QED  BY <1>4, <3>1, <3>2, EvictionNeeded
  <2>3. ASSUME NEW m \in 0 .. d - 1
        PROVE  ~(LRUCache!Occupancy(SubSeq(order, m + 1, Len(order))) + e.size <= Capacity)
    BY <1>2, <1>4 DEF TooMuch
  <2>4. order' = Append(SubSeq(order, d + 1, Len(order)), [url |-> e.url, size |-> e.size])
    BY <1>5, <1>16
  <2>5. d \in 0 .. Len(order)
    BY <1>1
  <2>. QED  BY <1>4, <2>1, <2>2, <2>3, <2>4, <2>5 DEF LRUCache!Insert
<1>28. LRUCache!Next
  BY <1>5, <1>27 DEF LRUCache!Next
<1>. QED  BY <1>26, <1>28

\* clear leaves an empty list.
LEMMA ClearKeeps ==
    ASSUME HeapInv, NEW t \in Threads, IdleInv(t), Clear(t)
    PROVE  IdleInv(t)'
<1>1. /\ next' = [next EXCEPT ![Header] = Tailer] /\ prev' = [prev EXCEPT ![Tailer] = Header]
      /\ mapping' = [u \in Urls |-> None] /\ order' = <<>> /\ UNCHANGED <<readers, writer>>
  BY DEF Clear, lockVars
<1>2. Len(order') = 0 /\ 1 .. 0 = {}
  BY <1>1
<1>3. next'[Header] = Tailer /\ prev'[Tailer] = Header
  BY <1>1 DEF HeapInv, TypeOK, List
<1>4. Caching(0)'
  BY <1>1, <1>2 DEF Caching
<1>5. At(1, 0, 0)' = Header /\ At(1, 0, 1)' = Tailer
  BY DEF At
<1>6. NextLinks(1, 0, 0 .. 0)' /\ PrevLinks(1, 0, 1 .. 1)'
  <2>1. \A i \in 0 .. 0 : i = 0 /\ i + 1 = 1
    OBVIOUS
  <2>2. \A i \in 1 .. 1 : i = 1 /\ i - 1 = 0
    OBVIOUS
  <2>. QED  BY <1>3, <1>5, <2>1, <2>2 DEF NextLinks, PrevLinks
<1>7. Linked(1, 0)'
  <2>1. 1 - 1 = 0 /\ 0 + 1 = 1
    OBVIOUS
  <2>. QED  BY <1>6, <2>1 DEF Linked
<1>. QED  BY <1>1, <1>2, <1>4, <1>7 DEF IdleInv, Quiet

\* The list of the empty cache, and every step of a sole caller.
LEMMA ListInit == Init => ListInv
<1> SUFFICES ASSUME Init, NEW t \in Threads  PROVE IdleInv(t) /\ pc[t] = "idle"
  BY DEF ListInv
<1>1. Len(order) = 0 /\ 1 .. 0 = {} /\ pc[t] = "idle" /\ Quiet
  BY DEF Init, Quiet
<1>2. next[Header] = Tailer /\ prev[Tailer] = Header
  BY DEF Init, List
<1>3. Caching(0)
  BY <1>1 DEF Caching, Init
<1>4. At(1, 0, 0) = Header /\ At(1, 0, 1) = Tailer
  BY DEF At
<1>5. NextLinks(1, 0, 0 .. 0) /\ PrevLinks(1, 0, 1 .. 1)
  <2>1. \A i \in 0 .. 0 : i = 0 /\ i + 1 = 1
    OBVIOUS
  <2>2. \A i \in 1 .. 1 : i = 1 /\ i - 1 = 0
    OBVIOUS
  <2>. QED  BY <1>2, <1>4, <2>1, <2>2 DEF NextLinks, PrevLinks
<1>6. Linked(1, 0)
  <2>1. 1 - 1 = 0 /\ 0 + 1 = 1
    OBVIOUS
  <2>. QED  BY <1>5, <2>1 DEF Linked
<1>. QED  BY <1>1, <1>3, <1>6 DEF IdleInv

\* A step that changes nothing keeps it.
LEMMA UnchangedList ==
    ASSUME ListInv, UNCHANGED vars
    PROVE  ListInv' /\ [LRUCache!Next]_order
<1>1. UNCHANGED <<mapping, entry, next, prev, readers, writer, local, order, pc>>
  BY DEF vars, heapVars, lockVars
<1>2. \A lo, hi, i : At(lo, hi, i)' = At(lo, hi, i)
  BY <1>1, AtSame
<1>3. \A lo, hi, I : /\ NextLinks(lo, hi, I)' <=> NextLinks(lo, hi, I)
                     /\ PrevLinks(lo, hi, I)' <=> PrevLinks(lo, hi, I)
  BY <1>1, <1>2 DEF NextLinks, PrevLinks
<1>4. \A lo, hi : Linked(lo, hi)' <=> Linked(lo, hi)
  BY <1>3 DEF Linked
<1>5. \A d : Caching(d)' <=> Caching(d)
  BY <1>1 DEF Caching
<1>6. \A t, k : /\ Moving(t)' <=> Moving(t)
                /\ Gap(t, k)' <=> Gap(t, k)
                /\ TooMuch(t, k)' <=> TooMuch(t, k)
  <2>1. \A t : Moving(t)' <=> Moving(t)
    BY <1>1, <1>5 DEF Moving
  <2>2. \A t, k : Gap(t, k)' <=> Gap(t, k)
    BY <1>1, <1>2 DEF Gap
  <2>3. \A t, k : TooMuch(t, k)' <=> TooMuch(t, k)
    BY <1>1 DEF TooMuch
  <2>. QED  BY <2>1, <2>2, <2>3
<1>7. ASSUME NEW t \in Threads
      PROVE  /\ IdleInv(t) => IdleInv(t)'
             /\ UnlinkNextInv(t) => UnlinkNextInv(t)'
             /\ UnlinkPrevInv(t) => UnlinkPrevInv(t)'
             /\ ReadTailInv(t) => ReadTailInv(t)'
  BY <1>1, <1>2, <1>3, <1>4, <1>5, <1>6
     DEF IdleInv, UnlinkNextInv, UnlinkPrevInv, ReadTailInv, Quiet
<1>8. ASSUME NEW t \in Threads
      PROVE  /\ LinkNextInv(t) => LinkNextInv(t)'
             /\ LinkPrevInv(t) => LinkPrevInv(t)'
             /\ LinkNodeInv(t) => LinkNodeInv(t)'
             /\ EvictingInv(t) => EvictingInv(t)'
  BY <1>1, <1>2, <1>3, <1>4, <1>5, <1>6 DEF LinkNextInv, LinkPrevInv, LinkNodeInv, EvictingInv
<1>. QED  BY <1>1, <1>7, <1>8 DEF ListInv

\* Each step of a sole caller takes the invariant of its label to that of the next
\* one, and is a step of the abstract cache or none.
LEMMA ListStep ==
    ASSUME SoleCaller
    PROVE  HeapInv /\ OccupancyExact /\ ListInv /\ [Next]_vars
           => ListInv' /\ [LRUCache!Next]_order
<1> SUFFICES ASSUME HeapInv, OccupancyExact, ListInv, [Next]_vars
             PROVE  ListInv' /\ [LRUCache!Next]_order
  OBVIOUS
<1>1. PICK t : Threads = {t}
  BY DEF SoleCaller
<1>2. /\ pc[t] = "idle" => IdleInv(t)
      /\ pc[t] = "unlinkNext" => UnlinkNextInv(t)
      /\ pc[t] = "unlinkPrev" => UnlinkPrevInv(t)
      /\ pc[t] = "readTail" => ReadTailInv(t)
      /\ pc[t] = "linkNext" => LinkNextInv(t)
      /\ pc[t] = "linkPrev" => LinkPrevInv(t)
      /\ pc[t] = "linkNode" => LinkNodeInv(t)
      /\ pc[t] = "insert" => EvictingInv(t)
  BY <1>1 DEF ListInv
<1>3. pc \in [Threads -> {"idle", "unlinkNext", "unlinkPrev", "readTail",
                          "linkNext", "linkPrev", "linkNode", "insert"}] /\ t \in Threads
  BY <1>1 DEF HeapInv, TypeOK
<1>4. CASE UNCHANGED vars
  BY <1>4, UnchangedList
<1>5. CASE Miss(t) \/ InsertRefused(t)
  BY <1>5, UnchangedList DEF Miss, InsertRefused
<1>6. CASE Hit(t)
  <2>1. pc[t] = "idle" /\ pc'[t] = "unlinkNext"
    BY <1>3, <1>6 DEF Hit, Goto
  <2>2. UnlinkNextInv(t)' /\ \E u \in Urls : \E i \in DOMAIN order :
           order[i].url = u /\ order' = Append(RemoveAt(order, i), order[i])
    BY <1>2, <1>3, <1>6, <2>1, HitKeeps
  <2>3. LRUCache!Next
    BY <2>2 DEF LRUCache!Next, LRUCache!Load, LRUCache!RemoveAt, RemoveAt
  <2>. QED  BY <1>1, <2>1, <2>2, <2>3 DEF ListInv
<1>7. CASE UnlinkNext(t)
  <2>1. pc[t] = "unlinkNext" /\ pc'[t] = "unlinkPrev" /\ order' = order
    BY <1>3, <1>7 DEF UnlinkNext, Goto
  <2>2. UnlinkPrevInv(t)'
    BY <1>2, <1>3, <1>7, <2>1, UnlinkNextKeeps
  <2>. QED  BY <1>1, <2>1, <2>2 DEF ListInv
<1>8. CASE UnlinkPrev(t)
  <2>1. pc[t] = "unlinkPrev" /\ pc'[t] = "readTail" /\ order' = order
    BY <1>3, <1>8 DEF UnlinkPrev, Goto
  <2>2. ReadTailInv(t)'
    BY <1>2, <1>3, <1>8, <2>1, UnlinkPrevKeeps
  <2>. QED  BY <1>1, <2>1, <2>2 DEF ListInv
<1>9. CASE ReadTail(t)
  <2>1. pc[t] = "readTail" /\ pc'[t] = "linkNext" /\ order' = order
    BY <1>3, <1>9 DEF ReadTail, Goto
  <2>2. LinkNextInv(t)'
    BY <1>2, <1>3, <1>9, <2>1, ReadTailKeeps
  <2>. QED  BY <1>1, <2>1, <2>2 DEF ListInv
<1>10. CASE LinkNext(t)
  <2>1. pc[t] = "linkNext" /\ pc'[t] = "linkPrev" /\ order' = order
    BY <1>3, <1>10 DEF LinkNext, Goto
  <2>2. LinkPrevInv(t)'
    BY <1>2, <1>3, <1>10, <2>1, LinkNextKeeps
  <2>. QED  BY <1>1, <2>1, <2>2 DEF ListInv
<1>11. CASE LinkPrev(t)
  <2>1. pc[t] = "linkPrev" /\ pc'[t] = "linkNode" /\ order' = order
    BY <1>3, <1>11 DEF LinkPrev, Goto
  <2>2. LinkNodeInv(t)'
    BY <1>2, <1>3, <1>11, <2>1, LinkPrevKeeps
  <2>. QED  BY <1>1, <2>1, <2>2 DEF ListInv
<1>12. CASE LinkNode(t)
  <2>1. pc[t] = "linkNode" /\ pc'[t] = "idle" /\ order' = order
    BY <1>3, <1>12 DEF LinkNode, Goto
  <2>2. IdleInv(t)'
    BY <1>2, <1>3, <1>12, <2>1, LinkNodeKeeps
  <2>. QED  BY <1>1, <2>1, <2>2 DEF ListInv
<1>13. CASE InsertBegin(t)
  <2>1. pc[t] = "idle" /\ pc'[t] = "insert" /\ order' = order
    BY <1>3, <1>13 DEF InsertBegin, Goto
  <2>2. EvictingInv(t)'
    BY <1>2, <1>3, <1>13, <2>1, InsertBeginKeeps
  <2>. QED  BY <1>1, <2>1, <2>2 DEF ListInv
<1>14. CASE Evict(t)
  <2>1. pc[t] = "insert" /\ pc'[t] = "insert" /\ order' = order
    BY <1>3, <1>14 DEF Evict
  <2>2. EvictingInv(t)'
    BY <1>2, <1>3, <1>14, <2>1, EvictKeeps
  <2>. QED  BY <1>1, <2>1, <2>2 DEF ListInv
<1>15. CASE InsertEnd(t)
  <2>1. pc[t] = "insert" /\ pc'[t] = "idle"
    BY <1>3, <1>15 DEF InsertEnd, Goto
  <2>2. IdleInv(t)' /\ LRUCache!Next
    BY <1>2, <1>3, <1>15, <2>1, InsertEndKeeps
  <2>. QED  BY <1>1, <2>1, <2>2 DEF ListInv
<1>16. CASE Clear(t)
  <2>1. pc[t] = "idle" /\ pc'[t] = "idle" /\ order' = <<>>
    BY <1>3, <1>16 DEF Clear
  <2>2. IdleInv(t)'
    BY <1>2, <1>3, <1>16, <2>1, ClearKeeps
  <2>3. LRUCache!Next
    BY <2>1 DEF LRUCache!Next, LRUCache!Clear
  <2>. QED  BY <1>1, <2>1, <2>2, <2>3 DEF ListInv
<1>. QED  BY <1>1, <1>4, <1>5, <1>6, <1>7, <1>8, <1>9, <1>10, <1>11, <1>12, <1>13, <1>14,
             <1>15, <1>16 DEF Next, LoadNext, InsertNext
----------------------------------------------------------------------------
\* The places of a path through s from a to b.
Passes(path, a, s, b) ==
    /\ path[1] = a
    /\ path[Len(s) + 2] = b
    /\ \A i \in 1 .. Len(s) : path[i + 1] = s[i]

\* The paths of Leads have them.
LEMMA PathIs ==
    ASSUME NEW T, NEW s \in Seq(T), NEW a \in T, NEW b \in T
    PROVE  Passes(<<a>> \o s \o <<b>>, a, s, b)
<1>1. <<a>> \in Seq(T) /\ <<b>> \in Seq(T) /\ Len(<<a>>) = 1 /\ Len(<<b>>) = 1
      /\ <<a>>[1] = a /\ <<b>>[1] = b /\ Len(s) \in Nat
  OBVIOUS
<1>2. PICK x \in Seq(T) : x = <<a>> /\ Len(x) = 1 /\ x[1] = a
  BY <1>1
<1>3. PICK y \in Seq(T) : y = <<b>> /\ Len(y) = 1 /\ y[1] = b
  BY <1>1
<1> DEFINE q == x \o s
           p == q \o y
<1>4. /\ q \in Seq(T) /\ Len(q) = 1 + Len(s)
      /\ \A i \in 1 .. 1 + Len(s) : q[i] = IF i <= 1 THEN x[i] ELSE s[i - 1]
  BY <1>2, ConcatProperties
<1>. HIDE DEF q
<1>5. \A i \in 1 .. Len(q) + 1 : p[i] = IF i <= Len(q) THEN q[i] ELSE y[i - Len(q)]
  BY <1>3, <1>4, ConcatProperties
<1>. HIDE DEF p
<1>6. p[1] = a
  <2>1. 1 \in 1 .. Len(q) + 1 /\ 1 <= Len(q) /\ 1 \in 1 .. 1 + Len(s) /\ 1 <= 1
    BY <1>1, <1>4
  <2>. QED  BY <1>2, <1>4, <1>5, <2>1
<1>7. p[Len(s) + 2] = b
  <2>1. Len(s) + 2 \in 1 .. Len(q) + 1 /\ ~(Len(s) + 2 <= Len(q)) /\ Len(s) + 2 - Len(q) = 1
    BY <1>1, <1>4
  <2>. QED  BY <1>3, <1>5, <2>1
<1>8. ASSUME NEW i \in 1 .. Len(s)  PROVE p[i + 1] = s[i]
  <2>1. i + 1 \in 1 .. Len(q) + 1 /\ i + 1 <= Len(q) /\ i + 1 \in 1 .. 1 + Len(s) /\ ~(i + 1 <= 1)
        /\ (i + 1) - 1 = i
    BY <1>1, <1>4
  <2>. QED  BY <1>4, <1>5, <2>1
<1>9. p = <<a>> \o s \o <<b>>
  BY <1>2, <1>3 DEF p, q
<1>10. Passes(p, a, s, b)
  BY <1>6, <1>7, <1>8 DEF Passes
<1>. QED  BY <1>9, <1>10

\* The list of an idle caller is what ListInOrderOfUse says of it.
LEMMA IdleListInOrder ==
    ASSUME HeapInv, NEW t \in Threads, IdleInv(t)
    PROVE  ListInOrderOfUse
<1>1. PICK L \in Nat : L = Len(order)
  BY OrderEntries
<1>2. Caching(0) /\ DOMAIN order = 1 .. L
  BY <1>1, OrderEntries DEF IdleInv
<1>3. /\ \A i \in 0 .. L : next[At(1, L, i)] = At(1, L, i + 1)
      /\ \A i \in 1 .. L + 1 : prev[At(1, L, i)] = At(1, L, i - 1)
  <2>1. 1 - 1 = 0
    OBVIOUS
  <2>. QED  BY <1>1, <2>1 DEF IdleInv, Linked, NextLinks, PrevLinks
<1>4. PICK nodes : nodes = [i \in DOMAIN order |-> mapping[order[i].url]]
  OBVIOUS
<1>5. \A i \in 1 .. L : /\ nodes[i] = mapping[order[i].url]
                        /\ nodes[i] \in Allocated /\ nodes[i] # None
                        /\ entry[nodes[i]] = order[i] /\ nodes[i] \in Nodes
  <2>1. \A i \in 1 .. L : nodes[i] = mapping[order[i].url]
    BY <1>2, <1>4
  <2>2. \A i \in 1 .. L : ~(i <= 0) /\ i > 0
    OBVIOUS
  <2>3. \A i \in 1 .. L : mapping[order[i].url] # None /\ entry[mapping[order[i].url]] = order[i]
    BY <1>1, <1>2, <2>2 DEF Caching
  <2>4. \A i \in 1 .. L : order[i].url \in Urls
    BY <1>1, OrderEntries
  <2>5. \A i \in 1 .. L : mapping[order[i].url] \in Allocated
    BY <2>3, <2>4 DEF Allocated
  <2>. QED  BY <2>1, <2>3, <2>5, AllocatedFinite
<1>6. nodes \in [1 .. L -> Nodes]
  BY <1>2, <1>4, <1>5
<1>7. nodes \in Seq(Nodes) /\ Len(nodes) = L
  BY <1>6, IsASeq, LenProperties
<1>9. Leads(next, Header, nodes, Tailer)
  <2> DEFINE path == <<Header>> \o nodes \o <<Tailer>>
  <2>1. path[1] = Header /\ path[L + 2] = Tailer /\ \A i \in 1 .. L : path[i + 1] = nodes[i]
    <3>1. PICK T : T = Nodes \cup {Header, Tailer}
      OBVIOUS
    <3>2. <<Tailer>> \in Seq(T) /\ <<Header>> \in Seq(T) /\ nodes \in Seq(T)
      BY <1>7, <3>1
    <3>3. Tailer \in T /\ Header \in T
      BY <3>1
    <3>4. Passes(path, Header, nodes, Tailer)
      BY <3>2, <3>3, PathIs, Zenon
    <3>. QED  BY <1>7, <3>4 DEF Passes
  <2>. HIDE DEF path
  <2>2. ASSUME NEW i \in 0 .. L + 1  PROVE path[i + 1] = At(1, L, i)
    <3>1. CASE i = 0
      BY <2>1, <3>1 DEF At
    <3>2. CASE i \in 1 .. L
      BY <1>5, <2>1, <3>2 DEF At
    <3>3. CASE i = L + 1
      <4>1. ~(i < 1) /\ i > L /\ i + 1 = L + 2
        BY <3>3
      <4>. QED  BY <2>1, <4>1 DEF At
    <3>. QED  BY <3>1, <3>2, <3>3
  <2>3. ASSUME NEW i \in 1 .. L + 1  PROVE next[path[i]] = path[i + 1]
    <3>1. i - 1 \in 0 .. L /\ i - 1 \in 0 .. L + 1 /\ i \in 0 .. L + 1
          /\ (i - 1) + 1 = i
      OBVIOUS
    <3>2. path[i] = At(1, L, i - 1) /\ path[i + 1] = At(1, L, i)
      BY <2>2, <3>1
    <3>3. next[At(1, L, i - 1)] = At(1, L, i)
      BY <1>3, <3>1
    <3>. QED  BY <3>2, <3>3
  <2>. QED  BY <1>7, <2>3 DEF Leads, path
<1>10. Leads(prev, Tailer, Reverse(nodes), Header)
  <2>1. PICK r : r = Reverse(nodes)
    OBVIOUS
  <2>2. \A i \in 1 .. L : r[i] = nodes[(L - i) + 1] /\ (L - i) + 1 \in 1 .. L
    BY <1>7, <2>1 DEF Reverse
  <2>3. r \in [1 .. L -> Nodes]
    <3>1. \A i \in 1 .. L : r[i] \in Nodes
      BY <1>5, <2>2
    <3>. QED  BY <1>7, <2>1, <3>1 DEF Reverse
  <2>4. r \in Seq(Nodes) /\ Len(r) = L
    BY <2>3, IsASeq, LenProperties
  <2> DEFINE path == <<Tailer>> \o r \o <<Header>>
  <2>5. path[1] = Tailer /\ path[L + 2] = Header /\ \A i \in 1 .. L : path[i + 1] = r[i]
    <3>1. PICK T : T = Nodes \cup {Header, Tailer}
      OBVIOUS
    <3>2. <<Tailer>> \in Seq(T) /\ <<Header>> \in Seq(T) /\ r \in Seq(T)
      BY <2>4, <3>1
    <3>3. Tailer \in T /\ Header \in T
      BY <3>1
    <3>4. Passes(path, Tailer, r, Header)
      BY <3>2, <3>3, PathIs, Zenon
    <3>. QED  BY <2>4, <3>4 DEF Passes
  <2>. HIDE DEF path
  <2>6. ASSUME NEW i \in 0 .. L + 1  PROVE path[i + 1] = At(1, L, (L + 1) - i)
    <3>1. CASE i = 0
      <4>1. ~((L + 1) - i < 1) /\ (L + 1) - i > L
        BY <3>1
      <4>. QED  BY <2>5, <3>1, <4>1 DEF At
    <3>2. CASE i \in 1 .. L
      <4>1. PICK j \in 1 .. L : j = (L - i) + 1
        BY <3>2
      <4>2. (L + 1) - i = j
        BY <3>2, <4>1
      <4>3. At(1, L, j) = nodes[j]
        BY <1>5 DEF At
      <4>4. path[i + 1] = nodes[j]
        BY <2>2, <2>5, <3>2, <4>1
      <4>. QED  BY <4>2, <4>3, <4>4
    <3>3. CASE i = L + 1
      <4>1. (L + 1) - i < 1 /\ i + 1 = L + 2
        BY <3>3
      <4>. QED  BY <2>5, <4>1 DEF At
    <3>. QED  BY <3>1, <3>2, <3>3
  <2>7. ASSUME NEW i \in 1 .. L + 1  PROVE prev[path[i]] = path[i + 1]
    <3>1. i - 1 \in 0 .. L + 1 /\ i \in 0 .. L + 1 /\ (i - 1) + 1 = i
          /\ (L + 1) - (i - 1) \in 1 .. L + 1 /\ ((L + 1) - (i - 1)) - 1 = (L + 1) - i
      OBVIOUS
    <3>2. path[i] = At(1, L, (L + 1) - (i - 1)) /\ path[i + 1] = At(1, L, (L + 1) - i)
      BY <2>6, <3>1
    <3>3. prev[At(1, L, (L + 1) - (i - 1))] = At(1, L, (L + 1) - i)
      BY <1>3, <3>1
    <3>. QED  BY <3>2, <3>3
  <2>8. Leads(prev, Tailer, r, Header)
    BY <2>4, <2>7 DEF Leads, path
  <2>. QED  BY <2>1, <2>8
<1>11. Len(order) = Cardinality(Allocated)
  <2>1. \A i, j \in 1 .. L : nodes[i] = nodes[j] => i = j
    <3>1. \A i, j \in 1 .. L : order[i].url = order[j].url => i = j
      BY <1>1, <1>2 DEF Caching
    <3>. QED  BY <1>5, <3>1
  <2>2. \A n \in Allocated : \E i \in 1 .. L : nodes[i] = n
    <3>1. ASSUME NEW n \in Allocated  PROVE \E i \in 1 .. L : nodes[i] = n
      <4>1. PICK u \in Urls : mapping[u] = n /\ n # None
        BY DEF Allocated
      <4>2. PICK i \in 1 .. L : order[i].url = u
        BY <1>1, <1>2, <4>1 DEF Caching
      <4>. QED  BY <1>5, <4>1, <4>2
    <3>. QED  BY <3>1
  <2>3. nodes \in Bijection(1 .. L, Allocated)
    <3>1. nodes \in [1 .. L -> Allocated]
      BY <1>5, <1>6
    <3>. QED  BY <2>1, <2>2, <3>1 DEF Bijection, Injection, Surjection, IsInjective
  <2>4. ExistsBijection(1 .. L, Allocated)
    BY <2>3 DEF ExistsBijection
  <2>. QED  BY <1>1, <2>4, FS_CountingElements
<1>12. \A i \in DOMAIN order : nodes[i] # None /\ entry[nodes[i]] = order[i]
  BY <1>2, <1>5
<1>. QED  BY <1>4, <1>9, <1>10, <1>11, <1>12 DEF ListInOrderOfUse

\* So it is in every state with the invariant, for a sole caller.
LEMMA ListInvImplies ==
    ASSUME SoleCaller
    PROVE  HeapInv /\ ListInv => ListInOrderOfUse
<1> SUFFICES ASSUME HeapInv, ListInv, Quiet  PROVE ListInOrderOfUse
  BY DEF ListInOrderOfUse
<1>1. PICK t : Threads = {t}
  BY DEF SoleCaller
<1>2. pc[t] \in {"idle", "unlinkNext", "unlinkPrev", "readTail",
                 "linkNext", "linkPrev", "linkNode", "insert"}
  BY <1>1 DEF HeapInv, TypeOK
<1>3. ~Moving(t)
  BY DEF Quiet, Moving
<1>4. ~EvictingInv(t)
  BY <1>1, CacheAssumption DEF Quiet, EvictingInv
<1>5. pc[t] = "idle"
  BY <1>1, <1>2, <1>3, <1>4 DEF ListInv, UnlinkNextInv, UnlinkPrevInv, ReadTailInv, LinkNextInv,
                                LinkPrevInv, LinkNodeInv
<1>6. IdleInv(t)
  BY <1>1, <1>5 DEF ListInv
<1>. QED  BY <1>1, <1>6, IdleListInOrder

\* When a sole caller has to make room, the list starts with a node of the map.
LEMMA EvictInvImplies ==
    ASSUME SoleCaller
    PROVE  HeapInv /\ ListInv => EvictFindsNode
<1> SUFFICES ASSUME HeapInv, ListInv, NEW t \in Threads, pc[t] = "insert", MustEvict(t)
             PROVE  next[Header] \in Allocated
  BY DEF EvictFindsNode
<1>1. PICK L \in Nat : L = Len(order)
  BY OrderEntries
<1>2. PICK d \in 0 .. L : Caching(d) /\ Linked(d + 1, L)
  BY <1>1 DEF ListInv, EvictingInv
<1>3. next[At(d + 1, L, d)] = At(d + 1, L, d + 1)
  <2>1. (d + 1) - 1 = d /\ d \in d .. L
    OBVIOUS
  <2>. QED  BY <1>2, <2>1 DEF Linked, NextLinks
<1>4. At(d + 1, L, d) = Header
  <2>1. d < d + 1
    OBVIOUS
  <2>. QED  BY <2>1 DEF At
<1>5. PICK u \in Urls : mapping[u] # None
  BY DEF MustEvict, Allocated
<1>6. PICK i \in 1 .. L : order[i].url = u
  BY <1>1, <1>2, <1>5 DEF Caching
<1>7. i > d
  BY <1>1, <1>2, <1>5, <1>6 DEF Caching
<1>8. d + 1 \in 1 .. L /\ ~(d + 1 < d + 1) /\ ~(d + 1 > L) /\ ~(d + 1 <= d)
  BY <1>7
<1>9. At(d + 1, L, d + 1) = mapping[order[d + 1].url] /\ mapping[order[d + 1].url] # None
  BY <1>1, <1>2, <1>8 DEF At, Caching
<1>10. order[d + 1].url \in Urls
  BY <1>1, <1>8, OrderEntries
<1>. QED  BY <1>3, <1>4, <1>9, <1>10 DEF Allocated

\* For a sole caller, the list read from either end holds exactly the mapped nodes
\* in the order of their last use whenever no operation is under way: the eight
\* pointer assignments of removeFromList and appendToTail lose no node.
THEOREM ListOrder ==
    ASSUME SoleCaller
    PROVE  Spec => []ListInOrderOfUse
BY HeapInit, HeapStep, OccupancyInit, OccupancyStep, ListInit, ListStep, ListInvImplies, PTL DEF Spec

\* For a sole caller, evictOne always finds the first node of the list in the map:
\* the assertion in it cannot fail.
THEOREM EvictionFindsNode ==
    ASSUME SoleCaller
    PROVE  Spec => []EvictFindsNode
BY HeapInit, HeapStep, OccupancyInit, OccupancyStep, ListInit, ListStep, EvictInvImplies, PTL DEF Spec

\* For a sole caller the cache implements the abstract one: a hit makes a resource
\* the most recently used, an insertion evicts the least recently used ones and no
\* more of them than it needs.
THEOREM Refinement ==
    ASSUME SoleCaller
    PROVE  Spec => ImplementsLRU
<1>1. Init => LRUCache!Init
  BY DEF Init, LRUCache!Init
<1>. QED  BY <1>1, HeapInit, HeapStep, OccupancyInit, OccupancyStep, ListInit, ListStep, PTL
          DEF Spec, ImplementsLRU, LRUCache!Spec
=============================================================================
