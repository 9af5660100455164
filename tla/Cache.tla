------------------------------- MODULE Cache -------------------------------
(***************************************************************************)
(* The cache of static resources the HTTP handlers of all sub reactors     *)
(* share: a hash map from the path to a node, and a doubly linked list of  *)
(* the nodes between two sentinels, the next victim first.                 *)
(*                                                                         *)
(* Source: net/cache.cpp, include/net/cache.hpp.                           *)
(*                                                                         *)
(* tryInsert holds the lock exclusively.  tryLoad holds it shared, yet     *)
(* moves the node it hits to the tail of the list, so two threads may be   *)
(* in the middle of that at once: each of its pointer assignments is a     *)
(* step of its own.  clear takes no lock, and nothing calls it so far.     *)
(***************************************************************************)
EXTENDS Integers, Sequences, FiniteSets, SequencesExt, FiniteSetsExt

CONSTANTS Threads,
          Urls,      \* the resources, by their path
          Nodes,     \* the storage for CacheNodes
          Header,    \* header_
          Tailer,    \* tailer_
          None,      \* the null pointer
          Sizes,     \* the sizes a resource may have
          Capacity,  \* capacity_
          Word,      \* size_t counts modulo Word
          MayClear   \* whether the program calls clear

ASSUME CacheAssumption ==
    /\ Capacity \in Nat /\ Word \in Nat /\ Capacity < Word
    /\ Sizes \subseteq 0 .. Word - 1
    /\ IsFiniteSet(Nodes) /\ IsFiniteSet(Urls)
    /\ Cardinality(Nodes) >= Cardinality(Urls)
    /\ Header # Tailer
    /\ {Header, Tailer, None} \cap Nodes = {}
    /\ None \notin Urls \cup Threads \cup {Header, Tailer}
    /\ MayClear \in BOOLEAN

VARIABLES mapping,    \* mapping_: the node of each cached path
          entry,      \* identifier_ and data_ of a node, up to its size
          next, prev, \* next_ and prev_ of a node
          occupancy,  \* occupancy_
          readers,    \* the threads that hold mtx_ shared
          writer,     \* the one that holds it exclusively, or None
          pc,         \* where each thread is
          local,      \* its node, node_prev and node_next of the list helpers
          order       \* history: what is cached, the least recently used first

heapVars == <<mapping, entry, next, prev, occupancy>>
lockVars == <<readers, writer>>
vars == <<heapVars, lockVars, pc, local, order>>

List == Nodes \cup {Header, Tailer}
Entry == [url : Urls, size : Sizes]
NoEntry == [url |-> None, size |-> 0]

\* The nodes that are not freed: a node lives as long as mapping_ refers to it.
Allocated == {mapping[u] : u \in Urls} \ {None}

NoLocal == [node |-> None, before |-> None, after |-> None, new |-> NoEntry]

TypeOK ==
    /\ mapping \in [Urls -> Nodes \cup {None}]
    /\ entry \in [List -> Entry \cup {NoEntry}]
    /\ next \in [List -> List \cup {None}]
    /\ prev \in [List -> List \cup {None}]
    /\ occupancy \in 0 .. Word - 1
    /\ readers \subseteq Threads
    /\ writer \in Threads \cup {None}
    /\ pc \in [Threads -> {"idle", "unlinkNext", "unlinkPrev", "readTail",
                           "linkNext", "linkPrev", "linkNode", "insert"}]
    /\ local \in [Threads -> [node : Nodes \cup {None}, before : List \cup {None},
                              after : List \cup {None}, new : Entry \cup {NoEntry}]]
    /\ order \in Seq(Entry)

Init ==
    /\ mapping = [u \in Urls |-> None]
    /\ entry = [n \in List |-> NoEntry]
    /\ next = [n \in List |-> IF n = Header THEN Tailer ELSE None]
    /\ prev = [n \in List |-> IF n = Tailer THEN Header ELSE None]
    /\ occupancy = 0
    /\ readers = {} /\ writer = None
    /\ pc = [t \in Threads |-> "idle"]
    /\ local = [t \in Threads |-> NoLocal]
    /\ order = <<>>
----------------------------------------------------------------------------
(***************************************************************************)
(* tryLoad                                                                 *)
(***************************************************************************)
Goto(t, label) == pc' = [pc EXCEPT ![t] = label]

\* The lock is taken shared and the path looked up; a miss returns at once.
Miss(t) ==
    /\ pc[t] = "idle"
    /\ writer = None
    /\ \E u \in Urls : mapping[u] = None
    /\ UNCHANGED vars

\* A hit copies the data and enters removeFromList, which reads the neighbours
\* of the node ...
Hit(t) ==
    /\ pc[t] = "idle"
    /\ writer = None
    /\ \E u \in Urls :
         LET n == mapping[u] IN
         /\ n # None
         /\ local' = [local EXCEPT ![t] =
              [node |-> n, before |-> prev[n], after |-> next[n], new |-> NoEntry]]
         /\ \E i \in DOMAIN order :
              /\ order[i].url = u
              /\ order' = Append(RemoveAt(order, i), entry[n])
    /\ readers' = readers \cup {t}
    /\ Goto(t, "unlinkNext")
    /\ UNCHANGED <<heapVars, writer>>

\* ... and makes them point at each other.
UnlinkNext(t) ==
    /\ pc[t] = "unlinkNext"
    /\ next' = [next EXCEPT ![local[t].before] = local[t].after]
    /\ Goto(t, "unlinkPrev")
    /\ UNCHANGED <<mapping, entry, prev, occupancy, lockVars, local, order>>

\* Mutant of UnlinkPrev: only the forward pointer is repaired.
UnlinkPrevMissing(t) ==
    /\ pc[t] = "unlinkPrev"
    /\ Goto(t, "readTail")
    /\ UNCHANGED <<heapVars, lockVars, local, order>>

UnlinkPrev(t) ==
    /\ pc[t] = "unlinkPrev"
    /\ prev' = [prev EXCEPT ![local[t].after] = local[t].before]
    /\ Goto(t, "readTail")
    /\ UNCHANGED <<mapping, entry, next, occupancy, lockVars, local, order>>

\* appendToTail: the last node is read, and the node put behind it.
ReadTail(t) ==
    /\ pc[t] = "readTail"
    /\ local' = [local EXCEPT ![t].before = prev[Tailer]]
    /\ Goto(t, "linkNext")
    /\ UNCHANGED <<heapVars, lockVars, order>>

LinkNext(t) ==
    /\ pc[t] = "linkNext"
    /\ next' = [next EXCEPT ![local[t].before] = local[t].node]
    /\ Goto(t, "linkPrev")
    /\ UNCHANGED <<mapping, entry, prev, occupancy, lockVars, local, order>>

LinkPrev(t) ==
    /\ pc[t] = "linkPrev"
    /\ prev' = [prev EXCEPT ![Tailer] = local[t].node]
    /\ Goto(t, "linkNode")
    /\ UNCHANGED <<mapping, entry, next, occupancy, lockVars, local, order>>

\* The node's own pointers, the time stamp, and the end of the shared lock.
LinkNode(t) ==
    /\ pc[t] = "linkNode"
    /\ prev' = [prev EXCEPT ![local[t].node] = local[t].before]
    /\ next' = [next EXCEPT ![local[t].node] = Tailer]
    /\ readers' = readers \ {t}
    /\ local' = [local EXCEPT ![t] = NoLocal]
    /\ Goto(t, "idle")
    /\ UNCHANGED <<mapping, entry, occupancy, writer, order>>
----------------------------------------------------------------------------
(***************************************************************************)
(* tryInsert, under the exclusive lock                                     *)
(***************************************************************************)
\* The path is cached already, or the resource exceeds the whole capacity.
InsertRefused(t) ==
    /\ pc[t] = "idle"
    /\ writer = None /\ readers = {}
    /\ \E u \in Urls, s \in Sizes : mapping[u] # None \/ s > Capacity
    /\ UNCHANGED vars

InsertBegin(t) ==
    /\ pc[t] = "idle"
    /\ writer = None /\ readers = {}
    /\ \E u \in Urls, s \in Sizes :
         /\ mapping[u] = None
         /\ s <= Capacity
         /\ local' = [local EXCEPT ![t].new = [url |-> u, size |-> s]]
    /\ writer' = t
    /\ Goto(t, "insert")
    /\ UNCHANGED <<heapVars, readers, order>>

\* Mutant of MustEvict: the new resource need not fit, it is enough that the
\* cache is not full before it.
MustEvictFull(t) == Allocated # {} /\ occupancy >= Capacity

\* The condition of the eviction loop; the difference is unsigned.
MustEvict(t) ==
    /\ Allocated # {}
    /\ (Capacity - occupancy) % Word < local[t].new.size

\* Mutant of Evict: the victim is taken at the tail.
EvictNewest(t) ==
    /\ pc[t] = "insert"
    /\ MustEvict(t)
    /\ LET n == prev[Tailer] IN
         /\ n \in Allocated
         /\ next' = [next EXCEPT ![prev[n]] = next[n]]
         /\ prev' = [prev EXCEPT ![next[n]] = prev[n]]
         /\ mapping' = [mapping EXCEPT ![entry[n].url] = None]
         /\ occupancy' = (occupancy - entry[n].size) % Word
    /\ UNCHANGED <<entry, lockVars, pc, local, order>>

\* evictOne: the first node of the list leaves list and map and is freed.  It
\* must still be a node (the assertion that the map knows its path).
Evict(t) ==
    /\ pc[t] = "insert"
    /\ MustEvict(t)
    /\ LET n == next[Header] IN
         /\ n \in Allocated
         /\ next' = [next EXCEPT ![prev[n]] = next[n]]
         /\ prev' = [prev EXCEPT ![next[n]] = prev[n]]
         /\ mapping' = [mapping EXCEPT ![entry[n].url] = None]
         /\ occupancy' = (occupancy - entry[n].size) % Word
    /\ UNCHANGED <<entry, lockVars, pc, local, order>>

\* The history without what has been evicted.
StillCached ==
    FoldLeft(LAMBDA kept, e : IF mapping[e.url] = None THEN kept ELSE Append(kept, e),
             <<>>, order)

\* Mutant of InsertEnd: the node is made without its identifier.
InsertEndUnnamed(t) ==
    /\ pc[t] = "insert"
    /\ ~MustEvict(t)
    /\ \E n \in Nodes \ Allocated :
         LET new == local[t].new
             last == prev[Tailer]
         IN  /\ entry' = [entry EXCEPT ![n] = NoEntry]
             /\ next' = [next EXCEPT ![last] = n, ![n] = Tailer]
             /\ prev' = [prev EXCEPT ![Tailer] = n, ![n] = last]
             /\ mapping' = [mapping EXCEPT ![new.url] = n]
             /\ occupancy' = (occupancy + new.size) % Word
             /\ order' = Append(StillCached, entry'[n])
    /\ writer' = None
    /\ local' = [local EXCEPT ![t] = NoLocal]
    /\ Goto(t, "idle")
    /\ UNCHANGED readers

\* There is room: a new node at the tail, in whatever storage is free.
InsertEnd(t) ==
    /\ pc[t] = "insert"
    /\ ~MustEvict(t)
    /\ \E n \in Nodes \ Allocated :
         LET new == local[t].new
             last == prev[Tailer]
         IN  /\ entry' = [entry EXCEPT ![n] = new]
             /\ next' = [next EXCEPT ![last] = n, ![n] = Tailer]
             /\ prev' = [prev EXCEPT ![Tailer] = n, ![n] = last]
             /\ mapping' = [mapping EXCEPT ![new.url] = n]
             /\ occupancy' = (occupancy + new.size) % Word
             /\ order' = Append(StillCached, entry'[n])
    /\ writer' = None
    /\ local' = [local EXCEPT ![t] = NoLocal]
    /\ Goto(t, "idle")
    /\ UNCHANGED readers

\* clear takes no lock.
Clear(t) ==
    /\ MayClear
    /\ pc[t] = "idle"
    /\ next' = [next EXCEPT ![Header] = Tailer]
    /\ prev' = [prev EXCEPT ![Tailer] = Header]
    /\ mapping' = [u \in Urls |-> None]
    /\ occupancy' = 0
    /\ order' = <<>>
    /\ UNCHANGED <<entry, lockVars, pc, local>>

LoadNext(t) ==
    \/ Miss(t) \/ Hit(t) \/ UnlinkNext(t) \/ UnlinkPrev(t)
    \/ ReadTail(t) \/ LinkNext(t) \/ LinkPrev(t) \/ LinkNode(t)

InsertNext(t) == InsertRefused(t) \/ InsertBegin(t) \/ Evict(t) \/ InsertEnd(t)

Next == \E t \in Threads : LoadNext(t) \/ InsertNext(t) \/ Clear(t)

Spec == Init /\ [][Next]_vars
----------------------------------------------------------------------------
\* Following the pointers of link from one node leads through nodes to another.
Leads(link, from, nodes, to) ==
    LET path == <<from>> \o nodes \o <<to>>
    IN  \A i \in 1 .. Len(nodes) + 1 : link[path[i]] = path[i + 1]

Quiet == readers = {} /\ writer = None

\* evictOne finds the path of the first node in the map (the assertion at
\* cache.cpp:110): when room must be made, the list starts with a live node.
EvictFindsNode ==
    \A t \in Threads : pc[t] = "insert" /\ MustEvict(t) => next[Header] \in Allocated

\* Between operations the list, read from either end, holds exactly the nodes
\* the map refers to, in the order of their last use (cache.cpp:116-131).
ListInOrderOfUse ==
    LET nodes == [i \in DOMAIN order |-> mapping[order[i].url]]
    IN  Quiet =>
          /\ Leads(next, Header, nodes, Tailer)
          /\ Leads(prev, Tailer, Reverse(nodes), Header)
          /\ \A i \in DOMAIN order : nodes[i] # None /\ entry[nodes[i]] = order[i]
          /\ Len(order) = Cardinality(Allocated)

\* occupancy_ is the sum of the cached sizes and within the capacity, so the
\* unsigned capacity_ - occupancy_ never wraps around (cache.cpp:89-94, 113).
OccupancyExact ==
    /\ occupancy = SumFunctionOnSet([n \in Nodes |-> entry[n].size], Allocated)
    /\ occupancy <= Capacity

\* The history of uses is what the abstract cache keeps; ListInOrderOfUse says
\* that the list holds the same.
LRUCache == INSTANCE LRU WITH Urls <- Urls, Sizes <- Sizes, Capacity <- Capacity,
                              order <- order

\* The cache behaves as the abstract one: a hit makes a resource the most recently
\* used, an insertion evicts the least recently used ones and no more of them
\* than it needs (cache.cpp:61-114).
ImplementsLRU == LRUCache!Spec
=============================================================================
