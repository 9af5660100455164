-------------------------------- MODULE LRU --------------------------------
(***************************************************************************)
(* What the static resource cache promises to a single caller: a bounded   *)
(* collection that gives up the least recently used resources, and only    *)
(* as many of them as a new one needs.  Cache.tla is shown to implement it *)
(* when its operations do not overlap.                                     *)
(***************************************************************************)
EXTENDS Naturals, Sequences, SequencesExt

CONSTANTS Urls,      \* the resources, by their path
          Sizes,     \* the sizes a resource may have
          Capacity   \* capacity_

VARIABLE order   \* what is cached, the least recently used first

Entry == [url : Urls, size : Sizes]

Occupancy(s) == SumFunction([i \in DOMAIN s |-> s[i].size])

Cached(u) == \E i \in DOMAIN order : order[i].url = u

Init == order = <<>>

\* A hit makes the resource the most recently used one.
Load(u) ==
    \E i \in DOMAIN order :
        /\ order[i].url = u
        /\ order' = Append(RemoveAt(order, i), order[i])

\* A new resource that fits at all is added, after the fewest evictions from
\* the least recently used end that make room for it.
Insert(u, s) ==
    /\ ~Cached(u)
    /\ s <= Capacity
    /\ \E d \in 0 .. Len(order) :
         LET Rest(n) == SubSeq(order, n + 1, Len(order))
             Fits(n) == Occupancy(Rest(n)) + s <= Capacity
         IN  /\ Fits(d)
             /\ \A n \in 0 .. d - 1 : ~Fits(n)
             /\ order' = Append(Rest(d), [url |-> u, size |-> s])

Clear == order' = <<>>

Next ==
    \/ \E u \in Urls : Load(u)
    \/ \E u \in Urls, s \in Sizes : Insert(u, s)
    \/ Clear

Spec == Init /\ [][Next]_order
=============================================================================
