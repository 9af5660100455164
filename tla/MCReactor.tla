------------------------------ MODULE MCReactor ------------------------------
(***************************************************************************)
(* Model-checking instance of Reactor: the names are model values, which   *)
(* the specification treats alike, so every permutation is a symmetry.     *)
(***************************************************************************)
EXTENDS Reactor, TLC

Symmetry ==
    Permutations(Loops) \cup Permutations(Clients)
        \cup Permutations(Fds) \cup Permutations(Conns)
=============================================================================
