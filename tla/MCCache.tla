------------------------------ MODULE MCCache ------------------------------
(***************************************************************************)
(* Instances of Cache for TLC.                                             *)
(***************************************************************************)
EXTENDS Cache, TLC

MCSizes == {0, 1, 2, 3, 4}

Symmetry == Permutations(Nodes) \cup Permutations(Urls)
=============================================================================
