---------------------------- MODULE MCClangTidy ----------------------------
(***************************************************************************)
(* Model-checking instance of ClangTidy.                                   *)
(***************************************************************************)
EXTENDS ClangTidy
=============================================================================
