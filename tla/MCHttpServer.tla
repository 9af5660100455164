---------------------------- MODULE MCHttpServer ----------------------------
(***************************************************************************)
(* Instance of HttpServer for TLC.                                         *)
(***************************************************************************)
EXTENDS HttpServer
=============================================================================
