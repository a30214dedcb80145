--------------------------- MODULE MCAcceptPipeline ---------------------------
(***************************************************************************)
(* An instance of AcceptPipeline for TLC: three clients that come and go   *)
(* as they like, a backlog of two, two workers.                            *)
(***************************************************************************)
EXTENDS AcceptPipeline
=============================================================================
