----------------------------- MODULE MCShutdown -----------------------------
(***************************************************************************)
(* An instance of Shutdown for TLC.                                        *)
(***************************************************************************)
EXTENDS Shutdown

MCMain == 0
MCNobody == -1
MCCallers == 0..N
=============================================================================
