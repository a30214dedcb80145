----------------------------- MODULE MCSendQueue -----------------------------
(***************************************************************************)
(* Instances of SendQueue for TLC.  Two callers of Write and two workers:  *)
(* the worker that posted the next send may still be freeing the old       *)
(* buffer when the other one already handles its completion.               *)
(***************************************************************************)
EXTENDS SendQueue
=============================================================================
