---------------------------- MODULE MCBufferPool ----------------------------
(***************************************************************************)
(* Instances of BufferPool for TLC.  There is one buffer more than         *)
(* NoGrowth allows, so that operator new is never refused before the       *)
(* bound is broken.                                                        *)
(***************************************************************************)
EXTENDS BufferPool, TLC

Symmetry == Permutations(Threads) \union Permutations(Buffers)
=============================================================================
