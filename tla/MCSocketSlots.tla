---------------------------- MODULE MCSocketSlots ----------------------------
(***************************************************************************)
(* An instance of SocketSlots for TLC: two slots, two workers and three    *)
(* connections, so that two workers race for a slot, a slot is used again, *)
(* and a connection may find all of them taken.                            *)
(***************************************************************************)
EXTENDS SocketSlots, TLC

Symmetry == Permutations(Workers)
=============================================================================
