------------------------------ MODULE MCIOObject ------------------------------
(***************************************************************************)
(* An instance of IOObject for TLC: four references, so that two may be    *)
(* added while a third is released and others are out.  References are     *)
(* interchangeable.                                                        *)
(***************************************************************************)
EXTENDS IOObject, TLC

Symmetry == Permutations(Refs)
=============================================================================
