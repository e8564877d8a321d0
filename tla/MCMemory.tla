------------------------------ MODULE MCMemory ------------------------------
(***************************************************************************)
(* Small instances of Memory.                                              *)
(***************************************************************************)
EXTENDS Memory, TLC

Symmetry == Permutations(Blocks) \cup Permutations(Variables)
=============================================================================
