---------------------------- MODULE MCAssignment ----------------------------
(***************************************************************************)
(* Assignment for TLC: nothing tells one person from another.              *)
(***************************************************************************)
EXTENDS Assignment, TLC

Symmetry == Permutations(People)
=============================================================================
