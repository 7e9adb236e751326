------------------------------ MODULE MCReview ------------------------------
(***************************************************************************)
(* Review for TLC: a room with a chat and a room with a microphone.        *)
(***************************************************************************)
EXTENDS Review, TLC

Table == [r \in Recordings |-> IF r = "far" THEN "b" ELSE "a"]

(* Nothing tells one id from another.                                      *)
Symmetry == Permutations(Ids)
=============================================================================
