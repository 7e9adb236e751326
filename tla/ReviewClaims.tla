---------------------------- MODULE ReviewClaims ----------------------------
(***************************************************************************)
(* What the plan says of findings whose passages are lost, stated over     *)
(* Review.  TLC refutes it (README.md).                                    *)
(***************************************************************************)
EXTENDS MCReview

(* PLAN.md: deleting a transcript marks dependent findings                 *)
(* "evidence_removed".  Reading a chat again and deleting a person delete  *)
(* transcripts as well, and their cascades mark nobody.                    *)
DeletedTranscriptsMark ==
    \A i \in OfRooms : finding[i].evidence = {} => finding[i].removed
=============================================================================
