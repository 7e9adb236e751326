----------------------------- MODULE MCPipeline -----------------------------
(***************************************************************************)
(* Instances of Pipeline, and of its claims, for TLC.                      *)
(***************************************************************************)
EXTENDS PipelineClaims

OneRoom  == [r \in Recordings |-> 1]    \* everybody sits at the first table
OwnRooms == [r \in Recordings |-> r]    \* everybody has a table
=============================================================================
