---------------------------- MODULE ChunkArchive ----------------------------
(***************************************************************************)
(* What the capture pipeline promises about sound: every recording is an   *)
(* array of slots that are written once, one at a time; its length may be  *)
(* declared and declared again until it is sealed; it is sealed once, only *)
(* when no slot below a positive length is empty, and after that nothing   *)
(* about it changes.  Capture implements it.                               *)
(***************************************************************************)
EXTENDS Naturals

CONSTANTS Recs, Seqs, Lives, None

VARIABLES slot, length, sealed
vars == <<slot, length, sealed>>

Init ==
    /\ slot = [r \in Recs |-> [s \in Seqs |-> None]]
    /\ length = [r \in Recs |-> 0]
    /\ sealed = {}

Store(r, s, c) ==
    /\ r \notin sealed /\ slot[r][s] = None
    /\ slot' = [slot EXCEPT ![r][s] = c]
    /\ UNCHANGED <<length, sealed>>

Declare ==
    /\ length' \in [Recs -> Nat]
    /\ \A r \in sealed : length'[r] = length[r]
    /\ UNCHANGED <<slot, sealed>>

Seal(r) ==
    /\ r \notin sealed /\ length[r] > 0
    /\ \A s \in Seqs : s < length[r] => slot[r][s] # None
    /\ sealed' = sealed \union {r}
    /\ UNCHANGED <<slot, length>>

Next ==
    \/ \E r \in Recs, s \in Seqs, c \in Lives : Store(r, s, c)
    \/ Declare
    \/ \E r \in Recs : Seal(r)

Spec == Init /\ [][Next]_vars
=============================================================================
