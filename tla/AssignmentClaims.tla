-------------------------- MODULE AssignmentClaims --------------------------
(***************************************************************************)
(* What the code says or takes for granted of plans and seats, stated over *)
(* Assignment.  TLC refutes each of them (README.md).                      *)
(***************************************************************************)
EXTENDS MCAssignment

(* services/deliberation.py:411-415, _replace_members: an attendee id      *)
(* "survives any reshuffle and must not be thrown away with the old plan". *)
(* ensure_rooms deletes the surplus rooms with the seats in them before    *)
(* the ids are collected (337 before 342, 366 before 368), so a plan that  *)
(* shrinks loses those of the rooms it drops.                              *)
SurvivesAnyReshuffle ==
    [][\A r \in Rounds, p \in People :
           ids[r][p] # "none" /\ plan'[r][p] # Nowhere => ids'[r][p] # "none"]_vars

(* core/engine/rounds.py:5-6: "the engine has already decided who is in    *)
(* which room, and this module makes Talk execute it".  A start that makes *)
(* the plan itself reads the rooms' lists of members before it (97) and    *)
(* again after (122-130), where they are still empty: of a round with      *)
(* rooms and nobody in them it sees only the rooms that were added.        *)
TalkExecutesIt ==
    \A r \in applied \intersect Active : \A p \in Seated(r) \intersect Participants :
        p \in present /\ ids[r][p] # "stale" /\ plan[r][p] <= tokens[r]
            => where[p] = plan[r][p]

(* A seat is of a participant of the session: move_participant             *)
(* (services/deliberation.py:388-404) takes any participant there is.      *)
SeatsAreOfTheSession == \A r \in Rounds : Seated(r) \subseteq Participants
=============================================================================
