------------------------- MODULE FacilitatorClaims -------------------------
(***************************************************************************)
(* What policies.py, facilitator.py and tick.py say of the facilitator,    *)
(* stated over Facilitator.  TLC refutes each of them (README.md).         *)
(***************************************************************************)
EXTENDS Facilitator

(* policies.py: the room is reminded at each of TIME_MARKS.  Only the      *)
(* first mark that has passed is ever looked at, said or not, so nothing   *)
(* is said at five or two minutes.                                         *)
PassedMarkIsRaised ==
    remaining > 0 => \A m \in Rooms, n \in DOMAIN TIME_MARKS :
        remaining <= TIME_MARKS[n] /\ Intent(m, "time", TIME_MARKS[n], Nobody) \notin recorded
            => TimeRaised(m) # {}

(* facilitator.py, header: an intent that cannot be phrased in time is     *)
(* dropped, never delayed.  Only messages that were sent leave a           *)
(* moderation event, so the next tick raises the dropped one again.        *)
DroppedStaysDropped ==
    [][\A i \in unsaid : heard'[i] = heard[i]]_vars

(* tick.py, header: a restart mid-round picks up where it left off instead *)
(* of repeating itself.  A crash between posting and recording repeats.    *)
NothingSaidTwice == \A i \in Intents : heard[i] <= 1
=============================================================================
