--------------------------- MODULE PipelineClaims ---------------------------
(***************************************************************************)
(* What handlers.py, recording_states.py and their neighbours say of the   *)
(* chain, stated over Pipeline.  TLC refutes each of them (README.md).     *)
(***************************************************************************)
EXTENDS Pipeline

(* Nothing is left that would move the round on, although no job failed:   *)
(* only the organizer's request for another analysis could.                *)
Stuck ==
    /\ round = "PROCESSING" /\ Live = {} /\ failed = {}
    /\ \A r \in Recordings : rec[r] \notin OpenStates

(* handlers.py, header: a failed transcription leaves the recording marked *)
(* and the round reviewable, never stuck.  The round is only looked at     *)
(* again after the analysis of a room, which a recording without captions  *)
(* no longer asks for.                                                     *)
NeverStuck == ~Stuck

(* recording_states.py: a recording is given up because leaving it in a    *)
(* pending state blocks the round's analysis.  Giving it up does not       *)
(* unblock the round: the sweep asks nobody to look at it again.           *)
GivingUpUnblocks == ~(Stuck /\ \E r \in Recordings : rec[r] = "UPLOAD_INCOMPLETE")

(* handlers.py, _maybe_finish_round_for_room: the round is clustered once  *)
(* every room that could produce findings has.  A recording that waits for *)
(* its transcription is not counted as pending.                            *)
ClusteredAfterEveryRoom ==
    round = "READY_FOR_REVIEW" /\ Live = {} /\ (\A r \in Recordings : rec[r] = "TRANSCRIBED")
        => \A m \in Rooms : findings[m] \subseteq clustered[m]

(* handlers.py, header: every handler is idempotent.  A handler that runs  *)
(* again, after a restart or because a transaction raised, finds its work  *)
(* done and returns without the job that the first run had yet to enqueue. *)
RetryResumesChain ==
    Live = {} /\ failed = {} => \A r \in Recordings :
        \/ rec[r] \notin {"AUDIO_READY", "TRANSCRIBING", "TRANSCRIPTION_FAILED"}
        \/ r \notin captions
=============================================================================
