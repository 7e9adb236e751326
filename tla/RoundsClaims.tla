---------------------------- MODULE RoundsClaims ----------------------------
(***************************************************************************)
(* What rounds.py and tick.py say of starting, clocking and ending a       *)
(* round, stated over Rounds.  TLC refutes each of them (README.md).       *)
(***************************************************************************)
EXTENDS Rounds

(* start_round: every step is idempotent, because it can be retried after  *)
(* a failure halfway through.  The conversation created on first use is    *)
(* forgotten with the transaction, and the retry creates another.          *)
ConversationCreatedOnce == conversations <= 1

(* tick.py: Round.deadline_at is the clock.  A round read as expired is    *)
(* ended after the facilitator has spoken, on a second look at its status  *)
(* alone: an extension in between does not count.                          *)
DeadlineIsTheClock ==
    [][\A r \in Rounds :
         r \in expired \ expired' /\ status[r] = "ACTIVE" /\ status'[r] = "PROCESSING"
             => deadline[r] = 0]_vars

(* end_round: close the rooms.  A round that was started again while its   *)
(* clustering was queued is declared ready for review by that job; it is   *)
(* ACTIVE no more, so neither the tick nor end_round closes its rooms.     *)
EndedRoundIsClosed == \A r \in Rounds : status[r] = "READY_FOR_REVIEW" => rooms[r] = "CLOSED"

(* start_round refuses while another round "is still running"; this one    *)
(* runs no more, so another is started while its rooms are open.           *)
RoomsOfOneRound == \A r, q \in Rounds : rooms[r] = "OPEN" /\ rooms[q] = "OPEN" => r = q

(* close_session: a closed session is COMPLETE.  The clustering of its last*)
(* round sets it to REVIEW.                                                *)
ClosedIsComplete == closed => session = "COMPLETE"
=============================================================================
