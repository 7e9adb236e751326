---------------------------- MODULE SpeechMeter ----------------------------
(***************************************************************************)
(* The speaking-time meter of one participant (core/speaking/meter.py).    *)
(* Durations are counted in frames of FRAME_MS.  Whether a frame clears    *)
(* the threshold, which follows the noise floor, is left open: any         *)
(* sequence of loud and quiet frames may come.  The specification's names  *)
(* begin with Meter: its theorems are proved beside those of Facilitator,  *)
(* which says what the speaking times justify saying.                      *)
(***************************************************************************)
EXTENDS Integers

CONSTANTS
    FramesToOpen,    \* FRAMES_TO_OPEN
    FramesToClose,   \* FRAMES_TO_CLOSE
    MaxFrames        \* bound on the length of the stream

ASSUME SpeechMeterAssumption ==
    FramesToOpen \in Nat \ {0} /\ FramesToClose \in Nat \ {0} /\ MaxFrames \in Nat

VARIABLES
    offset,       \* offset_ms
    openRun,      \* _open_run
    closeRun,     \* _close_run
    speaking,
    current,      \* current_turn_ms
    spoken,       \* speaking_ms
    longest,      \* longest_turn_ms
    turns,        \* turn_count
    lastSpoke,    \* last_spoke_offset_ms
    \* history: the frame that began the last turn, the last loud frame, and
    \* the length of all finished turns from their first to their last loud frame
    start, lastLoud, uttered
meterVars == <<offset, openRun, closeRun, speaking, current, spoken, longest, turns,
               lastSpoke, start, lastLoud, uttered>>

AtLeastZero(n) == IF n > 0 THEN n ELSE 0
Greater(m, n)  == IF m > n THEN m ELSE n

Count(loud) ==
    /\ offset < MaxFrames
    /\ offset' = offset + 1
    /\ openRun'  = IF loud THEN openRun + 1 ELSE 0
    /\ closeRun' = IF loud THEN 0 ELSE closeRun + 1
    /\ lastLoud' = IF loud THEN offset' ELSE lastLoud

(* Mutant of Opens: the gate opens a frame early.                           *)
OpensEarly == ~speaking /\ openRun' >= FramesToOpen - 1

Opens  == ~speaking /\ openRun' >= FramesToOpen
Closes == speaking /\ closeRun' >= FramesToClose

(* Mutant of WithoutSilence: a frame too few.                               *)
WithoutLessSilence(n) == AtLeastZero(n - (FramesToClose - 1))

(* The trailing silence that closed the gate was not speech.               *)
WithoutSilence(n) == AtLeastZero(n - FramesToClose)

(* _frame                                                                  *)
Frame(loud) ==
    /\ Count(loud)
    /\ \/ /\ Opens
          /\ speaking' = TRUE /\ turns' = turns + 1
          /\ current' = FramesToOpen /\ spoken' = spoken + FramesToOpen
          /\ start' = offset' - FramesToOpen + 1
          /\ UNCHANGED <<longest, lastSpoke, uttered>>
       \/ /\ Closes
          /\ speaking' = FALSE
          /\ spoken' = WithoutSilence(spoken)
          /\ longest' = Greater(longest, WithoutSilence(current))
          /\ current' = 0
          /\ uttered' = uttered + lastLoud' - start + 1
          /\ UNCHANGED <<turns, lastSpoke, start>>
       \/ /\ speaking /\ ~Closes
          /\ current' = current + 1 /\ spoken' = spoken + 1 /\ lastSpoke' = offset'
          /\ UNCHANGED <<speaking, longest, turns, start, uttered>>
       \/ /\ ~speaking /\ ~Opens
          /\ UNCHANGED <<speaking, current, spoken, longest, turns, lastSpoke, start, uttered>>

MeterInit ==
    /\ offset = 0 /\ openRun = 0 /\ closeRun = 0 /\ speaking = FALSE /\ current = 0
    /\ spoken = 0 /\ longest = 0 /\ turns = 0 /\ lastSpoke = 0
    /\ start = 0 /\ lastLoud = 0 /\ uttered = 0

MeterNext == Frame(TRUE) \/ Frame(FALSE)

MeterSpec == MeterInit /\ [][MeterNext]_meterVars

-----------------------------------------------------------------------------
(* All counters are numbers of frames.                                     *)
MeterTypeOK ==
    /\ offset \in Nat /\ openRun \in Nat /\ closeRun \in Nat /\ speaking \in BOOLEAN
    /\ current \in Nat /\ spoken \in Nat /\ longest \in Nat /\ turns \in Nat
    /\ lastSpoke \in Nat /\ start \in Nat /\ lastLoud \in Nat /\ uttered \in Nat

Finished == IF speaking THEN turns - 1 ELSE turns

(* What the meter shows, to the frame: the turns as they were heard, each  *)
(* finished one a frame short, and the running one with its silence so     *)
(* far.  In particular nothing is ever cut off at zero.                    *)
CountsWhatWasHeard == spoken = uttered - Finished + current

(* Nobody has spoken for longer than the meter has listened, whatever the  *)
(* gate did, so a share of the talk is never more than the whole; and no   *)
(* turn is longer than all of them.                                        *)
FitsTheClock == spoken <= offset /\ longest <= spoken /\ lastSpoke <= offset

(* meter.py: what is taken off when the gate closes is the trailing        *)
(* silence.  Refuted: it is one frame more than the silence that was       *)
(* counted, for the frame that closes the gate is never added.             *)
OnlySilenceIsTakenOff == ~speaking => spoken = uttered
=============================================================================
