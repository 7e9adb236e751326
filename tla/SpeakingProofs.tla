--------------------------- MODULE SpeakingProofs ---------------------------
(***************************************************************************)
(* Theorems about the speaking times and what is made of them: Facilitator,*)
(* for any rooms, people, minutes and losses, and SpeechMeter, for gates   *)
(* of any width and streams of any length.                                 *)
(***************************************************************************)
EXTENDS Facilitator, SpeechMeter, TLAPS

-----------------------------------------------------------------------------
(* Facilitator: its types, and how often a room is told a thing.  A copy   *)
(* of a message is accounted for by a row, by the memory of the tick that  *)
(* said it, or by a loss; and what a tick still plans to say is in neither *)
(* of the first two.                                                       *)

(* What the tick plans to say it has neither said nor recorded, and        *)
(* between two ticks nothing is remembered.                                *)
PlanIsNew ==
    /\ plan \intersect (recorded \union sent) = {}
    /\ tick = "idle" => sent = {}

(* Every copy but those that were lost is known.                           *)
CopiesAreKnown ==
    \A i \in Intents :
        heard[i] <= losses + (IF i \in recorded \union sent THEN 1 ELSE 0)

(* What the tick takes for sent was heard.                                 *)
SentWasHeard == \A i \in recorded \union sent : heard[i] > 0

Inv == TypeOK /\ PlanIsNew /\ CopiesAreKnown /\ SentWasHeard

LEMMA PlanType ==
    ASSUME TypeOK
    PROVE  Plan \subseteq Intents /\ Plan \intersect recorded = {}
BY DEF TypeOK, Plan, MostUrgent, Raised, TimeRaised, TalkRaised, Intents, TimeIntents

LEMMA MeasuresType ==
    ASSUME NEW m \in Rooms
    PROVE  \A M \in Measures(m) : M \subseteq TalkIntents
BY DEF Measures, TalkIntents, Intent, Kinds

(* Init => Inv                                                             *)
LEMMA InitInv == Init => Inv
BY FacilitatorAssumption
   DEF Init, Inv, TypeOK, PlanIsNew, CopiesAreKnown, SentWasHeard

(* Every step keeps the types.                                             *)
LEMMA TypeStep == TypeOK /\ [Next]_vars => TypeOK'
<1> SUFFICES ASSUME TypeOK, [Next]_vars PROVE TypeOK'
  OBVIOUS
<1> USE FacilitatorAssumption DEF TypeOK
<1>1. CASE TickRead
  BY <1>1, PlanType DEF TickRead, dbVars, bounds
<1>2. CASE Record
  BY <1>2 DEF Record, Forget, bounds
<1>3. CASE LoseTick
  BY <1>3 DEF LoseTick, Forget, dbVars
<1>4. CASE TickEnd
  BY <1>4 DEF TickEnd, tickVars, bounds
<1>5. ASSUME NEW i \in Intents, Say(i) PROVE TypeOK'
  BY <1>5 DEF Say, PhraseNext, Hear, dbVars, bounds
<1>6. ASSUME NEW i \in Intents, Miss(i) PROVE TypeOK'
  BY <1>6 DEF Miss, PhraseNext, dbVars, bounds
<1>7. ASSUME NEW i \in Intents, SayUnconfirmed(i) PROVE TypeOK'
  BY <1>7 DEF SayUnconfirmed, PhraseNext, Hear, dbVars
<1>8. CASE EndRound
  BY <1>8 DEF EndRound, tickVars, bounds
<1>9. CASE ExtendRound
  BY <1>9 DEF ExtendRound, tickVars
<1>10. CASE PassMinute
  BY <1>10 DEF PassMinute, tickVars, bounds
<1>11. ASSUME NEW m \in Rooms, Measure(m) PROVE TypeOK'
  BY <1>11, MeasuresType DEF Measure, tickVars
<1>12. CASE UNCHANGED vars
  BY <1>12 DEF vars, dbVars, tickVars, bounds
<1> QED
  BY <1>1, <1>2, <1>3, <1>4, <1>5, <1>6, <1>7, <1>8, <1>9, <1>10, <1>11, <1>12 DEF Next

(* Every step keeps the account of the copies.                             *)
LEMMA CopiesStep == Inv /\ [Next]_vars => (PlanIsNew /\ CopiesAreKnown /\ SentWasHeard)'
<1> SUFFICES ASSUME Inv, [Next]_vars
             PROVE  (PlanIsNew /\ CopiesAreKnown /\ SentWasHeard)'
  OBVIOUS
<1> USE DEF Inv, TypeOK, PlanIsNew, CopiesAreKnown, SentWasHeard
<1>1. CASE TickRead
  BY <1>1, PlanType DEF TickRead, dbVars, bounds
<1>2. CASE Record
  BY <1>2 DEF Record, Forget, bounds
<1>3. CASE LoseTick
  BY <1>3 DEF LoseTick, Forget, dbVars
<1>4. ASSUME NEW i \in Intents, Say(i)
      PROVE  (PlanIsNew /\ CopiesAreKnown /\ SentWasHeard)'
  BY <1>4 DEF Say, PhraseNext, Hear, dbVars, bounds
<1>5. ASSUME NEW i \in Intents, Miss(i)
      PROVE  (PlanIsNew /\ CopiesAreKnown /\ SentWasHeard)'
  BY <1>5 DEF Miss, PhraseNext, dbVars, bounds
<1>6. ASSUME NEW i \in Intents, SayUnconfirmed(i)
      PROVE  (PlanIsNew /\ CopiesAreKnown /\ SentWasHeard)'
  BY <1>6 DEF SayUnconfirmed, PhraseNext, Hear, dbVars
<1>7. CASE TickEnd \/ EndRound \/ ExtendRound \/ PassMinute \/ \E m \in Rooms : Measure(m)
  BY <1>7 DEF TickEnd, EndRound, ExtendRound, PassMinute, Measure, tickVars, bounds
<1>8. CASE UNCHANGED vars
  BY <1>8 DEF vars, dbVars, tickVars, bounds
<1> QED
  BY <1>1, <1>2, <1>3, <1>4, <1>5, <1>6, <1>7, <1>8 DEF Next

LEMMA InvHolds == Spec => []Inv
<1>1. Inv /\ [Next]_vars => Inv'
  BY TypeStep, CopiesStep DEF Inv
<1> QED
  BY <1>1, InitInv, PTL DEF Spec

(* The rows, the tick's memory and the counters have their types.          *)
THEOREM TypeCorrect == Spec => []TypeOK
<1>1. Inv => TypeOK
  BY DEF Inv
<1> QED
  BY <1>1, InvHolds, PTL

(* A message reaches a room more than once only by a loss.                 *)
THEOREM RepeatsNeedALoss == Spec => []RepeatsAreLosses
<1>1. Inv => RepeatsAreLosses
  BY DEF Inv, TypeOK, CopiesAreKnown, RepeatsAreLosses
<1> QED
  BY <1>1, InvHolds, PTL

(* What the log has was heard.                                             *)
THEOREM LogIsHonest == Spec => []RecordedWasHeard
<1>1. Inv => RecordedWasHeard
  BY DEF Inv, SentWasHeard, RecordedWasHeard
<1> QED
  BY <1>1, InvHolds, PTL

-----------------------------------------------------------------------------
(* SpeechMeter: the account of what was uttered and what is counted.       *)

(* Every counter but the flag is a number.                                 *)
Numbers ==
    /\ offset \in Nat /\ openRun \in Nat /\ closeRun \in Nat
    /\ current \in Nat /\ spoken \in Nat /\ longest \in Nat /\ turns \in Nat
    /\ lastSpoke \in Nat /\ start \in Nat /\ lastLoud \in Nat /\ uttered \in Nat

(* While the gate is open: where the turn began, where it was last heard,  *)
(* and how much of it is silence so far.                                   *)
WhileOpen ==
    /\ lastLoud = offset - closeRun /\ closeRun < FramesToClose
    /\ start >= 1 /\ start + FramesToOpen <= lastLoud + 1
    /\ current = offset - start + 1 /\ turns >= 1
    /\ spoken <= offset

WhileClosed ==
    /\ current = 0 /\ openRun < FramesToOpen
    /\ spoken + openRun <= offset

(* Every finished turn was heard for a frame at least, and the finished    *)
(* turns are in the total.                                                 *)
Ledger ==
    /\ uttered >= Finished /\ longest <= spoken - current /\ lastSpoke <= offset

MeterInv ==
    /\ Numbers
    /\ IF speaking THEN WhileOpen ELSE WhileClosed
    /\ CountsWhatWasHeard /\ Ledger

LEMMA MeterInitInv == MeterInit => MeterInv
<1> SUFFICES ASSUME MeterInit PROVE MeterInv
  OBVIOUS
<1>1. Numbers /\ WhileClosed
  BY SpeechMeterAssumption DEF MeterInit, Numbers, WhileClosed
<1>2. ~speaking
  BY Zenon DEF MeterInit
<1>3. Finished = turns
  BY <1>2 DEF Finished
<1>4. CountsWhatWasHeard /\ Ledger
  BY <1>3 DEF MeterInit, CountsWhatWasHeard, Ledger
<1>5. QED
  BY <1>1, <1>2, <1>4 DEF MeterInv

(* One frame: the gate opens, closes, stays open or stays closed.          *)
LEMMA FrameStep ==
    ASSUME MeterInv, NEW loud \in BOOLEAN, Frame(loud)
    PROVE  MeterInv'
<1> USE SpeechMeterAssumption DEF MeterInv, Numbers, WhileOpen, WhileClosed,
        CountsWhatWasHeard, Ledger, Finished, Count
<1>1. CASE Opens /\ speaking' /\ turns' = turns + 1 /\ current' = FramesToOpen
             /\ spoken' = spoken + FramesToOpen /\ start' = offset' - FramesToOpen + 1
             /\ UNCHANGED <<longest, lastSpoke, uttered>>
  <2>1. loud /\ openRun' = FramesToOpen /\ ~speaking
    BY <1>1 DEF Frame, Opens
  <2>2. offset' = offset + 1 /\ closeRun' = 0 /\ lastLoud' = offset + 1
    BY <2>1 DEF Frame
  <2>3. Finished' = Finished
    BY <1>1, <2>1
  <2>4. uttered \in Nat /\ spoken = uttered - Finished
    BY <2>1
  <2>5. Numbers /\ current = 0 /\ openRun < FramesToOpen /\ spoken + openRun <= offset
    BY <2>1
  <2>6. openRun' = openRun + 1
    BY <2>1 DEF Frame
  <2>7. WhileOpen'
    BY ONLY <1>1, <2>1, <2>2, <2>5, <2>6, SpeechMeterAssumption DEF WhileOpen, Numbers
  <2>8. Numbers'
    BY ONLY <1>1, <2>1, <2>2, <2>5, <2>6, SpeechMeterAssumption DEF Numbers
  <2>9. CountsWhatWasHeard' /\ Ledger'
    BY <1>1, <2>1, <2>2, <2>3, <2>4
  <2>10. QED
    BY <1>1, <2>7, <2>8, <2>9
<1>2. CASE Closes /\ ~speaking' /\ spoken' = WithoutSilence(spoken)
             /\ longest' = Greater(longest, WithoutSilence(current)) /\ current' = 0
             /\ uttered' = uttered + lastLoud' - start + 1
             /\ UNCHANGED <<turns, lastSpoke, start>>
  <2>1. ~loud /\ closeRun' = FramesToClose /\ speaking
    BY <1>2 DEF Frame, Closes
  <2>2. offset' = offset + 1 /\ openRun' = 0 /\ lastLoud' = lastLoud
    BY <2>1 DEF Frame
  <2>3. current >= FramesToClose /\ spoken >= current
    BY <1>2, <2>1, <2>2 DEF Frame
  <2>4. WithoutSilence(spoken) = spoken - FramesToClose
        /\ WithoutSilence(current) = current - FramesToClose
    BY <2>3 DEF WithoutSilence, AtLeastZero
  <2>5. QED
    BY <1>2, <2>1, <2>2, <2>3, <2>4 DEF Frame, Greater
<1>3. CASE speaking /\ ~Closes /\ speaking' = speaking
             /\ current' = current + 1 /\ spoken' = spoken + 1 /\ lastSpoke' = offset'
             /\ UNCHANGED <<longest, turns, start, uttered>>
  BY <1>3 DEF Frame, Closes
<1>4. CASE ~speaking /\ ~Opens
             /\ UNCHANGED <<speaking, current, spoken, longest, turns, lastSpoke, start, uttered>>
  BY <1>4 DEF Frame, Opens
<1>5. QED
  BY <1>1, <1>2, <1>3, <1>4 DEF Frame

LEMMA MeterInvHolds == MeterSpec => []MeterInv
<1>1. MeterInv /\ [MeterNext]_meterVars => MeterInv'
  <2>1. MeterInv /\ UNCHANGED meterVars => MeterInv'
    BY DEF MeterInv, Numbers, WhileOpen, WhileClosed, CountsWhatWasHeard, Ledger, Finished,
       meterVars
  <2>2. QED
    BY <2>1, FrameStep DEF MeterNext
<1>2. QED
  BY <1>1, MeterInitInv, PTL DEF MeterSpec

(* The meter shows the turns as they were heard, every finished one        *)
(* exactly one frame short.                                                *)
THEOREM EveryTurnIsAFrameShort == MeterSpec => []CountsWhatWasHeard
BY MeterInvHolds, PTL DEF MeterInv

(* Nobody speaks for longer than the meter listens.                        *)
THEOREM SpeechFitsTheClock == MeterSpec => []FitsTheClock
<1>1. MeterInv => FitsTheClock
  BY DEF MeterInv, Numbers, WhileOpen, WhileClosed, Ledger, FitsTheClock
<1>2. QED
  BY <1>1, MeterInvHolds, PTL

Flag == speaking \in BOOLEAN

(* All counters are numbers of frames.                                     *)
THEOREM MeterTypeCorrect == MeterSpec => []MeterTypeOK
<1>1. MeterInit => Flag
  BY DEF MeterInit, Flag
<1>2. Flag /\ [MeterNext]_meterVars => Flag'
  BY DEF MeterNext, Frame, meterVars, Flag
<1>3. MeterInv /\ Flag => MeterTypeOK
  BY DEF MeterInv, Numbers, MeterTypeOK, Flag
<1>4. QED
  BY <1>1, <1>2, <1>3, MeterInvHolds, PTL DEF MeterSpec
=============================================================================
