---------------------------- MODULE Facilitator ----------------------------
(***************************************************************************)
(* What the facilitator says in the rooms of a running round: the speaking *)
(* policy (core/speaking/policies.py) raises intents, the tick             *)
(* (core/engine/tick.py) has the most urgent one of each room phrased by   *)
(* the model (core/agents/facilitator.py) and posted by the bot            *)
(* (infra/nextcloud/bot.py), outside of any transaction, and records in a  *)
(* second transaction what happened.  Time is counted in minutes.          *)
(***************************************************************************)
EXTENDS Integers, FiniteSets

CONSTANTS
    Rooms,          \* rooms that are OPEN in Talk, by Room.number
    People, Nobody,
    Minutes,        \* Round.duration_minutes
    MAX_CONCURRENT_PHRASINGS,
    MaxExtends,     \* times the organizer moves the deadline
    MaxMeasures,    \* times the speaking times of a room change
    MaxLosses       \* messages posted that leave no record

ASSUME FacilitatorAssumption ==
    /\ Rooms \subseteq Nat /\ Nobody \notin People /\ Minutes \in Nat
    /\ MAX_CONCURRENT_PHRASINGS \in Nat \ {0}
    /\ MaxExtends \in Nat /\ MaxMeasures \in Nat /\ MaxLosses \in Nat

TIME_MARKS == <<10, 5, 2>>

Kinds == {"time", "share_warn", "share_strong", "silent_participant"}
Intent(m, k, mark, p) == [room |-> m, kind |-> k, mark |-> mark, who |-> p]
TimeIntents ==
    {Intent(m, "time", TIME_MARKS[i], Nobody) : m \in Rooms, i \in DOMAIN TIME_MARKS}
TalkIntents == {Intent(m, k, 0, p) : m \in Rooms, k \in Kinds \ {"time"}, p \in People}
Intents == TimeIntents \union TalkIntents

VARIABLES
    status,      \* Round.status
    remaining,   \* minutes before Round.deadline_at
    metrics,     \* what the speaking times justify saying
    recorded,    \* ModerationEvent rows of the round
    unsaid,      \* AgentEvent rows with a status other than "sent"
    heard,       \* how often the rooms were told an intent
    tick,        \* the place in run_tick
    plan,        \* intents still to be phrased
    budget,
    sent, missed,\* what became of those that were
    extends, measures, losses

dbVars   == <<status, remaining, metrics, recorded, unsaid>>
tickVars == <<tick, plan, budget, sent, missed>>
bounds   == <<extends, measures, losses>>
vars == <<dbVars, heard, tickVars, bounds>>

-----------------------------------------------------------------------------
(* Mutant of TimeRaised: the moderation events are not looked at.           *)
TimeRaisedAgain(m) ==
    {Intent(m, "time", TIME_MARKS[i], Nobody) : i \in
        {j \in DOMAIN TIME_MARKS :
            remaining <= TIME_MARKS[j] /\ \A k \in 1..(j - 1) : remaining > TIME_MARKS[k]}}

(* evaluate_room: the first of TIME_MARKS that has passed, unless it was   *)
(* said; and of what the speaking times justify, what was not said.        *)
TimeRaised(m) ==
    {Intent(m, "time", TIME_MARKS[i], Nobody) : i \in
        {j \in DOMAIN TIME_MARKS :
            remaining <= TIME_MARKS[j] /\ \A k \in 1..(j - 1) : remaining > TIME_MARKS[k]}}
      \ recorded
TalkRaised(m) == {i \in metrics : i.room = m} \ recorded
Raised(m) == TimeRaised(m) \union TalkRaised(m)

(* One message per room per tick: the time, then the share, then silence.  *)
Order(i) == CASE i.kind = "time" -> 0
              [] i.kind \in {"share_warn", "share_strong"} -> 1
              [] OTHER -> 2
MostUrgent(m) == {i \in Raised(m) : \A j \in Raised(m) : Order(i) <= Order(j)}
Plan == UNION {MostUrgent(m) : m \in Rooms}

(* run_tick, first transaction: decide.                                    *)
TickRead ==
    /\ tick = "idle" /\ status = "ACTIVE" /\ remaining > 0
    /\ Plan # {} /\ plan' = Plan
    /\ tick' = "phrase" /\ budget' = MAX_CONCURRENT_PHRASINGS
    /\ UNCHANGED <<dbVars, heard, sent, missed, bounds>>

(* The rooms are served by their number, as long as the budget lasts.      *)
PhraseNext(i) ==
    /\ tick = "phrase" /\ budget > 0 /\ i \in plan
    /\ \A j \in plan : i.room <= j.room
    /\ plan' = plan \ {i} /\ budget' = budget - 1
    /\ UNCHANGED <<dbVars, tick>>

Hear(i) == heard' = [heard EXCEPT ![i] = @ + 1]

(* The model answers in time and the bot delivers.                         *)
Say(i) ==
    /\ PhraseNext(i)
    /\ Hear(i) /\ sent' = sent \union {i}
    /\ UNCHANGED <<missed, bounds>>

(* Mutant of Miss: what was not said is taken for sent.                     *)
MissAsSent(i) ==
    /\ PhraseNext(i)
    /\ sent' = sent \union {i}
    /\ UNCHANGED <<heard, missed, bounds>>

(* No model, no answer in time, NO_REPLY, or the bot cannot deliver.       *)
Miss(i) ==
    /\ PhraseNext(i)
    /\ missed' = missed \union {i}
    /\ UNCHANGED <<heard, sent, bounds>>

(* Talk has the message but the connection is lost before it says so.      *)
SayUnconfirmed(i) ==
    /\ losses < MaxLosses /\ losses' = losses + 1
    /\ PhraseNext(i)
    /\ Hear(i) /\ missed' = missed \union {i}
    /\ UNCHANGED <<sent, extends, measures>>

Forget == tick' = "idle" /\ plan' = {} /\ budget' = 0 /\ sent' = {} /\ missed' = {}

(* Second transaction: record.                                             *)
Record ==
    /\ tick = "phrase" /\ (plan = {} \/ budget = 0)
    /\ recorded' = recorded \union sent
    /\ unsaid' = unsaid \union missed
    /\ Forget
    /\ UNCHANGED <<status, remaining, metrics, heard, bounds>>

(* The write lock is not free in time, or the process dies: what the tick  *)
(* has done since its first transaction is forgotten.                      *)
LoseTick ==
    /\ tick = "phrase"
    /\ losses < MaxLosses /\ losses' = losses + 1
    /\ Forget
    /\ UNCHANGED <<dbVars, heard, extends, measures>>

(* The clock ran out, or the organizer ends the round: end_round.          *)
TickEnd ==
    /\ tick = "idle" /\ remaining = 0
    /\ status = "ACTIVE" /\ status' = "PROCESSING"
    /\ UNCHANGED <<remaining, metrics, recorded, unsaid, heard, tickVars, bounds>>

EndRound ==
    /\ status = "ACTIVE" /\ status' = "PROCESSING"
    /\ UNCHANGED <<remaining, metrics, recorded, unsaid, heard, tickVars, bounds>>

(* extend_round, by five minutes.                                          *)
ExtendRound ==
    /\ status = "ACTIVE" /\ extends < MaxExtends
    /\ remaining' = remaining + 5 /\ extends' = extends + 1
    /\ UNCHANGED <<status, metrics, recorded, unsaid, heard, tickVars, measures, losses>>

PassMinute ==
    /\ status = "ACTIVE" /\ remaining > 0 /\ remaining' = remaining - 1
    /\ UNCHANGED <<status, metrics, recorded, unsaid, heard, tickVars, bounds>>

(* The speaking times of a room: the loudest may take too much of it, and  *)
(* somebody else may not have spoken.                                      *)
Measures(m) ==
    {{}} \union {{Intent(m, k, 0, p)} : k \in Kinds \ {"time"}, p \in People}
      \union UNION {{{Intent(m, k, 0, p), Intent(m, "silent_participant", 0, q)} :
                        k \in {"share_warn", "share_strong"}, q \in People \ {p}} : p \in People}

Measure(m) ==
    /\ measures < MaxMeasures /\ measures' = measures + 1
    /\ \E M \in Measures(m) : metrics' = {i \in metrics : i.room # m} \union M
    /\ UNCHANGED <<status, remaining, recorded, unsaid, heard, tickVars, extends, losses>>

-----------------------------------------------------------------------------
Init ==
    /\ status = "ACTIVE" /\ remaining = Minutes
    /\ metrics = {} /\ recorded = {} /\ unsaid = {}
    /\ heard = [i \in Intents |-> 0]
    /\ tick = "idle" /\ plan = {} /\ budget = 0 /\ sent = {} /\ missed = {}
    /\ extends = 0 /\ measures = 0 /\ losses = 0

Next ==
    \/ TickRead \/ Record \/ LoseTick \/ TickEnd
    \/ \E i \in Intents : Say(i) \/ Miss(i) \/ SayUnconfirmed(i)
    \/ EndRound \/ ExtendRound \/ PassMinute
    \/ \E m \in Rooms : Measure(m)

Spec == Init /\ [][Next]_vars

-----------------------------------------------------------------------------
(* Rows, plan and counters hold what they may hold.                        *)
TypeOK ==
    /\ status \in {"ACTIVE", "PROCESSING"} /\ remaining \in Nat
    /\ metrics \subseteq TalkIntents /\ recorded \subseteq Intents /\ unsaid \subseteq Intents
    /\ heard \in [Intents -> Nat]
    /\ tick \in {"idle", "phrase"} /\ plan \subseteq Intents /\ budget \in Nat
    /\ sent \subseteq Intents /\ missed \subseteq Intents
    /\ extends \in Nat /\ measures \in Nat /\ losses \in Nat

(* A room is told a thing again only because a record of it was lost: over *)
(* retries of what was missed, extensions and changes of mind, the copies  *)
(* of a message are at most one more than the losses.                      *)
RepeatsAreLosses == \A i \in Intents : heard[i] <= 1 + losses

(* The log of interventions has only what the rooms were told.             *)
RecordedWasHeard == \A i \in recorded : heard[i] > 0
=============================================================================
