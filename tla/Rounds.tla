------------------------------- MODULE Rounds -------------------------------
(***************************************************************************)
(* The rounds of one session: planning rooms, starting, extending, remixing*)
(* and ending a round through the API (api/sessions.py, api/rooms.py,      *)
(* core/engine/rounds.py), the clock of the tick (core/engine/tick.py),    *)
(* closing and reopening the session, and what the end of the chain of     *)
(* Pipeline does to a round.                                               *)
(*                                                                         *)
(* Every request is one transaction that holds SQLite's write lock from    *)
(* its first statement, across the calls to Talk it makes, so two requests *)
(* never interleave in the database.  What Talk was told stays told when   *)
(* the transaction is rolled back.                                         *)
(***************************************************************************)
EXTENDS Integers

CONSTANTS
    Rounds,
    Sizes,          \* numbers of rooms the organizer may ask for
    MaxRooms,       \* MAX_BREAKOUT_ROOMS_PER_PARENT
    Duration,       \* Round.duration_minutes, in ticks of the model's clock
    MaxExtends,     \* times the organizer moves a deadline
    MaxFailedStarts,\* starts that fail after Talk was called
    MaxRestarts,    \* starts of a round that was ended
    MaxCrashes      \* crashes of the process

ASSUME RoundsAssumption ==
    /\ Sizes \subseteq Nat \ {0} /\ MaxRooms \in Nat /\ Duration \in Nat \ {0}
    /\ MaxExtends \in Nat /\ MaxFailedStarts \in Nat
    /\ MaxRestarts \in Nat /\ MaxCrashes \in Nat

NoDeadline == -1

VARIABLES
    status,     \* Round.status
    deadline,   \* Round.deadline_at as seen from now, 0 once it is past
    planned,    \* number of Room rows of a round
    tokens,     \* how many of them have a talk_token
    rooms,      \* Room.status of those that have one
    chain,      \* "none", "queued" (FINALIZE_ROUND and what follows it) or
                \* "clustering" (ANALYZE_ROUND)
    closed,     \* Session.closed_at is set
    parent,     \* Session.parent_token: 0 or which conversation it is
    session,    \* Session.status
    expired,    \* what the tick's first transaction found past its deadline
    conversations, \* parent conversations Talk has created for the session
    breakouts,  \* whether Talk's breakout rooms are started
    early,      \* history: rounds that were started again before the jobs of their last end
                \* were through
    extends, failed, restarts, crashes

dbVars   == <<status, deadline, planned, tokens, rooms, chain, closed, parent, session>>
talkVars == <<conversations, breakouts>>
bounds   == <<extends, failed, restarts, crashes>>
vars == <<dbVars, expired, talkVars, early, bounds>>

Active == {r \in Rounds : status[r] = "ACTIVE"}
Statuses == {"NOT_STARTED", "ACTIVE", "PROCESSING", "READY_FOR_REVIEW"}

-----------------------------------------------------------------------------
(* Mutant of PlanRooms: rooms are added to those that are there.           *)
PlanMoreRooms(r, n) ==
    /\ n >= tokens[r] /\ n # planned[r]
    /\ planned' = [planned EXCEPT ![r] = @ + n]
    /\ UNCHANGED <<status, deadline, tokens, rooms, chain, closed, parent,
                   session, expired, talkVars, early, bounds>>

(* ensure_rooms, from assign_randomly or copy_previous_assignment: rooms   *)
(* are added or dropped at the end, never one that Talk knows.             *)
PlanRooms(r, n) ==
    /\ n >= tokens[r] /\ n # planned[r]
    /\ planned' = [planned EXCEPT ![r] = n]
    /\ UNCHANGED <<status, deadline, tokens, rooms, chain, closed, parent,
                   session, expired, talkVars, early, bounds>>

(* Mutant of MayStart: the other rounds are not looked at.                  *)
MayStartAnyway(r) == ~closed

(* What start_round requires; without a plan it makes one.                 *)
MayStart(r) == ~closed /\ Active = {}

PlanFor(r) == IF planned[r] > 0 THEN {planned[r]} ELSE Sizes

(* Mutant of Conversations: the token that is stored is not looked at.     *)
AnotherConversation == conversations + 1

(* ensure_parent_conversation, as far as Talk is concerned.                *)
Conversations == IF parent = 0 THEN conversations + 1 ELSE conversations

StartRound(r) ==
    /\ MayStart(r)
    /\ status[r] = "NOT_STARTED" \/ restarts < MaxRestarts
    /\ restarts' = IF status[r] = "NOT_STARTED" THEN restarts ELSE restarts + 1
    /\ \E n \in PlanFor(r) :
        /\ n <= MaxRooms
        /\ planned' = [planned EXCEPT ![r] = n] /\ tokens' = [tokens EXCEPT ![r] = n]
    /\ conversations' = Conversations /\ parent' = Conversations
    /\ breakouts' = TRUE
    /\ rooms' = [rooms EXCEPT ![r] = "OPEN"]
    /\ status' = [status EXCEPT ![r] = "ACTIVE"]
    /\ deadline' = [deadline EXCEPT ![r] = Duration]
    /\ session' = IF session = "DRAFT" THEN "ACTIVE" ELSE session
    /\ early' = IF chain[r] = "none" THEN early \ {r} ELSE early \union {r}
    /\ UNCHANGED <<chain, closed, expired, extends, failed, crashes>>

(* A call to Talk fails, or the process dies, after the conversation was   *)
(* created; the breakout rooms may have been started too.  The transaction *)
(* is rolled back.                                                         *)
StartFails(r) ==
    /\ MayStart(r) /\ failed < MaxFailedStarts /\ failed' = failed + 1
    /\ \E n \in PlanFor(r) : n <= MaxRooms
    /\ conversations' = Conversations
    /\ breakouts' \in {breakouts, TRUE}
    /\ UNCHANGED <<dbVars, expired, early, extends, restarts, crashes>>

(* end_round; Talk may not answer the call that stops the rooms.           *)
End(r) ==
    /\ status[r] = "ACTIVE"
    /\ status' = [status EXCEPT ![r] = "PROCESSING"]
    /\ deadline' = [deadline EXCEPT ![r] = NoDeadline]
    /\ rooms' = [rooms EXCEPT ![r] = "CLOSED"]
    /\ chain' = [chain EXCEPT ![r] = IF @ = "none" THEN "queued" ELSE @]
    /\ breakouts' \in {breakouts, FALSE}
    /\ UNCHANGED <<planned, tokens, closed, parent, session, conversations, early, bounds>>

EndRound(r) == End(r) /\ UNCHANGED expired

(* extend_round; it wants a deadline, not a running round.                 *)
ExtendRound(r) ==
    /\ deadline[r] # NoDeadline /\ extends < MaxExtends /\ extends' = extends + 1
    /\ deadline' = [deadline EXCEPT ![r] = @ + 1]
    /\ UNCHANGED <<status, planned, tokens, rooms, chain, closed, parent, session,
                   expired, talkVars, early, failed, restarts, crashes>>

(* update_round with a new duration, which may lie in the past already.    *)
UpdateRound(r) ==
    /\ status[r] = "ACTIVE" /\ extends < MaxExtends /\ extends' = extends + 1
    /\ \E d \in 0 .. Duration + 1 : deadline' = [deadline EXCEPT ![r] = d]
    /\ UNCHANGED <<status, planned, tokens, rooms, chain, closed, parent, session,
                   expired, talkVars, early, failed, restarts, crashes>>

CloseSession ==
    /\ closed' = TRUE /\ session' = "COMPLETE"
    /\ UNCHANGED <<status, deadline, planned, tokens, rooms, chain, parent, expired,
                   talkVars, early, bounds>>

(* Any session may be reopened, a closed one or not.                       *)
ReopenSession ==
    /\ closed' = FALSE /\ session' = "REVIEW"
    /\ UNCHANGED <<status, deadline, planned, tokens, rooms, chain, parent, expired,
                   talkVars, early, bounds>>

-----------------------------------------------------------------------------
(* run_tick: one transaction reads which rounds have expired; then the     *)
(* facilitator talks, for as long as it takes; then each of them is ended  *)
(* in a transaction of its own that looks at the status again.             *)
(* Mutant of Due: a closed session has no clock.                            *)
DueWhileOpen == {r \in Active : deadline[r] = 0 /\ ~closed}

Due == {r \in Active : deadline[r] = 0}

TickRead ==
    /\ expired = {} /\ Due # {}
    /\ expired' = Due
    /\ UNCHANGED <<dbVars, talkVars, early, bounds>>

TickEnd(r) ==
    /\ r \in expired /\ expired' = expired \ {r}
    /\ \/ End(r)
       \/ status[r] # "ACTIVE" /\ UNCHANGED <<dbVars, talkVars, early, bounds>>

Crash ==
    /\ crashes < MaxCrashes /\ crashes' = crashes + 1
    /\ expired' = {}
    /\ UNCHANGED <<dbVars, talkVars, early, extends, failed, restarts>>

PassTime ==
    /\ \E r \in Rounds : deadline[r] > 0
    /\ deadline' = [r \in Rounds |-> IF deadline[r] > 0 THEN deadline[r] - 1 ELSE deadline[r]]
    /\ UNCHANGED <<status, planned, tokens, rooms, chain, closed, parent, session,
                   expired, talkVars, early, bounds>>

-----------------------------------------------------------------------------
(* The two places where the chain of Pipeline meets the round:             *)
(* _maybe_finish_round_for_room asks for the clustering of a round that is *)
(* PROCESSING, and handle_analyze_round declares it ready for review       *)
(* without looking at its status.  Neither runs while the tick does.       *)
MaybeFinishRound(r) ==
    /\ expired = {} /\ chain[r] = "queued"
    /\ chain' = [chain EXCEPT ![r] = IF status[r] = "PROCESSING" THEN "clustering" ELSE "none"]
    /\ UNCHANGED <<status, deadline, planned, tokens, rooms, closed, parent,
                   session, expired, talkVars, early, bounds>>

Reviewed(q) == status'[q] = "READY_FOR_REVIEW"

(* With the last of them, the session is up for review, closed or not.     *)
AnalyzeRound(r) ==
    /\ expired = {} /\ chain[r] = "clustering"
    /\ status' = [status EXCEPT ![r] = "READY_FOR_REVIEW"]
    /\ chain' = [chain EXCEPT ![r] = "none"]
    /\ session' = IF \A q \in Rounds : Reviewed(q) THEN "REVIEW" ELSE session
    /\ UNCHANGED <<deadline, planned, tokens, rooms, closed, parent,
                   expired, talkVars, early, bounds>>

-----------------------------------------------------------------------------
Init ==
    /\ status = [r \in Rounds |-> "NOT_STARTED"]
    /\ deadline = [r \in Rounds |-> NoDeadline]
    /\ planned = [r \in Rounds |-> 0] /\ tokens = [r \in Rounds |-> 0]
    /\ rooms = [r \in Rounds |-> "PLANNED"] /\ chain = [r \in Rounds |-> "none"]
    /\ closed = FALSE /\ parent = 0 /\ session = "DRAFT" /\ expired = {}
    /\ conversations = 0 /\ breakouts = FALSE /\ early = {}
    /\ extends = 0 /\ failed = 0 /\ restarts = 0 /\ crashes = 0

Organizer ==
    \/ \E r \in Rounds : \/ \E n \in Sizes : PlanRooms(r, n)
                         \/ StartRound(r) \/ StartFails(r) \/ EndRound(r)
                         \/ ExtendRound(r) \/ UpdateRound(r)
    \/ CloseSession \/ ReopenSession

Engine ==
    \/ TickRead \/ \E r \in Rounds : TickEnd(r)
    \/ \E r \in Rounds : MaybeFinishRound(r) \/ AnalyzeRound(r)

Next == Organizer \/ Engine \/ Crash \/ PassTime

Spec == Init /\ [][Next]_vars

(* The tick goes on and time passes.                                       *)
Fairness ==
    /\ WF_vars(TickRead) /\ WF_vars(PassTime)
    /\ \A r \in Rounds : WF_vars(TickEnd(r))

LiveSpec == Spec /\ Fairness

-----------------------------------------------------------------------------
(* Rows, clock and Talk hold what they may hold.                           *)
TypeOK ==
    /\ status \in [Rounds -> Statuses] /\ deadline \in [Rounds -> Nat \union {NoDeadline}]
    /\ planned \in [Rounds -> Sizes \union {0}] /\ tokens \in [Rounds -> Sizes \union {0}]
    /\ rooms \in [Rounds -> {"PLANNED", "OPEN", "CLOSED"}]
    /\ chain \in [Rounds -> {"none", "queued", "clustering"}]
    /\ closed \in BOOLEAN /\ parent \in Nat /\ session \in {"DRAFT", "ACTIVE", "REVIEW", "COMPLETE"}
    /\ expired \subseteq Rounds /\ conversations \in Nat /\ breakouts \in BOOLEAN
    /\ early \subseteq Rounds
    /\ extends \in Nat /\ failed \in Nat /\ restarts \in Nat /\ crashes \in Nat

(* The rounds whose rooms are open are the rounds that run, and they are   *)
(* one at most: rooms of two rounds in the one conversation, or of a round *)
(* that nothing will ever close, there are only where a round was started  *)
(* again before the jobs of its last end were through (handle_analyze_round*)
(* sets READY_FOR_REVIEW whatever the round is doing).                     *)
OpenRoomsAreRunning ==
    LET Open == {r \in Rounds : rooms[r] = "OPEN"} IN
    /\ Open \ early = Active \ early
    /\ \A r, q \in Open \ early : r = q

(* At most one round of a session has the status ACTIVE.                   *)
OneActiveRound == \A r, q \in Active : r = q

(* A round that runs has a clock, so the tick can end it.                  *)
ActiveHasClock == \A r \in Active : deadline[r] # NoDeadline

(* Talk has no conversation for the session but the one that is stored and *)
(* at most one for every start that failed: what a rolled-back start has   *)
(* created is lost, but once a token is stored no start, of whatever round,*)
(* creates another.                                                        *)
ConversationsAccountedFor ==
    conversations <= failed + (IF parent = 0 THEN 0 ELSE 1)

(* A round that runs ends, by its clock if nobody ends it, though Talk     *)
(* refuses every call that stops the rooms and the process restarts.       *)
ActiveRoundEnds == \A r \in Rounds : status[r] = "ACTIVE" ~> status[r] # "ACTIVE"
=============================================================================
