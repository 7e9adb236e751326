---------------------------- MODULE RoundsProofs ----------------------------
(***************************************************************************)
(* Theorems about Rounds, for any number of rounds, rooms, starts, failed  *)
(* starts, extensions and restarts.                                        *)
(***************************************************************************)
EXTENDS Rounds, TLAPS

(* The columns that the theorems are about.                                *)
Columns ==
    /\ status \in [Rounds -> Statuses] /\ deadline \in [Rounds -> Nat \union {NoDeadline}]
    /\ planned \in [Rounds -> Nat] /\ tokens \in [Rounds -> Nat]
    /\ rooms \in [Rounds -> {"PLANNED", "OPEN", "CLOSED"}]
    /\ chain \in [Rounds -> {"none", "queued", "clustering"}]

(* The rest of the state.  Booleans are kept apart: SMT does the numbers,  *)
(* Zenon the Booleans.                                                     *)
Flags == closed \in BOOLEAN /\ breakouts \in BOOLEAN

Rest ==
    /\ planned \in [Rounds -> Sizes \union {0}] /\ tokens \in [Rounds -> Sizes \union {0}]
    /\ parent \in Nat /\ session \in {"DRAFT", "ACTIVE", "REVIEW", "COMPLETE"}
    /\ expired \subseteq Rounds /\ early \subseteq Rounds /\ conversations \in Nat
    /\ extends \in Nat /\ failed \in Nat /\ restarts \in Nat /\ crashes \in Nat

(* A round that runs has open rooms and no jobs, and nothing but a round   *)
(* that runs has: unless it was started too early.                         *)
RoomsFollow ==
    \A r \in Rounds \ early :
        /\ rooms[r] = "OPEN" <=> status[r] = "ACTIVE"
        /\ status[r] = "ACTIVE" => chain[r] = "none"

Inv == Columns /\ OneActiveRound /\ ActiveHasClock /\ RoomsFollow

LEMMA InitInv == Init => Inv
BY DEF Init, Inv, Columns, OneActiveRound, ActiveHasClock, RoomsFollow, Active,
   Statuses, NoDeadline

(* What leaves the status, the clock and the rooms of the rounds alone.    *)
LEMMA Frame ==
    ASSUME Inv, UNCHANGED <<status, deadline, planned, tokens, rooms, chain, early>>
    PROVE  Inv'
BY DEF Inv, Columns, OneActiveRound, ActiveHasClock, RoomsFollow, Active

LEMMA PlanStep ==
    ASSUME Inv, NEW r \in Rounds, NEW n \in Sizes, PlanRooms(r, n)
    PROVE  Inv'
BY RoundsAssumption DEF Inv, Columns, OneActiveRound, ActiveHasClock, RoomsFollow,
   Active, PlanRooms

(* No other round was active; whether the jobs of this one are through is  *)
(* what the start looks at for the history.                                *)
LEMMA StartStep ==
    ASSUME Inv, NEW r \in Rounds, StartRound(r)
    PROVE  Inv'
<1>1. PICK n \in PlanFor(r) : /\ planned' = [planned EXCEPT ![r] = n]
                              /\ tokens' = [tokens EXCEPT ![r] = n]
  BY DEF StartRound
<1>2. n \in Nat
  BY RoundsAssumption DEF PlanFor, Inv, Columns
<1>3. /\ Active = {}
      /\ status' = [status EXCEPT ![r] = "ACTIVE"]
      /\ deadline' = [deadline EXCEPT ![r] = Duration]
      /\ rooms' = [rooms EXCEPT ![r] = "OPEN"] /\ chain' = chain
      /\ early' = IF chain[r] = "none" THEN early \ {r} ELSE early \union {r}
  BY DEF StartRound, MayStart
<1>4. Columns'
  BY <1>1, <1>2, <1>3, RoundsAssumption DEF Inv, Columns, Statuses
<1>5. Active' = {r}
  BY <1>3 DEF Inv, Columns, Active
<1>6. OneActiveRound' /\ ActiveHasClock'
  BY <1>3, <1>5, RoundsAssumption DEF OneActiveRound, ActiveHasClock, Inv, Columns, NoDeadline
<1>7. RoomsFollow'
  BY <1>3 DEF Inv, Columns, RoomsFollow
<1>8. QED
  BY <1>4, <1>6, <1>7 DEF Inv

LEMMA EndStep ==
    ASSUME Inv, NEW r \in Rounds, End(r)
    PROVE  Inv'
<1>1. /\ status' = [status EXCEPT ![r] = "PROCESSING"]
      /\ deadline' = [deadline EXCEPT ![r] = NoDeadline]
      /\ rooms' = [rooms EXCEPT ![r] = "CLOSED"]
      /\ chain' = [chain EXCEPT ![r] = IF @ = "none" THEN "queued" ELSE @]
      /\ UNCHANGED <<planned, tokens, early>>
  BY DEF End
<1>2. Columns' /\ OneActiveRound' /\ ActiveHasClock'
  BY <1>1 DEF Inv, Columns, OneActiveRound, ActiveHasClock, Active, Statuses
<1>3. RoomsFollow'
  BY <1>1 DEF Inv, Columns, RoomsFollow
<1>4. QED
  BY <1>2, <1>3 DEF Inv

LEMMA ClockStep ==
    ASSUME Inv,
           \/ \E r \in Rounds : ExtendRound(r) \/ UpdateRound(r)
           \/ PassTime
    PROVE  Inv'
<1>1. ASSUME NEW r \in Rounds, ExtendRound(r) PROVE Inv'
  BY <1>1 DEF Inv, Columns, OneActiveRound, ActiveHasClock, RoomsFollow, Active,
     ExtendRound, NoDeadline
<1>2. ASSUME NEW r \in Rounds, UpdateRound(r) PROVE Inv'
  BY <1>2, RoundsAssumption DEF Inv, Columns, OneActiveRound, ActiveHasClock,
     RoomsFollow, Active, UpdateRound, NoDeadline
<1>3. ASSUME PassTime PROVE Inv'
  BY <1>3 DEF Inv, Columns, OneActiveRound, ActiveHasClock, RoomsFollow, Active,
     PassTime, NoDeadline
<1>4. QED
  BY <1>1, <1>2, <1>3

(* The clustering takes a round out of ACTIVE only if it was started early:*)
(* the others have no job while they run.                                  *)
LEMMA ChainStep ==
    ASSUME Inv, NEW r \in Rounds, MaybeFinishRound(r) \/ AnalyzeRound(r)
    PROVE  Inv'
<1>1. ASSUME MaybeFinishRound(r) PROVE Inv'
  BY <1>1 DEF Inv, Columns, OneActiveRound, ActiveHasClock, RoomsFollow, Active,
     MaybeFinishRound
<1>2. ASSUME AnalyzeRound(r) PROVE Inv'
  <2>1. /\ status' = [status EXCEPT ![r] = "READY_FOR_REVIEW"] /\ chain[r] = "clustering"
        /\ chain' = [chain EXCEPT ![r] = "none"]
        /\ UNCHANGED <<deadline, planned, tokens, rooms, early>>
    BY <1>2 DEF AnalyzeRound
  <2>2. Columns' /\ OneActiveRound' /\ ActiveHasClock'
    BY <2>1 DEF Inv, Columns, OneActiveRound, ActiveHasClock, Active, Statuses
  <2>3. RoomsFollow'
    BY <2>1 DEF Inv, Columns, RoomsFollow
  <2>4. QED
    BY <2>2, <2>3 DEF Inv
<1>3. QED
  BY <1>1, <1>2

LEMMA InvStep ==
    ASSUME Inv, [Next]_vars
    PROVE  Inv'
<1>1. ASSUME NEW r \in Rounds, StartFails(r) PROVE Inv'
  BY <1>1, Frame DEF StartFails, dbVars
<1>2. ASSUME CloseSession \/ ReopenSession \/ TickRead \/ Crash \/ UNCHANGED vars
      PROVE  Inv'
  BY <1>2, Frame DEF CloseSession, ReopenSession, TickRead, Crash, vars, dbVars
<1>3. ASSUME NEW r \in Rounds, TickEnd(r) PROVE Inv'
  BY <1>3, Frame, EndStep DEF TickEnd, dbVars
<1>4. ASSUME NEW r \in Rounds, EndRound(r) PROVE Inv'
  BY <1>4, EndStep DEF EndRound
<1>5. QED
  BY <1>1, <1>2, <1>3, <1>4, PlanStep, StartStep, ClockStep, ChainStep
     DEF Next, Organizer, Engine

LEMMA RestStep ==
    ASSUME Inv, Rest, [Next]_vars
    PROVE  Rest'
<1> USE DEF Rest
<1>1. ASSUME Organizer PROVE Rest'
  <2>1. ASSUME NEW r \in Rounds, NEW n \in Sizes, PlanRooms(r, n) PROVE Rest'
    BY <2>1 DEF PlanRooms, talkVars, bounds
  <2>2. ASSUME NEW r \in Rounds, StartRound(r) PROVE Rest'
    <3>1. PICK n \in PlanFor(r) : /\ planned' = [planned EXCEPT ![r] = n]
                                  /\ tokens' = [tokens EXCEPT ![r] = n]
      BY <2>2 DEF StartRound
    <3>2. n \in Sizes
      BY RoundsAssumption DEF PlanFor, Inv, Columns
    <3>3. QED
      BY <2>2, <3>1, <3>2 DEF StartRound, Conversations
  <2>3. ASSUME NEW r \in Rounds, StartFails(r) PROVE Rest'
    BY <2>3 DEF StartFails, Conversations, dbVars
  <2>4. ASSUME NEW r \in Rounds, EndRound(r) PROVE Rest'
    BY <2>4 DEF EndRound, End, bounds
  <2>5. ASSUME NEW r \in Rounds, ExtendRound(r) \/ UpdateRound(r) PROVE Rest'
    BY <2>5 DEF ExtendRound, UpdateRound, talkVars
  <2>6. ASSUME CloseSession \/ ReopenSession PROVE Rest'
    BY <2>6 DEF CloseSession, ReopenSession, talkVars, bounds
  <2>7. QED
    BY <1>1, <2>1, <2>2, <2>3, <2>4, <2>5, <2>6 DEF Organizer
<1>2. ASSUME Engine PROVE Rest'
  <2>1. ASSUME TickRead PROVE Rest'
    BY <2>1 DEF TickRead, Due, Active, dbVars, talkVars, bounds
  <2>2. ASSUME NEW r \in Rounds, TickEnd(r) PROVE Rest'
    BY <2>2 DEF TickEnd, End, dbVars, talkVars, bounds
  <2>3. ASSUME NEW r \in Rounds, MaybeFinishRound(r) \/ AnalyzeRound(r) PROVE Rest'
    BY <2>3 DEF MaybeFinishRound, AnalyzeRound, talkVars, bounds
  <2>4. QED
    BY <1>2, <2>1, <2>2, <2>3 DEF Engine
<1>3. ASSUME Crash \/ PassTime \/ UNCHANGED vars PROVE Rest'
  BY <1>3 DEF Crash, PassTime, vars, dbVars, talkVars, bounds
<1>4. QED
  BY <1>1, <1>2, <1>3 DEF Next

LEMMA FlagsStep ==
    ASSUME Flags, [Next]_vars
    PROVE  Flags'
<1> USE DEF Flags
<1>1. ASSUME NEW r \in Rounds, StartRound(r) \/ StartFails(r) \/ End(r) PROVE Flags'
  BY <1>1 DEF StartRound, StartFails, End, dbVars
<1>2. ASSUME CloseSession \/ ReopenSession PROVE Flags'
  BY <1>2 DEF CloseSession, ReopenSession, talkVars
<1>3. ASSUME UNCHANGED <<closed, breakouts>> PROVE Flags'
  BY <1>3
<1>4. ASSUME NEW r \in Rounds, NEW n \in Sizes, PlanRooms(r, n) PROVE Flags'
  BY <1>3, <1>4 DEF PlanRooms, talkVars
<1>5. ASSUME NEW r \in Rounds, ExtendRound(r) \/ UpdateRound(r)
                               \/ MaybeFinishRound(r) \/ AnalyzeRound(r)
      PROVE  Flags'
  BY <1>3, <1>5 DEF ExtendRound, UpdateRound, MaybeFinishRound, AnalyzeRound, talkVars
<1>6. ASSUME TickRead \/ Crash \/ PassTime \/ UNCHANGED vars PROVE Flags'
  BY <1>3, <1>6 DEF TickRead, Crash, PassTime, vars, dbVars, talkVars
<1>7. ASSUME NEW r \in Rounds, TickEnd(r) PROVE Flags'
  BY <1>1, <1>3, <1>7 DEF TickEnd, dbVars, talkVars
<1>8. QED
  BY <1>1, <1>2, <1>4, <1>5, <1>6, <1>7 DEF Next, Organizer, Engine, EndRound

LEMMA Invariant == Spec => []Inv
BY InitInv, InvStep, PTL DEF Spec

(* Rows, clock and Talk always hold what they may hold.                    *)
THEOREM TypeCorrect == Spec => []TypeOK
<1>1. Init => Rest
  BY DEF Init, Rest
<1>2. Init => Flags
  BY DEF Init, Flags
<1>3. Inv /\ Rest /\ [Next]_vars => Rest'
  BY RestStep
<1>4. Flags /\ [Next]_vars => Flags'
  BY FlagsStep
<1>5. Inv /\ Rest /\ Flags => TypeOK
  BY DEF Inv, Columns, Rest, Flags, TypeOK
<1>6. QED
  BY <1>1, <1>2, <1>3, <1>4, <1>5, Invariant, PTL DEF Spec

(* Open rooms are those of the one round that runs, whatever is started,   *)
(* ended, extended, closed and clustered in between: except of a round that*)
(* was started again before the jobs of its last end were through.         *)
THEOREM OnlyOneRoundRuns == Spec => []OpenRoomsAreRunning
<1>1. Inv => OpenRoomsAreRunning
  <2> SUFFICES ASSUME Inv PROVE OpenRoomsAreRunning
    OBVIOUS
  <2>1. {r \in Rounds : rooms[r] = "OPEN"} \ early = Active \ early
    BY DEF Inv, RoomsFollow, Active
  <2>2. QED
    BY <2>1 DEF OpenRoomsAreRunning, Inv, OneActiveRound
<1>2. QED
  BY <1>1, Invariant, PTL

(* A round that runs always has a deadline.                                *)
THEOREM RunningRoundHasClock == Spec => []ActiveHasClock
BY Invariant, PTL DEF Inv

-----------------------------------------------------------------------------
(* The token that is stored is the last conversation that was created, and *)
(* every other one was created by a start that failed.                     *)
Accounted ==
    /\ parent \in Nat /\ conversations \in Nat /\ failed \in Nat
    /\ ConversationsAccountedFor
    /\ parent # 0 => parent = conversations

LEMMA AccountedStep ==
    ASSUME Accounted, [Next]_vars
    PROVE  Accounted'
<1> USE DEF Accounted, ConversationsAccountedFor
<1>1. ASSUME NEW r \in Rounds, StartRound(r) PROVE Accounted'
  <2>1. /\ conversations' = Conversations /\ parent' = Conversations /\ failed' = failed
    BY <1>1 DEF StartRound
  <2>2. QED
    BY <2>1 DEF Conversations
<1>2. ASSUME NEW r \in Rounds, StartFails(r) PROVE Accounted'
  <2>1. conversations' = Conversations /\ parent' = parent /\ failed' = failed + 1
    BY <1>2 DEF StartFails, dbVars
  <2>2. QED
    BY <2>1 DEF Conversations
<1>3. ASSUME UNCHANGED <<parent, conversations, failed>> PROVE Accounted'
  BY <1>3
<1>4. ASSUME NEW r \in Rounds, NEW n \in Sizes, PlanRooms(r, n) PROVE Accounted'
  BY <1>3, <1>4 DEF PlanRooms, talkVars, bounds
<1>5. ASSUME NEW r \in Rounds,
             EndRound(r) \/ TickEnd(r) \/ ExtendRound(r) \/ UpdateRound(r)
             \/ MaybeFinishRound(r) \/ AnalyzeRound(r)
      PROVE  Accounted'
  BY <1>3, <1>5 DEF EndRound, TickEnd, End, ExtendRound, UpdateRound, MaybeFinishRound,
     AnalyzeRound, dbVars, talkVars, bounds
<1>6. ASSUME CloseSession \/ ReopenSession \/ TickRead \/ Crash \/ PassTime \/ UNCHANGED vars
      PROVE  Accounted'
  BY <1>3, <1>6 DEF CloseSession, ReopenSession, TickRead, Crash, PassTime, vars, dbVars,
     talkVars, bounds
<1>7. QED
  BY <1>1, <1>2, <1>4, <1>5, <1>6 DEF Next, Organizer, Engine

(* What a failed start leaves in Talk is one conversation at most, and     *)
(* only until a start has stored one (ensure_parent_conversation).         *)
THEOREM FailedStartsLeaveOneEach == Spec => []ConversationsAccountedFor
<1>1. Init => Accounted
  BY DEF Init, Accounted, ConversationsAccountedFor
<1>2. Accounted /\ [Next]_vars => Accounted'
  BY AccountedStep
<1>3. Accounted => ConversationsAccountedFor
  BY DEF Accounted
<1>4. QED
  BY <1>1, <1>2, <1>3, PTL DEF Spec
=============================================================================
