----------------------------- MODULE Assignment -----------------------------
(***************************************************************************)
(* Who sits in which room, in the database and in Talk: the participants   *)
(* of one session (api/sessions.py, services/participation.py), the plans  *)
(* of its rounds (services/deliberation.py, api/rooms.py), and starting,   *)
(* remixing and ending a round as far as it moves people                   *)
(* (core/engine/rounds.py through infra/nextcloud/talk_adapter.py).        *)
(*                                                                         *)
(* Every request is one transaction that holds the write lock across its   *)
(* calls to Talk.  What Talk was told before one of them fails stays told. *)
(* An attendee id is what Talk calls a person in the session's parent      *)
(* conversation; who leaves the conversation and is added again has a new  *)
(* one, so an id that is stored is the current one or a stale one.  Where  *)
(* Talk has people is followed while a round runs; the next start tells    *)
(* Talk anew, whatever it kept open.  Clock, job chain and closing of a    *)
(* session are in Rounds.                                                  *)
(*                                                                         *)
(* A Participant row belongs to one session, a seat to one round; that the *)
(* two are of the same session is nowhere looked at.                       *)
(***************************************************************************)
EXTENDS Integers, FiniteSets

CONSTANTS
    People,
    MaxRounds,      \* rounds of the session, by Round.position
    MaxRooms        \* MAX_BREAKOUT_ROOMS_PER_PARENT

ASSUME AssignmentAssumption ==
    /\ MaxRounds \in Nat \ {0} /\ MaxRooms \in Nat \ {0} /\ IsFiniteSet(People)

Rounds == 1 .. MaxRounds
Numbers == 1 .. MaxRooms
Nowhere == 0        \* no seat in a plan; in Talk, the parent conversation
Ids == {"none", "current", "stale"}

VARIABLES
    person,     \* the Participant row: its role, "none", or "elsewhere" in another session
    status,     \* Round.status: "absent" before it is added and once it is deleted
    rooms,      \* number of Room rows of a round
    tokens,     \* how many of them have a talk_token
    plan,       \* RoomMember.room_id, by the room's number
    ids,        \* RoomMember.attendee_id
    parent,     \* Session.parent_token is set
    present,    \* who is in the parent conversation
    where,      \* the breakout room Talk has a person in, while a round runs
    talkRooms,  \* breakout rooms of the conversation, while a round runs
    applied,    \* the rounds whose plan is the one Talk was last told
    unseen      \* history: the running round was planned by its start, which saw nobody in
                \* the rooms 1 .. unseen; no remix has told Talk since

planVars == <<rooms, tokens, plan, ids>>
talkVars == <<present, where, talkRooms>>
vars == <<person, status, planVars, parent, talkVars, applied, unseen>>

Roles == {"participant", "observer"}
Participants == {p \in People : person[p] \in Roles}
Speakers == {p \in Participants : person[p] # "observer"}
Active == {r \in Rounds : status[r] = "ACTIVE"}
Seated(r) == {p \in People : plan[r][p] # Nowhere}

-----------------------------------------------------------------------------
(* Participants.  Declining leaves the person as an observer, in the seat  *)
(* it has; accepting takes an observer back in.                            *)
AddParticipant(p) ==
    /\ person[p] = "none"
    /\ \E role \in Roles \union {"elsewhere"} : person' = [person EXCEPT ![p] = role]
    /\ UNCHANGED <<status, planVars, parent, talkVars, applied, unseen>>

RecordConsent(p) ==
    /\ p \in Participants
    /\ \E role \in Roles : person' = [person EXCEPT ![p] = role]
    /\ UNCHANGED <<status, planVars, parent, talkVars, applied, unseen>>

(* The rows of its seats go with it; Talk is not told.                     *)
DeleteParticipant(p) ==
    /\ person[p] # "none"
    /\ person' = [person EXCEPT ![p] = "none"]
    /\ plan' = [r \in Rounds |-> [plan[r] EXCEPT ![p] = Nowhere]]
    /\ ids' = [r \in Rounds |-> [ids[r] EXCEPT ![p] = "none"]]
    /\ UNCHANGED <<status, rooms, tokens, parent, talkVars, applied, unseen>>

-----------------------------------------------------------------------------
(* The planner.                                                            *)
AddRound(r) ==
    /\ status[r] = "absent" /\ \A q \in Rounds : q < r => status[q] # "absent"
    /\ status' = [status EXCEPT ![r] = "NOT_STARTED"]
    /\ UNCHANGED <<person, planVars, parent, talkVars, applied, unseen>>

RoundIsOver == where' = [p \in People |-> Nowhere] /\ talkRooms' = 0 /\ unseen' = 0

(* A running round may be deleted; Talk is not told.  Only the last one is *)
(* deleted here, so that the positions stay 1 .. n.                        *)
DeleteRound(r) ==
    /\ status[r] # "absent" /\ \A q \in Rounds : q > r => status[q] = "absent"
    /\ status' = [status EXCEPT ![r] = "absent"]
    /\ rooms' = [rooms EXCEPT ![r] = 0] /\ tokens' = [tokens EXCEPT ![r] = 0]
    /\ plan' = [plan EXCEPT ![r] = [p \in People |-> Nowhere]]
    /\ ids' = [ids EXCEPT ![r] = [p \in People |-> "none"]]
    /\ IF status[r] = "ACTIVE" THEN RoundIsOver ELSE UNCHANGED <<where, talkRooms, unseen>>
    /\ applied' = applied \ {r}
    /\ UNCHANGED <<person, parent, present>>

(* Mutant of MayHaveRooms: rooms Talk has opened are dropped.               *)
MayHaveAnyRooms(r, n) == n \in Numbers

(* ensure_rooms grows and shrinks, and refuses to drop a room Talk has.    *)
MayHaveRooms(r, n) == n \in Numbers /\ n >= tokens[r]

(* Dealing k people to n rooms in turn leaves room i so many.              *)
SeatsOf(i, n, k) == (k + n - i) \div n

Shuffles(n) ==
    {f \in [People -> 0 .. n] :
        /\ {p \in People : f[p] # Nowhere} = Speakers
        /\ \A i \in 1 .. n :
               Cardinality({p \in People : f[p] = i}) = SeatsOf(i, n, Cardinality(Speakers))}

(* The ids that are known to _replace_members: ensure_rooms has dropped    *)
(* the surplus rooms by then, and the seats in them.                       *)
Known(r, n) == [p \in People |-> IF plan[r][p] <= n THEN ids[r][p] ELSE "none"]

(* The rows are new, the known ids are carried over to them.               *)
Carried(f, known) == [p \in People |-> IF f[p] = Nowhere THEN "none" ELSE known[p]]

Replace(r, n, f, known) ==
    /\ rooms' = [rooms EXCEPT ![r] = n]
    /\ plan' = [plan EXCEPT ![r] = f]
    /\ ids' = [ids EXCEPT ![r] = Carried(f, known)]
    /\ applied' = applied \ {r}

AssignRandomly(r) ==
    /\ status[r] # "absent"
    /\ \E n \in Numbers : /\ MayHaveRooms(r, n)
                          /\ \E f \in Shuffles(n) : Replace(r, n, f, Known(r, n))
    /\ UNCHANGED <<person, status, tokens, parent, talkVars, unseen>>

AtLeastOne(n) == IF n = 0 THEN 1 ELSE n

(* The plan of the round before, with everybody in it, an observer or not, *)
(* and nobody else; the first round is assigned randomly.                  *)
CopyPrevious(r) ==
    /\ r > 1 /\ status[r] # "absent" /\ status[r - 1] # "absent"
    /\ LET n == AtLeastOne(rooms[r - 1]) IN
        /\ MayHaveRooms(r, n)
        /\ Replace(r, n, plan[r - 1],
                   [p \in People |-> IF ids[r - 1][p] # "none" THEN ids[r - 1][p]
                                     ELSE Known(r, n)[p]])
    /\ UNCHANGED <<person, status, tokens, parent, talkVars, unseen>>

(* Mutant of Move: the id is taken for one of the room.                    *)
MoveAnew(r, p, i) ==
    /\ status[r] # "absent" /\ person[p] # "none" /\ i \in 1 .. rooms[r]
    /\ plan' = [plan EXCEPT ![r][p] = i]
    /\ ids' = [ids EXCEPT ![r][p] = "none"]
    /\ applied' = applied \ {r}
    /\ UNCHANGED <<person, status, rooms, tokens, parent, talkVars, unseen>>

(* Any participant that exists is taken, of this session or of another.    *)
Move(r, p, i) ==
    /\ status[r] # "absent" /\ person[p] # "none" /\ i \in 1 .. rooms[r]
    /\ plan' = [plan EXCEPT ![r][p] = i]
    /\ applied' = applied \ {r}
    /\ UNCHANGED <<person, status, rooms, tokens, ids, parent, talkVars, unseen>>

-----------------------------------------------------------------------------
(* Talk.  sync_participants adds everybody who is missing; one it does not *)
(* know is passed over.                                                    *)
Missing == Participants \ present

Sync == \E added \in SUBSET Missing : present' = present \union added

(* A new start has to plan when the round has no rooms, or nobody in them. *)
MayStart(r) == status[r] \notin {"absent", "ACTIVE"} /\ Active = {}

StartPlans(r) ==
    IF Seated(r) # {} THEN {[n |-> rooms[r], f |-> plan[r]]}
      ELSE UNION {{[n |-> n, f |-> f] : f \in Shuffles(n)}
                  : n \in {m \in Numbers : MayHaveRooms(r, m)}}

(* The lists of members are read before a plan is made, and not again: of  *)
(* a plan made here the start sees the rooms made with it, whose lists had *)
(* not been read.                                                          *)
SeenFrom(r) == IF Seated(r) # {} THEN 0 ELSE rooms[r]

(* Who Talk is told of: a participant of the session, in the conversation. *)
Told(r, f) ==
    {p \in Participants \intersect present' : f[p] # Nowhere /\ f[p] > SeenFrom(r)}

(* The id Talk has now replaces the one of the plan.                       *)
Matched(r, f) ==
    [p \in People |-> IF f[p] = Nowhere THEN "none"
                      ELSE IF p \in Told(r, f) THEN "current" ELSE ids[r][p]]

(* Mutant of Placed: the parent is counted among its rooms.                *)
PlacedOneOn(r, f) == [p \in People |-> IF p \in Told(r, f) THEN f[p] + 1 ELSE Nowhere]

(* create_breakout_rooms is told who goes where.                           *)
Placed(r, f) == [p \in People |-> IF p \in Told(r, f) THEN f[p] ELSE Nowhere]

StartRound(r) ==
    /\ MayStart(r)
    /\ Sync
    /\ \E c \in StartPlans(r) :
        /\ Told(r, c.f) # {}
        /\ rooms' = [rooms EXCEPT ![r] = c.n] /\ tokens' = [tokens EXCEPT ![r] = c.n]
        /\ plan' = [plan EXCEPT ![r] = c.f]
        /\ ids' = [ids EXCEPT ![r] = Matched(r, c.f)]
        /\ where' = Placed(r, c.f) /\ talkRooms' = c.n
    /\ status' = [status EXCEPT ![r] = "ACTIVE"]
    /\ parent' = TRUE
    /\ applied' = {r} /\ unseen' = SeenFrom(r)
    /\ UNCHANGED <<person>>

(* Talk refuses a call or creates another number of rooms, or there is     *)
(* nobody to tell it of: the rows are rolled back.  (A conversation that   *)
(* was created for this start is lost, and nothing that is modelled here   *)
(* has changed.)                                                           *)
StartFails(r) ==
    /\ MayStart(r) /\ parent
    /\ Sync
    /\ UNCHANGED <<person, status, planVars, parent, where, talkRooms, applied, unseen>>

(* Mutant of Filled: an id that is missing stays missing.                   *)
FilledNone(r) == ids[r]

Filled(r) == [p \in People |-> IF plan[r][p] # Nowhere /\ ids[r][p] = "none"
                                  /\ p \in Participants \intersect present'
                               THEN "current" ELSE ids[r][p]]

Unmatched(r) == {p \in Seated(r) : ids[r][p] = "none"}

(* Talk moves the attendees it knows; it has no room for the people of a   *)
(* room that was planned after the start.                                  *)
Moved(r, known) ==
    [p \in People |-> IF known[p] = "current" /\ plan[r][p] <= talkRooms
                      THEN plan[r][p] ELSE where[p]]

Remix(r) ==
    /\ status[r] = "ACTIVE" /\ parent
    /\ IF Unmatched(r) = {} THEN UNCHANGED present ELSE Sync
    /\ ids' = [ids EXCEPT ![r] = Filled(r)]
    /\ \E p \in People : Filled(r)[p] # "none"
    /\ where' = Moved(r, Filled(r))
    /\ applied' = applied \union {r} /\ unseen' = 0
    /\ UNCHANGED <<person, status, rooms, tokens, plan, parent, talkRooms>>

RemixFails(r) ==
    /\ status[r] = "ACTIVE" /\ parent /\ Unmatched(r) # {} /\ Sync
    /\ applied' = applied \ {r}
    /\ UNCHANGED <<person, status, planVars, parent, where, talkRooms, unseen>>

EndRound(r) ==
    /\ status[r] = "ACTIVE"
    /\ status' = [status EXCEPT ![r] = "ENDED"]
    /\ RoundIsOver
    /\ applied' = applied \ {r}
    /\ UNCHANGED <<person, planVars, parent, present>>

LeaveTalk(p) ==
    /\ p \in present /\ present' = present \ {p}
    /\ where' = [where EXCEPT ![p] = Nowhere]
    /\ ids' = [r \in Rounds |-> IF ids[r][p] = "current" THEN [ids[r] EXCEPT ![p] = "stale"]
                                ELSE ids[r]]
    /\ UNCHANGED <<person, status, rooms, tokens, plan, parent, talkRooms, applied, unseen>>

-----------------------------------------------------------------------------
Init ==
    /\ person = [p \in People |-> "none"]
    /\ status = [r \in Rounds |-> IF r = 1 THEN "NOT_STARTED" ELSE "absent"]
    /\ rooms = [r \in Rounds |-> 0] /\ tokens = [r \in Rounds |-> 0]
    /\ plan = [r \in Rounds |-> [p \in People |-> Nowhere]]
    /\ ids = [r \in Rounds |-> [p \in People |-> "none"]]
    /\ parent = FALSE /\ present = {}
    /\ where = [p \in People |-> Nowhere] /\ talkRooms = 0
    /\ applied = {} /\ unseen = 0

Organizer ==
    \/ \E p \in People : AddParticipant(p) \/ DeleteParticipant(p)
    \/ \E r \in Rounds :
        \/ AddRound(r) \/ DeleteRound(r) \/ AssignRandomly(r) \/ CopyPrevious(r)
        \/ \E p \in People, i \in Numbers : Move(r, p, i)
        \/ StartRound(r) \/ StartFails(r) \/ Remix(r) \/ RemixFails(r) \/ EndRound(r)

Participant == \E p \in People : RecordConsent(p) \/ LeaveTalk(p)

Next == Organizer \/ Participant

Spec == Init /\ [][Next]_vars

-----------------------------------------------------------------------------
(* What the page shows once its user has consented: participant_view, for  *)
(* the active round if there is one.                                       *)
Screen(p) ==
    CASE p \notin Participants -> "none"
      [] Active = {} -> "waiting"
      [] OTHER ->
            LET r == CHOOSE q \in Active : TRUE IN
            IF plan[r][p] = Nowhere THEN "unassigned"
              ELSE IF plan[r][p] > tokens[r] THEN "waiting" ELSE "in_round"

(* Rows and Talk hold what they may hold.                                  *)
TypeOK ==
    /\ person \in [People -> Roles \union {"none", "elsewhere"}]
    /\ status \in [Rounds -> {"absent", "NOT_STARTED", "ACTIVE", "ENDED"}]
    /\ rooms \in [Rounds -> 0 .. MaxRooms] /\ tokens \in [Rounds -> 0 .. MaxRooms]
    /\ plan \in [Rounds -> [People -> 0 .. MaxRooms]] /\ ids \in [Rounds -> [People -> Ids]]
    /\ parent \in BOOLEAN /\ present \subseteq People
    /\ where \in [People -> 0 .. MaxRooms] /\ talkRooms \in 0 .. MaxRooms
    /\ applied \subseteq Rounds /\ unseen \in 0 .. MaxRooms

(* Every seat is of a Participant row that exists, in a room the round     *)
(* has, whatever is copied from another round, shrunk or deleted; and the  *)
(* rooms of a running round are those Talk has, so the page never sends    *)
(* anybody to a conversation that is not there.                            *)
SeatsExist ==
    /\ \A r \in Rounds : \A p \in Seated(r) : person[p] # "none" /\ plan[r][p] <= rooms[r]
    /\ \A r \in Rounds : tokens[r] <= rooms[r]
    /\ \A r \in Active : tokens[r] = talkRooms
    /\ \A p \in People : Screen(p) = "in_round" =>
           \A r \in Active : plan[r][p] <= talkRooms

(* A start that makes the plan itself does not see who it put into a room  *)
(* that was there.                                                         *)
Overlooked(r) == {p \in Seated(r) : plan[r][p] <= unseen /\ ids[r][p] = "none"}

(* Talk has every participant of the session in the room of the plan it    *)
(* was told: nobody who is in the conversation is passed over by a start   *)
(* or a remix, though people are moved, shuffled and copied between rounds *)
(* before it.  Left out are who left the conversation and came back with   *)
(* another id, the rooms that were planned after the start, and whom a     *)
(* start that had to plan did not see, until the next remix.               *)
TalkFollowsPlan ==
    \A r \in applied \intersect Active :
    \A p \in (Seated(r) \intersect Participants) \ Overlooked(r) :
        p \in present /\ ids[r][p] # "stale" /\ plan[r][p] <= tokens[r]
            => where[p] = plan[r][p] /\ ids[r][p] = "current"

(* An attendee id is kept in every new plan, move, copy and start for as   *)
(* long as its person has a seat in the round, unless the room it sat in   *)
(* is dropped by the change.                                               *)
IdsSurvive ==
    [][\A r \in Rounds, p \in People :
           ids[r][p] # "none" /\ plan'[r][p] # Nowhere /\ plan[r][p] <= rooms'[r]
               => ids'[r][p] # "none"]_vars
=============================================================================
