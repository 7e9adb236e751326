-------------------------- MODULE AssignmentProofs --------------------------
(***************************************************************************)
(* Type correctness of Assignment, that seats exist, that Talk follows the *)
(* plan it was told, and that attendee ids survive, for any number of      *)
(* people, rounds and rooms.  At most one round is active, so "the rooms   *)
(* Talk has" are those of one plan.                                        *)
(***************************************************************************)
EXTENDS Assignment, TLAPS

Plans == [People -> 0 .. MaxRooms]

OneActive == \A q, r \in Active : q = r

(* Every seat is of a row that exists, in a room the round has, and a      *)
(* running round has the rooms of Talk.                                    *)
SeatsFit ==
    /\ \A r \in Rounds : \A p \in People :
           plan[r][p] # Nowhere => person[p] # "none" /\ plan[r][p] <= rooms[r]
    /\ \A r \in Rounds : tokens[r] <= rooms[r]
    /\ \A r \in Active : tokens[r] = talkRooms

(* An id is stored with a seat.                                            *)
IdsHaveSeats == \A r \in Rounds, p \in People : plan[r][p] = Nowhere => ids[r][p] = "none"

Inv == TypeOK /\ OneActive /\ SeatsFit /\ IdsHaveSeats /\ TalkFollowsPlan

LEMMA Bounds == MaxRooms \in Nat \ {0} /\ MaxRounds \in Nat \ {0} /\ Nowhere \in 0 .. MaxRooms
BY AssignmentAssumption DEF Nowhere

LEMMA NumbersType == \A n \in Numbers : n \in 1 .. MaxRooms /\ n \in 0 .. MaxRooms
BY Bounds DEF Numbers

(* A plan that was shuffled seats the speakers in the rooms there are.     *)
LEMMA ShufflesType ==
    ASSUME NEW n \in Numbers, NEW f \in Shuffles(n)
    PROVE  /\ f \in Plans
           /\ \A p \in People : f[p] <= n
           /\ \A p \in People : f[p] # Nowhere => person[p] # "none"
<1>1. f \in [People -> 0 .. n] /\ {p \in People : f[p] # Nowhere} = Speakers
  BY DEF Shuffles
<1>2. n \in 1 .. MaxRooms
  BY NumbersType
<1>3. f \in Plans
  BY <1>1, <1>2, Bounds DEF Plans
<1>4. \A p \in People : f[p] <= n
  BY <1>1, <1>2
<1>5. \A p \in People : f[p] # Nowhere => person[p] # "none"
  BY <1>1 DEF Speakers, Participants, Roles
<1> QED
  BY <1>3, <1>4, <1>5

LEMMA InitInv == Init => Inv
<1> SUFFICES ASSUME Init PROVE Inv
  OBVIOUS
<1>1. TypeOK
  BY Bounds DEF Init, TypeOK, Ids, Rounds, Nowhere
<1>2. Active = {}
  BY DEF Init, Active, Rounds
<1>3. OneActive /\ TalkFollowsPlan
  BY <1>2 DEF OneActive, TalkFollowsPlan
<1>4. SeatsFit /\ IdsHaveSeats
  BY <1>2, Bounds DEF Init, SeatsFit, IdsHaveSeats, Rounds, Nowhere
<1> QED
  BY <1>1, <1>3, <1>4 DEF Inv

-----------------------------------------------------------------------------
(* A new plan for a round, with rooms for everybody in it: shuffled, or    *)
(* copied.                                                                 *)
LEMMA ReplaceKeepsInv ==
    ASSUME Inv, NEW r \in Rounds, NEW n \in Numbers, NEW f \in Plans, NEW known,
           known \in [People -> Ids], n >= tokens[r],
           \A p \in People : f[p] # Nowhere => person[p] # "none" /\ f[p] <= n,
           Replace(r, n, f, known),
           UNCHANGED <<person, status, tokens, parent, talkVars, unseen>>
    PROVE  Inv'
<1> USE DEF Inv, talkVars
<1>1. /\ rooms' = [rooms EXCEPT ![r] = n] /\ plan' = [plan EXCEPT ![r] = f]
      /\ ids' = [ids EXCEPT ![r] = Carried(f, known)] /\ applied' = applied \ {r}
  BY DEF Replace
<1>2. Carried(f, known) \in [People -> Ids]
  BY DEF Carried, Ids
<1>3. TypeOK'
  BY <1>1, <1>2, NumbersType DEF TypeOK, Plans
<1>4. Active' = Active /\ Participants' = Participants
  BY DEF Active, Participants, Roles
<1>5. OneActive'
  BY <1>4 DEF OneActive
<1>6. SeatsFit' /\ IdsHaveSeats'
  BY <1>1, <1>4 DEF SeatsFit, IdsHaveSeats, Carried, TypeOK
<1>7. TalkFollowsPlan'
  BY <1>1, <1>4 DEF TalkFollowsPlan, Overlooked, Seated, TypeOK
<1> QED
  BY <1>3, <1>5, <1>6, <1>7

LEMMA AssignKeepsInv ==
    ASSUME Inv, NEW r \in Rounds, AssignRandomly(r)
    PROVE  Inv'
<1>1. PICK n \in Numbers :
             MayHaveRooms(r, n) /\ \E f \in Shuffles(n) : Replace(r, n, f, Known(r, n))
  BY DEF AssignRandomly
<1>2. PICK f \in Shuffles(n) : Replace(r, n, f, Known(r, n))
  BY <1>1
<1>3. Known(r, n) \in [People -> Ids]
  BY DEF Inv, TypeOK, Known, Ids
<1>4. n >= tokens[r]
  BY <1>1 DEF MayHaveRooms
<1> QED
  BY <1>2, <1>3, <1>4, ShufflesType, ReplaceKeepsInv DEF AssignRandomly

LEMMA CopyKeepsInv ==
    ASSUME Inv, NEW r \in Rounds, CopyPrevious(r)
    PROVE  Inv'
<1> DEFINE n == AtLeastOne(rooms[r - 1])
           known == [p \in People |-> IF ids[r - 1][p] # "none" THEN ids[r - 1][p]
                                      ELSE Known(r, n)[p]]
<1>1. r > 1 /\ MayHaveRooms(r, n) /\ Replace(r, n, plan[r - 1], known)
  BY DEF CopyPrevious
<1>2. r - 1 \in Rounds
  BY <1>1, Bounds DEF Rounds
<1>3. plan[r - 1] \in Plans /\ known \in [People -> Ids]
  BY <1>2 DEF Inv, TypeOK, Plans, Known, Ids
<1>4. n \in Numbers /\ n >= tokens[r]
  BY <1>1 DEF MayHaveRooms
<1>5. rooms[r - 1] \in Nat /\ n >= rooms[r - 1]
  BY <1>2, Bounds DEF Inv, TypeOK, AtLeastOne
<1>6. ASSUME NEW p \in People, plan[r - 1][p] # Nowhere
      PROVE  person[p] # "none" /\ plan[r - 1][p] <= n
  <2>1. person[p] # "none" /\ plan[r - 1][p] <= rooms[r - 1]
    BY <1>2, <1>6 DEF Inv, SeatsFit
  <2>2. plan[r - 1][p] \in Nat /\ n \in Nat
    BY <1>3, <1>4, Bounds DEF Plans, Numbers
  <2> HIDE DEF n
  <2> QED
    BY <1>5, <2>1, <2>2
<1>7. UNCHANGED <<person, status, tokens, parent, talkVars, unseen>>
  BY DEF CopyPrevious
<1> HIDE DEF n, known
<1> QED
  BY <1>1, <1>3, <1>4, <1>6, <1>7, ReplaceKeepsInv

LEMMA MoveKeepsInv ==
    ASSUME Inv, NEW r \in Rounds, NEW p \in People, NEW i \in Numbers, Move(r, p, i)
    PROVE  Inv'
<1> USE DEF Inv, Move, talkVars
<1>1. Active' = Active /\ Participants' = Participants
  BY DEF Active, Participants, Roles
<1>2. TypeOK'
  BY NumbersType DEF TypeOK
<1>3. SeatsFit' /\ IdsHaveSeats'
  BY <1>1 DEF SeatsFit, IdsHaveSeats, TypeOK, Numbers, Nowhere
<1>4. TalkFollowsPlan'
  BY <1>1 DEF TalkFollowsPlan, Overlooked, Seated, TypeOK
<1> QED
  BY <1>1, <1>2, <1>3, <1>4 DEF OneActive

-----------------------------------------------------------------------------
(* Who a start seats, and in how many rooms.                               *)
LEMMA StartPlansType ==
    ASSUME Inv, NEW r \in Rounds, NEW c \in StartPlans(r)
    PROVE  /\ c.n \in 0 .. MaxRooms /\ c.f \in Plans
           /\ \A p \in People : c.f[p] <= c.n
           /\ \A p \in People : c.f[p] # Nowhere => person[p] # "none"
<1> USE DEF Inv
<1>1. CASE Seated(r) # {}
  <2>1. c.n = rooms[r] /\ c.f = plan[r]
    BY <1>1 DEF StartPlans
  <2>2. rooms[r] \in 0 .. MaxRooms /\ plan[r] \in Plans
    BY DEF TypeOK, Plans
  <2>3. ASSUME NEW p \in People
        PROVE  plan[r][p] <= rooms[r] /\ (plan[r][p] # Nowhere => person[p] # "none")
    BY <2>2, Bounds DEF SeatsFit, Plans, Nowhere
  <2> QED
    BY <2>1, <2>2, <2>3
<1>2. CASE Seated(r) = {}
  <2>1. PICK n \in Numbers : c \in {[n |-> n, f |-> f] : f \in Shuffles(n)}
    BY <1>2 DEF StartPlans
  <2>2. PICK f \in Shuffles(n) : c = [n |-> n, f |-> f]
    BY <2>1
  <2> QED
    BY <2>2, ShufflesType, NumbersType
<1> QED
  BY <1>1, <1>2

LEMMA SyncType == TypeOK /\ Sync => present' \subseteq People
BY DEF TypeOK, Sync, Missing, Participants

LEMMA StartKeepsInv ==
    ASSUME Inv, NEW r \in Rounds, StartRound(r)
    PROVE  Inv'
<1> USE DEF Inv
<1>1. PICK c \in StartPlans(r) :
          /\ rooms' = [rooms EXCEPT ![r] = c.n] /\ tokens' = [tokens EXCEPT ![r] = c.n]
          /\ plan' = [plan EXCEPT ![r] = c.f]
          /\ ids' = [ids EXCEPT ![r] = Matched(r, c.f)]
          /\ where' = Placed(r, c.f) /\ talkRooms' = c.n
  BY DEF StartRound
<1>2. /\ status' = [status EXCEPT ![r] = "ACTIVE"] /\ parent' = TRUE
      /\ applied' = {r} /\ person' = person /\ Active = {}
      /\ unseen' = SeenFrom(r) /\ SeenFrom(r) \in 0 .. MaxRooms
  BY Bounds DEF StartRound, MayStart, SeenFrom, TypeOK
<1>3. present' \subseteq People
  BY SyncType DEF StartRound
<1>4. /\ c.n \in 0 .. MaxRooms /\ c.f \in Plans
      /\ \A p \in People : c.f[p] <= c.n
      /\ \A p \in People : c.f[p] # Nowhere => person[p] # "none"
  BY StartPlansType
<1>5. Matched(r, c.f) \in [People -> Ids]
  BY DEF Matched, TypeOK, Ids
<1>6. Placed(r, c.f) \in [People -> 0 .. MaxRooms]
  BY <1>4, Bounds DEF Placed, Plans
<1>7. TypeOK'
  BY <1>1, <1>2, <1>3, <1>4, <1>5, <1>6 DEF TypeOK, Plans
<1>8. Active' = {r} /\ Participants' = Participants
  BY <1>2 DEF Active, Participants, Roles, TypeOK
<1>9. SeatsFit'
  <2>1. ASSUME NEW q \in Rounds, NEW p \in People, plan'[q][p] # Nowhere
        PROVE  person'[p] # "none" /\ plan'[q][p] <= rooms'[q]
    <3>1. CASE q = r
      BY <1>1, <1>2, <1>4, <2>1, <3>1 DEF TypeOK
    <3>2. CASE q # r
      BY <1>1, <1>2, <2>1, <3>2 DEF TypeOK, SeatsFit
    <3> QED
      BY <3>1, <3>2
  <2>2. ASSUME NEW q \in Rounds
        PROVE  tokens'[q] <= rooms'[q]
    BY <1>1, <1>4, Bounds DEF TypeOK, SeatsFit
  <2>3. tokens'[r] = talkRooms'
    BY <1>1 DEF TypeOK
  <2> QED
    BY <1>8, <2>1, <2>2, <2>3 DEF SeatsFit
<1>10. TalkFollowsPlan'
  <2> SUFFICES ASSUME NEW p \in Participants, p \in present', plan'[r][p] # Nowhere,
                      ~(plan'[r][p] <= unseen' /\ ids'[r][p] = "none"), ids'[r][p] # "stale"
               PROVE  where'[p] = plan'[r][p] /\ ids'[r][p] = "current"
    BY <1>8 DEF TalkFollowsPlan, Overlooked, Seated
  <2>1. p \in People /\ plan'[r] = c.f /\ ids'[r] = Matched(r, c.f)
    BY <1>1 DEF Participants, TypeOK
  <2>2. p \in Told(r, c.f)
    <3>1. CASE c.f[p] > SeenFrom(r)
      BY <2>1, <3>1 DEF Told
    <3>2. CASE ~(c.f[p] > SeenFrom(r))
      <4>1. c.f[p] <= SeenFrom(r) /\ p \notin Told(r, c.f)
        BY <1>2, <1>4, <2>1, <3>2, Bounds DEF Plans, Told
      <4>2. Seated(r) = {}
        BY <1>4, <2>1, <4>1, Bounds DEF SeenFrom, Plans, Nowhere
      <4>3. ids'[r][p] = ids[r][p]
        BY <2>1, <4>1 DEF Matched
      <4>4. ids[r][p] # "none" => plan[r][p] # Nowhere
        BY <2>1 DEF IdsHaveSeats
      <4> QED
        BY <1>2, <2>1, <4>1, <4>2, <4>3, <4>4 DEF Seated
    <3> QED
      BY <3>1, <3>2
  <2> QED
    BY <1>1, <2>1, <2>2 DEF Placed, Matched
<1>11. IdsHaveSeats'
  BY <1>1 DEF IdsHaveSeats, Matched, TypeOK
<1> QED
  BY <1>7, <1>8, <1>9, <1>10, <1>11 DEF OneActive

LEMMA RemixKeepsInv ==
    ASSUME Inv, NEW r \in Rounds, Remix(r)
    PROVE  Inv'
<1> USE DEF Inv
<1>1. /\ ids' = [ids EXCEPT ![r] = Filled(r)] /\ where' = Moved(r, Filled(r))
      /\ applied' = applied \union {r} /\ unseen' = 0 /\ status[r] = "ACTIVE"
      /\ UNCHANGED <<person, status, rooms, tokens, plan, parent, talkRooms>>
  BY DEF Remix
<1>2. present' \subseteq People
  BY SyncType DEF Remix, TypeOK
<1>3. Filled(r) \in [People -> Ids]
  BY DEF Filled, TypeOK, Ids
<1>4. Moved(r, Filled(r)) \in [People -> 0 .. MaxRooms]
  BY DEF Moved, TypeOK
<1>5. TypeOK'
  BY <1>1, <1>2, <1>3, <1>4, Bounds DEF TypeOK, Nowhere
<1>6. Active' = Active /\ Participants' = Participants /\ Active = {r}
  BY <1>1 DEF Active, Participants, Roles, OneActive
<1>7. SeatsFit' /\ IdsHaveSeats'
  BY <1>1, <1>6 DEF SeatsFit, IdsHaveSeats, Filled, TypeOK
<1>8. TalkFollowsPlan'
  <2> SUFFICES ASSUME NEW p \in Seated(r), p \in Participants, p \in present',
                      ids'[r][p] # "stale", plan[r][p] <= tokens[r]
               PROVE  where'[p] = plan[r][p] /\ ids'[r][p] = "current"
    BY <1>1, <1>6 DEF TalkFollowsPlan, Overlooked, Seated
  <2>1. p \in People /\ plan[r][p] # Nowhere /\ tokens[r] = talkRooms
    BY <1>6 DEF Seated, SeatsFit
  <2>2. ids'[r][p] = Filled(r)[p]
    BY <1>1 DEF TypeOK
  <2>3. ids[r][p] \in Ids
    BY <2>1 DEF TypeOK
  <2>4. Filled(r)[p] = "current"
    BY <2>1, <2>2, <2>3 DEF Filled, Ids
  <2> QED
    BY <1>1, <2>1, <2>2, <2>4 DEF Moved
<1> QED
  BY <1>5, <1>6, <1>7, <1>8 DEF OneActive

(* A call that fails: people may have been added to the conversation.      *)
LEMMA FailuresKeepInv ==
    ASSUME Inv, NEW r \in Rounds, StartFails(r) \/ RemixFails(r)
    PROVE  Inv'
<1> USE DEF Inv, planVars
<1>1. /\ UNCHANGED <<person, status, planVars, parent, where, talkRooms, unseen>>
      /\ applied' \subseteq applied /\ present' \subseteq People
  BY SyncType DEF StartFails, RemixFails
<1>2. TypeOK'
  BY <1>1 DEF TypeOK
<1>3. Active' = Active /\ Participants' = Participants
  BY <1>1 DEF Active, Participants, Roles
<1>4. (applied \intersect Active)' = {}
  <2>1. CASE StartFails(r)
    BY <1>3, <2>1 DEF StartFails, MayStart
  <2>2. CASE RemixFails(r)
    BY <1>3, <2>2 DEF RemixFails, OneActive, Active
  <2> QED
    BY <2>1, <2>2
<1>5. TalkFollowsPlan'
  BY <1>4 DEF TalkFollowsPlan
<1> QED
  BY <1>1, <1>2, <1>3, <1>5 DEF OneActive, SeatsFit, IdsHaveSeats

-----------------------------------------------------------------------------
LEMMA PeopleKeepInv ==
    ASSUME Inv, NEW p \in People,
           AddParticipant(p) \/ RecordConsent(p) \/ DeleteParticipant(p) \/ LeaveTalk(p)
    PROVE  Inv'
<1> USE DEF Inv
<1>1. CASE AddParticipant(p) \/ RecordConsent(p)
  <2>1. PICK role \in Roles \union {"elsewhere"} : person' = [person EXCEPT ![p] = role]
    BY <1>1 DEF AddParticipant, RecordConsent
  <2>2. UNCHANGED <<status, planVars, parent, talkVars, applied, unseen>>
    BY <1>1 DEF AddParticipant, RecordConsent
  <2>3. TypeOK'
    BY <2>1, <2>2 DEF TypeOK, Roles, planVars, talkVars
  <2>4. /\ Active' = Active
        /\ \A q \in People : person[q] # "none" => person'[q] # "none"
    BY <2>1, <2>2 DEF Active, Roles, TypeOK
  <2>5. \A q \in People : person[q] # "none" /\ q \in Participants' => q \in Participants
    BY <1>1, <2>1, <2>2 DEF AddParticipant, RecordConsent, Participants, TypeOK
  <2>6. SeatsFit' /\ OneActive' /\ IdsHaveSeats'
    BY <2>2, <2>4 DEF OneActive, SeatsFit, IdsHaveSeats, planVars, talkVars
  <2>7. TalkFollowsPlan'
    <3> SUFFICES ASSUME NEW r \in applied, r \in Active, NEW q \in Seated(r),
                        q \in Participants', q \notin Overlooked(r),
                        q \in present, ids[r][q] # "stale", plan[r][q] <= tokens[r]
                 PROVE  where[q] = plan[r][q] /\ ids[r][q] = "current"
      BY <2>2, <2>4 DEF TalkFollowsPlan, Overlooked, Seated, planVars, talkVars
    <3>1. q \in Participants
      BY <2>5 DEF SeatsFit, Seated, Active
    <3> QED
      BY <3>1 DEF TalkFollowsPlan
  <2> QED
    BY <2>3, <2>6, <2>7
<1>2. CASE DeleteParticipant(p)
  <2>1. /\ person' = [person EXCEPT ![p] = "none"]
        /\ plan' = [r \in Rounds |-> [plan[r] EXCEPT ![p] = Nowhere]]
        /\ ids' = [r \in Rounds |-> [ids[r] EXCEPT ![p] = "none"]]
        /\ UNCHANGED <<status, rooms, tokens, parent, talkVars, applied, unseen>>
    BY <1>2 DEF DeleteParticipant
  <2>2. TypeOK'
    BY <2>1, Bounds DEF TypeOK, talkVars, Ids
  <2>3. Active' = Active /\ \A q \in People : q # p => person'[q] = person[q]
    BY <2>1 DEF Active, TypeOK
  <2>4. ASSUME NEW r \in Rounds, NEW q \in People, plan'[r][q] # Nowhere
        PROVE  q # p /\ plan'[r][q] = plan[r][q] /\ ids'[r][q] = ids[r][q]
    BY <2>1, <2>4 DEF TypeOK
  <2>5. SeatsFit' /\ IdsHaveSeats'
    BY <2>1, <2>3, <2>4 DEF SeatsFit, IdsHaveSeats, TypeOK, talkVars
  <2>6. TalkFollowsPlan'
    <3> SUFFICES ASSUME NEW r \in (applied \intersect Active), NEW q \in People,
                        q \in Participants', plan'[r][q] # Nowhere, q \in present,
                        ~(plan'[r][q] <= unseen /\ ids'[r][q] = "none"),
                        ids'[r][q] # "stale", plan'[r][q] <= tokens[r]
                 PROVE  where[q] = plan'[r][q] /\ ids'[r][q] = "current"
      <4>1. UNCHANGED <<applied, present, where, tokens, unseen>>
        BY <2>1 DEF talkVars
      <4> QED
        BY <2>3, <4>1 DEF TalkFollowsPlan, Overlooked, Seated, Participants
    <3>1. r \in Rounds
      BY DEF Active
    <3>2. q \in Participants /\ plan'[r][q] = plan[r][q] /\ ids'[r][q] = ids[r][q]
      BY <2>3, <2>4, <3>1 DEF Participants
    <3> QED
      BY <3>2 DEF TalkFollowsPlan, Overlooked, Seated
  <2> QED
    BY <2>2, <2>3, <2>5, <2>6 DEF OneActive
<1>3. CASE LeaveTalk(p)
  <2>1. /\ present' = present \ {p} /\ where' = [where EXCEPT ![p] = Nowhere]
        /\ ids' = [r \in Rounds |-> IF ids[r][p] = "current" THEN [ids[r] EXCEPT ![p] = "stale"]
                                    ELSE ids[r]]
        /\ UNCHANGED <<person, status, rooms, tokens, plan, parent, talkRooms, applied, unseen>>
    BY <1>3 DEF LeaveTalk
  <2>2. TypeOK'
    BY <2>1, Bounds DEF TypeOK, Ids
  <2>3. Active' = Active /\ Participants' = Participants
    BY <2>1 DEF Active, Participants, Roles
  <2>4. ASSUME NEW r \in Rounds, NEW q \in People, q # p
        PROVE  ids'[r][q] = ids[r][q] /\ where'[q] = where[q]
    BY <2>1, <2>4 DEF TypeOK
  <2>5. TalkFollowsPlan'
    <3> SUFFICES ASSUME NEW r \in (applied \intersect Active), NEW q \in People,
                        q \in Participants, plan[r][q] # Nowhere, q \in present, q # p,
                        ~(plan[r][q] <= unseen /\ ids'[r][q] = "none"),
                        ids'[r][q] # "stale", plan[r][q] <= tokens[r]
                 PROVE  where'[q] = plan[r][q] /\ ids'[r][q] = "current"
      BY <2>1, <2>3 DEF TalkFollowsPlan, Overlooked, Seated
    <3>1. r \in Rounds
      BY DEF Active
    <3>2. ids'[r][q] = ids[r][q] /\ where'[q] = where[q]
      BY <2>4, <3>1
    <3> QED
      BY <3>2 DEF TalkFollowsPlan, Overlooked, Seated
  <2>6. SeatsFit' /\ IdsHaveSeats'
    BY <2>1, <2>3 DEF SeatsFit, IdsHaveSeats, TypeOK
  <2> QED
    BY <2>2, <2>3, <2>5, <2>6 DEF OneActive
<1> QED
  BY <1>1, <1>2, <1>3

LEMMA PlannerKeepsInv ==
    ASSUME Inv, NEW r \in Rounds, AddRound(r) \/ DeleteRound(r) \/ EndRound(r)
    PROVE  Inv'
<1> USE DEF Inv
<1>1. CASE AddRound(r)
  <2>1. TypeOK'
    BY <1>1 DEF AddRound, TypeOK, planVars, talkVars
  <2>2. UNCHANGED <<person, planVars, talkVars, applied, unseen>>
    BY <1>1 DEF AddRound
  <2>3. Active' = Active /\ Participants' = Participants
    BY <1>1 DEF AddRound, Active, Participants, TypeOK
  <2>4. OneActive' /\ SeatsFit' /\ IdsHaveSeats'
    BY <2>2, <2>3 DEF OneActive, SeatsFit, IdsHaveSeats, planVars, talkVars
  <2>5. TalkFollowsPlan'
    BY <2>2, <2>3 DEF TalkFollowsPlan, Overlooked, Seated, planVars, talkVars
  <2> QED
    BY <2>1, <2>4, <2>5
<1>2. CASE DeleteRound(r)
  <2>1. /\ status' = [status EXCEPT ![r] = "absent"]
        /\ rooms' = [rooms EXCEPT ![r] = 0] /\ tokens' = [tokens EXCEPT ![r] = 0]
        /\ plan' = [plan EXCEPT ![r] = [p \in People |-> Nowhere]]
        /\ ids' = [ids EXCEPT ![r] = [p \in People |-> "none"]]
        /\ IF status[r] = "ACTIVE" THEN RoundIsOver ELSE UNCHANGED <<where, talkRooms, unseen>>
        /\ applied' = applied \ {r}
        /\ UNCHANGED <<person, parent, present>>
    BY <1>2 DEF DeleteRound
  <2>2. TypeOK'
    BY <2>1, Bounds DEF TypeOK, Ids, RoundIsOver, Nowhere
  <2>3. Active' = Active \ {r} /\ Participants' = Participants
    BY <2>1 DEF Active, Participants, Roles, TypeOK
  <2>4. Active' # {} => where' = where /\ talkRooms' = talkRooms /\ unseen' = unseen
    BY <2>1, <2>3 DEF OneActive, Active
  <2>5. SeatsFit' /\ IdsHaveSeats'
    BY <2>1, <2>3, <2>4, Bounds DEF SeatsFit, IdsHaveSeats, TypeOK, Nowhere
  <2>6. TalkFollowsPlan'
    BY <2>1, <2>3, <2>4 DEF TalkFollowsPlan, Overlooked, Seated, TypeOK
  <2> QED
    BY <2>2, <2>3, <2>5, <2>6 DEF OneActive
<1>3. CASE EndRound(r)
  <2>1. /\ status' = [status EXCEPT ![r] = "ENDED"] /\ status[r] = "ACTIVE" /\ RoundIsOver
        /\ applied' = applied \ {r} /\ UNCHANGED <<person, planVars, parent, present>>
    BY <1>3 DEF EndRound
  <2>2. TypeOK'
    BY <2>1, Bounds DEF TypeOK, RoundIsOver, planVars, Nowhere
  <2>3. Active' = {} /\ Participants' = Participants
    BY <2>1 DEF Active, Participants, Roles, TypeOK, OneActive
  <2> QED
    BY <2>1, <2>2, <2>3 DEF OneActive, SeatsFit, IdsHaveSeats, TalkFollowsPlan, planVars
<1> QED
  BY <1>1, <1>2, <1>3

LEMMA StepKeepsInv == Inv /\ [Next]_vars => Inv'
<1>1. Inv /\ Next => Inv'
  BY AssignKeepsInv, CopyKeepsInv, MoveKeepsInv, StartKeepsInv, RemixKeepsInv, FailuresKeepInv,
     PeopleKeepInv, PlannerKeepsInv DEF Next, Organizer, Participant
<1>2. Inv /\ UNCHANGED vars => Inv'
  BY DEF vars, planVars, talkVars, Inv, TypeOK, OneActive, SeatsFit, IdsHaveSeats,
         TalkFollowsPlan, Overlooked, Active, Participants, Seated
<1> QED
  BY <1>1, <1>2

THEOREM InvHolds == Spec => []Inv
BY InitInv, StepKeepsInv, PTL DEF Spec

-----------------------------------------------------------------------------
(* The rows and what Talk has hold what they may hold.                     *)
THEOREM TypeCorrect == Spec => []TypeOK
BY InvHolds, PTL DEF Inv

(* Every seat is of a row that exists, in a room that is there, and the    *)
(* page sends nobody to a conversation Talk does not have.                 *)
THEOREM SeatsAreThere == Spec => []SeatsExist
<1>1. Inv => SeatsExist
  <2> SUFFICES ASSUME Inv PROVE SeatsExist
    OBVIOUS
  <2> USE DEF Inv
  <2>1. /\ \A r \in Rounds : \A p \in Seated(r) : person[p] # "none" /\ plan[r][p] <= rooms[r]
        /\ \A r \in Rounds : tokens[r] <= rooms[r]
        /\ \A r \in Active : tokens[r] = talkRooms
    BY DEF SeatsFit, Seated
  <2>2. ASSUME NEW p \in People, Screen(p) = "in_round", NEW r \in Active
        PROVE  plan[r][p] <= talkRooms
    <3>1. r = CHOOSE q \in Active : TRUE
      BY DEF OneActive
    <3>2. ~(plan[r][p] > tokens[r])
      BY <2>2, <3>1 DEF Screen
    <3>3. r \in Rounds
      BY DEF Active
    <3>4. plan[r][p] \in 0 .. MaxRooms /\ tokens[r] \in 0 .. MaxRooms
      BY <3>3 DEF TypeOK
    <3> QED
      BY <2>1, <3>2, <3>4, Bounds
  <2> QED
    BY <2>1, <2>2 DEF SeatsExist
<1> QED
  BY <1>1, InvHolds, PTL

(* A start or a remix passes over nobody Talk can place, except whom a     *)
(* start that makes the plan does not see (start_round reads the lists *)
(* of members before it).                                                  *)
THEOREM NobodyIsPassedOver == Spec => []TalkFollowsPlan
BY InvHolds, PTL DEF Inv

(* A stored attendee id outlives every new plan, move and copy that keeps  *)
(* the room its person sat in (ensure_rooms, _replace_members,             *)
(* move_participant).                                                      *)
THEOREM IdsAreKept == Spec => IdsSurvive
<1>1. Inv /\ [Next]_vars =>
          [\A r \in Rounds, p \in People :
               ids[r][p] # "none" /\ plan'[r][p] # Nowhere /\ plan[r][p] <= rooms'[r]
                   => ids'[r][p] # "none"]_vars
  <2> SUFFICES ASSUME Inv, Next, NEW r \in Rounds, NEW p \in People,
                      ids[r][p] # "none", plan'[r][p] # Nowhere, plan[r][p] <= rooms'[r]
               PROVE  ids'[r][p] # "none"
    BY DEF vars
  <2> USE DEF Inv
  <2>0. /\ ids \in [Rounds -> [People -> Ids]] /\ plan \in [Rounds -> [People -> 0 .. MaxRooms]]
        /\ rooms \in [Rounds -> 0 .. MaxRooms]
    BY DEF TypeOK
  <2>1. ASSUME NEW q \in Rounds, NEW n, NEW f, NEW known, Replace(q, n, f, known),
               q = r => known[p] # "none"
        PROVE  ids'[r][p] # "none"
    BY <2>0, <2>1 DEF Replace, Carried
  <2>2. ASSUME NEW q \in Rounds, AssignRandomly(q) PROVE ids'[r][p] # "none"
    <3>1. PICK n \in Numbers : \E f \in Shuffles(n) : Replace(q, n, f, Known(q, n))
      BY <2>2 DEF AssignRandomly
    <3>2. PICK f \in Shuffles(n) : Replace(q, n, f, Known(q, n))
      BY <3>1
    <3>3. q = r => plan[r][p] <= n
      BY <2>0, <3>2 DEF Replace
    <3>4. q = r => Known(q, n)[p] # "none"
      BY <3>3 DEF Known
    <3> QED
      BY <2>1, <3>2, <3>4
  <2>3. ASSUME NEW q \in Rounds, CopyPrevious(q) PROVE ids'[r][p] # "none"
    <3> DEFINE n == AtLeastOne(rooms[q - 1])
               known == [x \in People |-> IF ids[q - 1][x] # "none" THEN ids[q - 1][x]
                                          ELSE Known(q, n)[x]]
    <3>1. Replace(q, n, plan[q - 1], known)
      BY <2>3 DEF CopyPrevious
    <3>2. q = r => plan[r][p] <= n
      BY <2>0, <3>1 DEF Replace
    <3>3. q = r => known[p] # "none"
      BY <3>2 DEF Known
    <3> HIDE DEF n, known
    <3> QED
      BY <2>1, <3>1, <3>3
  <2>4. ASSUME NEW q \in Rounds, StartRound(q) PROVE ids'[r][p] # "none"
    <3>1. PICK c \in StartPlans(q) : /\ plan' = [plan EXCEPT ![q] = c.f]
                                     /\ ids' = [ids EXCEPT ![q] = Matched(q, c.f)]
      BY <2>4 DEF StartRound
    <3> QED
      BY <2>0, <3>1 DEF Matched
  <2>5. ASSUME NEW q \in Rounds, Remix(q) PROVE ids'[r][p] # "none"
    BY <2>0, <2>5 DEF Remix, Filled
  <2>6. ASSUME NEW q \in Rounds, DeleteRound(q) PROVE ids'[r][p] # "none"
    BY <2>0, <2>6 DEF DeleteRound
  <2>7. ASSUME NEW q \in People, DeleteParticipant(q) PROVE ids'[r][p] # "none"
    BY <2>0, <2>7 DEF DeleteParticipant
  <2>8. ASSUME NEW q \in People, LeaveTalk(q) PROVE ids'[r][p] # "none"
    BY <2>0, <2>8 DEF LeaveTalk
  <2>9. ASSUME UNCHANGED ids PROVE ids'[r][p] # "none"
    BY <2>9
  <2>10. CASE \E q \in Rounds :
                  \/ AddRound(q) \/ StartFails(q) \/ RemixFails(q) \/ EndRound(q)
                  \/ \E x \in People, i \in Numbers : Move(q, x, i)
    BY <2>9, <2>10 DEF AddRound, StartFails, RemixFails, EndRound, Move, planVars
  <2>11. CASE \E q \in People : AddParticipant(q) \/ RecordConsent(q)
    BY <2>9, <2>11 DEF AddParticipant, RecordConsent, planVars
  <2> QED
    BY <2>2, <2>3, <2>4, <2>5, <2>6, <2>7, <2>8, <2>10, <2>11
       DEF Next, Organizer, Participant
<1> QED
  BY <1>1, InvHolds, PTL DEF Spec, IdsSurvive
=============================================================================
