---------------------------- MODULE ReviewProofs ----------------------------
(***************************************************************************)
(* Type correctness of Review, and what it promises of quotes, counts,     *)
(* decisions and frozen reports, for every set of recordings, rooms and    *)
(* ids.  The count of a cluster covers its passages because a finding of a *)
(* room quotes that room only; the job carries this from the moment the    *)
(* model is asked.                                                         *)
(***************************************************************************)
EXTENDS Review, FiniteSetTheorems, TLAPS

(* A finding of a room quotes what was said there.                         *)
QuotesOwnRoom ==
    /\ \A i \in OfRooms : \A r \in finding[i].evidence : RoomOf[r] = finding[i].scope
    /\ job.kind = "room" => \A r \in job.valid : RoomOf[r] = job.room

Inv == TypeOK /\ QuotesAccountedFor /\ QuotesOwnRoom /\ CountCoversPassages

LEMMA RoomsFinite ==
    ASSUME NEW S \in SUBSET Rooms
    PROVE  Cardinality(S) \in 0 .. Cardinality(Rooms)
<1>1. IsFiniteSet(Rooms)
  BY ReviewAssumption
<1>2. Cardinality(Rooms) \in Nat /\ Cardinality(S) \in Nat /\ Cardinality(S) <= Cardinality(Rooms)
  BY <1>1, FS_Subset, FS_CardinalityType
<1> QED
  BY <1>2

LEMMA ClusterIsNoRoom == Cluster \notin Rooms /\ Scopes = Rooms \cup {Cluster}
BY ReviewAssumption DEF Cluster, Scopes

LEMMA DraftType ==
    ASSUME NEW s \in Scopes, NEW E \in SUBSET Recordings, NEW n \in 0 .. Cardinality(Rooms)
    PROVE  /\ Draft(s, E, n) \in Findings
           /\ Draft(s, E, n).scope = s /\ Draft(s, E, n).evidence = E
           /\ Draft(s, E, n).mentioned = n
BY DEF Draft, Findings, Statuses

(* Drafts that take the place of those of a scope: the findings after it.  *)
LEMMA ReplacesEffect ==
    ASSUME NEW s, NEW new, Replaces(s, new), TypeOK
    PROVE  /\ Stored' = DOMAIN new \cup (Stored \ Outdated(s))
           /\ DOMAIN new \cap Stored = {}
           /\ \A i \in DOMAIN new : finding'[i] = new[i]
           /\ \A i \in Stored \ Outdated(s) : finding'[i] = finding[i]
           /\ unmarked' = unmarked \ Outdated(s)
           /\ job' = Idle /\ transcribed' = transcribed /\ frozen' = frozen
           /\ \A i \in Outdated(s) : finding[i].status = "DRAFT"
BY DEF Replaces, Stored, Outdated

(* A passage that goes takes the links to it along, and nothing else.      *)
LEMMA WithoutPassagesEffect ==
    ASSUME NEW r, NEW marked, WithoutPassages(r, marked), TypeOK
    PROVE  /\ Stored' = Stored
           /\ \A i \in Stored :
                  /\ finding'[i] \in [scope : {finding[i].scope}, status : {finding[i].status},
                                      evidence : {finding[i].evidence \ {r}}, removed : BOOLEAN,
                                      mentioned : {finding[i].mentioned}]
                  /\ r \notin finding[i].evidence => finding'[i] = finding[i]
                  /\ finding[i].removed => finding'[i].removed
                  /\ r \in finding[i].evidence /\ i \in marked => finding'[i].removed
<1>1. Stored' = Stored
  BY DEF WithoutPassages, Stored
<1> SUFFICES ASSUME NEW i \in Stored
             PROVE  /\ finding'[i] \in [scope : {finding[i].scope}, status : {finding[i].status},
                                        evidence : {finding[i].evidence \ {r}}, removed : BOOLEAN,
                                        mentioned : {finding[i].mentioned}]
                    /\ r \notin finding[i].evidence => finding'[i] = finding[i]
                    /\ finding[i].removed => finding'[i].removed
                    /\ r \in finding[i].evidence /\ i \in marked => finding'[i].removed
  BY <1>1
<1>2. finding[i] \in Findings
  BY DEF TypeOK
<1>3. CASE i \in Quoting(r)
  <2>1. finding'[i] = [finding[i] EXCEPT !.evidence = @ \ {r}, !.removed = @ \/ i \in marked]
    BY <1>3 DEF WithoutPassages
  <2> QED
    BY <1>2, <1>3, <2>1 DEF Findings, Quoting
<1>4. CASE i \notin Quoting(r)
  <2>1. finding'[i] = finding[i] /\ finding[i].evidence \ {r} = finding[i].evidence
    BY <1>4 DEF WithoutPassages, Quoting
  <2> QED
    BY <1>2, <2>1, <1>4 DEF Findings, Quoting
<1> QED
  BY <1>3, <1>4

-----------------------------------------------------------------------------
LEMMA InitInv == Init => Inv
BY DEF Init, Inv, TypeOK, QuotesAccountedFor, QuotesOwnRoom, CountCoversPassages, JobType,
       Idle, Stored, InScope, OfRooms, NoReport, Reports

(* Drafts of a scope that are well made keep the invariant.                *)
LEMMA ReplacesKeepsInv ==
    ASSUME NEW s, NEW new, Replaces(s, new), Inv,
           DOMAIN new \subseteq Ids,
           \A i \in DOMAIN new :
               /\ new[i] \in Findings /\ new[i].evidence \subseteq transcribed
               /\ new[i].scope # Cluster =>
                      /\ new[i].evidence # {}
                      /\ \A r \in new[i].evidence : RoomOf[r] = new[i].scope
               /\ new[i].scope = Cluster =>
                      new[i].mentioned >= Cardinality({RoomOf[r] : r \in new[i].evidence})
    PROVE  Inv'
<1> USE DEF Inv
<1>0. TypeOK
  OBVIOUS
<1>1. /\ Stored' = DOMAIN new \cup (Stored \ Outdated(s))
      /\ DOMAIN new \cap Stored = {}
      /\ \A i \in DOMAIN new : finding'[i] = new[i]
      /\ \A i \in Stored \ Outdated(s) : finding'[i] = finding[i]
      /\ unmarked' = unmarked \ Outdated(s)
      /\ job' = Idle /\ transcribed' = transcribed /\ frozen' = frozen
  BY <1>0, ReplacesEffect
<1>2. TypeOK'
  BY <1>1 DEF TypeOK, JobType, Idle
<1>3. QuotesAccountedFor'
  <2>1. \A i \in OfRooms' :
            finding'[i].evidence = {} => finding'[i].removed \/ i \in unmarked'
    <3> SUFFICES ASSUME NEW i \in Stored', finding'[i].scope # Cluster, finding'[i].evidence = {}
                 PROVE  finding'[i].removed \/ i \in unmarked'
      BY DEF OfRooms
    <3>1. i \in Stored \ Outdated(s) /\ finding'[i] = finding[i]
      BY <1>1
    <3> QED
      BY <1>1, <3>1 DEF QuotesAccountedFor, OfRooms
  <2>2. \A i \in Stored' : finding'[i].evidence \subseteq transcribed'
    BY <1>1 DEF QuotesAccountedFor
  <2> QED
    BY <2>1, <2>2 DEF QuotesAccountedFor
<1>4. QuotesOwnRoom'
  <2>1. job'.kind # "room"
    BY <1>1 DEF Idle
  <2>2. \A i \in OfRooms' : \A r \in finding'[i].evidence : RoomOf[r] = finding'[i].scope
    <3> SUFFICES ASSUME NEW i \in Stored', finding'[i].scope # Cluster
                 PROVE  \A r \in finding'[i].evidence : RoomOf[r] = finding'[i].scope
      BY DEF OfRooms
    <3>1. CASE i \in DOMAIN new
      BY <1>1, <3>1
    <3>2. CASE i \in Stored \ Outdated(s)
      BY <1>1, <3>2 DEF QuotesOwnRoom, OfRooms
    <3> QED
      BY <1>1, <3>1, <3>2
  <2> QED
    BY <2>1, <2>2 DEF QuotesOwnRoom
<1>5. CountCoversPassages'
  <2> SUFFICES ASSUME NEW i \in Stored', finding'[i].scope = Cluster
               PROVE  finding'[i].mentioned >= Cardinality({RoomOf[r] : r \in finding'[i].evidence})
    BY DEF CountCoversPassages, InScope
  <2>1. CASE i \in DOMAIN new
    BY <1>1, <2>1
  <2>2. CASE i \in Stored \ Outdated(s)
    BY <1>1, <2>2 DEF CountCoversPassages, InScope
  <2> QED
    BY <1>1, <2>1, <2>2
<1> QED
  BY <1>2, <1>3, <1>4, <1>5

LEMMA StoreRoomKeepsInv == Inv /\ StoreRoom => Inv'
<1> SUFFICES ASSUME Inv, StoreRoom PROVE Inv'
  OBVIOUS
<1> USE DEF Inv
<1>1. PICK I \in SUBSET Ids : \E cited \in [I -> Citations(job.valid)] :
          /\ \A i \in I : cited[i] \subseteq transcribed
          /\ Replaces(job.room, [i \in I |-> Draft(job.room, cited[i], 0)])
  BY DEF StoreRoom
<1>2. PICK cited \in [I -> Citations(job.valid)] :
          /\ \A i \in I : cited[i] \subseteq transcribed
          /\ Replaces(job.room, [i \in I |-> Draft(job.room, cited[i], 0)])
  BY <1>1
<1> DEFINE new == [i \in I |-> Draft(job.room, cited[i], 0)]
<1>3. /\ job.kind = "room" /\ job.room \in Rooms /\ job.valid \subseteq Recordings
      /\ \A r \in job.valid : RoomOf[r] = job.room
  BY DEF StoreRoom, TypeOK, JobType, Idle, QuotesOwnRoom
<1>4. job.room # Cluster /\ job.room \in Scopes /\ 0 \in 0 .. Cardinality(Rooms)
  <2>1. Cardinality(Rooms) \in Nat
    BY ReviewAssumption, FS_CardinalityType
  <2> QED
    BY <1>3, <2>1, ClusterIsNoRoom
<1>5. ASSUME NEW i \in I
      PROVE  /\ new[i] \in Findings /\ new[i].evidence \subseteq transcribed
             /\ new[i].scope # Cluster =>
                    /\ new[i].evidence # {}
                    /\ \A r \in new[i].evidence : RoomOf[r] = new[i].scope
             /\ new[i].scope = Cluster =>
                    new[i].mentioned >= Cardinality({RoomOf[r] : r \in new[i].evidence})
  <2>1. cited[i] \subseteq job.valid /\ cited[i] # {} /\ cited[i] \subseteq transcribed
    BY <1>2 DEF Citations
  <2>2. cited[i] \in SUBSET Recordings
    BY <1>3, <2>1
  <2>3. new[i] = Draft(job.room, cited[i], 0)
    OBVIOUS
  <2>4. new[i] \in Findings /\ new[i].scope = job.room /\ new[i].evidence = cited[i]
    <3> HIDE DEF new, Inv
    <3> QED
      BY <1>4, <2>2, <2>3, DraftType
  <2> HIDE DEF new, Inv
  <2> QED
    BY <1>3, <1>4, <2>1, <2>4
<1>6. DOMAIN new = I /\ Replaces(job.room, new)
  BY <1>2
<1> HIDE DEF new, Inv
<1> QED
  BY <1>5, <1>6, ReplacesKeepsInv

(* The rooms of the passages a cluster inherits are rooms of its sources.  *)
LEMMA InheritedRooms ==
    ASSUME Inv, NEW S \in SUBSET OfRooms
    PROVE  /\ Mentioned(S) \in 0 .. Cardinality(Rooms)
           /\ Inherited(S) \subseteq transcribed
           /\ Mentioned(S) >= Cardinality({RoomOf[r] : r \in Inherited(S)})
<1> USE DEF Inv
<1>1. RoomsOf(S) \subseteq Rooms
  BY ClusterIsNoRoom DEF RoomsOf, OfRooms, TypeOK, Findings
<1>2. {RoomOf[r] : r \in Inherited(S)} \subseteq RoomsOf(S)
  BY DEF Inherited, RoomsOf, QuotesOwnRoom
<1>3. IsFiniteSet(RoomsOf(S))
  BY <1>1, ReviewAssumption, FS_Subset
<1>4. Cardinality({RoomOf[r] : r \in Inherited(S)}) <= Cardinality(RoomsOf(S))
  BY <1>2, <1>3, FS_Subset
<1>5. Cardinality(RoomsOf(S)) \in 0 .. Cardinality(Rooms)
  BY <1>1, RoomsFinite
<1>6. Cardinality({RoomOf[r] : r \in Inherited(S)}) \in Nat
  BY <1>2, <1>3, FS_Subset, FS_CardinalityType
<1>7. Inherited(S) \subseteq transcribed
  BY DEF Inherited, OfRooms, QuotesAccountedFor
<1> QED
  BY <1>4, <1>5, <1>6, <1>7 DEF Mentioned

LEMMA StoreRoundKeepsInv == Inv /\ StoreRound => Inv'
<1> SUFFICES ASSUME Inv, StoreRound PROVE Inv'
  OBVIOUS
<1>1. PICK I \in SUBSET Ids : \E sources \in [I -> (SUBSET job.sources) \ {{}}] :
          Replaces(Cluster, [i \in I |->
              Draft(Cluster, Inherited(sources[i]), Mentioned(sources[i]))])
  BY DEF StoreRound
<1>2. PICK sources \in [I -> (SUBSET job.sources) \ {{}}] :
          Replaces(Cluster, [i \in I |->
              Draft(Cluster, Inherited(sources[i]), Mentioned(sources[i]))])
  BY <1>1
<1> DEFINE new == [i \in I |-> Draft(Cluster, Inherited(sources[i]), Mentioned(sources[i]))]
<1>3. job.sources \subseteq OfRooms
  BY DEF StoreRound, Inv, TypeOK, JobType, Idle
<1>4. transcribed \subseteq Recordings
  BY DEF Inv, TypeOK
<1>5. ASSUME NEW i \in I
      PROVE  /\ new[i] \in Findings /\ new[i].evidence \subseteq transcribed
             /\ new[i].scope # Cluster =>
                    /\ new[i].evidence # {}
                    /\ \A r \in new[i].evidence : RoomOf[r] = new[i].scope
             /\ new[i].scope = Cluster =>
                    new[i].mentioned >= Cardinality({RoomOf[r] : r \in new[i].evidence})
  <2>1. sources[i] \in SUBSET OfRooms
    BY <1>2, <1>3
  <2>2. /\ Mentioned(sources[i]) \in 0 .. Cardinality(Rooms)
        /\ Inherited(sources[i]) \subseteq transcribed
        /\ Mentioned(sources[i]) >= Cardinality({RoomOf[r] : r \in Inherited(sources[i])})
    BY <2>1, InheritedRooms
  <2>3. new[i] = Draft(Cluster, Inherited(sources[i]), Mentioned(sources[i]))
    OBVIOUS
  <2>4. Inherited(sources[i]) \in SUBSET Recordings /\ Cluster \in Scopes
    BY <1>4, <2>2, ClusterIsNoRoom
  <2> HIDE DEF new
  <2>5. /\ new[i] \in Findings /\ new[i].scope = Cluster
        /\ new[i].evidence = Inherited(sources[i]) /\ new[i].mentioned = Mentioned(sources[i])
    BY <2>2, <2>3, <2>4, DraftType
  <2> QED
    BY <2>2, <2>5
<1>6. DOMAIN new = I /\ Replaces(Cluster, new)
  BY <1>2
<1> HIDE DEF new
<1> QED
  BY <1>5, <1>6, ReplacesKeepsInv

(* A transcript, a chat or a person: the passages of one recording go.     *)
LEMMA LossKeepsInv ==
    ASSUME Inv, NEW r \in Recordings, NEW marked, WithoutPassages(r, marked),
           transcribed' \in {transcribed \cup {r}, transcribed \ {r}},
           \/ unmarked' = unmarked /\ marked = Quoting(r)
           \/ unmarked' = unmarked \cup Quoting(r),
           UNCHANGED <<job, frozen>>
    PROVE  Inv'
<1> USE DEF Inv
<1>0. /\ Stored' = Stored
      /\ \A i \in Stored :
             /\ finding'[i] \in [scope : {finding[i].scope}, status : {finding[i].status},
                                 evidence : {finding[i].evidence \ {r}}, removed : BOOLEAN,
                                 mentioned : {finding[i].mentioned}]
             /\ r \notin finding[i].evidence => finding'[i] = finding[i]
             /\ finding[i].removed => finding'[i].removed
             /\ r \in finding[i].evidence /\ i \in marked => finding'[i].removed
  BY WithoutPassagesEffect
<1>1. \A i \in Stored : /\ finding'[i].scope = finding[i].scope
                        /\ finding'[i].evidence = finding[i].evidence \ {r}
                        /\ finding'[i].mentioned = finding[i].mentioned
                        /\ finding[i] \in Findings /\ finding'[i] \in Findings
  BY <1>0 DEF TypeOK, Findings
<1>2. OfRooms' = OfRooms /\ InScope(Cluster)' = InScope(Cluster)
  BY <1>0, <1>1 DEF OfRooms, InScope
<1>3. Quoting(r) \subseteq Stored
  BY DEF Quoting
<1>4. TypeOK'
  BY <1>0, <1>1, <1>2, <1>3 DEF TypeOK, JobType, Idle
<1>5. QuotesAccountedFor'
  <2>1. ASSUME NEW i \in OfRooms, finding'[i].evidence = {}
        PROVE  finding'[i].removed \/ i \in unmarked'
    <3>0. i \in Stored
      BY DEF OfRooms
    <3>1. CASE r \in finding[i].evidence
      <4>1. i \in Quoting(r)
        BY <3>0, <3>1 DEF Quoting
      <4> QED
        BY <1>0, <3>0, <3>1, <4>1
    <3>2. CASE r \notin finding[i].evidence
      <4>1. finding'[i] = finding[i]
        BY <1>0, <3>0, <3>2
      <4>2. finding[i].removed \/ i \in unmarked
        BY <2>1, <4>1 DEF QuotesAccountedFor
      <4> QED
        BY <4>1, <4>2
    <3> QED
      BY <3>1, <3>2
  <2>2. \A i \in Stored : finding'[i].evidence \subseteq transcribed'
    BY <1>1 DEF QuotesAccountedFor
  <2> QED
    BY <1>0, <1>2, <2>1, <2>2 DEF QuotesAccountedFor
<1>6. QuotesOwnRoom'
  BY <1>1, <1>2 DEF QuotesOwnRoom, OfRooms
<1>7. CountCoversPassages'
  <2> SUFFICES ASSUME NEW i \in InScope(Cluster)
               PROVE  finding'[i].mentioned >= Cardinality({RoomOf[q] : q \in finding'[i].evidence})
    BY <1>2 DEF CountCoversPassages
  <2> DEFINE Had == {RoomOf[q] : q \in finding[i].evidence}
             Has == {RoomOf[q] : q \in finding'[i].evidence}
  <2>0. i \in Stored
    BY DEF InScope
  <2>1. Has \subseteq Had /\ Had \subseteq Rooms
    BY <1>1, <2>0, ReviewAssumption DEF Findings
  <2>2. IsFiniteSet(Had)
    BY <2>1, ReviewAssumption, FS_Subset
  <2>3. Cardinality(Has) <= Cardinality(Had) /\ Cardinality(Has) \in Nat /\ Cardinality(Had) \in Nat
    <3> HIDE DEF Has, Had
    <3> QED
      BY <2>1, <2>2, FS_Subset, FS_CardinalityType
  <2>4. finding[i].mentioned >= Cardinality(Had)
    BY DEF CountCoversPassages
  <2>5. finding[i].mentioned \in Int /\ finding'[i].mentioned = finding[i].mentioned
    <3>1. Cardinality(Rooms) \in Nat
      BY ReviewAssumption, FS_CardinalityType
    <3> QED
      BY <1>1, <2>0, <3>1 DEF Findings
  <2> HIDE DEF Has, Had
  <2>6. finding'[i].mentioned >= Cardinality(Has)
    BY <2>3, <2>4, <2>5
  <2> QED
    BY <2>6 DEF Has
<1> QED
  BY <1>4, <1>5, <1>6, <1>7

(* A decision changes a status and nothing the invariant is about.         *)
LEMMA DecideKeepsInv ==
    ASSUME Inv, NEW i, Decide(i)
    PROVE  Inv'
<1> USE DEF Inv
<1>1. PICK s \in Statuses : finding' = [finding EXCEPT ![i].status = s]
  BY DEF Decide
<1>2. i \in Stored /\ Stored' = Stored /\ UNCHANGED <<transcribed, job, frozen, unmarked>>
  BY <1>1 DEF Decide, Stored
<1>3. ASSUME NEW j \in Stored
      PROVE  /\ finding'[j] \in Findings
             /\ finding'[j].scope = finding[j].scope /\ finding'[j].evidence = finding[j].evidence
             /\ finding'[j].removed = finding[j].removed
             /\ finding'[j].mentioned = finding[j].mentioned
  <2>1. finding[j] \in Findings
    BY DEF TypeOK
  <2>2. finding'[j] = IF j = i THEN [finding[j] EXCEPT !.status = s] ELSE finding[j]
    BY <1>1 DEF Stored
  <2> QED
    BY <2>1, <2>2 DEF Findings
<1>4. OfRooms' = OfRooms /\ InScope(Cluster)' = InScope(Cluster)
  BY <1>2, <1>3 DEF OfRooms, InScope
<1>5. TypeOK'
  BY <1>2, <1>3, <1>4 DEF TypeOK, JobType, Idle
<1>6. QuotesAccountedFor'
  BY <1>2, <1>3, <1>4 DEF QuotesAccountedFor, OfRooms
<1>7. QuotesOwnRoom'
  BY <1>2, <1>3, <1>4 DEF QuotesOwnRoom, OfRooms
<1>8. CountCoversPassages'
  BY <1>2, <1>3, <1>4 DEF CountCoversPassages, InScope
<1> QED
  BY <1>5, <1>6, <1>7, <1>8

(* What leaves the findings, their transcripts and their marks alone keeps *)
(* what is said of them.                                                   *)
LEMMA SameFindings ==
    ASSUME Inv, UNCHANGED <<finding, transcribed, unmarked>>
    PROVE  /\ OfRooms' = OfRooms /\ QuotesAccountedFor' /\ CountCoversPassages'
           /\ Stored' = Stored
BY DEF Inv, QuotesAccountedFor, CountCoversPassages, OfRooms, InScope, Stored

LEMMA StepKeepsInv == Inv /\ [Next]_vars => Inv'
<1> SUFFICES ASSUME Inv, [Next]_vars PROVE Inv'
  OBVIOUS
<1>1. ASSUME NEW room \in Rooms, AskRoom(room) PROVE Inv'
  <2>1. Heard(room) \subseteq Recordings /\ \A r \in Heard(room) : RoomOf[r] = room
    BY DEF Heard, Inv, TypeOK
  <2>2. TypeOK'
    BY <1>1, <2>1, SameFindings DEF Inv, AskRoom, TypeOK, JobType
  <2>3. QuotesOwnRoom'
    BY <1>1, <2>1, SameFindings DEF Inv, AskRoom, QuotesOwnRoom
  <2> QED
    BY <1>1, <2>2, <2>3, SameFindings DEF Inv, AskRoom
<1>2. CASE AskRound
  <2>1. TypeOK'
    BY <1>2, SameFindings DEF Inv, AskRound, TypeOK, JobType
  <2>2. QuotesOwnRoom'
    BY <1>2, SameFindings DEF Inv, AskRound, QuotesOwnRoom
  <2> QED
    BY <1>2, <2>1, <2>2, SameFindings DEF Inv, AskRound
<1>3. CASE StoreRoom
  BY <1>3, StoreRoomKeepsInv
<1>4. CASE StoreRound
  BY <1>4, StoreRoundKeepsInv
<1>5. CASE AnalysisFails
  <2>1. TypeOK'
    BY <1>5, SameFindings DEF Inv, AnalysisFails, TypeOK, JobType, Idle
  <2>2. QuotesOwnRoom'
    BY <1>5, SameFindings DEF Inv, AnalysisFails, QuotesOwnRoom, Idle
  <2> QED
    BY <1>5, <2>1, <2>2, SameFindings DEF Inv, AnalysisFails
<1>6. ASSUME NEW r \in Recordings, StoreTranscript(r) PROVE Inv'
  BY <1>6, LossKeepsInv DEF StoreTranscript, Marked
<1>7. ASSUME NEW r \in Recordings, ImportChat(r) PROVE Inv'
  BY <1>7, LossKeepsInv DEF ImportChat
<1>8. ASSUME NEW r \in Recordings, DeleteParticipant(r) PROVE Inv'
  BY <1>8, LossKeepsInv DEF DeleteParticipant
<1>9. ASSUME NEW i \in Ids, Decide(i) PROVE Inv'
  BY <1>9, DecideKeepsInv
<1>10. CASE Freeze
  <2>1. Report \subseteq Ids
    BY DEF Report, Inv, TypeOK
  <2>2. TypeOK'
    BY <1>10, <2>1, SameFindings DEF Inv, Freeze, TypeOK, JobType, Reports, Idle
  <2>3. QuotesOwnRoom'
    BY <1>10, SameFindings DEF Inv, Freeze, QuotesOwnRoom
  <2> QED
    BY <1>10, <2>2, <2>3, SameFindings DEF Inv, Freeze
<1>11. CASE Withdraw \/ UNCHANGED vars
  <2>1. UNCHANGED vars
    BY <1>11 DEF Withdraw, ReopenedReport, vars
  <2>2. TypeOK'
    BY <2>1, SameFindings DEF vars, Inv, TypeOK, JobType, Idle
  <2>3. QuotesOwnRoom'
    BY <2>1, SameFindings DEF vars, Inv, QuotesOwnRoom
  <2> QED
    BY <2>1, <2>2, <2>3, SameFindings DEF Inv, vars
<1> QED
  BY <1>1, <1>2, <1>3, <1>4, <1>5, <1>6, <1>7, <1>8, <1>9, <1>10, <1>11
     DEF Next, Worker, Organizer

THEOREM InvHolds == Spec => []Inv
<1> QED
  BY InitInv, StepKeepsInv, PTL DEF Spec

-----------------------------------------------------------------------------
(* The rows, the job and the frozen report hold what they may hold: in     *)
(* particular a clustering that waits for the model never names a finding  *)
(* that was deleted under it.                                              *)
THEOREM TypeCorrect == Spec => []TypeOK
BY InvHolds, PTL DEF Inv

(* A finding of a room that quotes nothing any more is marked, unless what *)
(* it lost went with a chat that was read again or with a person who was   *)
(* deleted, for those paths never call mark_evidence_removed; and every    *)
(* link is to a transcript that is there (the cascades).                   *)
THEOREM LostTranscriptsAreMarked == Spec => []QuotesAccountedFor
BY InvHolds, PTL DEF Inv

(* "Raised in N rooms" counts at least the rooms its passages come from.   *)
THEOREM CountIsHonest == Spec => []CountCoversPassages
BY InvHolds, PTL DEF Inv

(* No job undoes what a person decided (_delete_existing spares it).       *)
THEOREM DecisionsAreKept == Spec => DecisionsSurvive
<1>1. Inv /\ [Next]_vars =>
          [\A i \in Stored : finding[i].status # "DRAFT" =>
               \/ i \in Stored' /\ finding'[i].status = finding[i].status
               \/ Decide(i)]_vars
  <2> SUFFICES ASSUME Inv, Next, NEW i \in Stored, finding[i].status # "DRAFT", ~Decide(i)
               PROVE  i \in Stored' /\ finding'[i].status = finding[i].status
    BY DEF vars
  <2>0. TypeOK
    BY DEF Inv
  <2>1. ASSUME NEW s, NEW new, Replaces(s, new)
        PROVE  i \in Stored' /\ finding'[i].status = finding[i].status
    BY <2>0, <2>1, ReplacesEffect
  <2>2. ASSUME NEW r, NEW marked, WithoutPassages(r, marked)
        PROVE  i \in Stored' /\ finding'[i].status = finding[i].status
    <3>1. /\ Stored' = Stored
          /\ finding'[i] \in [scope : {finding[i].scope}, status : {finding[i].status},
                              evidence : {finding[i].evidence \ {r}}, removed : BOOLEAN,
                              mentioned : {finding[i].mentioned}]
      BY <2>0, <2>2, WithoutPassagesEffect
    <3> QED
      BY <3>1
  <2>3. ASSUME NEW j \in Ids, Decide(j)
        PROVE  i \in Stored' /\ finding'[i].status = finding[i].status
    <3>1. j # i
      BY <2>3
    <3> QED
      BY <2>3, <3>1 DEF Decide, Stored
  <2>4. ASSUME UNCHANGED finding
        PROVE  i \in Stored' /\ finding'[i].status = finding[i].status
    BY <2>4 DEF Stored
  <2>5. CASE StoreRoom
    BY <2>1, <2>5 DEF StoreRoom
  <2>6. CASE StoreRound
    BY <2>1, <2>6 DEF StoreRound
  <2>7. CASE \E r \in Recordings : StoreTranscript(r) \/ ImportChat(r) \/ DeleteParticipant(r)
    BY <2>2, <2>7 DEF StoreTranscript, ImportChat, DeleteParticipant
  <2>8. CASE \/ \E room \in Rooms : AskRoom(room)
             \/ AskRound \/ AnalysisFails \/ Freeze \/ Withdraw
    BY <2>4, <2>8 DEF AskRoom, AskRound, AnalysisFails, Freeze, Withdraw
  <2> QED
    BY <2>3, <2>5, <2>6, <2>7, <2>8 DEF Next, Worker, Organizer
<1> QED
  BY <1>1, InvHolds, PTL DEF Spec, DecisionsSurvive

(* Only closing or publishing again changes what people read of a session  *)
(* whose report was frozen (_report_for).                                  *)
THEOREM FrozenIsWhatIsRead == Spec => WhatWasReadStays
<1>1. [Next]_vars => [frozen.there => Read' = Read \/ Freeze]_vars
  <2> SUFFICES ASSUME Next, frozen.there, ~Freeze
               PROVE  Read' = Read
    BY DEF vars
  <2>1. frozen' = frozen
    BY DEF Next, Worker, Organizer, AskRoom, AskRound, StoreRoom, StoreRound, AnalysisFails,
           Replaces, StoreTranscript, ImportChat, DeleteParticipant, Decide, Withdraw,
           ReopenedReport
  <2> QED
    BY <2>1 DEF Read
<1> QED
  BY <1>1, PTL DEF Spec, WhatWasReadStays
=============================================================================
