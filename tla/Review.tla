------------------------------- MODULE Review -------------------------------
(***************************************************************************)
(* What becomes of the words after a round: the findings the model drafts  *)
(* from the transcripts (services/analysis.py), the passages they quote,   *)
(* the decisions people take on them (api/findings.py), and the report     *)
(* that is frozen when the session is closed or published                  *)
(* (services/report.py, api/reports.py).                                   *)
(*                                                                         *)
(* Jobs run one at a time, requests whenever they come.  An analysis       *)
(* commits before it asks the model and writes when the answer is there:   *)
(* requests, but no other job, fall in between.  Who asks for which job is *)
(* in Pipeline; here any of them may run at any time, since an organizer   *)
(* may ask for an analysis and a round may be started and ended again.     *)
(*                                                                         *)
(* A recording stands for its transcript: at every replacement all links   *)
(* to the old segments are gone (TranscriptSegment and FindingEvidence     *)
(* cascade), so a link is to a recording's current segments or is not      *)
(* there.  EDITED_AND_APPROVED is APPROVED here: no code but the wording   *)
(* of the payload tells them apart.                                        *)
(***************************************************************************)
EXTENDS Integers, FiniteSets

CONSTANTS
    Spoken,         \* recordings of a microphone
    Typed,          \* the synthetic recordings of chat_import, "text/chat"
    Rooms,          \* the rooms of the round
    RoomOf,         \* Recording.room_id
    Ids             \* Finding.id: at most so many findings at a time

Recordings == Spoken \cup Typed

ASSUME ReviewAssumption ==
    /\ Spoken \cap Typed = {} /\ RoomOf \in [Recordings -> Rooms]
    /\ "round" \notin Rooms
    /\ IsFiniteSet(Recordings) /\ IsFiniteSet(Rooms)

Cluster == "round"
Scopes == Rooms \cup {Cluster}
Statuses == {"DRAFT", "APPROVED", "REJECTED"}
Findings ==
    [scope : Scopes, status : Statuses, evidence : SUBSET Recordings,
     removed : BOOLEAN,                  \* evidence_removed_at is set
     mentioned : 0 .. Cardinality(Rooms)]    \* mentioned_room_count
Reports == [there : BOOLEAN, shows : SUBSET Ids]
NoReport == [there |-> FALSE, shows |-> {}]

VARIABLES
    transcribed,    \* the recordings that have a transcript
    finding,        \* the Finding rows, by their ids
    job,            \* the analysis that waits for the model
    frozen,         \* Session.final_report_json: is it there, and whose findings
    unmarked        \* history: findings that lost a chat or a person unmarked

vars == <<transcribed, finding, job, frozen, unmarked>>

Idle == [kind |-> "none"]
Stored == DOMAIN finding
InScope(s) == {i \in Stored : finding[i].scope = s}
OfRooms == {i \in Stored : finding[i].scope # Cluster}
Heard(room) == {r \in transcribed : RoomOf[r] = room}

-----------------------------------------------------------------------------
(* What an analysis writes.                                                *)
Draft(scope, evidence, mentioned) ==
    [scope |-> scope, status |-> "DRAFT", evidence |-> evidence,
     removed |-> FALSE, mentioned |-> mentioned]

(* Mutant of Outdated: everything in the scope is thrown away.              *)
OutdatedAll(scope) == InScope(scope)

(* _delete_existing: what a person has decided on stays.                   *)
Outdated(scope) == {i \in InScope(scope) : finding[i].status = "DRAFT"}

(* The drafts of a scope make room for new ones: a fresh id is one nothing *)
(* knows, the frozen report included.                                      *)
Replaces(scope, new) ==
    /\ DOMAIN new \cap (Stored \cup frozen.shows) = {}
    /\ finding' = [i \in DOMAIN new \cup (Stored \ Outdated(scope)) |->
                       IF i \in DOMAIN new THEN new[i] ELSE finding[i]]
    /\ unmarked' = unmarked \ Outdated(scope)
    /\ job' = Idle
    /\ UNCHANGED <<transcribed, frozen>>

(* ANALYZE_ROOM: the segments are read, the transaction ends, the model is *)
(* asked.  A room nobody spoke in keeps its drafts.                        *)
AskRoom(room) ==
    /\ job = Idle /\ Heard(room) # {}
    /\ job' = [kind |-> "room", room |-> room, valid |-> Heard(room)]
    /\ UNCHANGED <<transcribed, finding, frozen, unmarked>>

(* A finding left with no evidence is dropped.                             *)
Citations(valid) == (SUBSET valid) \ {{}}

(* A link to a segment that has gone meanwhile breaks the foreign key: the *)
(* transaction is rolled back and the job is repeated (AnalysisFails).     *)
StoreRoom ==
    /\ job.kind = "room"
    /\ \E I \in SUBSET Ids : \E cited \in [I -> Citations(job.valid)] :
           /\ \A i \in I : cited[i] \subseteq transcribed
           /\ Replaces(job.room, [i \in I |-> Draft(job.room, cited[i], 0)])

(* ANALYZE_ROUND: every finding of a room is shown to the model, whatever  *)
(* was decided on it.                                                      *)
AskRound ==
    /\ job = Idle /\ OfRooms # {}
    /\ job' = [kind |-> "round", sources |-> OfRooms]
    /\ UNCHANGED <<transcribed, finding, frozen, unmarked>>

RoomsOf(sources) == {finding[i].scope : i \in sources}

(* Mutant of Mentioned: the model's own count is believed.                  *)
MentionedByModel(sources) == 1

(* Mutant of Mentioned: the round itself counts as a room.                  *)
MentionedAndRound(sources) == Cardinality(RoomsOf(sources) \cup {Cluster})

(* How many rooms raised it is recomputed from the links.                  *)
Mentioned(sources) == Cardinality(RoomsOf(sources))

(* A cluster inherits the passages its sources have now.                   *)
Inherited(sources) == UNION {finding[i].evidence : i \in sources}

StoreRound ==
    /\ job.kind = "round"
    /\ \E I \in SUBSET Ids : \E sources \in [I -> (SUBSET job.sources) \ {{}}] :
           Replaces(Cluster, [i \in I |->
               Draft(Cluster, Inherited(sources[i]), Mentioned(sources[i]))])

(* The provider fails, the transaction is rolled back or the process dies. *)
AnalysisFails ==
    /\ job # Idle
    /\ job' = Idle
    /\ UNCHANGED <<transcribed, finding, frozen, unmarked>>

-----------------------------------------------------------------------------
(* Segments go, and the links to them.                                     *)
Quoting(r) == {i \in Stored : r \in finding[i].evidence}

WithoutPassages(r, marked) ==
    /\ finding' = [i \in Stored |->
           IF i \in Quoting(r)
           THEN [finding[i] EXCEPT !.evidence = @ \ {r}, !.removed = @ \/ i \in marked]
           ELSE finding[i]]

(* Mutant of Marked: the old transcript is deleted before anybody looks who *)
(* quotes it, and its links are gone with it.                               *)
MarkedTooLate(r) == {}

(* mark_evidence_removed.                                                  *)
Marked(r) == Quoting(r)

(* A final pass, which may have heard nothing, or live captions promoted   *)
(* (store_transcript).                                                     *)
StoreTranscript(r) ==
    /\ job = Idle /\ r \in Spoken
    /\ WithoutPassages(r, Marked(r)) /\ UNCHANGED unmarked
    /\ transcribed' \in {transcribed \cup {r}, transcribed \ {r}}
    /\ UNCHANGED <<job, frozen>>

(* FINALIZE_ROUND reads the chat again (_store_chat_for): what quoted it   *)
(* is not marked.                                                          *)
ImportChat(r) ==
    /\ job = Idle /\ r \in Typed
    /\ WithoutPassages(r, {}) /\ unmarked' = unmarked \cup Quoting(r)
    /\ transcribed' = transcribed \cup {r}
    /\ UNCHANGED <<job, frozen>>

(* A person is taken out of the session and its recording goes too, even   *)
(* while the model reads it; nothing is marked.                            *)
DeleteParticipant(r) ==
    /\ r \in transcribed
    /\ WithoutPassages(r, {}) /\ unmarked' = unmarked \cup Quoting(r)
    /\ transcribed' = transcribed \ {r}
    /\ UNCHANGED <<job, frozen>>

-----------------------------------------------------------------------------
(* People: update_finding.  Every status may follow every other one; an    *)
(* edit leaves an approved finding approved and a draft a draft.           *)
Decide(i) ==
    /\ i \in Stored
    /\ \E s \in Statuses : finding' = [finding EXCEPT ![i].status = s]
    /\ UNCHANGED <<transcribed, job, frozen, unmarked>>

(* build_report without drafts, and freeze.                                *)
Report == {i \in Stored : finding[i].status = "APPROVED"}

(* Closing and publishing both freeze it, each time.                       *)
Freeze ==
    /\ frozen' = [there |-> TRUE, shows |-> Report]
    /\ UNCHANGED <<transcribed, finding, job, unmarked>>

(* Mutant of ReopenedReport: the report is thawed.                          *)
ReopenedReportThawed == NoReport

ReopenedReport == frozen

(* Reopening and unpublishing take back closed_at (which is in Rounds) and *)
(* report_published_at (which only pages show), and leave the report.      *)
Withdraw ==
    /\ frozen' = ReopenedReport
    /\ UNCHANGED <<transcribed, finding, job, unmarked>>

(* _report_for without drafts: what people read.                           *)
Read == IF frozen.there THEN frozen.shows ELSE Report

-----------------------------------------------------------------------------
Init ==
    /\ transcribed = {} /\ finding = [i \in {} |-> 0] /\ job = Idle
    /\ frozen = NoReport /\ unmarked = {}

Worker ==
    \/ \E room \in Rooms : AskRoom(room)
    \/ AskRound \/ StoreRoom \/ StoreRound \/ AnalysisFails
    \/ \E r \in Recordings : StoreTranscript(r) \/ ImportChat(r)

Organizer ==
    \/ \E r \in Recordings : DeleteParticipant(r)
    \/ \E i \in Ids : Decide(i)
    \/ Freeze \/ Withdraw

Next == Worker \/ Organizer

Spec == Init /\ [][Next]_vars

-----------------------------------------------------------------------------
JobType ==
    \/ job = Idle
    \/ /\ job.kind = "room" /\ job.room \in Rooms
       /\ job.valid \subseteq Recordings /\ job.valid # {}
    \/ /\ job.kind = "round" /\ job.sources # {} /\ job.sources \subseteq OfRooms

TypeOK ==
    /\ transcribed \subseteq Recordings
    /\ Stored \subseteq Ids /\ \A i \in Stored : finding[i] \in Findings
    /\ JobType
    /\ frozen \in Reports
    /\ unmarked \subseteq Stored

(* A finding of a room that quotes nothing any more says that a transcript *)
(* of its was replaced, unless it lost a passage with a chat that was read *)
(* again or with a person who was taken out, who are not marked.  And a    *)
(* link is always to a transcript that is there.                           *)
QuotesAccountedFor ==
    /\ \A i \in OfRooms :
           finding[i].evidence = {} => finding[i].removed \/ i \in unmarked
    /\ \A i \in Stored : finding[i].evidence \subseteq transcribed

(* "Raised in N rooms" is a real number of rooms, and never fewer than the *)
(* rooms the cluster's passages come from, however many of those are lost  *)
(* and whatever became of the findings it was made from.                   *)
CountCoversPassages ==
    \A i \in InScope(Cluster) :
        finding[i].mentioned >= Cardinality({RoomOf[r] : r \in finding[i].evidence})

(* What a person decided is only ever undone by a person: no analysis that *)
(* runs again, not even one that asked the model before the decision, and  *)
(* no new transcript takes an approved or a rejected finding away.         *)
DecisionsSurvive ==
    [][\A i \in Stored : finding[i].status # "DRAFT" =>
           \/ i \in Stored' /\ finding'[i].status = finding[i].status
           \/ Decide(i)]_vars

(* Once a report was frozen, what people read changes only by closing or   *)
(* publishing again: no decision, analysis, lost transcript, reopening or  *)
(* withdrawal reaches it.                                                  *)
WhatWasReadStays ==
    [][frozen.there => Read' = Read \/ Freeze]_vars
=============================================================================
