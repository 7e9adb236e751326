------------------------------ MODULE Pipeline ------------------------------
(***************************************************************************)
(* From the end of a round to its review: the chain of jobs of             *)
(* jobs/handlers.py (fold in what was recorded, assemble, transcribe,      *)
(* analyse each room, cluster the round), executed by the one worker of    *)
(* jobs/runner.py while uploads go on, the sweep runs, the organizer asks  *)
(* for the analysis again, and the process may die or a handler raise      *)
(* between any two commits (every transaction may find the database        *)
(* locked).                                                                *)
(*                                                                         *)
(* Capture has the inside of an upload and of the assembly, JobRunner the  *)
(* counting of attempts; here an upload is complete or not, and a job that *)
(* raised is due again some time later or has failed.                      *)
(***************************************************************************)
EXTENDS Integers, FiniteSets, Sequences, SequencesExt

CONSTANTS
    Recordings, Rooms,
    RoomOf,               \* Recording.room_id
    Chat,                 \* stands for what was typed in a room's chat
    BatchEnabled,         \* the values stt_batch_enabled takes meanwhile
    AnalysisReady,        \* the values analysis_ready takes: a model is configured
    CaptionsMayMiss,      \* whether a recording may have no live captions
    AssemblyMayFail,      \* whether ffprobe may refuse the audio
    TranscriptionMayFail, \* whether the batch provider may fail
    AnalysisMayFail,      \* whether the model may fail to cluster
    MaxRaises,            \* times a handler raises, or a settlement is refused
    MaxSweeps,            \* passes of the sweep that find something
    MaxCrashes,           \* crashes of the process
    MaxRequests           \* times the organizer asks for the analysis again

ASSUME PipelineAssumption ==
    /\ IsFiniteSet(Recordings) /\ IsFiniteSet(Rooms)
    /\ RoomOf \in [Recordings -> Rooms] /\ Chat \notin Recordings
    /\ BatchEnabled \subseteq BOOLEAN /\ AnalysisReady \subseteq BOOLEAN
    /\ {CaptionsMayMiss, AssemblyMayFail,
        TranscriptionMayFail, AnalysisMayFail} \subseteq BOOLEAN
    /\ MaxSweeps \in Nat /\ MaxCrashes \in Nat /\ MaxRequests \in Nat /\ MaxRaises \in Nat

VARIABLES
    rec,         \* Recording.state
    whole,       \* recordings every chunk of which has arrived
    transcript,  \* Transcript.source of a recording, "none" without one
    captions,    \* recordings that have live captions with text in them
    chat,        \* rooms whose chat was imported
    round,       \* Round.status
    findings,    \* what the draft findings of a room were drawn from
    clustered,   \* the findings that the clusters of the round were drawn from
    queue,       \* jobs QUEUED or due, by next_attempt_at
    delayed,     \* jobs in RETRY that are not due yet
    failed,      \* jobs in FAILED
    stale,       \* jobs in RUNNING that nobody runs: their settlement was refused
    job, step,   \* the job in the worker's hands and the place in its handler
    seen,        \* what the handler read before its provider call
    cut,         \* history: recordings whose handler ended between two of its commits
    sweeps, crashes, requests, raises

dataVars == <<rec, whole, transcript, captions, chat, round, findings, clustered>>
later    == <<delayed, failed, stale>>
workVars == <<job, step, seen>>
envVars  == <<sweeps, crashes, requests, raises, cut>>
vars == <<dataVars, queue, later, workVars, envVars>>

-----------------------------------------------------------------------------
OpenStates == {"RECORDING", "WAITING_FOR_CHUNKS"}
RecStates  == OpenStates \union
    {"ASSEMBLING", "AUDIO_READY", "AUDIO_INVALID", "TRANSCRIBING", "TRANSCRIBED",
     "TRANSCRIPTION_FAILED", "UPLOAD_INCOMPLETE"}
Pending    == OpenStates \union {"ASSEMBLING", "TRANSCRIBING"}

Of(type, x) == [type |-> type, of |-> x]
Jobs ==
    {Of(t, r) : t \in {"ASSEMBLE_AUDIO", "TRANSCRIBE_FINAL", "TRANSCRIBE_FROM_LIVE"},
                r \in Recordings}
      \union {Of("ANALYZE_ROOM", m) : m \in Rooms}
      \union {Of("ANALYZE_ROUND", "round"), Of("FINALIZE_ROUND", "round")}
NoJob == Of("none", "none")

Live == {queue[i] : i \in DOMAIN queue} \union {delayed[i] : i \in DOMAIN delayed}
          \union {stale[i] : i \in DOMAIN stale} \union ({job} \ {NoJob})

Idle           == job = NoJob
At(type, x, s) == job = Of(type, x) /\ step = s

(* What analyze_room reads of a room: its transcripts and its chat.        *)
Material(m) ==
    {r \in Recordings : RoomOf[r] = m /\ transcript[r] # "none"}
      \union (IF m \in chat THEN {Chat} ELSE {})

(* enqueue_job appends: next_attempt_at is now.                            *)
Enqueue(j)   == queue' = Append(queue, j)
NoEnqueue    == UNCHANGED queue
Goto(s)      == step' = s /\ UNCHANGED <<job, seen>>
LetGo        == job' = NoJob /\ step' = "idle" /\ seen' = {}

-----------------------------------------------------------------------------
(* The worker's loop (jobs/runner.py).                                     *)

Claim ==
    /\ Idle /\ queue # <<>>
    /\ job' = Head(queue) /\ queue' = Tail(queue)
    /\ step' = "begin" /\ seen' = {}
    /\ UNCHANGED <<dataVars, later, envVars>>

(* The handler returned, or refused for good: FAILED.                      *)
Settle ==
    /\ step \in {"settle", "refused"} /\ LetGo
    /\ failed' = IF step = "refused" THEN failed \union {job} ELSE failed
    /\ UNCHANGED <<dataVars, queue, delayed, stale, envVars>>

(* The places where a handler has committed one step of a recording's way  *)
(* and not yet the next, and will not take the way up again: tried once    *)
(* more, it finds a state it does not expect and returns.                  *)
BetweenCommits ==
    {r \in Recordings : \/ At("ASSEMBLE_AUDIO", r, "next")
                        \/ \E s \in {"called", "next"} : At("TRANSCRIBE_FINAL", r, s)}

(* Any transaction of the handler may raise, of what it enqueues and what  *)
(* it stores after a provider's answer as well: its work since the last    *)
(* commit is undone and the job is tried again some time later, or fails,  *)
(* after the last try or because trying again cannot help.  The settlement *)
(* is a transaction as well: refused, it leaves the job RUNNING.           *)
HandlerRaises ==
    /\ ~Idle /\ raises < MaxRaises /\ raises' = raises + 1
    /\ \/ step \notin {"settle", "refused"} /\ delayed' = Append(delayed, job)
          /\ UNCHANGED <<failed, stale>>
       \/ step \notin {"settle", "refused"} /\ failed' = failed \union {job}
          /\ UNCHANGED <<delayed, stale>>
       \/ stale' = Append(stale, job) /\ UNCHANGED <<delayed, failed>>
    /\ cut' = cut \union BetweenCommits /\ LetGo
    /\ UNCHANGED <<dataVars, queue, sweeps, crashes, requests>>

DelayIsOver ==
    /\ \E i \in DOMAIN delayed :
        /\ Enqueue(delayed[i]) /\ delayed' = RemoveAt(delayed, i)
    /\ UNCHANGED <<dataVars, failed, stale, workVars, envVars>>

(* The process dies; recover_stale_jobs makes every RUNNING job due again. *)
Crash ==
    /\ crashes < MaxCrashes /\ crashes' = crashes + 1
    /\ queue' = (queue \o stale) \o (IF Idle THEN <<>> ELSE <<job>>)
    /\ stale' = <<>> /\ cut' = cut \union BetweenCommits /\ LetGo
    /\ UNCHANGED <<dataVars, delayed, failed, sweeps, requests, raises>>

-----------------------------------------------------------------------------
(* handle_assemble_audio: the commit of assemble_recording, then           *)
(* _maybe_enqueue_transcription in a transaction of its own.               *)
AssembleAudio(r) ==
    /\ At("ASSEMBLE_AUDIO", r, "begin")
    /\ \/ rec[r] # "ASSEMBLING" /\ Goto("settle") /\ UNCHANGED rec
       \/ /\ rec[r] = "ASSEMBLING" /\ Goto("next")
          /\ rec' = [rec EXCEPT ![r] = "AUDIO_READY"]
       \/ /\ rec[r] = "ASSEMBLING" /\ r \notin whole /\ Goto("settle")
          /\ rec' = [rec EXCEPT ![r] = "WAITING_FOR_CHUNKS"]
       \/ /\ rec[r] = "ASSEMBLING" /\ AssemblyMayFail /\ Goto("refused")
          /\ rec' = [rec EXCEPT ![r] = "AUDIO_INVALID"]
    /\ UNCHANGED <<whole, transcript, captions, chat, round, findings, clustered,
                   queue, later, envVars>>

EnqueueTranscription(r) ==
    /\ At("ASSEMBLE_AUDIO", r, "next")
    /\ \E batch \in BatchEnabled :
        Enqueue(Of(IF batch THEN "TRANSCRIBE_FINAL" ELSE "TRANSCRIBE_FROM_LIVE", r))
    /\ Goto("settle")
    /\ UNCHANGED <<dataVars, later, envVars>>

(* handle_transcribe_final up to the commit before the provider call.      *)
TranscribeFinal(r) ==
    /\ At("TRANSCRIBE_FINAL", r, "begin")
    /\ IF rec[r] \in {"AUDIO_READY", "TRANSCRIPTION_FAILED"}
       THEN rec' = [rec EXCEPT ![r] = "TRANSCRIBING"] /\ Goto("called")
       ELSE UNCHANGED rec /\ Goto("settle")
    /\ UNCHANGED <<whole, transcript, captions, chat, round, findings, clustered,
                   queue, later, envVars>>

ProviderAnswers(r) ==
    /\ At("TRANSCRIBE_FINAL", r, "called")
    /\ \/ /\ transcript' = [transcript EXCEPT ![r] = "final"]
          /\ rec' = [rec EXCEPT ![r] = "TRANSCRIBED"]
          /\ Goto("next")
       \/ /\ TranscriptionMayFail /\ UNCHANGED transcript
          /\ rec' = [rec EXCEPT ![r] = "TRANSCRIPTION_FAILED"]
          /\ Goto("fallback")
    /\ UNCHANGED <<whole, captions, chat, round, findings, clustered, queue, later, envVars>>

(* Mutant of FallBackToLive: the failure is only recorded.                  *)
FailWithoutFallback(r) ==
    /\ At("TRANSCRIBE_FINAL", r, "fallback")
    /\ NoEnqueue /\ Goto("settle")
    /\ UNCHANGED <<dataVars, later, envVars>>

FallBackToLive(r) ==
    /\ At("TRANSCRIBE_FINAL", r, "fallback")
    /\ Enqueue(Of("TRANSCRIBE_FROM_LIVE", r)) /\ Goto("settle")
    /\ UNCHANGED <<dataVars, later, envVars>>

(* Mutant of TranscribeFromLive: a final transcript is not looked for.      *)
TranscribeFromLiveAnyway(r) ==
    /\ At("TRANSCRIBE_FROM_LIVE", r, "begin")
    /\ IF r \notin captions
       THEN UNCHANGED <<rec, transcript>> /\ Goto("settle")
       ELSE /\ transcript' = [transcript EXCEPT ![r] = "live"]
            /\ rec' = [rec EXCEPT ![r] =
                   IF @ \in {"AUDIO_READY", "TRANSCRIBING", "TRANSCRIPTION_FAILED"}
                   THEN "TRANSCRIBED" ELSE @]
            /\ Goto("next")
    /\ UNCHANGED <<whole, captions, chat, round, findings, clustered, queue, later, envVars>>

(* handle_transcribe_from_live.                                            *)
TranscribeFromLive(r) ==
    /\ At("TRANSCRIBE_FROM_LIVE", r, "begin")
    /\ IF transcript[r] = "final" \/ r \notin captions
       THEN UNCHANGED <<rec, transcript>> /\ Goto("settle")
       ELSE /\ transcript' = [transcript EXCEPT ![r] = "live"]
            /\ rec' = [rec EXCEPT ![r] =
                   IF @ \in {"AUDIO_READY", "TRANSCRIBING", "TRANSCRIPTION_FAILED"}
                   THEN "TRANSCRIBED" ELSE @]
            /\ Goto("next")
    /\ UNCHANGED <<whole, captions, chat, round, findings, clustered, queue, later, envVars>>

(* _maybe_enqueue_room_analysis, at the end of either transcription.       *)
EnqueueRoomAnalysis(r) ==
    /\ \E t \in {"TRANSCRIBE_FINAL", "TRANSCRIBE_FROM_LIVE"} : At(t, r, "next")
    /\ Enqueue(Of("ANALYZE_ROOM", RoomOf[r])) /\ Goto("settle")
    /\ UNCHANGED <<dataVars, later, envVars>>

(* Mutant of AnalyzeRoom: without a model nobody looks at the round.        *)
AnalyzeRoomOrLeave(m) ==
    /\ At("ANALYZE_ROOM", m, "begin") /\ UNCHANGED job
    /\ \E ready \in AnalysisReady :
        IF ready /\ Material(m) # {}
        THEN step' = "asked" /\ seen' = Material(m)
        ELSE step' = "settle" /\ UNCHANGED seen
    /\ UNCHANGED <<dataVars, queue, later, envVars>>

(* handle_analyze_room: read the room, ask the model, replace the drafts,  *)
(* then see whether the round can be clustered.                            *)
AnalyzeRoom(m) ==
    /\ At("ANALYZE_ROOM", m, "begin") /\ UNCHANGED job
    /\ \E ready \in AnalysisReady :
        IF ready /\ Material(m) # {}
        THEN step' = "asked" /\ seen' = Material(m)
        ELSE step' = "finish" /\ UNCHANGED seen
    /\ UNCHANGED <<dataVars, queue, later, envVars>>

RoomAnswer(m) ==
    /\ At("ANALYZE_ROOM", m, "asked")
    /\ findings' = [findings EXCEPT ![m] = seen] /\ Goto("finish")
    /\ UNCHANGED <<rec, whole, transcript, captions, chat, round, clustered,
                   queue, later, envVars>>

(* Mutant of RoundCanFinish: every room asks for the clustering.            *)
RoundCanFinishAgain ==
    /\ round = "PROCESSING"
    /\ \A r \in Recordings : rec[r] \notin Pending

(* _maybe_finish_round_for_room.                                           *)
RoundCanFinish ==
    /\ round = "PROCESSING"
    /\ \A r \in Recordings : rec[r] \notin Pending
    /\ Of("ANALYZE_ROUND", "round") \notin Live

MaybeFinishRound(m) ==
    /\ At("ANALYZE_ROOM", m, "finish") /\ Goto("settle")
    /\ IF RoundCanFinish THEN Enqueue(Of("ANALYZE_ROUND", "round")) ELSE NoEnqueue
    /\ UNCHANGED <<dataVars, later, envVars>>

(* handle_analyze_round: a model that fails leaves the round without       *)
(* clusters but ready for review all the same.                             *)
AnalyzeRound ==
    /\ At("ANALYZE_ROUND", "round", "begin")
    /\ \E ready \in AnalysisReady :
        IF ready /\ \E m \in Rooms : findings[m] # {}
        THEN UNCHANGED round /\ Goto("asked")
        ELSE round' = "READY_FOR_REVIEW" /\ Goto("settle")
    /\ UNCHANGED <<rec, whole, transcript, captions, chat, findings, clustered,
                   queue, later, envVars>>

RoundAnswer ==
    /\ At("ANALYZE_ROUND", "round", "asked") /\ Goto("settle")
    /\ round' = "READY_FOR_REVIEW"
    /\ \/ clustered' = findings
       \/ AnalysisMayFail /\ UNCHANGED clustered
    /\ UNCHANGED <<rec, whole, transcript, captions, chat, findings, queue, later, envVars>>

(* handle_finalize_round: import the chat (as much of it as Talk will      *)
(* give), fold in the uploads that wait for chunks and have some, then     *)
(* enqueue the analysis of every room, each in its own transaction.        *)
ImportChat ==
    /\ At("FINALIZE_ROUND", "round", "begin") /\ Goto("fold")
    /\ \E C \in SUBSET Rooms : chat' = chat \union C
    /\ UNCHANGED <<rec, whole, transcript, captions, round, findings, clustered,
                   queue, later, envVars>>

FinalizeRound ==
    /\ At("FINALIZE_ROUND", "round", "fold")
    /\ \E F \in SUBSET {r \in Recordings : rec[r] = "WAITING_FOR_CHUNKS"} :
        /\ rec' = [r \in Recordings |-> IF r \in F THEN "ASSEMBLING" ELSE rec[r]]
        /\ queue' = queue \o SetToSeq({Of("ASSEMBLE_AUDIO", r) : r \in F})
    /\ UNCHANGED job /\ step' = "rooms" /\ seen' = Rooms
    /\ UNCHANGED <<whole, transcript, captions, chat, round, findings, clustered,
                   later, envVars>>

EnqueueRoom ==
    /\ At("FINALIZE_ROUND", "round", "rooms") /\ UNCHANGED job
    /\ IF seen = {} THEN step' = "settle" /\ UNCHANGED seen /\ NoEnqueue
       ELSE \E m \in seen : /\ Enqueue(Of("ANALYZE_ROOM", m)) /\ UNCHANGED step
                            /\ seen' = seen \ {m}
    /\ UNCHANGED <<dataVars, later, envVars>>

-----------------------------------------------------------------------------
(* Around the worker.                                                      *)

(* complete_recording, with and without every chunk; in the second case,   *)
(* and for a late chunk, an upload that was given up is open again.        *)
CompleteUpload(r) ==
    /\ rec[r] \in OpenStates \union {"UPLOAD_INCOMPLETE"}
    /\ rec' = [rec EXCEPT ![r] = "ASSEMBLING"] /\ whole' = whole \union {r}
    /\ Enqueue(Of("ASSEMBLE_AUDIO", r))
    /\ UNCHANGED <<transcript, captions, chat, round, findings, clustered,
                   later, workVars, envVars>>

WaitForChunks(r) ==
    /\ rec[r] \in {"RECORDING", "UPLOAD_INCOMPLETE"}
    /\ rec' = [rec EXCEPT ![r] = "WAITING_FOR_CHUNKS"]
    /\ UNCHANGED <<whole, transcript, captions, chat, round, findings, clustered,
                   queue, later, workVars, envVars>>

(* end_round, by the organizer or the clock.                               *)
EndRound ==
    /\ round = "ACTIVE" /\ round' = "PROCESSING"
    /\ Enqueue(Of("FINALIZE_ROUND", "round"))
    /\ UNCHANGED <<rec, whole, transcript, captions, chat, findings, clustered,
                   later, workVars, envVars>>

(* sweep_stalled_uploads, between two jobs of the same loop.               *)
SweepStalledUploads ==
    /\ Idle /\ sweeps < MaxSweeps /\ sweeps' = sweeps + 1
    /\ \E S \in SUBSET {r \in Recordings : rec[r] \in OpenStates} :
        /\ S # {}
        /\ rec' = [r \in Recordings |-> IF r \in S THEN "UPLOAD_INCOMPLETE" ELSE rec[r]]
    /\ UNCHANGED <<whole, transcript, captions, chat, round, findings, clustered,
                   queue, later, workVars, crashes, requests, raises, cut>>

(* POST /rounds/{id}/analyze.                                              *)
RequestAnalysis ==
    /\ TRUE \in AnalysisReady /\ requests < MaxRequests /\ requests' = requests + 1
    /\ queue' = queue \o SetToSeq({Of("ANALYZE_ROOM", m) : m \in Rooms})
    /\ UNCHANGED <<dataVars, later, workVars, sweeps, crashes, raises, cut>>

-----------------------------------------------------------------------------
(* Everybody records when the model begins.                                *)
Init ==
    /\ rec = [r \in Recordings |-> "RECORDING"] /\ whole = {}
    /\ transcript = [r \in Recordings |-> "none"]
    /\ captions \in SUBSET Recordings /\ (CaptionsMayMiss \/ captions = Recordings)
    /\ chat = {} /\ round = "ACTIVE"
    /\ findings = [m \in Rooms |-> {}] /\ clustered = [m \in Rooms |-> {}]
    /\ queue = <<>> /\ delayed = <<>> /\ failed = {} /\ stale = <<>>
    /\ job = NoJob /\ step = "idle" /\ seen = {}
    /\ cut = {} /\ sweeps = 0 /\ crashes = 0 /\ requests = 0 /\ raises = 0

Handler ==
    \/ \E r \in Recordings :
        \/ AssembleAudio(r) \/ EnqueueTranscription(r)
        \/ TranscribeFinal(r) \/ ProviderAnswers(r) \/ FallBackToLive(r)
        \/ TranscribeFromLive(r) \/ EnqueueRoomAnalysis(r)
    \/ \E m \in Rooms : AnalyzeRoom(m) \/ RoomAnswer(m) \/ MaybeFinishRound(m)
    \/ AnalyzeRound \/ RoundAnswer \/ ImportChat \/ FinalizeRound \/ EnqueueRoom

Worker == Claim \/ Handler \/ Settle

Next ==
    \/ Worker \/ HandlerRaises \/ DelayIsOver \/ Crash
    \/ \E r \in Recordings : CompleteUpload(r) \/ WaitForChunks(r)
    \/ EndRound \/ SweepStalledUploads \/ RequestAnalysis

Spec == Init /\ [][Next]_vars

(* The worker's loop goes on and delays pass.  Nothing is assumed of the   *)
(* people: a round may never end, a page may give its upload up.           *)
Fairness == WF_vars(Worker) /\ WF_vars(DelayIsOver)

LiveSpec == Spec /\ Fairness

-----------------------------------------------------------------------------
(* Columns, queue and worker hold what they may hold.                      *)
Steps == {"idle", "begin", "next", "called", "fallback", "asked", "finish", "fold",
          "rooms", "settle", "refused"}

DataTypes ==
    /\ rec \in [Recordings -> RecStates] /\ whole \subseteq Recordings
    /\ transcript \in [Recordings -> {"none", "live", "final"}]
    /\ captions \subseteq Recordings /\ chat \subseteq Rooms
    /\ round \in {"ACTIVE", "PROCESSING", "READY_FOR_REVIEW"}
    /\ findings \in [Rooms -> SUBSET (Recordings \union {Chat})]
    /\ clustered \in [Rooms -> SUBSET (Recordings \union {Chat})]

JobTypes ==
    /\ queue \in Seq(Jobs) /\ delayed \in Seq(Jobs) /\ failed \subseteq Jobs
    /\ stale \in Seq(Jobs)
    /\ job \in Jobs \union {NoJob} /\ step \in Steps
    /\ seen \subseteq Recordings \union {Chat} \union Rooms

CountTypes ==
    /\ cut \subseteq Recordings
    /\ sweeps \in Nat /\ crashes \in Nat /\ requests \in Nat /\ raises \in Nat

TypeOK == DataTypes /\ JobTypes /\ CountTypes

(* A transcript made from the audio is never replaced by live captions or  *)
(* dropped, whichever of the two jobs of a recording runs last, and        *)
(* however often each of them runs.                                        *)
FinalTranscriptWins ==
    [][\A r \in Recordings : transcript[r] = "final" => transcript'[r] = "final"]_vars

(* Clustering replaces the round's draft findings: two jobs for one round  *)
(* would do it twice.  At most one is ever queued, delayed or running,     *)
(* although every room of the round, and every restart, may ask for one.   *)
Count(j) ==
    Cardinality({i \in DOMAIN queue : queue[i] = j})
      + Cardinality({i \in DOMAIN delayed : delayed[i] = j})
      + Cardinality({i \in DOMAIN stale : stale[i] = j}) + (IF job = j THEN 1 ELSE 0)

OneClusteringJob == Count(Of("ANALYZE_ROUND", "round")) <= 1

(* The chain breaks nowhere but between two commits.  A recording on its   *)
(* way has a job that takes it further, or one that has failed for good,   *)
(* and a transcript that no finding of its room has looked at has an       *)
(* analysis of the room to come or failed: whatever raises or crashes at   *)
(* any other place of any handler, and however often.                      *)
Goes(j) == j \in Live \union failed
Follow(r) ==
    CASE rec[r] = "ASSEMBLING" -> Goes(Of("ASSEMBLE_AUDIO", r))
      [] rec[r] \in {"AUDIO_READY", "TRANSCRIPTION_FAILED"} ->
            \/ At("ASSEMBLE_AUDIO", r, "next") \/ r \notin captions
            \/ Goes(Of("TRANSCRIBE_FINAL", r)) \/ Goes(Of("TRANSCRIBE_FROM_LIVE", r))
      [] rec[r] = "TRANSCRIBING" -> At("TRANSCRIBE_FINAL", r, "called")
      [] rec[r] = "TRANSCRIBED" ->
            \/ r \in findings[RoomOf[r]] \/ FALSE \in AnalysisReady
            \/ Goes(Of("ANALYZE_ROOM", RoomOf[r])) \/ At("TRANSCRIBE_FINAL", r, "next")
            \/ transcript[r] = "live" /\ Goes(Of("TRANSCRIBE_FROM_LIVE", r))
      [] OTHER -> TRUE

ChainUnbroken == \A r \in Recordings \ cut : Follow(r)

(* In the end an ended round is up for review, with a model or without,    *)
(* or there is a reason that a person can see: a job that has failed for   *)
(* good or waits for a restart, an upload that never came to its end, a    *)
(* recording that could not be made into text, or one whose handler was    *)
(* cut off between two commits.                                            *)
Astray(r) ==
    \/ r \in cut \/ rec[r] \in OpenStates \union {"UPLOAD_INCOMPLETE", "AUDIO_INVALID"}
    \/ rec[r] \in {"AUDIO_READY", "TRANSCRIPTION_FAILED"} /\ r \notin captions

Stranded ==
    /\ Idle /\ queue = <<>> /\ delayed = <<>>
    /\ failed # {} \/ stale # <<>> \/ \E r \in Recordings : Astray(r)

RoundGetsReviewed == <>[](round = "PROCESSING" => Stranded)
=============================================================================
