# TLA+ models of Citizens Online

Citizens Online is a Nextcloud ExApp that runs deliberations: an organizer
starts a round, the participants of each breakout room talk in Nextcloud Talk
while their browsers record them, a facilitator bot keeps the rooms on time, and
afterwards the recordings are uploaded, assembled, transcribed and analysed
until the round can be reviewed. This directory models the parts of it in which
an unlucky order of events can lose audio, stop a round half-way, say a thing
twice, seat a person where there is no room or undo what a person decided: the
capture path from the browser to the assembled file, the job queue, the chain of
jobs after a round, the rounds and their clock, who sits in which room, live
captions, the findings and the report, the speaking meter and the facilitator.

## 1. The system

One Python process (FastAPI) keeps everything in one SQLite file in WAL mode.
Every transaction begins with `BEGIN IMMEDIATE` and waits at most ten seconds
(`busy_timeout`) for the write lock (`db/session.py`), so **a transaction is one
atomic action of the models**; everything else (files, HTTP calls to Talk, to
the transcription provider and to the language model, subprocesses) happens
between transactions and is an action, or several, of its own. The process
serves requests in a thread pool and runs one background loop
(`jobs/runner.py: run_forever`): the round tick every five seconds, two sweeps every
sixty, then at most one job. So handlers never overlap one another, but
requests interleave with every one of their steps. The other actors are the
browser (three coroutines in one page, with IndexedDB under it), Talk, the
providers, the organizer, and the service manager that restarts the process.

| Part | State it keeps | Operations | What makes it correct |
|---|---|---|---|
| Capture page (`capture/engine.ts`, `idb.ts`) | phase, sequence counter, IndexedDB rows with their `uploaded` mark and total | start, record, persist, stop, upload loop, complete with retries, resend what is missing, reload | what is marked uploaded is on the server; "done" means the server has it all; every upload ends in a state someone can see |
| Upload server (`services/capture.py`, `api/capture.py`, `recording_states.py`) | `Recording.state`, `total_chunks`, AudioChunk rows, chunk files | start/reattach, receive a chunk, complete, list missing | chunks are idempotent, never replaced, never lost; no recording is ready with a gap |
| Audio assembly (`services/audio.py`) | canonical file, checksum | concatenate, ffmpeg, discard chunks, commit | bytes exist in chunks or in the assembled file at every moment |
| Job runner (`jobs/runner.py`, `services/jobs.py`) | `AppJob.state`, `attempts`, `next_attempt_at` | enqueue, claim, run, settle, back off, recover at start | attempts are bounded; RUNNING means held; each job is settled |
| Handler chain (`jobs/handlers.py`, `services/transcripts.py`, `services/analysis.py`) | recording states after assembly, transcripts, draft findings, `Round.status` | FINALIZE_ROUND, ASSEMBLE_AUDIO, TRANSCRIBE_FINAL, TRANSCRIBE_FROM_LIVE, ANALYZE_ROOM, ANALYZE_ROUND | each recording is taken to the end or marked; the better transcript wins; one clustering; the round becomes reviewable |
| Sweeps (`jobs/sweep.py`) | the same rows, files past retention | give up stalled uploads; purge audio | only what is stalled is given up, and giving up is reversible; what is due is purged |
| Rounds (`core/engine/rounds.py`, `tick.py`, `services/deliberation.py`) | `Round.status`, `deadline_at`, rooms and their Talk tokens, `Session.status` | plan, start, extend, end, close, reopen, tick | one round at a time, with a clock, that ends; rooms Talk has keep their rows |
| Participants and seating (`api/sessions.py`, `api/rooms.py`, `services/deliberation.py`, `services/participation.py`, `talk_adapter.py`) | Participant, Room and RoomMember rows; in Talk, the conversation, its breakout rooms and who is where | add, consent, delete; shuffle, copy, move; start, remix, end | seats are of people and rooms that exist; Talk has people where the plan says; an attendee id outlives a reshuffle that keeps its room |
| Speaking meter (`core/speaking/meter.py`) | a gate, counters of speech and turns | one frame at a time | the sum is what was heard |
| Facilitator (`core/speaking/policies.py`, `core/agents/facilitator.py`, `infra/nextcloud/bot.py`) | moderation events, agent events | raise, phrase, post, record | nothing is said twice without a reason; what is recorded was said |
| Live captions (`services/live_captions.py`, `live_audio.py`) | sessions per recording, each with its queue, ffmpeg's buffers and lines; the captions file | feed, offer, decode, pump, recognise, finish, collect, save | audio reaches the engine in order and once; a final line stays unless Whisper takes it back; the file has every session's lines |
| Review (`services/analysis.py`, `api/findings.py`, `api/reports.py`, `services/report.py`, `services/chat_import.py`) | findings with status and evidence links, frozen report | draft, decide, freeze, publish, withdraw, replace a transcript | a decision is never undone by a job; the quotes of a replaced transcript are marked; what was published stays |
| Settings (`services/settings.py`) | a cached snapshot | read, save | a saved value is served |
| Talk adapter, directory, notifications, audit, identity, rate limit, PDF, forms | little or none | requests and rendering | no protocol of their own |

How they interact: the page calls the upload server over HTTP; `complete`
enqueues ASSEMBLE_AUDIO; each handler enqueues the next one **after** its own
transaction; ending a round enqueues FINALIZE_ROUND; an analysed room looks
whether its round may be clustered; clustering sets READY_FOR_REVIEW; the sweep
changes recordings' states under all of them; the tick ends rounds and lets the
facilitator speak. What is hard: three coroutines of a page over an unreliable
network; file and row written in two steps; crashes between a commit and the
enqueue that follows it; jobs of one recording in either order; sweep, upload
and handler on one row; a Talk call that took effect in a transaction that is
rolled back; a deadline read, then used after minutes of phrasing.
`PROJECT.json` lists each such place at its line.

## 2. The modules

| Module | Models | Abstract specification, claims, proofs |
|---|---|---|
| `Capture` | page, network, upload server, assembly, sweep and FINALIZE_ROUND for the recordings of one participant | implements `ChunkArchive`; `CaptureClaims`; `CaptureProofs` |
| `JobRunner` | the queue's rows and the worker | implements `JobQueue`; `JobRunnerProofs` |
| `Pipeline` (run through `MCPipeline`) | the six handlers and the sweep over the recordings of one round | `PipelineClaims`; `PipelineProofs` |
| `Rounds` | rounds of one session, the tick, Talk | `RoundsClaims`; `RoundsProofs` |
| `Assignment` (run through `MCAssignment`) | participants, plans and attendee ids of a session's rounds, and Talk's side of them | `AssignmentClaims`; `AssignmentProofs` |
| `Review` (run through `MCReview`) | findings, their evidence, decisions and the frozen report of a round | `ReviewClaims`; `ReviewProofs` |
| `LiveCaptions` | the caption sessions of one recording and the file they leave | `LiveCaptionsClaims`; `LiveCaptionsProofs` |
| `SpeechMeter` | the meter's gate and counters | `SpeakingProofs` |
| `Facilitator` | policy, tick, delivery and records for the rooms of one round | `FacilitatorClaims`; `SpeakingProofs` |

A definition whose comment begins with "Mutant of" is a plausible slip in the
definition it names. It stands next to it so that one can substitute it and see
which property notices; nothing uses it otherwise.

**How the models fit.** `Capture` looks closely at one upload: here the chain
after a recording is ready, and the other recordings of the round, are left out.
`JobRunner` looks at jobs without asking what they do. `Pipeline` looks at a
whole round and takes from both what they establish: a recording's upload is a
state and whether its chunks are all there; a job is queued, delayed, running or
failed for good. `Rounds` holds the same chain as one variable per round
(`chain`: none, queued, clustering), because only its last two steps write
`Round.status`. `Facilitator` sees one running round with its remaining minutes. `Assignment` takes the
same rounds as `Rounds` and asks who is in their rooms; clock, tick and sessions'
status are left to `Rounds`, and so is the second Talk conversation a failed start
may leave. `Review` begins where `Pipeline` ends: `Pipeline` says which analysis runs when and
that it comes; in `Review` any analysis may come at any time, and the question is what
it may overwrite. `LiveCaptions` fills what `Pipeline` takes as given, the captions file.

### Capture

One participant, `MaxAttempts` recordings (`Recording.attempt`), `MaxLives`
loads of the page, `MaxChunks` chunks per load. A chunk's content is the number
of the load that recorded it, which is all that tells two chunks with one
sequence number apart; 0 is "nothing".

| Variables | Code |
|---|---|
| `state`, `total`, `rows` | `Recording.state`, `Recording.total_chunks`, the AudioChunk rows |
| `jobs`, `failed`, `work` | how many ASSEMBLE_AUDIO jobs of a recording are live; the recordings one of whose jobs used up its attempts; which one runs and how far it is |
| `round` | whether the round is active, being finalized or over |
| `disk`, `canon` | chunk files, assembled file |
| `phase`, `recorder`, `cur`, `seq`, `written`, `life` | the engine's fields in the page |
| `up`, `todo`, `wait`, `reply` | where its upload coroutine is, what it has to send, the request it awaits and the answer |
| `local`, `acked`, `idbTotal` | IndexedDB |
| `net`, `access` | requests on the wire; whether the login is accepted |

`StartCapture`, `RecordChunk`, `PersistChunk`, `StopCapture`, `DrainPipeline`,
`DeclareTotal`, `Reload` are the page (the last two awaits of `finish()` are two actions); `ScanPost/ScanReply/ScanEmpty/ScanDecide` the upload loop;
`CompletePost/CompleteReply/GiveUp` the completion loop; `ResendPost/ResendReply/
ResendEnd` what follows a list of missing chunks. Every `await` of the engine
separates two actions. A request may be lost before it is served, its answer may
be lost after, and a request given up by the page may still be served later.
Where IndexedDB refuses a write (`QuotaMayFill`), a chunk is given up, `finish()` throws before it
has declared the total or started the uploader, or the uploader ends (`up = "broken"`).
`ServeChunk` and `ServeComplete` are the two endpoints, each with its file write
and its transaction; the chunk endpoint has the outcome "stored, answered with
an error" because the call after its commit passes `feed` an argument it does
not have. `AssembleBegin`, `AssembleFiles`, `AssembleCommit` are the three steps
of `assemble_recording`. `AssemblyRaises` is whatever ends an attempt and leaves the row as it is:
no space or a locked database at the beginning, an ffprobe or ffmpeg that runs out of
time or a manifest that cannot be written in the middle, and a commit that finds the database
locked when the chunk files are gone. The job is then tried again or, with its last attempt,
fails (`RetryOrFail`).

### JobRunner

`state`, `attempts`, `due` are columns; `job`, `step` say what the loop holds;
`ran` the jobs whose handler has come to its end. `Claim` takes the most overdue
job (`due` is relative to now and remembered back to `-MaxLate`), `HandlerReturns`/
`HandlerRaises` end a run, `Succeed`/`Retry`/`Fail` settle it with the exponential
backoff. `DatabaseBusy` is a settlement that raises because the write lock was not
had in time: `run_forever` logs and goes on, the row stays RUNNING. `Crash` and
`RecoverStaleJobs` are a restart.

### Pipeline

`queue`, `delayed`, `failed` are the jobs by state, in claim order; `job`, `step`,
`seen` the handler at work, its place and what it read before its network call.
Each handler is one action up to its commit and another for what it does after
the call or the enqueue: `AssembleAudio`, `EnqueueTranscription`, `TranscribeFinal`,
`ProviderAnswers`, `FallBackToLive`, `TranscribeFromLive`, `EnqueueRoomAnalysis`,
`AnalyzeRoom`, `RoomAnswer`, `MaybeFinishRound`, `AnalyzeRound`, `RoundAnswer`,
`FinalizeRound`, `EnqueueRoom`. `RequestAnalysis` is the organizer asking again.
`HandlerRaises` is any transaction of a handler that raises, at whatever place it is, the enqueues
and the storing of a provider's answer included: the job is due again later or has failed, or,
when it is the settlement that raises, stays RUNNING with nobody to run it (`stale`) until the
next start. `cut` remembers the recordings whose handler ended, by that or by a crash, between
two of its commits (`BetweenCommits`); trying again does not help them, for the handler
then finds a state it does not expect and returns. `refused` is the step of a job that fails for good.
A finding is the set of transcripts (and the chat) that were read for it.
The settings `stt_batch_enabled` and the existence of a language model are read
anew at each step, from the sets `BatchEnabled` and `AnalysisReady`.
At this commit captions are never fed (the call above raises first, and
`session_id` stays ""), so `captions`, the recordings that have some, is any set:
what the handlers do with them does not rest on it.

### Rounds

`status`, `deadline`, `rooms` and `planned`/`tokens` (how many rows, how many known to
Talk) are the rows; `parent` and `conversations` the session's conversation as the
row has it and as Talk does; `session` is `Session.status`; `expired` what the tick has read and not
yet ended. `early` remembers the rounds that were started again before the jobs of their last
end were through: the clustering of such a job sets READY_FOR_REVIEW on a round that runs.
`StartFails` is a start whose transaction is rolled back after Talk was called.
`TickRead` and `TickEnd` are separate, for the facilitator speaks in between.

### Assignment

| Variables | Code |
|---|---|
| `person` | the Participant row and its role, or that it is one of another session |
| `status`, `rooms`, `tokens` | `Round.status`, its Room rows, how many have a `talk_token` |
| `plan`, `ids` | `RoomMember.room_id` and `attendee_id` |
| `parent`, `present` | `Session.parent_token`; who is in that conversation |
| `where`, `talkRooms`, `applied` | where Talk has people, how many rooms it opened, whose plan it was told last |
| `unseen` | of a running round that was planned by its own start: the rooms that were there before, whose members that start did not see |

Every request is one action, Talk's answers included, because the code holds its
transaction across them; `StartFails` and `RemixFails` are the requests whose rows are
rolled back after people were added to the conversation. A shuffle is any deal of the
speakers that leaves as many in each room as dealing in turn does (`SeatsOf`). An
attendee id is the one Talk has (`current`), one it no longer knows (`stale`: the person
left the conversation and came back) or missing. `Known` is what `_replace_members` can collect:
`ensure_rooms` has deleted the surplus rooms by then, and with them the seats and ids of
their people. `SeenFrom` is the stale collection of `start_round`: the members of the rooms that
were there are loaded before the plan is made (`rooms.py:97`) and read again, unchanged, after it
(122-130), so Talk is told only of people in rooms the plan has added, and a start that
has nobody to tell it of fails. `Move` takes any participant that exists, as the endpoint
does, also one of another session. Only the last round is deleted, and
a round's Talk rooms are followed while it runs: the code's next start tells Talk
anew whatever was left open.

### LiveCaptions

A session is a record: how far its run is, whether it failed and is cooling down, its
decoder (`stream`: none for Deepgram, else starting, open, closing, eof, or unread when nobody
reads or closes it any more), the three
buffers audio passes through (`stdin`, `pcm`, `queue`), the lines and the flag that the last
one is provisional, how far Whisper has committed, and what it read of the file before it writes. A chunk's
number stands for its audio. `FeedSession/FeedCooling/FeedNew` are `_feed_async` up to its first
await, `StartOk/StartFails` what follows ffmpeg's start, `Decode/StreamEnds` the read loop,
`Pump` the move into the bounded queue, `PumpFails` its exception path with a terminator that comes
early or not at all, `EngineTakes/EngineCloses/EngineFails/DeepgramHangsUp`
the four engines (what each may do with a block is an operator of its own; a window of Whisper
takes up to two segments, each of which may pop the last line and add none, and the last window
is printed whatever was printed before),
`Finish` and `Collect` the manager, `ReadEarlier/Truncate/Write` the save in its thread,
which a crash or a full disk (`SaveFails`) interrupts. The file is a sequence of parts, one for each
session that wrote, whose lines stand one after another in it. A crash ends engines and decoders
alike (`Dead`); what a session has saved stays saved. The captions' interface is modelled as
the manager offers it: at this commit `upload_chunk` passes `feed` an argument it does not have,
so nothing is ever fed (section 4, `StoredChunkIsAcknowledged`).

### Review

`finding` maps the ids in use to records: scope (a room or the round), status, the
recordings whose current transcript it quotes, whether `evidence_removed_at` is set, and
`mentioned_room_count`. `AskRoom`/`StoreRoom` and `AskRound`/`StoreRound` are the two halves of an
analysis around the call to the model, with what was read before it kept in `job`;
people act in between. `StoreTranscript`, `ImportChat` and `DeleteParticipant` take passages
away: the first marks whom it robs, the other two do not, which `unmarked` remembers.
`Decide` is `update_finding`, `Freeze` closing and publishing, `Withdraw` reopening and
unpublishing, which leave the frozen report (`ReopenedReport`). `Read` is what a reader gets.

### SpeechMeter

One action per frame, loud or quiet. Level, noise floor and threshold only
decide which it is and are not modelled. Durations are counted in frames. Its initial
predicate, actions and types are named `MeterInit`, `MeterNext`, `MeterTypeOK`, so that
one module can hold its proofs and the facilitator's.

### Facilitator

`TickRead` evaluates the policy in a transaction; `PhraseNext` asks the model within
the tick's budget; `Say`, `Miss` and `SayUnconfirmed` (Talk had it, the connection broke)
decide what is recorded by `Record`, a second
transaction; `LoseTick` is a crash, or a lock not had, in between. `Measure` is
external: no code writes `SpeakingMetric` rows at this commit, so the model lets the
speaking times justify anything.

## 3. What the runs check

Bounds are constants named in each module; nothing else is cut. Deadlock is
checked in `rounds`, `assignment` and `review`; the other systems may stop (a finished
upload, a settled queue, a finished stream), and their configurations say so.

| Run | Instance | Distinct states | Shows |
|---|---|---|---|
| `capture` | 1 recording, 2 page loads, 2 chunks, 1 sweep, 1 crash, full disk, full quota, lapsed login, attempts to assemble that raise | 3 021 701 | `AckedIsStored`, `DoneIsHandedOver`, `OpenRowsHaveBytes`, `ReadyIsGapless`, `StoredIsKept`, `AssemblingHasJob`; `ImplementsArchive` |
| `capture_live` | 1 recording, 2 page loads, 2 chunks, 1 sweep, full quota, attempts that raise | 494 912 | every stopped recording's upload ends or is blocked in a way the property names (`UploadSettles`) |
| `job_runner` | 2 jobs, 3 attempts, 2 crashes, 1 locked settlement | 90 591 | `AttemptsBounded`, `RunningIsHeld`; `ImplementsJobQueue`; `EveryJobSettles` |
| `pipeline` | 1 recording, everything may fail, 2 transactions that raise, 1 crash, 1 sweep, 1 request | 7 670 998 | `OneClusteringJob`, `ChainUnbroken`, `FinalTranscriptWins` |
| `pipeline_live` | 2 recordings of one room, with captions or without, audio, provider and model may fail or be missing, 1 transaction that raises, 1 sweep | 3 313 116 | `RoundGetsReviewed` |
| `rounds` | 2 rounds, up to 3 rooms of which Talk allows 2, 1 extension, failed start, restart, crash | 509 328 | `OpenRoomsAreRunning`, `ConversationsAccountedFor`, `ActiveRoundEnds` |
| `facilitator` | 2 rooms, 2 people, 6 minutes, 1 phrasing per tick, 1 loss | 932 656 | `RepeatsAreLosses`, `RecordedWasHeard` |
| `speech_meter` | gate of 3 and 4 frames, 18 frames | 3 706 | `CountsWhatWasHeard`, `FitsTheClock` |
| `live_captions` | 2 sessions, 3 chunks, a queue of 1, one block of decoded audio, 2 lines, all four engines, full disk, crashes | 1 401 319 | `InOrder`, `ProvisionalIsLast`, `FinalLinesStay`, `FileIsComplete`; `FinishedIsWritten` |
| `assignment` | 2 people, of this session or of another, 2 rounds, 2 rooms, Talk failing at any call, people leaving and coming back | 1 127 644 | `SeatsExist`, `TalkFollowsPlan`, `IdsSurvive` |
| `review` | a room with a chat and one with a microphone, 3 findings | 960 333 | `QuotesAccountedFor`, `CountCoversPassages`, `DecisionsSurvive`, `WhatWasReadStays` |

`TypeOK` is checked in `capture`, `rounds`, `live_captions`, `assignment` and `review`, and proved
of every module (the job runner's inside its invariant).

Why the bounds suffice. Two page loads with two chunks make every collision of
sequence numbers (the same number from two loads, from one load twice, a gap
below the last), a reload that is handed the same recording included. One request awaited and one left behind is all one page can
have at a time. One sweep and one crash fall between any two steps; a second
crash matters where a retry starts from a state only a first one leaves (`job_runner`), and in
`pipeline` two transactions that raise and a crash follow one another in any order. Two rounds are enough for a pair that must exclude each
other. Two rooms and a budget of one make a room wait for the next tick. The gate
needs more frames than opening, closing and opening again take. A gate of 3 and 4
frames has each threshold passed and missed; the theorem covers the code's. A queue of
one and a buffer of one block are full after one chunk and overflow with the next; the
second session is the replacement whose lines join the first one's file, and the third
chunk is heard after it. Two people, rooms and rounds give seats to shuffle, copy, move
and lose while the other person's stay; what they show, the theorems say of any number,
as they do for `review`, where a third finding is one that clusters two others.

**Fairness.** Each live specification assumes of the scheduler what the code gives:

- `job_runner`, `pipeline_live`: the loop of `run_forever` goes on (its body catches
  everything), handlers end (subprocesses and HTTP calls have timeouts), delays
  pass, and the service manager restarts the process (weak fairness).
- `capture_live`: the page's coroutines, the server and the worker go on (weak). A
  network that heals again and again is the strong fairness of `ServeAwaited` and
  `ReadAnswer`: an upload repeated for ever is sometimes served, and its answer
  sometimes read. `GiveUp` is strongly fair because the loop it ends has a deadline,
  `LastAttempt` because attempts are counted. Nobody is sure to stop the recording, to
  end the round or to persist a chunk.
- `rounds`: the tick goes on and time passes. Nothing is assumed of the organizer.
- `live_captions`: the event loop runs what is ready, an engine answers (one that
  does not is noticed by the websocket's pings or a timeout), ffmpeg works off its input and exits, or is killed, once that is closed, and the
  saving thread runs (weak). Nobody is sure to feed, to finish or to collect.

What the properties leave out, because the code does not keep its promise there (section 4 has
the statements without the exception, refuted):

- `EveryJobSettles` and `RunningIsHeld`: what a locked database leaves behind
  (`AccurateStateLeftBehind`).
- `AssemblingHasJob` says "a live job, or one that failed for good": an assembly uses up its
  attempts by any of the failures of `AssemblyRaises`, and after a commit that raised or a crash at
  the wrong moment all later ones fail (`claim_discard_safe`, `LaterAttemptsMaySucceed`). What it
  excludes is a recording in assembly of which the queue never knew, or knows no more.
- `UploadSettles` names what keeps an upload from ending: the page is gone; IndexedDB refused a write
  the uploader needed; the server holds a chunk of another page load under a number that is still to be
  uploaded, which the scan loop then offers for ever (`UploadsEndAfterRecording`).
- `ChainUnbroken` and `RoundGetsReviewed`: the recordings in `cut`, whose handler ended between two
  commits (`RetryResumesChain`). `RoundGetsReviewed` counts besides as a reason a person can see: a job that
  failed or was left RUNNING, an upload that never came to its end, audio that was refused and a
  recording without captions whose provider failed (`NeverStuck`, `GivingUpUnblocks`).
- `OpenRoomsAreRunning`: the rounds in `early` (`EndedRoundIsClosed`, `RoomsOfOneRound`). That at most
  one round is ACTIVE holds without exception and is part of the invariant proved.
- `TalkFollowsPlan`: whom a start that had to plan did not see (`TalkExecutesIt`). `IdsSurvive`: the people of a
  room the change drops (`SurvivesAnyReshuffle`).
- `FinishedIsWritten`: a terminator lost on a full queue (`FinishEndsTheSession`) and a save that failed.
  `FileIsComplete`: two sessions that save at a time, which two decoders of one recording make possible
  (`OneDecoderPerRecording`), and a write cut short. `FinalLinesStay`: what Whisper's windows
  take back while the session listens (`SessionKeepsEveryLine`). `InOrder` says of Whisper's lines only that
  they do not go back in time: they may be of audio that was printed already.
- `QuotesAccountedFor`: passages of a chat that is read again and of a person who is deleted
  (`DeletedTranscriptsMark`).

## 4. What the code says and does not do

The `*Claims` modules state what comments, messages and headers of the source say, and
TLC refutes each. One has a run of its own, with TLC's counterexample:

| Run, property | Said | Done |
|---|---|---|
| `claim_discard_safe`, `DiscardingChunksIsSafe` | `audio.py:127-129`: discarding is safe, the checksum is stored | it is stored by the commit after the unlink (`audio.py:134`); when that finds the database locked, or the process dies before it, rows are left without bytes and every retry fails |

The others are stated and refuted the same way, and keep no run. To see one, add
its name under `INVARIANT` or, if it is an action property, `PROPERTY`, to a
configuration of its component and run it on the claims module:

| Property | Said | Done |
|---|---|---|
| `CompleteMeansEverySequence` (CaptureClaims) | `engine.ts:9-10`: a recording is only complete once the server confirms it has every sequence | `finish()` sets phase `finishing` before the last chunk is persisted; an upload loop with nothing pending leaves (`engine.ts:213`) and completes with a total without it |
| `NeverAssembledWhileRecording` | `capture.py:12-14`: only assembled once every sequence has arrived | FINALIZE_ROUND (`handlers.py:294`) assembles what it has of a recording given up and reopened, while the page still records |
| `ReconnectGetsSecondRecording` | `recording.py:74-75`: who reconnects gets a second recording | `capture.py:109` hands the open one back |
| `OneMediaRecorderSession` | `audio.py:3-4`: chunks come from one continuous session | a reloaded page numbers from 0 in the same recording |
| `StoredChunkIsAcknowledged` | `live_captions.py:604`: `feed` never raises | `api/capture.py:105` passes an argument it has not; the chunk is stored and the answer is an error |
| `GivingUpMeansUnfinished` | `engine.ts:322`: the upload did not finish | when the answer to complete is lost, its repetition is refused, and the page gives up on an upload the server has |
| `UploadsEndAfterRecording` | `engine.ts:8-9`: uploads are retried forever *while recording* | after it, too: a reloaded page that was handed the same recording offers its chunk 0, the server answers 409 for ever (`capture.py:178`), and the scan has no end |
| `LaterAttemptsMaySucceed` | `audio.py:73`: space may be freed, so let the job back off and try again | after a commit that found the database locked the chunk files are gone |
| `NeverStuck` (PipelineClaims) | `handlers.py:12-14`: a failed transcription leaves the round reviewable, never stuck | without captions no room analysis follows (`handlers.py:171`), and only that looks at the round |
| `RetryResumesChain` | `handlers.py:6-7`: a handler returns quietly if its work is done | after a crash, or a transaction that raised, between commit and enqueue (`handlers.py:63-70`) it does so without enqueuing what follows; the same where a provider's answer could not be stored (`handlers.py:116`) |
| `GivingUpUnblocks` | `recording_states.py:7-9`: a pending recording blocks the round's analysis, so it is given up | `sweep.py:43` gives it up and asks nobody to look at the round again |
| `ClusteredAfterEveryRoom` | `handlers.py:224`: clustered once every room has its findings | AUDIO_READY is not in the list of pending states (`handlers.py:232-238`) |
| `ConversationCreatedOnce` (RoundsClaims) | `rounds.py:77-78`: every step is idempotent; `rounds.py:41`: created on first use | the token is rolled back with the transaction; the retry creates another |
| `DeadlineIsTheClock` | `tick.py:10`: `deadline_at` is the clock | a round read as expired is ended after the facilitator has spoken (`tick.py:189`), extended or not |
| `EndedRoundIsClosed` | `rounds.py:183`: close the rooms | a restarted round is set READY_FOR_REVIEW by the clustering of its first run (`handlers.py:271`), rooms open |
| `RoomsOfOneRound` | `rounds.py:93`: another round is still running, so this one may not start | a restarted round that was declared ready for review runs no more, so another one is started beside its open rooms |
| `ClosedIsComplete` | `reports.py:80`: closing sets COMPLETE | the clustering of the last round sets REVIEW (`handlers.py:272`) |
| `SurvivesAnyReshuffle` (AssignmentClaims) | `deliberation.py:411-415`: an attendee id survives any reshuffle | `ensure_rooms` drops rooms and their seats before the ids are collected (337 before 342, 366 before 368) |
| `TalkExecutesIt` | `rounds.py:5-6`: Talk executes what the engine has decided | a start that plans reads the rooms' members before the plan (97) and the same lists after (122-130) |
| `SeatsAreOfTheSession` | a seat is of a participant of the session | `move_participant` takes any participant (`deliberation.py:388-404`) |
| `SessionKeepsEveryLine` (LiveCaptionsClaims) | `live_captions.py:19`: a session keeps every line it produced | a revision of Whisper's pops the last line, and an empty text puts none in its place (533-537, 109-111) |
| `OneDecoderPerRecording` | `live_audio.py:8`: one long-lived ffmpeg per recording | two feeds that overlap while ffmpeg starts make two; a failed session's is never closed (`live_captions.py:651`) |
| `FinishEndsTheSession` | `live_captions.py:782`: closing flushes the tail, then the pump ends the queue | the terminator is dropped on a full queue (`live_captions.py:715`) |
| `DeletedTranscriptsMark` (ReviewClaims) | `PLAN.md:592`: deleting a transcript marks dependent findings | reading a chat again (`chat_import.py:116`) and deleting a person do not |
| `AccurateStateLeftBehind` (JobRunner) | `runner.py:18-19`: a crashing handler leaves an accurate state | a settlement that waits too long for the lock leaves RUNNING until the next start |
| `OnlySilenceIsTakenOff` (SpeechMeter) | `meter.py:103`: the trailing silence was not speech | one frame more than was added is taken off at each close |
| `PassedMarkIsRaised` (FacilitatorClaims) | `policies.py:36-37`: the room is reminded at 10, 5 and 2 minutes | the loop stops at the first mark passed (`policies.py:113`), so only "ten minutes" is ever said, in a shorter round at once |
| `DroppedStaysDropped` | `facilitator.py:14-15`: dropped, never delayed | a miss leaves no moderation event (`tick.py:166`), so the next tick raises it again |
| `NothingSaidTwice` | `tick.py:9-12`: a restart does not repeat itself | a crash between posting and recording (`tick.py:138`, `146`) does |

What else the models had to take as it is, because the code does it and states nothing,
or little, to the contrary:

- *Captions.* A session of a PCM engine that replaces a failed one gets no WebM header and hears
  nothing. `complete` during a decoder's start finds no session. A Deepgram server that hangs up in
  order leaves a session registered that takes no more audio. The pump that raised over a block
  leaves ffmpeg to itself until the session is closed.
- *Seating.* A round that is over can be planned anew, and a running one deleted, with Talk's
  rooms left open. Declining consent leaves the seat. `move_participant` asks whether the room is
  of the round, not whether Talk has it.
- *Rounds.* A start that is rolled back after it opened breakout rooms leaves them open in Talk, and no row
  knows of them. Any session may be reopened, a closed one or not.
- *Review.* A draft somebody edited is still a draft and is deleted by the next
  analysis. Findings a person rejected are clustered with the others.

## 5. What is proved

Every safety property the runs check, invariant or action property, is a theorem, and so is
each of the two refinements. A theorem holds for every value of the constants that meets the
module's assumption: `CaptureAssumption`, `JobRunnerAssumption`, `PipelineAssumption`,
`RoundsAssumption`, `SpeechMeterAssumption`, `FacilitatorAssumption`, `AssignmentAssumption`,
`ReviewAssumption`, `LiveCaptionsAssumption`. Each says no more than that bounds are numbers,
switches are Booleans, the sets named fit together and, for `Pipeline`, that a round has
finitely many recordings and rooms. `tlapm` checks every leaf.

- **CaptureProofs.** `Shape` (the types, what a page without a recording may be, that
  the worker's recording has a job) is inductive and gives `TypeCorrect`.
  `WorkerHolds` says that a recording whose files are being assembled stays
  ASSEMBLING with nothing missing: without it a late chunk or a sweep between two
  steps of the assembly could not be excluded. From the two: a stored chunk stays
  stored (`NothingStoredIsLost`); an answer "ok" speaks the truth (`AnswerHonest`), hence so
  does every `uploaded` mark (`AcknowledgedIsStored`); ready recordings are gapless; rows of
  open recordings have their bytes (strengthened by "a new recording has no rows"); "done" means
  handed over, because the answer to `complete` already says so. With `TotalDeclared`,
  each step is one of three effects, and `CaptureImplementsArchive` follows.
  `AssemblingHasJob` is not inductive: a job that is being settled still counts though it will not
  come again. `Scheduled` asks for a job *besides* the one that is settled, or for one that failed for
  good, and gives `AssemblyIsScheduled`.
- **JobRunnerProofs.** `IInv` joins the types, the shape of the worker (what it holds is
  RUNNING) and the count of attempts, in which a job that is RUNNING has used one
  of its own; it gives the bound, `RunningMeansHeld` and `RunnerImplementsQueue`.
- **PipelineProofs.** `FinalizeRound` and `RequestAnalysis` enqueue a set in an unknown order
  (`SetToSeq`); that such a sequence exists is a lemma, by the finiteness of rooms and
  recordings. With it and the shape of what a handler remembers (`SeenShape`), `PipelineTypes`.
  `OneClusteringJob` counts, which no step can reason about: `OneAtMost` says of positions
  that the clustering job stands in one place at most of queue, delays and worker, and gives
  `RoundIsClusteredOnce`. For `ChainIsUnbroken`, `OnItsWay` says state by state where a
  recording goes on, and is sharper than `ChainUnbroken` in that a job in the worker's hands counts
  only until it has done its part. A recording leaves the claim by `cut` alone, and `cut` only grows
  (`CutGrows`), so that a handler that raises or dies at any other place must be shown to have left
  its job in the queue, delayed, RUNNING or failed (`RaisedJob`, `ComingStep`); `RecordShape` ties a recording's state, its transcript and
  what the running handler has seen, without which an answer could be stored that had not
  read the transcript. A final transcript is kept: the two jobs that write one look at the
  recording's state first, and no state from which they write is reached again
  (`Transcribed` ties the two), so `FinalIsNeverReplaced`.
- **RoundsProofs.** `Inv` has the types, that one round at most is ACTIVE and has a clock
  (`RunningRoundHasClock`), and `RoomsFollow`: outside `early`, a round runs exactly if its rooms are open, and
  one that runs has no job of an earlier end left, without which the clustering of such a job
  could not be excluded. They give `OnlyOneRoundRuns`. `FailedStartsLeaveOneEach` is an invariant of its own,
  `Accounted`: the token that is stored is the last conversation that was created.
- **SpeakingProofs.** For the meter, `Ledger` keeps what was heard against what was counted,
  with one clause for an open gate and one for a closed; it gives `EveryTurnIsAFrameShort` and,
  with the bounds on each counter, `SpeechFitsTheClock`. For the facilitator, the plan of a tick
  holds nothing recorded, each copy heard beyond a recorded one was paid by a loss, what is to be
  recorded as sent was heard: hence `RepeatsNeedALoss` and `LogIsHonest`.
- **LiveCaptionsProofs.** `IInv` has a part for each session and one for the file. Of a session:
  its lines (bounded; a provisional one only at the end, and with the flag), its buffers
  (nothing after the terminator, no terminator while the decoder runs), and `Continuous`, that
  lines, queue, decoded audio and ffmpeg's input follow each other in the order of the chunks;
  what was heard must also be known to be no more than what was fed, or a new chunk could not be
  put at the end. Lemmas about a buffer's order under `Append` and `Tail` carry every step. The lines of
  an engine that reports once rise strictly; for Whisper's, which may be of the same audio, `WindowsOK` bounds
  them by what was committed and by what was heard, so that a segment past the first is never before a
  line that is there (`Takes`, `Window`), whichever line it pops.
  They give `CaptionTypes`, `StreamIsContinuous`, `OnlySpeechInProgressIsLast` and, for steps,
  `LinesAreKept`. Of the file: the sessions in `order` have saved and do nothing more, one
  session at most saves, the file is half only while it writes, and what it read is the file as it was; this is
  what makes the next write complete (`TranscriptIsComplete`).
- **AssignmentProofs.** `Inv` joins the types, `OneActive` (so that "Talk's rooms" are the
  rooms of one plan), `SeatsFit`, that an id is stored with a seat only, and `TalkFollowsPlan` itself.
  Shuffled and copied plans go through one lemma about `Replace`; that a copy only seats people whose
  row exists follows from the same being true of the plan it copies. A start that plans
  is the case where the rooms that were there have to be told from those that were added
  (`SeenFrom`, `unseen`). It gives `SeatsAreThere`, `NobodyIsPassedOver` and, for steps, `IdsAreKept`.
- **ReviewProofs.** `CountCoversPassages` is not inductive: a cluster inherits passages of its
  sources and counts their rooms, so one must know that a finding of a room quotes that
  room (`QuotesOwnRoom`), which the waiting job has to carry from the moment the segments are
  read. With it, and a lemma each for replacing drafts and for losing the passages of one
  recording, `LostTranscriptsAreMarked`, `CountIsHonest`, `DecisionsAreKept`, `FrozenIsWhatIsRead`.

Only model-checked: the liveness properties (`UploadSettles`, `EveryJobSettles`, `RoundGetsReviewed`,
`ActiveRoundEnds`, `FinishedIsWritten`), which need fairness and ENABLED, beyond this prover.

## 6. Not modelled, and the plan

Still worth doing: the inductive invariants of the five liveness properties' safety halves (what
holds of a state in which nothing more is scheduled), and a specification above `Pipeline` that says
only what a round's organizer sees, with the refinement proved.

Left out, and why:

- *Audio retention* (`jobs/sweep.py: purge`). A loop over files inside one job. By reading: a
  file that cannot be unlinked is skipped and its session marked as purged all the same
  (`sweep.py:66`), and what is assembled or uploaded after the purge is not looked at again.
  The code promises nothing about either that a model could hold it to.
- *The participant's view* (`ParticipantView.vue`). `Capture` begins where the engine has its
  recording; a round that ends while the microphone is awaited (`ParticipantView.vue:72`) finds
  no engine to stop. The rest of the web interface renders what the server says.
- *Breakout rooms of a failed start.* Talk keeps those that a rolled-back start has opened; `Rounds` counts
  the conversations such starts leave and only whether rooms are open, `Assignment` follows rooms of a
  round that runs.
- *Where in a block of audio a segment begins.* `LiveCaptions` has blocks and their order: that two of
  Whisper's segments within a second revise one another is a choice (`TakeSegment`), that a window has
  more than two of them is cut off.
- *Settings* (`settings.py`). A snapshot read through a cache; the models read each setting
  anew, from a set, wherever the code does.
- *Providers.* Their wire protocols; their outcomes are in `Pipeline` and `LiveCaptions`.
- Rendering (PDF), read-only look-ups (directory), best-effort messages (notifications), the
  audit log nothing reads, identity and rate limit (a check without a protocol), start-up
  and migrations except what `JobRunner` has of them.

## 7. Running it

    tlc -config capture.cfg Capture     # likewise job_runner, rounds, facilitator, speech_meter, live_captions
    tlc -config capture_live.cfg Capture
    tlc -config pipeline.cfg MCPipeline               # and pipeline_live.cfg
    tlc -config assignment.cfg MCAssignment
    tlc -config review.cfg MCReview
    tlc -config claim_discard_safe.cfg CaptureClaims
    tlapm CaptureProofs.tla                           # and the seven other *Proofs modules

The longest runs (`capture_live`, `pipeline_live`, `live_captions`) take two to three minutes on two cores.
