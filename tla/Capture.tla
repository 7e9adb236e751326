------------------------------ MODULE Capture ------------------------------
(***************************************************************************)
(* One participant's microphone in one round: the capture engine of the    *)
(* page (frontend/src/capture), the chunk store behind the capture API     *)
(* (services/capture.py), the sweep and the end-of-round job that act on   *)
(* an upload from the side, and the assembly of the audio.                 *)
(*                                                                         *)
(* A chunk is identified by its recording, its sequence number and the     *)
(* LIFE of the page that recorded it: two page loads that both number      *)
(* their chunks from 0 produce different bytes under the same sequence     *)
(* number.  The content of a chunk (and its SHA-256) is that life.         *)
(***************************************************************************)
EXTENDS Integers, FiniteSets

CONSTANTS
    MaxAttempts,   \* recordings one participant may be given in the round
    MaxLives,      \* page loads
    MaxChunks,     \* chunks one page load may record
    MaxNet,        \* requests on the wire at once
    MaxSweeps,     \* passes of the stalled-upload sweep
    MaxCrashes,    \* crashes of the server process
    DiskMayFill,   \* whether the server may be short of disk space
    LoginMayLapse, \* whether the browser's login may stop being accepted
    QuotaMayFill   \* whether IndexedDB may refuse a write

ASSUME CaptureAssumption ==
    /\ MaxAttempts \in Nat /\ MaxLives \in Nat \ {0} /\ MaxChunks \in Nat
    /\ MaxNet \in Nat /\ MaxSweeps \in Nat /\ MaxCrashes \in Nat
    /\ DiskMayFill \in BOOLEAN /\ LoginMayLapse \in BOOLEAN
    /\ QuotaMayFill \in BOOLEAN

Recs  == 1 .. MaxAttempts      \* Recording.attempt, 0 stands for no recording
Seqs  == 0 .. MaxChunks - 1
Lives == 1 .. MaxLives
None  == 0
NoTotal == -1                  \* totalChunks: null in IndexedDB

VARIABLES
    \* the database
    state,      \* Recording.state, "NONE" before the row exists
    total,      \* Recording.total_chunks, 0 for NULL
    rows,       \* the AudioChunk rows: content by recording and sequence
    jobs,       \* live ASSEMBLE_AUDIO jobs of a recording
    failed,     \* recordings a job of which is FAILED, its attempts used up
    round,      \* "active", "finalizing" (FINALIZE_ROUND queued) or "over"
    \* the server's disk
    disk,       \* chunk files
    canon,      \* the assembled file of a recording
    \* the job runner: which recording it works for and where it is
    work,
    \* the page
    life, phase, recorder, cur, seq, written, up, todo, wait, reply,
    \* IndexedDB, which survives the page
    local, acked, idbTotal,
    \* the rest of the world
    net, access, sweeps, crashes

dbVars     == <<state, total, rows, jobs, failed>>
diskVars   == <<disk, canon>>
pageVars   == <<life, phase, recorder, cur, seq, written>>
uploadVars == <<up, todo, wait, reply>>
idbVars    == <<local, acked, idbTotal>>
envVars    == <<access, sweeps, crashes>>
vars == <<dbVars, round, diskVars, work, pageVars, uploadVars, idbVars, net, envVars>>

-----------------------------------------------------------------------------
(* Recording states this component drives (services/recording_states.py).  *)
(* FINALIZING is left in the transaction that enters it.                   *)
OpenStates    == {"RECORDING", "WAITING_FOR_CHUNKS"}
HealthyStates == OpenStates \union {"ASSEMBLING", "AUDIO_READY"}
States        == HealthyStates \union {"NONE", "UPLOAD_INCOMPLETE", "AUDIO_INVALID"}

ChunkReq(r, s, l) == [kind |-> "chunk", rec |-> r, seq |-> s, life |-> l]
CompleteReq(r, t) == [kind |-> "complete", rec |-> r, total |-> t]
NoReq   == [kind |-> "none"]
NoReply == [code |-> "none", missing |-> {}]

NoWork    == <<None, "idle">>
Empty     == [s \in Seqs |-> None]
Held(r)   == {s \in Seqs : rows[r][s] # None}      \* received_chunks, before assembly
(* Mutant of Missing: the last chunk is not asked for.                      *)
MissingButTheLast(r, t) == {s \in Seqs : s < t - 1} \ Held(r)

Missing(r, t) == {s \in Seqs : s < t} \ Held(r)    \* missing_sequences
Pending(r) == {s \in Seqs : local[r][s] # None /\ ~acked[r][s]}
Lowest(S)  == {s \in S : \A x \in S : s <= x}

(* An answer reaches the page only if it still waits for that request.     *)
Answer(m, code, missing) ==
    reply' = IF wait = m /\ reply = NoReply
             THEN [code |-> code, missing |-> missing] ELSE reply

-----------------------------------------------------------------------------
(* The page.                                                               *)

Existing == {r \in Recs : state[r] # "NONE"}
Healthy  == {r \in Existing : state[r] \in HealthyStates}

(* start_recording: the last healthy recording if it is still open, else a *)
(* new attempt.                                                            *)
Granted(r) ==
    IF \E h \in Healthy : (\A x \in Healthy : x <= h) /\ state[h] \in OpenStates
    THEN r \in Healthy /\ (\A x \in Healthy : x <= r)
    ELSE state[r] = "NONE" /\ \A x \in Recs : x < r => state[x] # "NONE"

(* CaptureEngine.start; in the second disjunct the server acted and the    *)
(* answer was lost, or IndexedDB refused the recording: the page has no    *)
(* engine and the user may try again.                                      *)
StartCapture ==
    /\ cur = None /\ round = "active" /\ access
    /\ \E r \in Recs :
        /\ Granted(r)
        /\ state' = [state EXCEPT ![r] = IF @ = "NONE" THEN "RECORDING" ELSE @]
        /\ \/ /\ cur' = r
              /\ phase' = "recording" /\ recorder' = "on" /\ up' = "scan"
              /\ idbTotal' = [idbTotal EXCEPT ![r] = NoTotal]
           \/ UNCHANGED <<cur, phase, recorder, up, idbTotal>>
    /\ UNCHANGED <<total, rows, jobs, failed, round, diskVars, work, life, seq, written,
                   todo, wait, reply, local, acked, net, envVars>>

(* ondataavailable, then enqueueChunk: the number is taken at once, the    *)
(* chunk is hashed and persisted later.                                    *)
RecordChunk ==
    /\ recorder \in {"on", "stopping"} /\ seq < MaxChunks
    /\ seq' = seq + 1
    /\ UNCHANGED <<dbVars, round, diskVars, work, life, phase, recorder, cur, written,
                   uploadVars, idbVars, net, envVars>>

(* The chunk pipeline: putChunk, which overwrites whatever the key holds,  *)
(* or the catch that gives the chunk up.                                   *)
PersistChunk ==
    /\ written < seq
    /\ written' = written + 1
    /\ \/ /\ local' = [local EXCEPT ![cur][written] = life]
          /\ acked' = [acked EXCEPT ![cur][written] = FALSE]
       \/ QuotaMayFill /\ UNCHANGED <<local, acked>>
    /\ UNCHANGED <<dbVars, round, diskVars, work, life, phase, recorder, cur, seq,
                   uploadVars, idbTotal, net, envVars>>

(* The poll sees the round gone and stopCapture calls finish().            *)
StopCapture ==
    /\ recorder = "on" /\ round # "active"
    /\ recorder' = "stopping" /\ phase' = "finishing"
    /\ UNCHANGED <<dbVars, round, diskVars, work, life, cur, seq, written,
                   uploadVars, idbVars, net, envVars>>

(* finish() after the recorder has stopped and the pipeline is empty.      *)
DrainPipeline ==
    /\ recorder = "stopping" /\ written = seq
    /\ recorder' = "stopped" /\ phase' = "syncing"
    /\ UNCHANGED <<dbVars, round, diskVars, work, life, cur, seq, written,
                   uploadVars, idbVars, net, envVars>>

(* Mutant of DeclareTotal: an uploader that left stays away.                *)
DeclareTotalOnly ==
    /\ recorder = "stopped" /\ recorder' = "off"
    /\ \/ /\ idbTotal' = [idbTotal EXCEPT ![cur] = seq] /\ UNCHANGED up
       \/ /\ QuotaMayFill /\ UNCHANGED idbTotal
          /\ up' = IF up = "off" THEN "broken" ELSE up
    /\ UNCHANGED <<dbVars, round, diskVars, work, life, phase, cur, seq, written,
                   todo, wait, reply, local, acked, net, envVars>>

(* The rest of finish(): the total is put into IndexedDB, and an uploader  *)
(* that left is started again; or the write is refused, finish() throws,   *)
(* there is no total and nobody starts the uploader.                       *)
DeclareTotal ==
    /\ recorder = "stopped" /\ recorder' = "off"
    /\ \/ /\ idbTotal' = [idbTotal EXCEPT ![cur] = seq]
          /\ up' = IF up \in {"off", "broken"} THEN "scan" ELSE up
       \/ /\ QuotaMayFill /\ UNCHANGED idbTotal
          /\ up' = IF up = "off" THEN "broken" ELSE up
    /\ UNCHANGED <<dbVars, round, diskVars, work, life, phase, cur, seq, written,
                   todo, wait, reply, local, acked, net, envVars>>

(* Mutant of Reload: the place in the chunk pipeline is not reset.          *)
ReloadMidPipeline ==
    /\ life < MaxLives
    /\ life' = life + 1
    /\ phase' = "idle" /\ recorder' = "off" /\ cur' = None
    /\ seq' = 0 /\ UNCHANGED written
    /\ up' = "off" /\ todo' = {} /\ wait' = NoReq /\ reply' = NoReply
    /\ UNCHANGED <<dbVars, round, diskVars, work, idbVars, net, envVars>>

(* The page is reloaded or its tab dies.  Nothing calls resumeSync.        *)
Reload ==
    /\ life < MaxLives
    /\ life' = life + 1
    /\ phase' = "idle" /\ recorder' = "off" /\ cur' = None
    /\ seq' = 0 /\ written' = 0
    /\ up' = "off" /\ todo' = {} /\ wait' = NoReq /\ reply' = NoReply
    /\ UNCHANGED <<dbVars, round, diskVars, work, idbVars, net, envVars>>

-----------------------------------------------------------------------------
(* The uploader: runUploader, then sendComplete.  One request at a time.   *)
(* It is "off" before it starts and after it returned, and "broken" when a *)
(* write that IndexedDB refused ended it, or its start.                    *)

Post(m) ==
    /\ Cardinality(net \union {m}) <= MaxNet
    /\ net' = net \union {m} /\ wait' = m /\ reply' = NoReply

PageIdle == wait = NoReq /\ cur # None

ScanPost ==
    /\ up = "scan" /\ PageIdle
    /\ \E s \in Lowest(Pending(cur)) : Post(ChunkReq(cur, s, local[cur][s]))
    /\ UNCHANGED <<dbVars, round, diskVars, work, pageVars, up, todo, idbVars, envVars>>

ScanEmpty ==
    /\ up = "scan" /\ PageIdle /\ Pending(cur) = {}
    /\ up' = "empty"
    /\ UNCHANGED <<dbVars, round, diskVars, work, pageVars, todo, wait, reply,
                   idbVars, net, envVars>>

(* After a second read of IndexedDB: leave the loop or look again.         *)
ScanDecide ==
    /\ up = "empty"
    /\ up' = IF idbTotal[cur] # NoTotal \/ phase # "recording"
             THEN "complete" ELSE "scan"
    /\ UNCHANGED <<dbVars, round, diskVars, work, pageVars, todo, wait, reply,
                   idbVars, net, envVars>>

CompletePost ==
    /\ up = "complete" /\ PageIdle
    /\ Post(CompleteReq(cur, IF idbTotal[cur] # NoTotal THEN idbTotal[cur] ELSE seq))
    /\ UNCHANGED <<dbVars, round, diskVars, work, pageVars, up, todo, idbVars, envVars>>

(* The five minutes of sendComplete are over.                              *)
GiveUp ==
    /\ up = "complete" /\ PageIdle
    /\ up' = "off" /\ phase' = "failed"
    /\ UNCHANGED <<dbVars, round, diskVars, work, life, recorder, cur, seq, written,
                   todo, wait, reply, idbVars, net, envVars>>

ResendPost ==
    /\ up = "resend" /\ PageIdle
    /\ \E s \in Lowest(todo) :
        /\ local[cur][s] # None
        /\ Post(ChunkReq(cur, s, local[cur][s]))
    /\ UNCHANGED <<dbVars, round, diskVars, work, pageVars, up, todo, idbVars, envVars>>

(* All re-sent, or the next one "is missing locally too".                  *)
ResendEnd ==
    /\ up = "resend" /\ PageIdle
    /\ \A s \in Lowest(todo) : local[cur][s] = None
    /\ up' = "complete" /\ todo' = {}
    /\ UNCHANGED <<dbVars, round, diskVars, work, pageVars, wait, reply,
                   idbVars, net, envVars>>

(* Mutant of PutBack: every answer ticks the chunk off.                     *)
PutBackTicked(ack) ==
    /\ local' = [local EXCEPT ![cur][wait.seq] = wait.life]
    /\ acked' = [acked EXCEPT ![cur][wait.seq] = TRUE]

(* putChunk of the chunk object read before the upload: it restores the    *)
(* content that was read, whatever was written meanwhile.                  *)
PutBack(ack) ==
    /\ local' = [local EXCEPT ![cur][wait.seq] = wait.life]
    /\ acked' = [acked EXCEPT ![cur][wait.seq] = ack]

(* The upload of a chunk in the scan loop is answered or fails.  A refused *)
(* putChunk is caught by a putChunk of the same chunk, which may be        *)
(* refused too and then ends the uploader.                                 *)
ScanReply ==
    /\ up = "scan" /\ wait # NoReq /\ reply # NoReply
    /\ wait' = NoReq /\ reply' = NoReply
    /\ LET gone == reply.code = "gone" /\ phase = "syncing" IN
       \/ gone /\ phase' = "failed" /\ up' = "off" /\ UNCHANGED <<local, acked>>
       \/ ~gone /\ PutBack(reply.code = "ok") /\ UNCHANGED <<phase, up>>
       \/ /\ ~gone /\ QuotaMayFill
          /\ up' = "broken" /\ UNCHANGED <<phase, local, acked>>
    /\ UNCHANGED <<dbVars, round, diskVars, work, life, recorder, cur, seq, written,
                   todo, idbTotal, net, envVars>>

CompleteReply ==
    /\ up = "complete" /\ wait # NoReq /\ reply # NoReply
    /\ wait' = NoReq /\ reply' = NoReply
    /\ \/ /\ reply.code = "ok" /\ reply.missing = {}
          /\ phase' = "done" /\ up' = "off" /\ UNCHANGED todo
       \/ /\ reply.code = "ok" /\ reply.missing # {}
          /\ up' = "resend" /\ todo' = reply.missing /\ UNCHANGED phase
       \/ /\ reply.code = "gone"
          /\ phase' = "failed" /\ up' = "off" /\ UNCHANGED todo
       \/ /\ \/ reply.code = "error"
             \/ reply.code = "ok" /\ reply.missing = {} /\ QuotaMayFill   \* putRecording
          /\ UNCHANGED <<phase, up, todo>>
    /\ UNCHANGED <<dbVars, round, diskVars, work, life, recorder, cur, seq, written,
                   idbVars, net, envVars>>

ResendReply ==
    /\ up = "resend" /\ wait # NoReq /\ reply # NoReply
    /\ wait' = NoReq /\ reply' = NoReply
    /\ \/ /\ reply.code = "ok"
          /\ PutBack(TRUE) /\ todo' = todo \ {wait.seq} /\ UNCHANGED <<phase, up>>
       \/ /\ reply.code = "gone"
          /\ phase' = "failed" /\ up' = "off" /\ UNCHANGED <<local, acked, todo>>
       \/ /\ reply.code = "error" \/ (reply.code = "ok" /\ QuotaMayFill)   \* putChunk
          /\ up' = "complete" /\ todo' = {} /\ UNCHANGED <<local, acked, phase>>
    /\ UNCHANGED <<dbVars, round, diskVars, work, life, recorder, cur, seq, written,
                   idbTotal, net, envVars>>

(* The connection breaks while the page waits.  The request may still be   *)
(* on its way, or already served with its answer lost.                     *)
NetworkError ==
    /\ wait # NoReq /\ reply.code # "error"
    /\ reply' = [code |-> "error", missing |-> {}]
    /\ UNCHANGED <<dbVars, round, diskVars, work, pageVars, up, todo, wait,
                   idbVars, net, envVars>>

LoseRequest ==
    /\ \E m \in net : net' = net \ {m}
    /\ UNCHANGED <<dbVars, round, diskVars, work, pageVars, uploadVars, idbVars, envVars>>

-----------------------------------------------------------------------------
(* The capture API: one write transaction per request.                     *)

(* Mutants of Reopened and Accepts: late chunks open what is past repair.   *)
ReopenedWhenReady(st) ==
    IF st \in {"UPLOAD_INCOMPLETE", "AUDIO_READY"} THEN "WAITING_FOR_CHUNKS" ELSE st
ReopenedInAssembly(st) ==
    IF st \in {"UPLOAD_INCOMPLETE", "ASSEMBLING"} THEN "WAITING_FOR_CHUNKS" ELSE st
AcceptsInvalid(r) == state[r] \in OpenStates \union {"UPLOAD_INCOMPLETE", "AUDIO_INVALID"}

Reopened(st) == IF st = "UPLOAD_INCOMPLETE" THEN "WAITING_FOR_CHUNKS" ELSE st
Accepts(r)   == Reopened(state[r]) \in OpenStates

(* upload_chunk / receive_chunk.  A stored chunk is answered with an error:*)
(* the call that feeds the live captions raises after the commit.          *)
ServeChunk(m) ==
    /\ m \in net /\ m.kind = "chunk"
    /\ net' = net \ {m}
    /\ LET r == m.rec  s == m.seq IN
       \/ /\ ~access
          /\ Answer(m, "gone", {}) /\ UNCHANGED <<state, rows, disk>>
       \/ /\ access /\ (~Accepts(r) \/ rows[r][s] \notin {None, m.life})
          /\ Answer(m, "error", {}) /\ UNCHANGED <<state, rows, disk>>
       \/ /\ access /\ Accepts(r) /\ rows[r][s] = m.life
          /\ state' = [state EXCEPT ![r] = Reopened(@)]
          /\ Answer(m, "ok", {}) /\ UNCHANGED <<rows, disk>>
       \/ /\ access /\ Accepts(r) /\ rows[r][s] = None
          /\ disk' = [disk EXCEPT ![r][s] = m.life]
          /\ rows' = [rows EXCEPT ![r][s] = m.life]
          /\ state' = [state EXCEPT ![r] = Reopened(@)]
          /\ Answer(m, "error", {})
       \/ /\ access /\ Accepts(r) /\ rows[r][s] = None /\ DiskMayFill
          /\ Answer(m, "error", {}) /\ UNCHANGED <<state, rows, disk>>
    /\ UNCHANGED <<total, jobs, failed, round, canon, work, pageVars, up, todo, wait,
                   idbVars, envVars>>

(* complete / complete_recording; a total of 0 fails validation.           *)
ServeComplete(m) ==
    /\ m \in net /\ m.kind = "complete"
    /\ net' = net \ {m}
    /\ LET r == m.rec  missing == Missing(r, m.total) IN
       \/ /\ ~access /\ m.total > 0
          /\ Answer(m, "gone", {}) /\ UNCHANGED <<state, total, jobs>>
       \/ /\ m.total = 0 \/ (access /\ ~Accepts(r))
          /\ Answer(m, "error", {}) /\ UNCHANGED <<state, total, jobs>>
       \/ /\ m.total > 0 /\ access /\ Accepts(r)
          /\ total' = [total EXCEPT ![r] = m.total]
          /\ state' = [state EXCEPT ![r] =
                          IF missing = {} THEN "ASSEMBLING" ELSE "WAITING_FOR_CHUNKS"]
          /\ jobs' = [jobs EXCEPT ![r] = IF missing = {} THEN @ + 1 ELSE @]
          /\ Answer(m, "ok", missing)
    /\ UNCHANGED <<rows, failed, round, diskVars, work, pageVars, up, todo, wait,
                   idbVars, envVars>>

LapseLogin ==
    /\ LoginMayLapse /\ access
    /\ access' = FALSE
    /\ UNCHANGED <<dbVars, round, diskVars, work, pageVars, uploadVars, idbVars,
                   net, sweeps, crashes>>

(* The organizer or the clock ends the round; FINALIZE_ROUND is queued.    *)
EndRound ==
    /\ round = "active"
    /\ round' = "finalizing"
    /\ UNCHANGED <<dbVars, diskVars, work, pageVars, uploadVars, idbVars, net, envVars>>

-----------------------------------------------------------------------------
(* The single worker: the sweep, FINALIZE_ROUND and ASSEMBLE_AUDIO never   *)
(* run at the same time.                                                   *)

(* Mutant of SweepStalledUploads: an upload in assembly counts as stalled.  *)
SweepAssembling ==
    /\ work = NoWork /\ sweeps < MaxSweeps
    /\ \E S \in SUBSET {r \in Recs : state[r] \in OpenStates \union {"ASSEMBLING"}} :
        /\ S # {}
        /\ state' = [r \in Recs |-> IF r \in S THEN "UPLOAD_INCOMPLETE" ELSE state[r]]
    /\ sweeps' = sweeps + 1
    /\ UNCHANGED <<total, rows, jobs, failed, round, diskVars, work, pageVars, uploadVars,
                   idbVars, net, access, crashes>>

(* sweep_stalled_uploads.  Ten silent minutes may pass at any moment.      *)
SweepStalledUploads ==
    /\ work = NoWork /\ sweeps < MaxSweeps
    /\ \E S \in SUBSET {r \in Recs : state[r] \in OpenStates} :
        /\ S # {}
        /\ state' = [r \in Recs |-> IF r \in S THEN "UPLOAD_INCOMPLETE" ELSE state[r]]
    /\ sweeps' = sweeps + 1
    /\ UNCHANGED <<total, rows, jobs, failed, round, diskVars, work, pageVars, uploadVars,
                   idbVars, net, access, crashes>>

(* handle_finalize_round: a recording that waits for chunks is sent to     *)
(* assembly; for one that is still RECORDING the transition is refused and *)
(* only the total is kept.                                                 *)
Folded(r) == state[r] \in OpenStates /\ Held(r) # {}

(* Mutant of FinalizeRound: nothing is enqueued for what it folds in.       *)
FinalizeRoundQuietly ==
    /\ work = NoWork /\ round = "finalizing"
    /\ total' = [r \in Recs |-> IF Folded(r) /\ total[r] = 0
                                THEN Cardinality(Held(r)) ELSE total[r]]
    /\ state' = [r \in Recs |-> IF Folded(r) /\ state[r] = "WAITING_FOR_CHUNKS"
                                THEN "ASSEMBLING" ELSE state[r]]
    /\ work' = <<None, "settle">>
    /\ UNCHANGED <<rows, jobs, failed, round, diskVars, pageVars, uploadVars, idbVars,
                   net, envVars>>

FinalizeRound ==
    /\ work = NoWork /\ round = "finalizing"
    /\ total' = [r \in Recs |-> IF Folded(r) /\ total[r] = 0
                                THEN Cardinality(Held(r)) ELSE total[r]]
    /\ state' = [r \in Recs |-> IF Folded(r) /\ state[r] = "WAITING_FOR_CHUNKS"
                                THEN "ASSEMBLING" ELSE state[r]]
    /\ jobs' = [r \in Recs |-> IF Folded(r) /\ state[r] = "WAITING_FOR_CHUNKS"
                               THEN jobs[r] + 1 ELSE jobs[r]]
    /\ work' = <<None, "settle">>
    /\ UNCHANGED <<rows, failed, round, diskVars, pageVars, uploadVars, idbVars,
                   net, envVars>>

(* A failed attempt is retried later or, after the last one, given up; the *)
(* attempts themselves are counted in JobRunner.                           *)
GiveJobUp(r) == jobs' = [jobs EXCEPT ![r] = @ - 1] /\ failed' = failed \union {r}
RetryOrFail(r) == UNCHANGED <<jobs, failed>> \/ GiveJobUp(r)

(* handle_assemble_audio up to the commit that releases the write lock.    *)
AssembleBegin(r) ==
    /\ work = NoWork /\ jobs[r] > 0
    /\ \/ /\ state[r] # "ASSEMBLING"
          /\ work' = <<r, "settle">> /\ UNCHANGED state
       \/ /\ state[r] = "ASSEMBLING" /\ Missing(r, total[r]) # {}
          /\ state' = [state EXCEPT ![r] = "WAITING_FOR_CHUNKS"]
          /\ work' = <<r, "settle">>
       \/ /\ state[r] = "ASSEMBLING" /\ Missing(r, total[r]) = {}
          /\ work' = <<r, "files">> /\ UNCHANGED state
    /\ UNCHANGED <<total, rows, jobs, failed, round, diskVars, pageVars, uploadVars,
                   idbVars, net, envVars>>

(* Concatenate and check every chunk file, probe, remux, and unlink the    *)
(* chunk files; nothing of it is in the database yet.                      *)
AssembleFiles(r) ==
    /\ work = <<r, "files">>
    /\ LET readable == \A s \in Held(r) : disk[r][s] = rows[r][s] IN
       \/ /\ readable
          /\ canon' = [canon EXCEPT ![r] = rows[r]]
          /\ disk' = [disk EXCEPT ![r] =
                         [s \in Seqs |-> IF s \in Held(r) THEN None ELSE disk[r][s]]]
          /\ work' = <<r, "commit">> /\ UNCHANGED <<state, jobs, failed>>
       \/ /\ readable                                   \* ffprobe or ffmpeg refuses it
          /\ state' = [state EXCEPT ![r] = "AUDIO_INVALID"]
          /\ work' = <<r, "settle">> /\ UNCHANGED <<canon, disk, jobs, failed>>
       \/ /\ ~readable                                  \* FileNotFoundError
          /\ RetryOrFail(r)
          /\ work' = NoWork /\ UNCHANGED <<canon, disk, state>>
    /\ UNCHANGED <<total, rows, round, pageVars, uploadVars, idbVars, net, envVars>>

AssembleCommit(r) ==
    /\ work = <<r, "commit">>
    /\ state' = [state EXCEPT ![r] = "AUDIO_READY"]
    /\ rows' = [rows EXCEPT ![r] = Empty]
    /\ work' = <<r, "settle">>
    /\ UNCHANGED <<total, jobs, failed, round, diskVars, pageVars, uploadVars, idbVars,
                   net, envVars>>

(* Anything that is not an AudioAssemblyError ends the attempt and leaves  *)
(* the row as it is: before the files are touched no space for the copy or *)
(* a locked database, then a ffprobe or ffmpeg that runs out of time or a  *)
(* manifest that cannot be written, and at last a commit that finds the    *)
(* database locked when the chunk files are gone already.                  *)
AssemblyRaises(r) ==
    /\ \/ work = NoWork /\ jobs[r] > 0
       \/ work \in {<<r, "files">>, <<r, "commit">>}
    /\ work' = NoWork /\ RetryOrFail(r)
    /\ UNCHANGED <<state, total, rows, round, diskVars, pageVars, uploadVars, idbVars,
                   net, envVars>>

(* The runner marks the job SUCCEEDED (or FAILED for good).                *)
SettleJob ==
    /\ work[2] = "settle"
    /\ work' = NoWork
    /\ IF work[1] = None
       THEN round' = "over" /\ UNCHANGED jobs
       ELSE jobs' = [jobs EXCEPT ![work[1]] = @ - 1] /\ UNCHANGED round
    /\ UNCHANGED <<state, total, rows, failed, diskVars, pageVars, uploadVars, idbVars,
                   net, envVars>>

(* The process dies and comes back: the job it ran is due again, and a     *)
(* chunk whose file was written may be missing its row.                    *)
Crash ==
    /\ crashes < MaxCrashes
    /\ crashes' = crashes + 1
    /\ work' = NoWork
    /\ \/ UNCHANGED <<disk, net>>
       \/ \E m \in net :
            /\ m.kind = "chunk" /\ access /\ Accepts(m.rec)
            /\ rows[m.rec][m.seq] = None
            /\ disk' = [disk EXCEPT ![m.rec][m.seq] = m.life]
            /\ net' = net \ {m}
    /\ UNCHANGED <<dbVars, round, canon, pageVars, uploadVars, idbVars, access, sweeps>>

-----------------------------------------------------------------------------
Init ==
    /\ state = [r \in Recs |-> "NONE"] /\ total = [r \in Recs |-> 0]
    /\ rows = [r \in Recs |-> Empty] /\ jobs = [r \in Recs |-> 0]
    /\ round = "active" /\ work = NoWork /\ failed = {}
    /\ disk = [r \in Recs |-> Empty] /\ canon = [r \in Recs |-> Empty]
    /\ life = 1 /\ phase = "idle" /\ recorder = "off" /\ cur = None
    /\ seq = 0 /\ written = 0
    /\ up = "off" /\ todo = {} /\ wait = NoReq /\ reply = NoReply
    /\ local = [r \in Recs |-> Empty]
    /\ acked = [r \in Recs |-> [s \in Seqs |-> FALSE]]
    /\ idbTotal = [r \in Recs |-> NoTotal]
    /\ net = {} /\ access = TRUE /\ sweeps = 0 /\ crashes = 0

Page ==
    \/ StartCapture \/ RecordChunk \/ PersistChunk \/ StopCapture
    \/ DrainPipeline \/ DeclareTotal \/ Reload

Uploader ==
    \/ ScanPost \/ ScanEmpty \/ ScanDecide \/ CompletePost \/ GiveUp
    \/ ResendPost \/ ResendEnd \/ ScanReply \/ CompleteReply \/ ResendReply

Network == NetworkError \/ LoseRequest \/ LapseLogin

Server == \E m \in net : ServeChunk(m) \/ ServeComplete(m)

Worker ==
    \/ SweepStalledUploads \/ FinalizeRound \/ SettleJob
    \/ \E r \in Recs :
        AssembleBegin(r) \/ AssembleFiles(r) \/ AssembleCommit(r) \/ AssemblyRaises(r)

Next == Page \/ Uploader \/ Network \/ Server \/ EndRound \/ Worker \/ Crash

Spec == Init /\ [][Next]_vars

-----------------------------------------------------------------------------
(* Every variable has its type: what the columns, the IndexedDB records    *)
(* and the fields of the engine may hold.                                  *)
Contents == Lives \union {None}
Requests ==
    [kind : {"chunk"}, rec : Recs, seq : Seqs, life : Lives]
      \union [kind : {"complete"}, rec : Recs, total : 0 .. MaxChunks]

DbTypes ==
    /\ state \in [Recs -> States] /\ total \in [Recs -> Nat]
    /\ rows \in [Recs -> [Seqs -> Contents]] /\ jobs \in [Recs -> Nat]
    /\ failed \subseteq Recs
    /\ round \in {"active", "finalizing", "over"}

ServerTypes ==
    /\ disk \in [Recs -> [Seqs -> Contents]] /\ canon \in [Recs -> [Seqs -> Contents]]
    /\ work \in (Recs \union {None}) \X {"idle", "settle", "files", "commit"}

PageTypes ==
    /\ life \in Lives /\ cur \in Recs \union {None}
    /\ phase \in {"idle", "recording", "finishing", "syncing", "done", "failed"}
    /\ recorder \in {"on", "stopping", "stopped", "off"}
    /\ seq \in 0 .. MaxChunks /\ written \in 0 .. seq

UploadTypes ==
    /\ up \in {"off", "broken", "scan", "empty", "complete", "resend"}
    /\ todo \subseteq Seqs /\ wait \in Requests \union {NoReq}
    /\ reply \in [code : {"none", "ok", "error", "gone"}, missing : SUBSET Seqs]

IdbTypes ==
    /\ local \in [Recs -> [Seqs -> Contents]] /\ acked \in [Recs -> [Seqs -> BOOLEAN]]
    /\ idbTotal \in [Recs -> 0 .. MaxChunks \union {NoTotal}]

WorldTypes ==
    /\ net \subseteq Requests /\ access \in BOOLEAN
    /\ sweeps \in Nat /\ crashes \in Nat

TypeOK == DbTypes /\ ServerTypes /\ PageTypes /\ UploadTypes /\ IdbTypes /\ WorldTypes

(* What the server will still be able to play back: a chunk row, or the    *)
(* chunk's part of the finished file.                                      *)
Stored(r, s, c) ==
    rows[r][s] = c \/ (state[r] = "AUDIO_READY" /\ canon[r][s] = c)

(* A chunk the browser has ticked off (acked in IndexedDB) is on the       *)
(* server with exactly the content IndexedDB holds, through lost answers,  *)
(* retries, late requests, sweeps, crashes and page reloads.               *)
AckedIsStored ==
    \A r \in Recs, s \in Seqs : acked[r][s] => Stored(r, s, local[r][s])

(* A finished file holds every sequence number below the total that was    *)
(* settled on for the recording: assembly never skips a chunk, whoever     *)
(* declared the total and however often it was declared again.             *)
ReadyIsGapless ==
    \A r \in Recs : state[r] = "AUDIO_READY" =>
        \A s \in Seqs : s < total[r] => canon[r][s] # None

(* When the engine says "done", the server has taken the upload over: it   *)
(* never falls back to waiting for chunks that nobody will send again.     *)
DoneIsHandedOver ==
    phase = "done" => state[cur] \in {"ASSEMBLING", "AUDIO_READY", "AUDIO_INVALID"}

(* While a recording is open every chunk row has its bytes on disk, even   *)
(* if the process died between writing a file and its row.                 *)
OpenRowsHaveBytes ==
    \A r \in Recs : state[r] \in OpenStates \union {"UPLOAD_INCOMPLETE"} =>
        \A s \in Held(r) : disk[r][s] = rows[r][s]

(* What the server stored is never replaced or dropped: a chunk keeps its  *)
(* first content until the finished file holds it.                         *)
StoredIsKept ==
    [][\A r \in Recs, s \in Seqs, c \in Lives : Stored(r, s, c) => Stored(r, s, c)']_vars

(* The whole pipeline is an archive of write-once slots: the slots of a    *)
(* recording are its chunk rows until it is ready and its file after that, *)
(* and it is sealed when assembly has decided about it.                    *)
Archive == INSTANCE ChunkArchive WITH
    slot   <- [r \in Recs |-> IF state[r] = "AUDIO_READY" THEN canon[r] ELSE rows[r]],
    length <- total,
    sealed <- {r \in Recs : state[r] \in {"AUDIO_READY", "AUDIO_INVALID"}}

ImplementsArchive == Archive!Spec

(* A recording sent to assembly is never forgotten by the queue: it has a  *)
(* live job, or one that used up its attempts.  The worker may settle its  *)
(* last job while the page completes the recording again, and the sweep    *)
(* and the end of the round may come between.                              *)
AssemblingHasJob ==
    \A r \in Recs : state[r] = "ASSEMBLING" => jobs[r] > 0 \/ r \in failed

-----------------------------------------------------------------------------
(* Fairness.  The page's code runs while the page lives; the worker loops; *)
(* the network heals again and again, so an upload repeated for ever is    *)
(* served and answered, and no request travels for ever; time passes, so a *)
(* retry loop with a deadline ends;                                        *)
(* attempts are counted, so a job that raises again and again fails.       *)
ServeAwaited == wait \in net /\ reply = NoReply /\ (ServeChunk(wait) \/ ServeComplete(wait))
ReadAnswer   == reply.code # "error" /\ (ScanReply \/ CompleteReply \/ ResendReply)
LastAttempt(r) == AssemblyRaises(r) /\ GiveJobUp(r)

Fairness ==
    /\ WF_vars(DeclareTotal) /\ WF_vars(ScanPost) /\ WF_vars(ScanEmpty) /\ WF_vars(ScanDecide)
    /\ WF_vars(CompletePost) /\ SF_vars(GiveUp) /\ WF_vars(ResendPost) /\ WF_vars(ResendEnd)
    /\ WF_vars(ScanReply) /\ WF_vars(CompleteReply) /\ WF_vars(ResendReply)
    /\ WF_vars(NetworkError) /\ SF_vars(ServeAwaited) /\ SF_vars(ReadAnswer)
    /\ WF_vars(Server \/ LoseRequest) /\ WF_vars(SettleJob)
    /\ \A r \in Recs : /\ WF_vars(AssembleBegin(r)) /\ SF_vars(LastAttempt(r))
                       /\ WF_vars(AssembleFiles(r) \/ AssembleCommit(r))

LiveSpec == Spec /\ Fairness

(* The upload of the page's recording has come to an end: its audio is     *)
(* ready or invalid, its assembly failed for good, or the page says that   *)
(* it failed.                                                              *)
Ended ==
    \/ phase = "failed"
    \/ state[cur] \in {"AUDIO_READY", "AUDIO_INVALID"} \/ cur \in failed

(* What keeps an upload from ever ending: the page is gone, IndexedDB      *)
(* refused a write the uploader needed, or the server holds a chunk of an  *)
(* earlier page load under a number that is still to be uploaded, which    *)
(* the scan loop then offers for ever.                                     *)
Conflicting(r) == \E s \in Pending(r) : rows[r][s] \notin {None, local[r][s]}
Blocked == cur = None \/ up = "broken" \/ Conflicting(cur)

(* Once recording has stopped, the upload ends, or it is blocked in one of *)
(* the three ways above, whatever the network, the login, the sweep and    *)
(* the assembly do; the server has room for what is uploaded.              *)
UploadSettles == (phase = "syncing") ~> (Blocked \/ Ended)
=============================================================================
