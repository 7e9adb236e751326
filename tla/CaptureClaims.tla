--------------------------- MODULE CaptureClaims ---------------------------
(***************************************************************************)
(* What the comments and messages around the capture path say, stated over *)
(* Capture.  TLC refutes each of them; README.md tells the stories and     *)
(* says which runs are kept.                                               *)
(***************************************************************************)
EXTENDS Capture

(* engine.ts, header: a recording is only "complete" once the server       *)
(* confirms it has every sequence.  The uploader leaves its loop as soon   *)
(* as the phase is "finishing", before the last chunk is numbered or       *)
(* persisted, and then completes the recording with the smaller total.     *)
CompleteMeansEverySequence ==
    phase = "done" => \A s \in Seqs : s < seq => Stored(cur, s, life)

(* capture.py, header: a recording is only assembled once every sequence   *)
(* has arrived.  A recording the sweep had given up on and a late chunk    *)
(* reopened is assembled by FINALIZE_ROUND from what it has, while the     *)
(* browser still records and then finds its uploads refused.               *)
NeverAssembledWhileRecording ==
    phase = "recording" => state[cur] # "AUDIO_READY"

(* models/recording.py: a participant who reconnects mid-round gets a      *)
(* second recording.  start_recording hands the open one back.             *)
ReconnectGetsSecondRecording ==
    [][cur = None /\ cur' # None /\ life > 1 => state[cur'] = "NONE"]_vars

(* audio.py, header: the chunks of a recording come from one continuous    *)
(* MediaRecorder session.  A reloaded page numbers its chunks from 0 again *)
(* on the same recording, next to the chunks of the first page.            *)
OneMediaRecorderSession ==
    \A r \in Recs : state[r] = "AUDIO_READY" =>
        Cardinality({canon[r][s] : s \in Seqs} \ {None}) <= 1

(* audio.py, _discard_chunks: deleting the chunk files is "safe here"      *)
(* because the file's checksum is stored.  It is stored by the commit that *)
(* comes after the files are gone: a crash in between leaves rows without  *)
(* bytes, and every later attempt to assemble fails.                       *)
DiscardingChunksIsSafe ==
    work = NoWork => \A r \in Recs, s \in Seqs :
        rows[r][s] # None => disk[r][s] = rows[r][s]

(* live_captions.py: feed() "never raises", recording is never affected.   *)
(* upload_chunk passes it an argument it does not take, after the commit.  *)
StoredChunkIsAcknowledged ==
    [][\A m \in net :
         m = wait /\ reply = NoReply /\ m.kind = "chunk" /\ rows[m.rec][m.seq] = None
           /\ rows'[m.rec][m.seq] # None => reply'.code = "ok"]_vars

(* engine.ts: "The upload did not finish."  When the answer to complete is *)
(* lost, its repetition is refused because the recording has moved on, and *)
(* the page gives up on an upload the server has in full.                  *)
GivingUpMeansUnfinished ==
    [][GiveUp => state[cur] \notin {"ASSEMBLING", "AUDIO_READY"}]_vars

(* engine.ts, header: uploads are retried forever "while recording".  After *)
(* it they should come to an end.  A reloaded page that was handed the same *)
(* recording offers its chunk 0 for ever: the server has another one under *)
(* that number, its answer 409 is not an end, and the scan has no deadline. *)
UploadsEndAfterRecording == (phase = "syncing") ~> (cur = None \/ up = "broken" \/ Ended)

(* audio.py, assemble_recording: what is wrong with an attempt that is not *)
(* the audio's fault is only that "space may be freed, so let the job back *)
(* off and try again".  After a commit that found the database locked the  *)
(* chunk files are gone, and every later attempt fails on them.            *)
LaterAttemptsMaySucceed ==
    \A r \in Recs : state[r] = "ASSEMBLING" /\ jobs[r] > 0 /\ work[1] # r =>
        \A s \in Held(r) : disk[r][s] = rows[r][s]
=============================================================================
