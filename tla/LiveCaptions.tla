---------------------------- MODULE LiveCaptions ----------------------------
(***************************************************************************)
(* The live captions of one recording: LiveCaptionManager and the sessions *)
(* it runs against a caption engine (services/live_captions.py), and the   *)
(* ffmpeg that decodes the phone's WebM stream for those that want PCM     *)
(* (services/live_audio.py).  With final transcription switched off the    *)
(* file a session leaves is the transcript of record.                      *)
(*                                                                         *)
(* Everything but the write of the file runs on one event loop, so an      *)
(* action is what happens between two awaits.  Chunks are numbered in the  *)
(* order they are fed; a block of decoded audio has the number of its      *)
(* chunk, a line that of the last block it covers.  Only chunk 1 carries   *)
(* the container's header.  That Deepgram, Vosk and Mistral report what    *)
(* they hear in order and once is assumed of them; Whisper, which is asked *)
(* about windows that overlap, does not.                                   *)
(***************************************************************************)
EXTENDS Naturals, Sequences, SequencesExt

CONSTANTS
    Providers,      \* those an administrator may choose
    MaxSessions,    \* sessions one recording may need
    MaxFeeds,       \* chunks of the recording
    QueueSize,      \* asyncio.Queue(maxsize=64)
    PcmSize,        \* MAX_QUEUED_PCM_BYTES, in blocks
    MaxLines,       \* MAX_TRANSCRIPT_LINES
    DiskMayFail     \* whether a write of the file may fail

ASSUME LiveCaptionsAssumption ==
    /\ Providers \subseteq {"deepgram", "vosk", "mistral", "whisper"}
    /\ MaxSessions \in Nat /\ MaxFeeds \in Nat
    /\ QueueSize \in Nat \ {0} /\ PcmSize \in Nat /\ MaxLines \in Nat \ {0}
    /\ DiskMayFail \in BOOLEAN

Sessions == 1 .. MaxSessions
NoSession == 0
NotYet == MaxSessions + 1       \* finish has not been called
End == 0                        \* the None that ends a queue

VARIABLES
    provider,   \* the engine the settings name
    session,    \* the sessions, those nobody refers to any more included
    current,    \* LiveCaptionManager._sessions[recording_id]
    fed,        \* chunks handed to feed
    finish,     \* the session finish found
    file,       \* the captions file
    order,      \* whose lines were written to it, in which order
    overlapped, \* two sessions were writing the file at a time
    damaged     \* a crash or a full disk left half a file

memory == <<session, current>>
onDisk == <<file, order, overlapped, damaged>>
vars == <<provider, memory, fed, finish, onDisk>>

WantsPcm == provider # "deepgram"

Becomes(s, x) == session' = [session EXCEPT ![s] = x]

-----------------------------------------------------------------------------
(* _BaseSession: the lines, and the flag that says the last of them is     *)
(* speech in progress.                                                     *)
NewSession(c, hasStream) ==
    [run |-> "listening", failed |-> "no",
     stream |-> IF hasStream THEN "starting" ELSE "none", first |-> c, heard |-> 0,
     stdin |-> <<>>, pcm |-> <<>>, queue |-> IF hasStream THEN <<>> ELSE <<c>>,
     lines |-> <<>>, shows |-> FALSE, committed |-> 0, earlier |-> <<>>, swallowed |-> FALSE]

NoSessionYet == [NewSession(1, FALSE) EXCEPT !.run = "none", !.queue = <<>>]

(* Mutant of Dropped: whatever the last line is goes.                       *)
DroppedAnyway(x) == IF x.lines # <<>> THEN Front(x.lines) ELSE x.lines

Dropped(x) == IF x.shows /\ x.lines # <<>> THEN Front(x.lines) ELSE x.lines

(* Mutant of SetProvisional: what was shown before is left there.           *)
SetProvisionalOnTop(x, c) ==
    [x EXCEPT !.lines = Append(x.lines, [chunk |-> c, provisional |-> TRUE]), !.shows = TRUE]

SetProvisional(x, c) ==
    [x EXCEPT !.lines = Append(Dropped(x), [chunk |-> c, provisional |-> TRUE]), !.shows = TRUE]

HideProvisional(x) == [x EXCEPT !.lines = Dropped(x), !.shows = FALSE]

AddLine(x, c) ==
    LET kept == Dropped(x)
    IN  [x EXCEPT !.lines = IF Len(kept) >= MaxLines THEN kept
                            ELSE Append(kept, [chunk |-> c, provisional |-> FALSE]),
                  !.shows = FALSE]

(* run() is over.  Nobody reads the queue any more: what the decoder and   *)
(* the pump still move is left out, and so is what the engine remembered.  *)
(* A decoder nobody closed goes on, and what it decodes is unread.         *)
Running(x) == x.stream \in {"open", "closing"}
Unread(stream) ==
    IF stream = "open" THEN "unread" ELSE IF stream = "closing" THEN "eof" ELSE stream
Over(x) ==
    [x EXCEPT !.run = "over", !.queue = <<>>, !.pcm = <<>>, !.stdin = <<>>,
              !.stream = Unread(@), !.heard = 0, !.committed = 0]

-----------------------------------------------------------------------------
(* What each engine makes of a block: the states a session may be in after *)
(* it.  An engine may also hear nothing.                                   *)
DeepgramHears(x, c) == {x, AddLine(x, c)}

(* A partial result, an empty one, a final one; an empty final result      *)
(* leaves the partial one standing.                                        *)
VoskHears(x, c) == {x, SetProvisional(x, c), HideProvisional(x), AddLine(x, c)}

(* Deltas show what is pending; a segment or the end of the text commits.  *)
MistralHears(x, c) == {x, SetProvisional(x, c), AddLine(x, c)}

(* A segment of a window that ends in block e, past what was committed.    *)
(* When it starts within a second of the last one that was taken, the last *)
(* line goes, whichever segment it was of; an empty text adds none.        *)
TakeSegment(x, e) ==
    LET revised == IF x.committed # 0 /\ x.lines # <<>>
                     THEN {[x EXCEPT !.lines = Front(@)]} ELSE {}
    IN  UNION {{[y EXCEPT !.committed = e], [AddLine(y, e) EXCEPT !.committed = e]} :
                   y \in {x} \union revised}

Segments(x, c) == UNION {TakeSegment(x, e) : e \in {b \in 1 .. c : b >= x.committed}}

(* A window fails or has nothing new, or one or two segments are taken     *)
(* from it: enough for one to take back the other.                         *)
WhisperHears(x, c) ==
    LET once == Segments(x, c)
    IN  {x} \union once \union UNION {Segments(y, c) : y \in once}

Hears(x, c) ==
    CASE provider = "deepgram" -> DeepgramHears(x, c)
      [] provider = "vosk" -> VoskHears(x, c)
      [] provider = "mistral" -> MistralHears(x, c)
      [] OTHER -> WhisperHears(x, c)

(* Mutant of Uncommitted: what is pending is committed a second time.       *)
UncommittedAnyway(x) == x.heard > 0

(* The audio since the last line, when the queue ends.                     *)
Uncommitted(x) ==
    IF x.lines = <<>> THEN x.heard > 0
      ELSE Last(x.lines).provisional \/ Last(x.lines).chunk < x.heard

(* The last results for it, or none when the engine does not answer in     *)
(* time.  Whisper's last window is asked about whatever it has printed     *)
(* already, and a text without segments is added as it is.                 *)
Closes(x) ==
    IF provider = "whisper"
      THEN WhisperHears(x, x.heard) \union {AddLine(x, h) : h \in {x.heard} \ {0}}
      ELSE IF Uncommitted(x) THEN Hears(x, x.heard) ELSE {x}

EngineTakes(s) ==
    LET x == session[s] IN
    /\ x.run = "listening" /\ x.queue # <<>> /\ Head(x.queue) # End
    /\ \E y \in Hears([x EXCEPT !.queue = Tail(@), !.heard = Head(x.queue)], Head(x.queue)) :
           Becomes(s, y)
    /\ UNCHANGED <<provider, current, fed, finish, onDisk>>

EngineCloses(s) ==
    /\ session[s].run = "listening" /\ session[s].queue # <<>> /\ Head(session[s].queue) = End
    /\ \E y \in Closes(session[s]) : Becomes(s, Over(y))
    /\ UNCHANGED <<provider, current, fed, finish, onDisk>>

(* run() raises: the connection is refused or breaks.  The session that    *)
(* takes the place of this one does not close its decoder.                 *)
EngineFails(s) ==
    /\ session[s].run = "listening"
    /\ Becomes(s, [Over(session[s]) EXCEPT !.failed = "cooling"])
    /\ UNCHANGED <<provider, current, fed, finish, onDisk>>

(* A Deepgram server closes the stream in order: run() returns, and nobody *)
(* calls it a failure.                                                     *)
DeepgramHangsUp(s) ==
    /\ provider = "deepgram" /\ session[s].run = "listening"
    /\ Becomes(s, Over(session[s]))
    /\ UNCHANGED <<provider, current, fed, finish, onDisk>>

(* FAILURE_COOLDOWN.                                                       *)
Cool(s) ==
    /\ session[s].failed = "cooling" /\ (s = current \/ session[s].stream = "starting")
    /\ Becomes(s, [session[s] EXCEPT !.failed = "cooled"])
    /\ UNCHANGED <<provider, current, fed, finish, onDisk>>

-----------------------------------------------------------------------------
(* PcmStream: what was written to ffmpeg, what came out of it, the pump.   *)
(* Without the header ffmpeg gives up.                                     *)

(* Mutant of ReadLoop: a consumer that does not keep up is not noticed.     *)
ReadLoopUnbounded(x) ==
    [x EXCEPT !.stdin = Tail(@), !.pcm = Append(@, Head(x.stdin))]

(* _read_loop drops a block when the buffer was over its limit before it.  *)
ReadLoop(x) ==
    [x EXCEPT !.stdin = Tail(@),
              !.pcm = IF Len(@) > PcmSize THEN @ ELSE Append(@, Head(x.stdin))]

Decode(s) ==
    /\ Running(session[s]) /\ session[s].stdin # <<>> /\ session[s].first = 1
    /\ Becomes(s, ReadLoop(session[s]))
    /\ UNCHANGED <<provider, current, fed, finish, onDisk>>

(* ffmpeg exits, or is killed ten seconds after its input was closed.      *)
StreamEnds(s) ==
    /\ Running(session[s])
    /\ Becomes(s, [session[s] EXCEPT !.stdin = <<>>, !.pcm = Append(@, End), !.stream = "eof"])
    /\ UNCHANGED <<provider, current, fed, finish, onDisk>>

(* _pump_pcm waits for room in the queue; for the terminator it does not.  *)
(* What it holds while it waits is still counted as being in the stream.   *)
Pumped(x) ==
    IF Len(x.queue) < QueueSize
      THEN [x EXCEPT !.pcm = Tail(@), !.queue = Append(@, Head(x.pcm))]
      ELSE IF Head(x.pcm) = End THEN [x EXCEPT !.pcm = Tail(@), !.swallowed = TRUE]
      ELSE x

Pump(s) ==
    /\ session[s].pcm # <<>> /\ Pumped(session[s]) # session[s]
    /\ Becomes(s, Pumped(session[s]))
    /\ UNCHANGED <<provider, current, fed, finish, onDisk>>

(* The pump raises over a block: it puts the terminator where it is, if    *)
(* there is room, and reads no more; ffmpeg is not told.                   *)
PumpOver(x) ==
    LET room == Len(x.queue) < QueueSize
    IN  [x EXCEPT !.pcm = <<>>, !.stdin = <<>>, !.stream = Unread(@),
                  !.queue = IF room THEN Append(@, End) ELSE @, !.swallowed = ~room]

PumpFails(s) ==
    /\ session[s].pcm # <<>> /\ Head(session[s].pcm) # End
    /\ Becomes(s, PumpOver(session[s]))
    /\ UNCHANGED <<provider, current, fed, finish, onDisk>>

-----------------------------------------------------------------------------
(* LiveCaptionManager.  Cancelling a session's task ends its run; what     *)
(* follows run() is done all the same.                                     *)
Cancelled(x) == IF x.run = "listening" THEN Over(x) ELSE x
Closed(x) ==
    [x EXCEPT !.stream = IF @ = "open" THEN "closing" ELSE IF @ = "unread" THEN "eof" ELSE @]
Collected(x) == Closed(Cancelled(x))

Offered(x, c) ==
    IF x.run # "listening" THEN x
      ELSE IF x.stream = "none"
      THEN IF Len(x.queue) < QueueSize THEN [x EXCEPT !.queue = Append(@, c)] ELSE x
      ELSE IF x.stream = "open" THEN [x EXCEPT !.stdin = Append(@, c)] ELSE x

Fresh == {s \in Sessions : session[s].run = "none"}

(* _feed_async, up to its first await: a session that takes the chunk, one *)
(* that cools down and leaves it, or a new one.                            *)
FeedSession ==
    /\ current # NoSession /\ session[current].failed = "no"
    /\ Becomes(current, Offered(session[current], fed + 1))
    /\ UNCHANGED current

FeedCooling ==
    /\ current # NoSession /\ session[current].failed = "cooling"
    /\ UNCHANGED <<session, current>>

(* A session that wants PCM is registered only once its decoder runs.      *)
FeedNew ==
    /\ current # NoSession => session[current].failed = "cooled"
    /\ \E s \in Fresh :
        /\ \A q \in Fresh : s <= q
        /\ Becomes(s, NewSession(fed + 1, WantsPcm))
        /\ current' = IF WantsPcm THEN NoSession ELSE s

Feed ==
    /\ fed < MaxFeeds /\ finish = NotYet /\ fed' = fed + 1
    /\ FeedSession \/ FeedCooling \/ FeedNew
    /\ UNCHANGED <<provider, finish, onDisk>>

Opened(x) ==
    IF x.run = "listening" THEN [x EXCEPT !.stream = "open", !.stdin = <<x.first>>]
      ELSE [x EXCEPT !.stream = "unread"]

StartOk(s) ==
    /\ session[s].stream = "starting"
    /\ Becomes(s, Opened(session[s]))
    /\ current' = s
    /\ UNCHANGED <<provider, fed, finish, onDisk>>

(* There is no ffmpeg: the session fails, and its task goes on listening.  *)
StartFails(s) ==
    /\ session[s].stream = "starting"
    /\ Becomes(s, [session[s] EXCEPT !.stream = "eof", !.failed = "cooling"])
    /\ UNCHANGED <<provider, current, fed, finish, onDisk>>

(* _garbage_collect, by the next feed of this recording or of another one, *)
(* when nothing was fed for SESSION_IDLE_TIMEOUT; shutdown does the same.  *)
Collect ==
    /\ current # NoSession
    /\ Becomes(current, Collected(session[current]))
    /\ current' = NoSession
    /\ UNCHANGED <<provider, fed, finish, onDisk>>

(* Mutant of Finished: a terminator that does not fit is dropped.           *)
FinishedIfRoom(x) ==
    IF x.run # "listening" \/ x.stream # "none" \/ Len(x.queue) >= QueueSize THEN Closed(x)
      ELSE [x EXCEPT !.queue = Append(@, End)]

(* _finish_async: complete has every chunk.  A session whose decoder is    *)
(* still starting is not registered and not found.                         *)
Finished(x) ==
    IF x.run # "listening" \/ x.stream # "none" THEN Closed(x)
      ELSE IF Len(x.queue) < QueueSize THEN [x EXCEPT !.queue = Append(@, End)]
      ELSE Cancelled(x)

Finish ==
    /\ finish = NotYet /\ fed > 0 /\ finish' = current
    /\ IF current = NoSession THEN UNCHANGED session
         ELSE Becomes(current, Finished(session[current]))
    /\ UNCHANGED <<provider, current, fed, onDisk>>

-----------------------------------------------------------------------------
(* _persist_transcript, in a thread of its own: it reads what is there,    *)
(* opens the file, which empties it, and writes.                           *)
(* The file is modelled by its parts, one for each session that wrote: its *)
(* lines are those of its parts, one part after the other.                 *)
IsFinal(line) == ~line.provisional
Finals(lines) == Restrict(lines, {i \in DOMAIN lines : IsFinal(lines[i])})
Saving(s) == session[s].run \in {"merging", "writing"}

NoFile == [state |-> "absent", parts |-> <<>>]
HalfFile == [state |-> "half", parts |-> <<>>]
WholeFile(parts) == [state |-> "whole", parts |-> parts]

(* Mutant of Earlier: the file is written anew.                             *)
EarlierNone == <<>>

Earlier == file.parts

ReadEarlier(s) ==
    /\ session[s].run = "over"
    /\ Becomes(s, [session[s] EXCEPT !.run = "merging", !.earlier = Earlier])
    /\ overlapped' = (overlapped \/ \E q \in Sessions \ {s} : Saving(q))
    /\ UNCHANGED <<provider, current, fed, finish, file, order, damaged>>

Truncate(s) ==
    /\ session[s].run = "merging"
    /\ Becomes(s, [session[s] EXCEPT !.run = "writing"])
    /\ file' = HalfFile
    /\ UNCHANGED <<provider, current, fed, finish, order, overlapped, damaged>>

Write(s) ==
    /\ session[s].run = "writing"
    /\ Becomes(s, [session[s] EXCEPT !.run = "saved", !.earlier = <<>>])
    /\ file' = WholeFile(Append(session[s].earlier, Finals(session[s].lines)))
    /\ order' = Append(order, s)
    /\ UNCHANGED <<provider, current, fed, finish, overlapped, damaged>>

SaveFails(s) ==
    /\ DiskMayFail /\ Saving(s)
    /\ Becomes(s, [session[s] EXCEPT !.run = "lost"])
    /\ damaged' = (damaged \/ session[s].run = "writing")
    /\ UNCHANGED <<provider, current, fed, finish, file, order, overlapped>>

(* The process dies, and ffmpeg with it; what a session has saved it has. *)
Dead(x) ==
    IF x.run = "none" THEN x
      ELSE [Over(x) EXCEPT !.run = IF x.run = "saved" THEN "saved" ELSE "lost",
                           !.failed = "no", !.stream = "eof"]

Crash ==
    /\ session' = [s \in Sessions |-> Dead(session[s])]
    /\ current' = NoSession
    /\ damaged' = (damaged \/ \E s \in Sessions : session[s].run = "writing")
    /\ UNCHANGED <<provider, fed, finish, file, order, overlapped>>

-----------------------------------------------------------------------------
Init ==
    /\ provider \in Providers
    /\ session = [s \in Sessions |-> NoSessionYet]
    /\ current = NoSession /\ fed = 0 /\ finish = NotYet
    /\ file = NoFile /\ order = <<>>
    /\ overlapped = FALSE /\ damaged = FALSE

Engine(s) == \/ EngineTakes(s) \/ EngineCloses(s) \/ EngineFails(s) \/ DeepgramHangsUp(s)
             \/ Cool(s)
Decoder(s) == StartOk(s) \/ StartFails(s) \/ Decode(s) \/ StreamEnds(s) \/ Pump(s)
              \/ PumpFails(s)
Persist(s) == ReadEarlier(s) \/ Truncate(s) \/ Write(s) \/ SaveFails(s)
Manager == Feed \/ Finish \/ Collect

Next == Manager \/ Crash \/ \E s \in Sessions : Engine(s) \/ Decoder(s) \/ Persist(s)

Spec == Init /\ [][Next]_vars

(* The event loop runs what is ready, an engine answers, ffmpeg works off  *)
(* its input and exits when that is closed, and threads run.  Nobody is    *)
(* sure to feed, to finish or to collect.                                  *)
Fairness ==
    \A s \in Sessions :
        /\ WF_vars(EngineTakes(s)) /\ WF_vars(EngineCloses(s))
        /\ WF_vars(Decode(s)) /\ WF_vars(session[s].stream = "closing" /\ StreamEnds(s))
        /\ WF_vars(Pump(s))
        /\ WF_vars(ReadEarlier(s)) /\ WF_vars(Truncate(s)) /\ WF_vars(Write(s))

LiveSpec == Spec /\ Fairness

-----------------------------------------------------------------------------
Lines == [chunk : 1 .. MaxFeeds, provisional : BOOLEAN]

Session ==
    [run : {"none", "listening", "over", "merging", "writing", "saved", "lost"},
     failed : {"no", "cooling", "cooled"},
     stream : {"none", "starting", "open", "closing", "unread", "eof"},
     first : 1 .. MaxFeeds + 1, heard : 0 .. MaxFeeds,
     stdin : Seq(1 .. MaxFeeds), pcm : Seq(0 .. MaxFeeds), queue : Seq(0 .. MaxFeeds),
     lines : Seq(Lines), shows : BOOLEAN, committed : 0 .. MaxFeeds,
     earlier : Seq(Seq(Lines)), swallowed : BOOLEAN]

(* The manager holds what it may hold, and the buffers their bounds: the   *)
(* queue its size, the decoded audio one block more than its limit and the *)
(* terminator, the lines one provisional line more than theirs.            *)
TypeOK ==
    /\ provider \in Providers
    /\ session \in [Sessions -> Session]
    /\ \A s \in Sessions : /\ Len(session[s].queue) <= QueueSize
                           /\ Len(session[s].pcm) <= PcmSize + 2
                           /\ Len(session[s].lines) <= MaxLines + 1
    /\ current \in Sessions \union {NoSession}
    /\ fed \in 0 .. MaxFeeds /\ finish \in Sessions \union {NoSession, NotYet}
    /\ file \in [state : {"absent", "half", "whole"}, parts : Seq(Seq(Lines))]
    /\ order \in Seq(Sessions) /\ overlapped \in BOOLEAN /\ damaged \in BOOLEAN

Rising(q) == \A i, j \in DOMAIN q : i < j => q[i] # End /\ (q[j] = End \/ q[i] < q[j])
NotFalling(q) == \A i, j \in DOMAIN q : i < j => q[i] <= q[j]
Before(p, q) == \A i \in DOMAIN p, j \in DOMAIN q : p[i] # End /\ (q[j] = End \/ p[i] < q[j])
Said(lines) == [i \in DOMAIN lines |-> lines[i].chunk]

Continuous(x) ==
    /\ Rising(x.stdin) /\ Rising(x.pcm) /\ Rising(x.queue)
    /\ Before(x.pcm, x.stdin) /\ Before(x.queue, x.stdin) /\ Before(x.queue, x.pcm)
    /\ \A q \in {x.queue, x.pcm, x.stdin} : Before(Said(x.lines), q)

LinesInOrder(x, p) ==
    IF p = "whisper" THEN NotFalling(Said(x.lines)) ELSE Rising(Said(x.lines))

(* "Order matters: the stream is continuous."  From ffmpeg's input to the  *)
(* engine, audio is neither overtaken nor handed over twice, nothing       *)
(* follows the terminator, and no line is of audio the engine has not been *)
(* handed, though blocks are dropped, the pump fails and sessions are      *)
(* replaced on the way.  The lines are in the order of the audio: no two   *)
(* of an engine that reports once are of the same audio, and one of        *)
(* Whisper's may be of audio that was printed already, but does not end    *)
(* before the line above it.                                               *)
InOrder ==
    \A s \in Sessions : Continuous(session[s]) /\ LinesInOrder(session[s], provider)

ShownLast(x) ==
    /\ \A i \in DOMAIN x.lines : x.lines[i].provisional => i = Len(x.lines)
    /\ x.shows <=> x.lines # <<>> /\ Last(x.lines).provisional

(* Speech in progress is the last line if it is there at all, and the flag *)
(* that lets _drop_provisional pop a line says so: a line somebody may     *)
(* rely on is never popped in its place.                                   *)
ProvisionalIsLast == \A s \in Sessions : ShownLast(session[s])

(* "A session keeps every line it produced": a final line stays where it   *)
(* is for the rest of the session, and stays final and as it was, whatever *)
(* is shown in between and whoever ends the session.  What Whisper's       *)
(* windows take back while it listens is the exception: a revision drops   *)
(* final lines and need not put another in their place.                    *)
FinalLinesStay ==
    [][\A s \in Sessions : \A i \in DOMAIN session[s].lines :
           IsFinal(session[s].lines[i]) =>
               \/ i \in DOMAIN session'[s].lines /\ session'[s].lines[i] = session[s].lines[i]
               \/ provider = "whisper" /\ session[s].run = "listening"]_vars

(* The file is the final lines of every session that ended, in the order   *)
(* they ended: a replacement does not throw away what was heard before the *)
(* failure.  Two sessions that write at a time, and a crash or a full disk *)
(* in the middle of a write, are the exceptions.                           *)
FileIsComplete ==
    overlapped \/ damaged \/ file.state # "whole"
        \/ file.parts = [i \in DOMAIN order |-> Finals(session[order[i]].lines)]

(* The session that finish found writes down what it heard, by itself,     *)
(* unless the terminator was lost on a full queue, the write failed or the *)
(* process died.                                                           *)
FinishedIsWritten ==
    \A s \in Sessions :
        finish = s ~> session[s].run \in {"saved", "lost"} \/ session[s].swallowed
=============================================================================
