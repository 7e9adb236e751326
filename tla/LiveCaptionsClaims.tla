------------------------- MODULE LiveCaptionsClaims -------------------------
(***************************************************************************)
(* What comments of the code say of live captions and the code does not    *)
(* keep; TLC refutes each of them (README.md).                             *)
(***************************************************************************)
EXTENDS LiveCaptions

(* "A session keeps every line it produced" (live_captions.py:19): no      *)
(* engine takes a final line back.                                         *)
SessionKeepsEveryLine ==
    [][\A s \in Sessions : \A i \in DOMAIN session[s].lines :
           IsFinal(session[s].lines[i]) => i \in DOMAIN session'[s].lines]_vars

(* "One long-lived ffmpeg per recording" (live_audio.py:8): two sessions   *)
(* of a recording never have one each.                                     *)
OneDecoderPerRecording ==
    \A s, t \in Sessions :
        session[s].stream \in {"open", "unread"} /\ session[t].stream \in {"open", "unread"}
            => s = t

(* "Closing ffmpeg's stdin flushes the tail, then _pump_pcm ends the       *)
(* queue" (live_captions.py:782): the session that is finished ends.       *)
FinishEndsTheSession ==
    \A s \in Sessions : finish = s ~> session[s].run # "listening"
=============================================================================
