------------------------------ MODULE TtsBridge ------------------------------
(***************************************************************************)
(* MeetTtsBridge (tts-bridge.ts), one per meeting: a speak() goes through  *)
(* its preflight (the memoized ffmpeg probe, the TTS provider), then a     *)
(* provider synthesis, an ffmpeg child and one long POST to the bot run    *)
(* side by side until all have ended.  The text, the PCM and the amplitude *)
(* tap are left out; the bot at the other end of the POST may answer, be   *)
(* gone, or never answer.                                                  *)
(***************************************************************************)
EXTENDS Naturals, FiniteSets

CONSTANTS
    Speaks,     \* calls of speak()
    StreamIds,
    IdOf,       \* the stream id of each call: a fresh UUID or the caller's own
    None

ASSUME BridgeConstants == IdOf \in [Speaks -> StreamIds] /\ None \notin Speaks

(* The ids when no caller gives one: a UUID is named after its call.       *)
FreshIds == [s \in Speaks |-> s]

VARIABLES
    phase,     \* of each call: idle, probing, resolving, window, returned, thrown
    post,      \* the POST: none, flying, played, failed
    synth,     \* the provider's synthesis: none, running, over
    abort,     \* the abort signal's reason: no, cancel, error
    streams,   \* the map of active streams, by id
    settled,   \* the calls whose POST and synthesis have both ended
    probe,     \* the memoized probe: unknown, available, missing
    bot,       \* is the bot's HTTP server there?
    awaited    \* the streams a leave's cancelAll() awaits

bridgeVars == <<phase, post, synth, abort, streams, settled, probe, bot, awaited>>

BridgeInit ==
    /\ phase = [s \in Speaks |-> "idle"]
    /\ post = [s \in Speaks |-> "none"]
    /\ synth = [s \in Speaks |-> "none"]
    /\ abort = [s \in Speaks |-> "no"]
    /\ streams = [i \in StreamIds |-> None]
    /\ settled = {}
    /\ probe = "unknown"
    /\ bot = TRUE
    /\ awaited = {}

Streaming(s) == phase[s] \in {"window", "returned", "thrown"} /\ post[s] # "none"
InFlight(s) == Streaming(s) /\ s \notin settled

(* An id that is already active is refused; else the probe, if it is not   *)
(* known yet.                                                              *)
CallSpeak(s) ==
    /\ phase[s] = "idle"
    /\ phase' = [phase EXCEPT ![s] =
           IF streams[IdOf[s]] # None \/ probe = "missing" THEN "thrown"
           ELSE IF probe = "unknown" THEN "probing" ELSE "resolving"]
    /\ UNCHANGED <<post, synth, abort, streams, settled, probe, bot, awaited>>

(* `ffmpeg -version` ran, is not installed, or failed for the moment: all  *)
(* callers share one promise, and a transient failure is not remembered.   *)
ProbeSettles ==
    /\ \E s \in Speaks : phase[s] = "probing"
    /\ \E found \in {"available", "missing", "unknown"} :
          /\ probe' = found
          /\ phase' = [s \in Speaks |-> IF phase[s] # "probing" THEN phase[s]
                                        ELSE IF found = "available" THEN "resolving" ELSE "thrown"]
    /\ UNCHANGED <<post, synth, abort, streams, settled, bot, awaited>>

ProviderUnavailable(s) ==
    /\ phase[s] = "resolving"
    /\ phase' = [phase EXCEPT ![s] = "thrown"]
    /\ UNCHANGED <<post, synth, abort, streams, settled, probe, bot, awaited>>

(* The provider is there: from here to the fast-fail window nothing is     *)
(* awaited.  The map is not looked at again.                               *)
StartStream(s) ==
    /\ phase[s] = "resolving"
    /\ phase' = [phase EXCEPT ![s] = "window"]
    /\ post' = [post EXCEPT ![s] = "flying"]
    /\ synth' = [synth EXCEPT ![s] = "running"]
    /\ streams' = [streams EXCEPT ![IdOf[s]] = s]
    /\ UNCHANGED <<abort, settled, probe, bot, awaited>>

(* The first reason of an abort signal stays.                              *)
Aborted(s, why) == abort' = [abort EXCEPT ![s] = IF @ = "no" THEN why ELSE @]

(* ffmpeg's error event; a binary that has gone missing is remembered.     *)
FfmpegFails(s) ==
    /\ InFlight(s)
    /\ Aborted(s, "error")
    /\ probe' \in {probe, "missing"}
    /\ UNCHANGED <<phase, post, synth, streams, settled, bot, awaited>>

(* The synthesis is through, or the provider rejects; stdin is closed.     *)
SynthesisEnds(s) ==
    /\ synth[s] = "running"
    /\ synth' = [synth EXCEPT ![s] = "over"]
    /\ UNCHANGED abort \/ Aborted(s, "error")
    /\ UNCHANGED <<phase, post, streams, settled, probe, bot, awaited>>

(* runPost(): a 200 that comes with an abort counts as the abort.          *)
PostPlayed(s) ==
    /\ post[s] = "flying" /\ bot /\ synth[s] = "over"
    /\ post' = [post EXCEPT ![s] = IF abort[s] = "no" THEN "played" ELSE "failed"]

(* Unreachable, refused by the bot, or aborted.                            *)
PostUnreachable(s) == post[s] = "flying" /\ ~bot /\ post' = [post EXCEPT ![s] = "failed"]
PostRejected(s)    == post[s] = "flying" /\ bot /\ post' = [post EXCEPT ![s] = "failed"]
PostAborted(s)     == post[s] = "flying" /\ abort[s] # "no" /\ post' = [post EXCEPT ![s] = "failed"]

PostSettles(s) ==
    /\ PostPlayed(s) \/ PostUnreachable(s) \/ PostRejected(s) \/ PostAborted(s)
    /\ phase' = [phase EXCEPT ![s] = IF @ # "window" THEN @
                                     ELSE IF post'[s] = "failed" THEN "thrown" ELSE "returned"]
    /\ UNCHANGED <<synth, abort, streams, settled, probe, bot, awaited>>

(* The fast-fail window ends with the POST still running.                  *)
WindowEnds(s) ==
    /\ phase[s] = "window" /\ post[s] = "flying"
    /\ phase' = [phase EXCEPT ![s] = "returned"]
    /\ UNCHANGED <<post, synth, abort, streams, settled, probe, bot, awaited>>

(* The finally of `settled`: ffmpeg is killed and the id leaves the map,   *)
(* whichever call holds it by now.                                         *)
SettleIfPlayed(s) ==   \* mutant: .then() instead of .finally()
    /\ InFlight(s) /\ post[s] = "played" /\ synth[s] = "over"
    /\ settled' = settled \cup {s}
    /\ streams' = [streams EXCEPT ![IdOf[s]] = None]
    /\ UNCHANGED <<phase, post, synth, abort, probe, bot, awaited>>
Settle(s) ==
    /\ InFlight(s) /\ post[s] # "flying" /\ synth[s] = "over"
    /\ settled' = settled \cup {s}
    /\ streams' = [streams EXCEPT ![IdOf[s]] = None]
    /\ UNCHANGED <<phase, post, synth, abort, probe, bot, awaited>>

(* speaking_ended's reason, from what the completion rejected with.        *)
Reason(s) == IF post[s] = "played" THEN "completed"
             ELSE IF abort[s] = "cancel" THEN "cancelled" ELSE "error"

(* cancelAll(): a snapshot of the map; each stream in it is aborted at     *)
(* once, and then awaited by who wants to.                                 *)
Snapshot == {streams[i] : i \in StreamIds} \ {None}
CancelAll ==
    /\ abort' = [s \in Speaks |-> IF s \in Snapshot /\ abort[s] = "no" THEN "cancel" ELSE abort[s]]
    /\ UNCHANGED <<phase, post, synth, streams, settled, probe, bot>>

(* Each cancel() returns when its DELETE has been answered or timed out    *)
(* and its stream has settled.                                             *)
CancelledWhenAborted(all) == \A s \in all : abort[s] # "no"   \* mutant: does not await the streams
Cancelled(all) == all \subseteq settled

BotGone ==
    /\ bot /\ bot' = FALSE
    /\ UNCHANGED <<phase, post, synth, abort, streams, settled, probe, awaited>>

BridgeTypeOK ==
    /\ phase \in [Speaks -> {"idle", "probing", "resolving", "window", "returned", "thrown"}]
    /\ post \in [Speaks -> {"none", "flying", "played", "failed"}]
    /\ synth \in [Speaks -> {"none", "running", "over"}]
    /\ abort \in [Speaks -> {"no", "cancel", "error"}]
    /\ streams \in [StreamIds -> Speaks \cup {None}]
    /\ settled \subseteq Speaks /\ bot \in BOOLEAN
    /\ probe \in {"unknown", "available", "missing"}
    /\ awaited \subseteq Speaks
=============================================================================
