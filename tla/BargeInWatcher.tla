--------------------------- MODULE BargeInWatcher ---------------------------
(***************************************************************************)
(* MeetBargeInWatcher (barge-in-watcher.ts): hears meet.speaking_started   *)
(* and meet.speaking_ended from the assistant's event hub and the speakers *)
(* of the meeting from the dispatcher, and asks for a cancelSpeak() a      *)
(* debounce after somebody else began to talk over the bot.  The debounce  *)
(* timer may fire at any time once it is set.                              *)
(***************************************************************************)
CONSTANT Streams   \* the stream ids the hub's events name

VARIABLES
    watching,        \* start() has been called and stop() has not
    botKnown,        \* the bot's own participant id has been seen
    activeStreams,   \* activeSpeakingStreams
    pendingCancel    \* the debounce timer is set

watcherVars == <<watching, botKnown, activeStreams, pendingCancel>>

WatcherInit ==
    /\ watching = TRUE /\ botKnown = FALSE
    /\ activeStreams = {} /\ pendingCancel = FALSE

WatcherIdle == UNCHANGED watcherVars

SpeakingStarted(id) ==
    IF ~watching THEN WatcherIdle
    ELSE /\ activeStreams' = activeStreams \cup {id}
         /\ pendingCancel' = FALSE
         /\ UNCHANGED <<watching, botKnown>>

SpeakingEnded(id) ==
    IF ~watching THEN WatcherIdle
    ELSE /\ activeStreams' = activeStreams \ {id}
         /\ pendingCancel' = (pendingCancel /\ activeStreams' # {})
         /\ UNCHANGED <<watching, botKnown>>

(* participant.change: the first participant that is the bot itself.       *)
SelfJoined ==
    /\ watching /\ ~botKnown
    /\ botKnown' = TRUE
    /\ UNCHANGED <<watching, activeStreams, pendingCancel>>

(* The timer that is set keeps its deadline.                               *)
ScheduleCancel == pendingCancel' = TRUE /\ UNCHANGED <<watching, botKnown, activeStreams>>

(* speaker.change: the bot's own tile clears the timer, once it is known.  *)
SpeakerChange(isBot) ==
    IF ~watching \/ activeStreams = {} THEN WatcherIdle
    ELSE IF isBot /\ botKnown
         THEN pendingCancel' = FALSE /\ UNCHANGED <<watching, botKnown, activeStreams>>
         ELSE ScheduleCancel

(* A confident interim transcript that is not attributed to the bot.       *)
InterimChunkOfKnown ==   \* mutant: dropped until the bot's own id is known
    IF ~watching \/ activeStreams = {} \/ ~botKnown THEN WatcherIdle ELSE ScheduleCancel
InterimChunk == IF ~watching \/ activeStreams = {} THEN WatcherIdle ELSE ScheduleCancel

(* The debounce is over; cancelSpeak() is called if the bot still speaks.  *)
DebounceFires ==
    /\ pendingCancel
    /\ pendingCancel' = FALSE
    /\ UNCHANGED <<watching, botKnown, activeStreams>>

StopWatcher ==
    /\ watching' = FALSE /\ pendingCancel' = FALSE /\ activeStreams' = {}
    /\ UNCHANGED botKnown

WatcherTypeOK ==
    /\ watching \in BOOLEAN /\ botKnown \in BOOLEAN /\ pendingCancel \in BOOLEAN
    /\ activeStreams \subseteq Streams
=============================================================================
