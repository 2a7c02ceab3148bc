------------------------------ MODULE MeetVoice ------------------------------
(***************************************************************************)
(* The voice of one meeting: session-manager.ts's speak() over a TtsBridge,*)
(* its speaking events on their way through the hub to the                 *)
(* BargeInWatcher, the watcher's cancelSpeak() back to the bridge, and a   *)
(* leave() that stops the watcher, cancels what speaks, forgets the        *)
(* session and removes the container.                                      *)
(***************************************************************************)
EXTENDS TtsBridge, Sequences

VARIABLES watching, botKnown, activeStreams, pendingCancel
Watcher == INSTANCE BargeInWatcher WITH Streams <- StreamIds

VARIABLES
    session,    \* present, leaving (in the await of cancelAll), gone
    hub,        \* speaking events that have not reached the watcher
    announced,  \* calls whose meet.speaking_started was published
    ended,      \* calls whose meet.speaking_ended was published
    floor       \* who talked last: the bot (or nobody), or a human

voiceVars == <<session, hub, announced, ended, floor>>
watcherVars == <<watching, botKnown, activeStreams, pendingCancel>>
vars == <<bridgeVars, watcherVars, voiceVars>>

Init ==
    /\ BridgeInit /\ Watcher!WatcherInit
    /\ session = "present" /\ hub = <<>>
    /\ announced = {} /\ ended = {} /\ floor = "bot"

(* publishMeetEvent() for what this step has made of the calls: started    *)
(* when speak() returns, ended when the completion of a returned call      *)
(* settles.                                                                *)
Started(s) == phase'[s] = "returned" /\ s \notin announced
EndedIfPlayed(s) ==   \* mutant: no event when the completion rejects
    phase'[s] = "returned" /\ s \in settled' /\ s \notin ended /\ post'[s] = "played"
Ended(s)   == phase'[s] = "returned" /\ s \in settled' /\ s \notin ended
Published(s) ==
    (IF Started(s) THEN <<[type |-> "started", id |-> IdOf[s]]>> ELSE <<>>)
        \o (IF Ended(s) THEN <<[type |-> "ended", id |-> IdOf[s]]>> ELSE <<>>)
Publish(s) ==
    /\ hub' = hub \o Published(s)
    /\ announced' = IF Started(s) THEN announced \cup {s} ELSE announced
    /\ ended' = IF Ended(s) THEN ended \cup {s} ELSE ended
    /\ UNCHANGED <<session, floor>> /\ Watcher!WatcherIdle

(* speak(): a session that is not in the map is not found.                 *)
Speak(s) == session # "gone" /\ CallSpeak(s) /\ UNCHANGED voiceVars /\ Watcher!WatcherIdle

Preflight ==
    /\ ProbeSettles \/ \E s \in Speaks : ProviderUnavailable(s) \/ StartStream(s)
    /\ UNCHANGED voiceVars /\ Watcher!WatcherIdle
StreamRuns ==
    /\ \E s \in Speaks : FfmpegFails(s) \/ SynthesisEnds(s)
    /\ UNCHANGED voiceVars /\ Watcher!WatcherIdle
StreamEnds(s) == (PostSettles(s) \/ WindowEnds(s) \/ Settle(s)) /\ Publish(s)

HubDelivers ==
    /\ hub # <<>>
    /\ hub' = Tail(hub)
    /\ IF Head(hub).type = "started" THEN Watcher!SpeakingStarted(Head(hub).id)
                                     ELSE Watcher!SpeakingEnded(Head(hub).id)
    /\ UNCHANGED <<bridgeVars, session, announced, ended, floor>>

(* The meeting: the bot's tile appears, the floor changes hands, and who   *)
(* has it is transcribed.                                                  *)
SelfJoins == Watcher!SelfJoined /\ UNCHANGED <<bridgeVars, voiceVars>>
FloorPasses ==
    /\ floor' \in {"bot", "human"} \ {floor}
    /\ Watcher!SpeakerChange(floor' = "bot")
    /\ UNCHANGED <<bridgeVars, session, hub, announced, ended>>
HumanIsTranscribed ==
    /\ floor = "human"
    /\ Watcher!InterimChunk
    /\ UNCHANGED <<bridgeVars, voiceVars>>

(* The timer calls cancelSpeak() unless the bot has fallen silent, and     *)
(* does not wait for it.                                                   *)
BargeIn ==
    /\ Watcher!DebounceFires
    /\ IF activeStreams # {} /\ session # "gone"
       THEN CancelAll /\ UNCHANGED awaited ELSE UNCHANGED bridgeVars
    /\ UNCHANGED voiceVars

(* leave(): the watcher is stopped, then cancelAll() is awaited with the   *)
(* session still in the map, then the session goes and the bot with it.    *)
Leave ==
    /\ session = "present" /\ session' = "leaving"
    /\ Watcher!StopWatcher
    /\ CancelAll /\ awaited' = Snapshot
    /\ UNCHANGED <<hub, announced, ended, floor>>
DropSession ==
    /\ session = "leaving" /\ session' = "gone"
    /\ Cancelled(awaited)
    /\ UNCHANGED <<hub, announced, ended, floor>>
    /\ UNCHANGED bridgeVars /\ Watcher!WatcherIdle
BotDies == BotGone /\ UNCHANGED voiceVars /\ Watcher!WatcherIdle

Next ==
    \/ \E s \in Speaks : Speak(s) \/ StreamEnds(s)
    \/ Preflight \/ StreamRuns \/ HubDelivers
    \/ SelfJoins \/ FloorPasses \/ HumanIsTranscribed
    \/ BargeIn \/ Leave \/ DropSession \/ BotDies

Spec == Init /\ [][Next]_vars

(* A provider honours its abort signal and otherwise comes to an end, the  *)
(* probe and the factory answer, events and timers are delivered, a human  *)
(* who keeps the floor is transcribed, and leave() removes the container.  *)
(* The bot owes nobody an answer: a POST may fly for ever.                 *)
Progress ==
    \/ Preflight \/ HubDelivers \/ DropSession
    \/ \E s \in Speaks : \/ SynthesisEnds(s) /\ UNCHANGED voiceVars /\ Watcher!WatcherIdle
                         \/ (PostAborted(s) \/ PostUnreachable(s)) /\ StreamEnds(s)
                         \/ (WindowEnds(s) \/ Settle(s)) /\ Publish(s)
    \/ session = "gone" /\ BotDies
Fairness == WF_vars(Progress) /\ WF_vars(HumanIsTranscribed) /\ WF_vars(BargeIn)

FairSpec == Spec /\ Fairness
-----------------------------------------------------------------------------
TypeOK ==
    /\ BridgeTypeOK /\ Watcher!WatcherTypeOK
    /\ session \in {"present", "leaving", "gone"}
    /\ announced \subseteq Speaks /\ ended \subseteq announced
    /\ floor \in {"bot", "human"}

(* leave() cancels "so orphan playback doesn't try to talk to a bot        *)
(* container that's about to be removed": when the session is forgotten,   *)
(* every stream that was in the map at the call is over, synthesis, ffmpeg *)
(* and POST.  (Not those that were in their preflight, or that another     *)
(* call under the same id had displaced.)                                  *)
CancelIsComplete ==
    session = "gone" => \A s \in awaited : post[s] # "flying" /\ s \in settled

(* What the watcher takes the bot to be saying is what the bridge has in   *)
(* flight, once the hub has delivered: no utterance stays active after its *)
(* end, whichever way it ended.                                            *)
WatcherFollowsTheVoice ==
    watching /\ hub = <<>> => \A i \in activeStreams : \E s \in Speaks : InFlight(s) /\ IdOf[s] = i

(* Both, over well-typed states.                                           *)
VoiceIsAccountedFor == TypeOK /\ CancelIsComplete /\ WatcherFollowsTheVoice

(* leave() gets past cancelAll() though the bot never answers, and no      *)
(* stream outlives the container, not even one that was in its preflight   *)
(* when cancelAll() took its snapshot: it ends, and its id leaves the map. *)
LeaveSilences ==
    session # "present" ~> session = "gone" /\ \A s \in Speaks : ~InFlight(s)

(* A human who goes on talking over an announced utterance silences it:    *)
(* the utterance ends, or the human stops, or the meeting is left.         *)
HumanIsHeard ==
    \A s \in Speaks :
        s \in announced \ ended ~> s \in ended \/ floor # "human" \/ ~watching
=============================================================================
