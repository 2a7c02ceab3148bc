--------------------------- MODULE MeetVoiceProofs ---------------------------
(***************************************************************************)
(* Proofs about MeetVoice, for any number of utterances under any stream   *)
(* ids, even shared ones: when the session is forgotten, what leave() set  *)
(* out to cancel is over, and what the barge-in watcher takes the bot to   *)
(* be saying is in flight.                                                 *)
(***************************************************************************)
EXTENDS MeetVoice, SequenceTheorems, TLAPS

Event == [type : {"started", "ended"}, id : StreamIds]

(* Stream i is active once the watcher has had the events of q: it is      *)
(* started in q, or active before it, and not ended afterwards.            *)
AliveAfter(q, active, i) ==
    \/ i \in active /\ \A m \in DOMAIN q : q[m] # [type |-> "ended", id |-> i]
    \/ \E n \in DOMAIN q :
           /\ q[n] = [type |-> "started", id |-> i]
           /\ \A m \in DOMAIN q : m > n => q[m] # [type |-> "ended", id |-> i]

(* Calls announced as speaking and not as silent again.                    *)
Speaking == announced \ ended

(* Where a call stands: a window is open only over a flying POST, an       *)
(* announced call has returned, one not yet reported as ended has not      *)
(* settled, and a settled one has no POST.                                 *)
CallsStand ==
    \A s \in Speaks :
        /\ phase[s] = "window" => post[s] = "flying"
        /\ phase[s] = "returned" => post[s] # "none"
        /\ s \in announced => phase[s] = "returned"
        /\ s \in Speaking => s \notin settled
        /\ s \in settled => phase[s] \in {"returned", "thrown"} /\ post[s] \in {"played", "failed"}

(* What leave() awaits has settled before the session is forgotten.        *)
AwaitedSettles == session = "gone" => awaited \subseteq settled

(* A stream the watcher has, or is about to have, is one of a call that    *)
(* speaks.                                                                 *)
WatcherWillFollow ==
    watching => \A i \in StreamIds :
        AliveAfter(hub, activeStreams, i) => \E s \in Speaking : IdOf[s] = i

VoiceInv ==
    /\ TypeOK /\ hub \in Seq(Event)
    /\ CallsStand /\ AwaitedSettles /\ WatcherWillFollow

-----------------------------------------------------------------------------
(* The hub's events.                                                       *)

(* An event that is published speaks of its own stream only: the others    *)
(* are as active as they were, and one that ends is not active any more.   *)
LEMMA AlivePublished ==
    ASSUME NEW q \in Seq(Event), NEW active, NEW i, NEW j, NEW type \in {"started", "ended"},
           AliveAfter(Append(q, [type |-> type, id |-> j]), active, i)
    PROVE  \/ type = "started" /\ i = j
           \/ AliveAfter(q, active, i) /\ (type = "ended" => i # j)
  <1> DEFINE e == [type |-> type, id |-> j]
             longer == Append(q, e)
  <1>1. /\ DOMAIN q = 1..Len(q) /\ Len(q) \in Nat
        /\ DOMAIN longer = 1..(Len(q) + 1)
        /\ longer[Len(q) + 1] = e
        /\ \A n \in 1..Len(q) : longer[n] = q[n]
    <2>1. q \in Seq(Event \cup {e})
      BY SeqMonotonic, LenProperties
    <2> QED
      BY <2>1, LenProperties, AppendProperties
  <1>2. type = "ended" => i # j
    <2> SUFFICES ASSUME type = "ended", i = j PROVE FALSE
      OBVIOUS
    <2>1. longer[Len(q) + 1] = [type |-> "ended", id |-> i]
      BY <1>1
    <2>2. Len(q) + 1 \in DOMAIN longer /\ \A n \in DOMAIN longer : n <= Len(q) + 1
      BY <1>1
    <2>3. \A n \in DOMAIN longer : longer[n] = [type |-> "started", id |-> i] => n # Len(q) + 1
      BY <2>1
    <2> QED
      BY <1>1, <2>1, <2>2, <2>3 DEF AliveAfter
  <1>3. CASE i \in active /\ \A m \in DOMAIN longer : longer[m] # [type |-> "ended", id |-> i]
    BY <1>1, <1>2, <1>3 DEF AliveAfter
  <1>4. ASSUME NEW n \in DOMAIN longer, longer[n] = [type |-> "started", id |-> i],
               \A m \in DOMAIN longer : m > n => longer[m] # [type |-> "ended", id |-> i]
        PROVE  (type = "started" /\ i = j) \/ AliveAfter(q, active, i)
    <2>1. CASE n = Len(q) + 1
      BY <1>1, <1>4, <2>1
    <2>2. CASE n \in 1..Len(q)
      BY <1>1, <1>4, <2>2 DEF AliveAfter
    <2> QED
      BY <1>1, <2>1, <2>2
  <1> QED
    BY <1>2, <1>3, <1>4 DEF AliveAfter

(* The same, of an event that ends a stream.                               *)
LEMMA AliveEnded ==
    ASSUME NEW q \in Seq(Event), NEW active, NEW i, NEW j,
           AliveAfter(Append(q, [type |-> "ended", id |-> j]), active, i)
    PROVE  i # j /\ AliveAfter(q, active, i)
  <1>1. "ended" \in {"started", "ended"} /\ "ended" # "started"
    OBVIOUS
  <1> QED
    BY <1>1, AlivePublished

(* What the watcher makes of an event is what the event stood for.         *)
LEMMA AliveDelivered ==
    ASSUME NEW q \in Seq(Event), q # <<>>, NEW active, NEW after, NEW i,
           after = IF Head(q).type = "started" THEN active \cup {Head(q).id} ELSE active \ {Head(q).id},
           AliveAfter(Tail(q), after, i)
    PROVE  AliveAfter(q, active, i)
  <1>1. /\ Len(q) \in Nat \ {0} /\ DOMAIN q = 1..Len(q)
        /\ Head(q) = q[1] /\ q[1] \in Event
        /\ DOMAIN Tail(q) = 1..(Len(q) - 1)
        /\ \A n \in 1..(Len(q) - 1) : Tail(q)[n] = q[n + 1]
    BY HeadTailProperties, LenProperties, EmptySeq, ElementOfSeq
  <1>2. \A m \in 2..Len(q) : m - 1 \in DOMAIN Tail(q) /\ q[m] = Tail(q)[m - 1]
    BY <1>1
  <1>3. CASE i \in after /\ \A m \in DOMAIN Tail(q) : Tail(q)[m] # [type |-> "ended", id |-> i]
    <2>1. \A m \in 2..Len(q) : q[m] # [type |-> "ended", id |-> i]
      BY <1>2, <1>3
    <2>2. CASE Head(q).type = "started" /\ i = Head(q).id
      <3>1. q[1] = [type |-> "started", id |-> i]
        BY <1>1, <2>2 DEF Event
      <3> QED
        BY <1>1, <2>1, <3>1 DEF AliveAfter
    <2>3. CASE ~(Head(q).type = "started" /\ i = Head(q).id)
      <3>1. i \in active /\ q[1] # [type |-> "ended", id |-> i]
        BY <1>1, <1>3, <2>3
      <3>2. \A m \in DOMAIN q : q[m] # [type |-> "ended", id |-> i]
        BY <1>1, <2>1, <3>1
      <3> QED
        BY <3>1, <3>2 DEF AliveAfter
    <2> QED
      BY <2>2, <2>3
  <1>4. ASSUME NEW n \in DOMAIN Tail(q), Tail(q)[n] = [type |-> "started", id |-> i],
               \A m \in DOMAIN Tail(q) : m > n => Tail(q)[m] # [type |-> "ended", id |-> i]
        PROVE  AliveAfter(q, active, i)
    <2>1. n + 1 \in DOMAIN q /\ q[n + 1] = [type |-> "started", id |-> i]
      BY <1>1, <1>4
    <2>2. \A m \in DOMAIN q : m > n + 1 => m \in 2..Len(q) /\ m - 1 > n
      BY <1>1
    <2>3. \A m \in DOMAIN q : m > n + 1 => q[m] # [type |-> "ended", id |-> i]
      BY <1>2, <1>4, <2>2
    <2> QED
      BY <2>1, <2>3 DEF AliveAfter
  <1> QED
    BY <1>3, <1>4 DEF AliveAfter

StartOf(s) == [type |-> "started", id |-> IdOf[s]]
EndOf(s) == [type |-> "ended", id |-> IdOf[s]]

(* What Publish adds to the hub, event by event.                           *)
LEMMA PublishedEvents ==
    ASSUME NEW s \in Speaks, Publish(s), hub \in Seq(Event)
    PROVE  /\ StartOf(s) \in Event /\ EndOf(s) \in Event
           /\ ~Started(s) /\ ~Ended(s) => hub' = hub
           /\ Started(s) /\ ~Ended(s) => hub' = Append(hub, StartOf(s))
           /\ ~Started(s) /\ Ended(s) => hub' = Append(hub, EndOf(s))
           /\ Started(s) /\ Ended(s) => hub' = Append(Append(hub, StartOf(s)), EndOf(s))
  <1>1. StartOf(s) \in Event /\ EndOf(s) \in Event
    BY BridgeConstants DEF StartOf, EndOf, Event
  <1>2. /\ <<StartOf(s)>> \in Seq(Event) /\ <<EndOf(s)>> \in Seq(Event) /\ << >> \in Seq(Event)
    BY <1>1, EmptySeq
  <1>3. hub' = hub \o Published(s)
    BY DEF Publish
  <1>4. CASE ~Started(s) /\ ~Ended(s)
    BY <1>2, <1>3, <1>4, ConcatEmptySeq DEF Published
  <1>5. CASE Started(s) /\ ~Ended(s)
    <2>1. Published(s) = <<StartOf(s)>>
      BY <1>2, <1>5, ConcatEmptySeq DEF Published, StartOf
    <2> QED
      BY <1>1, <1>3, <1>5, <2>1, AppendIsConcat
  <1>6. CASE ~Started(s) /\ Ended(s)
    <2>1. Published(s) = <<EndOf(s)>>
      BY <1>2, <1>6, ConcatEmptySeq DEF Published, EndOf
    <2> QED
      BY <1>1, <1>3, <1>6, <2>1, AppendIsConcat
  <1>7. CASE Started(s) /\ Ended(s)
    <2>1. Published(s) = <<StartOf(s)>> \o <<EndOf(s)>>
      BY <1>7 DEF Published, EndOf, StartOf
    <2>2. hub' = (hub \o <<StartOf(s)>>) \o <<EndOf(s)>>
      BY <1>2, <1>3, <2>1, ConcatAssociative
    <2>3. hub \o <<StartOf(s)>> = Append(hub, StartOf(s)) /\ hub \o <<StartOf(s)>> \in Seq(Event)
      BY <1>1, AppendIsConcat, AppendProperties
    <2> QED
      BY <1>1, <1>7, <2>2, <2>3, AppendIsConcat
  <1> QED
    BY <1>1, <1>4, <1>5, <1>6, <1>7

(* Publishing keeps what the watcher will hear in step with who speaks.    *)
LEMMA PublishFollows ==
    ASSUME NEW s \in Speaks, Publish(s), hub \in Seq(Event), WatcherWillFollow,
           announced \subseteq Speaks, ended \subseteq announced
    PROVE  /\ hub' \in Seq(Event) /\ WatcherWillFollow'
           /\ announced' \subseteq Speaks /\ ended' \subseteq announced'
  <1>1. /\ announced' = IF Started(s) THEN announced \cup {s} ELSE announced
        /\ ended' = IF Ended(s) THEN ended \cup {s} ELSE ended
        /\ UNCHANGED <<watching, activeStreams>>
    BY DEF Publish, Watcher!WatcherIdle, Watcher!watcherVars
  <1>2. Ended(s) => s \in announced'
    BY <1>1 DEF Started, Ended
  <1>3. hub' \in Seq(Event)
    BY PublishedEvents, AppendProperties
  <1>4. ASSUME watching, NEW i \in StreamIds, AliveAfter(hub', activeStreams, i)
        PROVE  \E t \in Speaking' : IdOf[t] = i
    <2>1. AliveAfter(hub, activeStreams, i) => \E t \in Speaking : IdOf[t] = i
      BY <1>4 DEF WatcherWillFollow
    <2>2. CASE ~Started(s) /\ ~Ended(s)
      BY <1>1, <1>4, <2>1, <2>2, PublishedEvents DEF Speaking
    <2>3. CASE Started(s) /\ ~Ended(s)
      <3>1. i = IdOf[s] \/ AliveAfter(hub, activeStreams, i)
        BY <1>4, <2>3, PublishedEvents, AlivePublished DEF StartOf
      <3>2. s \in Speaking' /\ Speaking \subseteq Speaking'
        BY <1>1, <2>3 DEF Speaking, Started
      <3> QED
        BY <2>1, <3>1, <3>2
    <2>4. CASE Ended(s)
      <3>1. i # IdOf[s] /\ (i = IdOf[s] \/ AliveAfter(hub, activeStreams, i))
        <4>1. CASE ~Started(s)
          <5>1. AliveAfter(Append(hub, EndOf(s)), activeStreams, i)
            BY <1>4, <2>4, <4>1, PublishedEvents
          <5> QED
            BY <5>1, AliveEnded DEF EndOf
        <4>2. CASE Started(s)
          <5>1. Append(hub, StartOf(s)) \in Seq(Event)
            BY PublishedEvents, AppendProperties
          <5>2. i # IdOf[s] /\ AliveAfter(Append(hub, StartOf(s)), activeStreams, i)
            <6>1. AliveAfter(Append(Append(hub, StartOf(s)), EndOf(s)), activeStreams, i)
              BY <1>4, <2>4, <4>2, PublishedEvents
            <6> QED
              BY <5>1, <6>1, AliveEnded DEF EndOf
          <5> QED
            BY <5>2, AlivePublished DEF StartOf
        <4> QED
          BY <4>1, <4>2
      <3>2. \A t \in Speaking : t # s => t \in Speaking'
        BY <1>1 DEF Speaking
      <3> QED
        BY <2>1, <3>1, <3>2
    <2> QED
      BY <2>2, <2>3, <2>4
  <1> QED
    BY <1>1, <1>2, <1>3, <1>4 DEF WatcherWillFollow

-----------------------------------------------------------------------------
(* The steps of the bridge.                                                *)

(* Every step of a call keeps the bridge well typed and the calls where    *)
(* they stand.                                                             *)
Standing == BridgeTypeOK /\ announced \subseteq Speaks /\ CallsStand

(* What stays the same on the session's side in a step of the bridge.      *)
LEMMA BridgeQuiet ==
    ASSUME Standing, UNCHANGED <<announced, ended>>,
           \/ \E s \in Speaks : \/ CallSpeak(s) \/ ProviderUnavailable(s) \/ StartStream(s)
                                \/ FfmpegFails(s) \/ SynthesisEnds(s)
           \/ ProbeSettles \/ (CancelAll /\ awaited' \in {awaited, Snapshot}) \/ BotGone
           \/ UNCHANGED bridgeVars
    PROVE  Standing' /\ settled' = settled
  <1>t. /\ BridgeTypeOK /\ announced \subseteq Speaks /\ CallsStand
        /\ announced' = announced /\ Speaking' = Speaking
    BY DEF Standing, Speaking
  <1>1. ASSUME NEW s \in Speaks, CallSpeak(s) PROVE Standing' /\ settled' = settled
    BY <1>1, <1>t DEF CallSpeak, BridgeTypeOK, CallsStand, Standing
  <1>2. ASSUME NEW s \in Speaks, ProviderUnavailable(s) PROVE Standing' /\ settled' = settled
    BY <1>2, <1>t DEF ProviderUnavailable, BridgeTypeOK, CallsStand, Standing
  <1>3. ASSUME NEW s \in Speaks, StartStream(s) PROVE Standing' /\ settled' = settled
    BY <1>3, <1>t, BridgeConstants DEF StartStream, BridgeTypeOK, CallsStand, Standing
  <1>4. ASSUME NEW s \in Speaks, FfmpegFails(s) \/ SynthesisEnds(s) PROVE Standing' /\ settled' = settled
    <2>1. /\ UNCHANGED <<phase, post, streams, settled, bot, awaited>>
          /\ UNCHANGED abort \/ Aborted(s, "error")
          /\ UNCHANGED synth \/ synth' = [synth EXCEPT ![s] = "over"]
          /\ probe' \in {probe, "missing"}
      BY <1>4 DEF FfmpegFails, SynthesisEnds
    <2>2. abort' \in [Speaks -> {"no", "cancel", "error"}]
      BY <2>1, <1>t DEF Aborted, BridgeTypeOK
    <2> QED
      BY <2>1, <2>2, <1>t DEF BridgeTypeOK, CallsStand, Standing
  <1>5. CASE ProbeSettles
    BY <1>5, <1>t DEF ProbeSettles, BridgeTypeOK, CallsStand, Standing
  <1>6. CASE CancelAll /\ awaited' \in {awaited, Snapshot}
    <2>1. awaited' \subseteq Speaks
      BY <1>6, <1>t DEF Snapshot, BridgeTypeOK
    <2>2. abort' \in [Speaks -> {"no", "cancel", "error"}]
      BY <1>6, <1>t DEF CancelAll, BridgeTypeOK
    <2> QED
      BY <1>6, <1>t, <2>1, <2>2 DEF CancelAll, BridgeTypeOK, CallsStand, Standing
  <1>7. CASE BotGone \/ UNCHANGED bridgeVars
    BY <1>7, <1>t DEF BotGone, bridgeVars, BridgeTypeOK, CallsStand, Standing
  <1> QED
    BY <1>1, <1>2, <1>3, <1>4, <1>5, <1>6, <1>7

(* A POST that settles, a window that ends or a stream that settles moves  *)
(* its own call on, and publishes what that makes of it.                   *)
LEMMA StreamEndStands ==
    ASSUME Standing, ended \subseteq announced, NEW s \in Speaks, StreamEnds(s)
    PROVE  Standing' /\ settled \subseteq settled' /\ UNCHANGED awaited
  <1>t. /\ BridgeTypeOK /\ announced \subseteq Speaks /\ CallsStand
        /\ announced' = (IF Started(s) THEN announced \cup {s} ELSE announced)
        /\ ended' = (IF Ended(s) THEN ended \cup {s} ELSE ended)
    BY DEF Standing, StreamEnds, Publish
  <1>1. CASE PostSettles(s)
    <2>1. /\ post[s] = "flying" /\ s \notin settled
          /\ \E how \in {"played", "failed"} : post' = [post EXCEPT ![s] = how]
          /\ \E next \in {phase[s], "thrown", "returned"} :
                phase' = [phase EXCEPT ![s] = next] /\ next # "window"
          /\ phase[s] # "window" => phase' = phase
          /\ UNCHANGED <<synth, abort, streams, settled, probe, bot, awaited>>
      BY <1>1, <1>t DEF PostSettles, PostPlayed, PostUnreachable, PostRejected, PostAborted,
                        BridgeTypeOK, CallsStand
    <2>2. BridgeTypeOK'
      BY <2>1, <1>t DEF BridgeTypeOK
    <2>3. CallsStand'
      BY <2>1, <1>t DEF CallsStand, BridgeTypeOK, Started, Ended, Speaking
    <2> QED
      BY <2>1, <2>2, <2>3, <1>t DEF Standing
  <1>2. CASE WindowEnds(s)
    <2>1. /\ phase[s] = "window" /\ post[s] = "flying" /\ s \notin settled
          /\ phase' = [phase EXCEPT ![s] = "returned"]
          /\ UNCHANGED <<post, synth, abort, streams, settled, probe, bot, awaited>>
      BY <1>2, <1>t DEF WindowEnds, CallsStand
    <2>2. BridgeTypeOK'
      BY <2>1, <1>t DEF BridgeTypeOK
    <2>3. CallsStand'
      BY <2>1, <1>t DEF CallsStand, BridgeTypeOK, Started, Ended, Speaking
    <2> QED
      BY <2>1, <2>2, <2>3, <1>t DEF Standing
  <1>3. CASE Settle(s)
    <2>1. /\ phase[s] \in {"returned", "thrown"} /\ post[s] \in {"played", "failed"}
          /\ settled' = settled \cup {s}
          /\ streams' = [streams EXCEPT ![IdOf[s]] = None]
          /\ UNCHANGED <<phase, post, synth, abort, probe, bot, awaited>>
      BY <1>3, <1>t DEF Settle, InFlight, Streaming, CallsStand, BridgeTypeOK
    <2>2. BridgeTypeOK'
      BY <2>1, <1>t DEF BridgeTypeOK
    <2>3. CallsStand'
      BY <2>1, <1>t DEF CallsStand, BridgeTypeOK, Started, Ended, Speaking
    <2> QED
      BY <2>1, <2>2, <2>3, <1>t DEF Standing
  <1> QED
    BY <1>1, <1>2, <1>3 DEF StreamEnds

-----------------------------------------------------------------------------
(* The watcher's steps, and the whole.                                     *)

(* The watcher's types hold whatever reaches it.                           *)
LEMMA WatcherTyped ==
    ASSUME Watcher!WatcherTypeOK,
           \/ \E id \in StreamIds : Watcher!SpeakingStarted(id) \/ Watcher!SpeakingEnded(id)
           \/ Watcher!SelfJoined \/ Watcher!InterimChunk \/ \E b \in BOOLEAN : Watcher!SpeakerChange(b)
           \/ Watcher!DebounceFires \/ Watcher!StopWatcher \/ Watcher!WatcherIdle
    PROVE  Watcher!WatcherTypeOK'
  <1>1. ASSUME NEW id \in StreamIds, Watcher!SpeakingStarted(id) PROVE Watcher!WatcherTypeOK'
    BY <1>1 DEF Watcher!SpeakingStarted, Watcher!WatcherTypeOK, Watcher!WatcherIdle, Watcher!watcherVars
  <1>2. ASSUME NEW id \in StreamIds, Watcher!SpeakingEnded(id) PROVE Watcher!WatcherTypeOK'
    <2>1. CASE ~watching
      BY <1>2, <2>1 DEF Watcher!SpeakingEnded, Watcher!WatcherTypeOK, Watcher!WatcherIdle, Watcher!watcherVars
    <2>2. CASE watching
      <3>1. pendingCancel' \in BOOLEAN
        BY <1>2, <2>2 DEF Watcher!SpeakingEnded
      <3> QED
        BY <1>2, <2>2, <3>1 DEF Watcher!SpeakingEnded, Watcher!WatcherTypeOK
    <2> QED
      BY <2>1, <2>2
  <1>3. CASE Watcher!SelfJoined
    BY <1>3 DEF Watcher!SelfJoined, Watcher!WatcherTypeOK
  <1>4. CASE Watcher!InterimChunk
    BY <1>4 DEF Watcher!InterimChunk, Watcher!ScheduleCancel, Watcher!WatcherTypeOK, Watcher!WatcherIdle,
                Watcher!watcherVars
  <1>5. ASSUME NEW b \in BOOLEAN, Watcher!SpeakerChange(b) PROVE Watcher!WatcherTypeOK'
    BY <1>5 DEF Watcher!SpeakerChange, Watcher!ScheduleCancel, Watcher!WatcherTypeOK, Watcher!WatcherIdle,
                Watcher!watcherVars
  <1>6. CASE Watcher!DebounceFires \/ Watcher!StopWatcher \/ Watcher!WatcherIdle
    BY <1>6 DEF Watcher!DebounceFires, Watcher!StopWatcher, Watcher!WatcherTypeOK, Watcher!WatcherIdle,
                Watcher!watcherVars
  <1> QED
    BY <1>1, <1>2, <1>3, <1>4, <1>5, <1>6

(* At first nothing speaks.                                                *)
LEMMA VoiceInit == Init => VoiceInv
  <1> SUFFICES ASSUME Init PROVE VoiceInv
    OBVIOUS
  <1>1. TypeOK
    BY DEF Init, BridgeInit, Watcher!WatcherInit, TypeOK, BridgeTypeOK, Watcher!WatcherTypeOK
  <1>2. hub = << >> /\ hub \in Seq(Event)
    BY EmptySeq DEF Init
  <1>3. CallsStand /\ AwaitedSettles
    BY DEF Init, BridgeInit, CallsStand, AwaitedSettles, Speaking
  <1>4. WatcherWillFollow
    BY <1>2 DEF Init, Watcher!WatcherInit, WatcherWillFollow, AliveAfter
  <1> QED
    BY <1>1, <1>2, <1>3, <1>4 DEF VoiceInv

(* A step that leaves the hub, the watcher's streams and the calls'        *)
(* reports alone leaves the watcher following.                             *)
LEMMA StillFollows ==
    ASSUME WatcherWillFollow, UNCHANGED <<hub, announced, ended>>,
           watching' => UNCHANGED <<watching, activeStreams>>
    PROVE  WatcherWillFollow'
  BY DEF WatcherWillFollow, Speaking

(* Every step keeps the invariant.                                         *)
LEMMA VoiceNext == VoiceInv /\ [Next]_vars => VoiceInv'
  <1> SUFFICES ASSUME VoiceInv, [Next]_vars PROVE VoiceInv'
    OBVIOUS
  <1>t. /\ BridgeTypeOK /\ Watcher!WatcherTypeOK /\ announced \subseteq Speaks /\ ended \subseteq announced
        /\ session \in {"present", "leaving", "gone"} /\ floor \in {"bot", "human"}
        /\ hub \in Seq(Event) /\ Standing /\ AwaitedSettles /\ WatcherWillFollow
    BY DEF VoiceInv, TypeOK, Standing
  <1>1. ASSUME Standing', Watcher!WatcherTypeOK', ended' \subseteq announced', hub' \in Seq(Event),
               session' \in {"present", "leaving", "gone"}, floor' \in {"bot", "human"},
               AwaitedSettles', WatcherWillFollow'
        PROVE  VoiceInv'
    BY <1>1 DEF VoiceInv, TypeOK, Standing
  <1>2. ASSUME NEW s \in Speaks, StreamEnds(s) PROVE VoiceInv'
    <2>1. Publish(s) /\ UNCHANGED <<session, floor>> /\ Watcher!WatcherIdle
      BY <1>2 DEF StreamEnds, Publish
    <2>2. hub' \in Seq(Event) /\ WatcherWillFollow' /\ ended' \subseteq announced'
      BY <1>t, <2>1, PublishFollows
    <2>3. Standing' /\ settled \subseteq settled' /\ UNCHANGED awaited
      BY <1>t, <1>2, StreamEndStands
    <2>4. AwaitedSettles'
      BY <1>t, <2>1, <2>3 DEF AwaitedSettles
    <2> QED
      BY <1>t, <1>1, <2>1, <2>2, <2>3, <2>4, WatcherTyped
  <1>3. CASE \/ \E s \in Speaks : Speak(s)
             \/ Preflight \/ StreamRuns \/ BotDies \/ UNCHANGED vars
    <2>1. /\ UNCHANGED voiceVars /\ Watcher!WatcherIdle
          /\ \/ \E s \in Speaks : \/ CallSpeak(s) \/ ProviderUnavailable(s) \/ StartStream(s)
                                  \/ FfmpegFails(s) \/ SynthesisEnds(s)
             \/ ProbeSettles \/ BotGone \/ UNCHANGED bridgeVars
          /\ UNCHANGED awaited
      BY <1>3 DEF Speak, Preflight, StreamRuns, BotDies, vars, watcherVars, Watcher!WatcherIdle,
                  Watcher!watcherVars, CallSpeak, ProviderUnavailable, StartStream, FfmpegFails,
                  SynthesisEnds, ProbeSettles, BotGone, bridgeVars
    <2>2. Standing' /\ settled' = settled
      BY <1>t, <2>1, BridgeQuiet DEF voiceVars
    <2>3. Watcher!WatcherTypeOK'
      BY <1>t, <2>1, WatcherTyped
    <2>4. WatcherWillFollow' /\ AwaitedSettles'
      BY <1>t, <2>1, <2>2, StillFollows DEF voiceVars, AwaitedSettles, Watcher!WatcherIdle, Watcher!watcherVars
    <2> QED
      BY <1>t, <1>1, <2>1, <2>2, <2>3, <2>4 DEF voiceVars
  <1>4. CASE HubDelivers
    <2>1. /\ hub # << >> /\ hub' = Tail(hub) /\ Head(hub) \in Event
          /\ UNCHANGED <<bridgeVars, session, announced, ended, floor>>
          /\ IF Head(hub).type = "started" THEN Watcher!SpeakingStarted(Head(hub).id)
                                           ELSE Watcher!SpeakingEnded(Head(hub).id)
      BY <1>t, <1>4, HeadTailProperties DEF HubDelivers
    <2>2. hub' \in Seq(Event) /\ Head(hub).id \in StreamIds
      BY <1>t, <2>1, HeadTailProperties DEF Event
    <2>3. Watcher!WatcherTypeOK'
      BY <1>t, <2>1, <2>2, WatcherTyped
    <2>4. Standing' /\ AwaitedSettles'
      BY <1>t, <2>1, BridgeQuiet DEF AwaitedSettles, bridgeVars
    <2>5. ASSUME watching', NEW i \in StreamIds, AliveAfter(hub', activeStreams', i)
          PROVE  \E t \in Speaking' : IdOf[t] = i
      <3>1. /\ watching
            /\ activeStreams' = IF Head(hub).type = "started" THEN activeStreams \cup {Head(hub).id}
                                ELSE activeStreams \ {Head(hub).id}
        BY <2>1, <2>5 DEF Watcher!SpeakingStarted, Watcher!SpeakingEnded, Watcher!WatcherIdle,
                          Watcher!watcherVars
      <3>2. PICK after : after = activeStreams'
        OBVIOUS
      <3>3. AliveAfter(Tail(hub), after, i)
        BY <2>1, <2>5, <3>2
      <3>4. AliveAfter(hub, activeStreams, i)
        BY <1>t, <2>1, <3>1, <3>2, <3>3, AliveDelivered
      <3> QED
        BY <1>t, <2>1, <3>1, <3>4 DEF WatcherWillFollow, Speaking
    <2>6. WatcherWillFollow'
      BY <2>5 DEF WatcherWillFollow
    <2> QED
      BY <1>t, <1>1, <2>1, <2>2, <2>3, <2>4, <2>6
  <1>5. CASE SelfJoins \/ FloorPasses \/ HumanIsTranscribed
    <2>1. /\ UNCHANGED <<bridgeVars, session, hub, announced, ended>> /\ floor' \in {"bot", "human"}
          /\ \/ Watcher!SelfJoined \/ Watcher!InterimChunk
             \/ \E b \in BOOLEAN : Watcher!SpeakerChange(b)
      BY <1>t, <1>5 DEF SelfJoins, FloorPasses, HumanIsTranscribed, voiceVars
    <2>2. UNCHANGED <<watching, activeStreams>>
      BY <2>1 DEF Watcher!SelfJoined, Watcher!InterimChunk, Watcher!SpeakerChange, Watcher!ScheduleCancel,
                  Watcher!WatcherIdle, Watcher!watcherVars
    <2>3. Standing' /\ AwaitedSettles' /\ WatcherWillFollow'
      BY <1>t, <2>1, <2>2, BridgeQuiet, StillFollows DEF AwaitedSettles, bridgeVars
    <2>4. Watcher!WatcherTypeOK'
      BY <1>t, <2>1, WatcherTyped
    <2> QED
      BY <1>t, <1>1, <2>1, <2>3, <2>4
  <1>6. CASE BargeIn
    <2>1. /\ Watcher!DebounceFires /\ UNCHANGED voiceVars /\ awaited' = awaited
          /\ CancelAll \/ UNCHANGED bridgeVars
      BY <1>6 DEF BargeIn, bridgeVars
    <2>2. Standing' /\ settled' = settled
      BY <1>t, <2>1, BridgeQuiet DEF voiceVars
    <2>3. Watcher!WatcherTypeOK'
      BY <1>t, <2>1, WatcherTyped
    <2>4. AwaitedSettles' /\ WatcherWillFollow'
      BY <1>t, <2>1, <2>2, StillFollows DEF AwaitedSettles, voiceVars, Watcher!DebounceFires
    <2> QED
      BY <1>t, <1>1, <2>1, <2>2, <2>3, <2>4 DEF voiceVars
  <1>7. CASE Leave
    <2>1. /\ session' = "leaving" /\ Watcher!StopWatcher /\ CancelAll /\ awaited' = Snapshot
          /\ UNCHANGED <<hub, announced, ended, floor>>
      BY <1>7 DEF Leave
    <2>2. Standing'
      BY <1>t, <2>1, BridgeQuiet
    <2>3. Watcher!WatcherTypeOK'
      BY <1>t, <2>1, WatcherTyped
    <2>4. AwaitedSettles' /\ WatcherWillFollow'
      BY <2>1 DEF AwaitedSettles, WatcherWillFollow, Watcher!StopWatcher
    <2> QED
      BY <1>t, <1>1, <2>1, <2>2, <2>3, <2>4
  <1>8. CASE DropSession
    <2>1. /\ session' = "gone" /\ awaited \subseteq settled
          /\ UNCHANGED <<hub, announced, ended, floor, bridgeVars>> /\ Watcher!WatcherIdle
      BY <1>8 DEF DropSession, Cancelled
    <2>2. Standing' /\ AwaitedSettles'
      BY <1>t, <2>1, BridgeQuiet DEF AwaitedSettles, bridgeVars
    <2>3. Watcher!WatcherTypeOK' /\ WatcherWillFollow'
      BY <1>t, <2>1, WatcherTyped, StillFollows DEF Watcher!WatcherIdle, Watcher!watcherVars
    <2> QED
      BY <1>t, <1>1, <2>1, <2>2, <2>3
  <1> QED
    BY <1>2, <1>3, <1>4, <1>5, <1>6, <1>7, <1>8 DEF Next

(* When the session is forgotten, every stream of leave()'s snapshot is    *)
(* over; and no utterance stays active in the watcher after its end.       *)
THEOREM VoiceStaysAccountedFor == Spec => []VoiceIsAccountedFor
  <1>1. VoiceInv => VoiceIsAccountedFor
    <2> SUFFICES ASSUME VoiceInv PROVE VoiceIsAccountedFor
      OBVIOUS
    <2>1. TypeOK /\ CallsStand /\ announced \subseteq Speaks /\ awaited \subseteq Speaks
      BY DEF VoiceInv, TypeOK, BridgeTypeOK
    <2>2. CancelIsComplete
      BY <2>1 DEF VoiceInv, CancelIsComplete, AwaitedSettles, CallsStand
    <2>3. ASSUME watching, hub = << >>, NEW i \in activeStreams
          PROVE  \E s \in Speaks : InFlight(s) /\ IdOf[s] = i
      <3>1. i \in StreamIds /\ AliveAfter(hub, activeStreams, i)
        BY <2>1, <2>3, EmptySeq DEF TypeOK, Watcher!WatcherTypeOK, AliveAfter
      <3>2. PICK s \in Speaking : IdOf[s] = i
        BY <2>3, <3>1 DEF VoiceInv, WatcherWillFollow
      <3>3. InFlight(s) /\ s \in Speaks
        BY <2>1, <3>2 DEF CallsStand, Speaking, InFlight, Streaming
      <3> QED
        BY <3>2, <3>3
    <2> QED
      BY <2>1, <2>2, <2>3 DEF VoiceIsAccountedFor, WatcherFollowsTheVoice
  <1> QED
    BY <1>1, VoiceInit, VoiceNext, PTL DEF Spec
=============================================================================
