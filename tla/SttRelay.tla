------------------------------ MODULE SttRelay ------------------------------
(***************************************************************************)
(* Streaming transcription across two processes.  The worker cannot call   *)
(* the speech-to-text API, so stt-relay.ts (worker) asks stt-bridge.ts     *)
(* (daemon) for a session over the worker's stdout and gets the answer and *)
(* the transcript events over its stdin: two pipes, each in order, and two *)
(* maps of sessions that must agree.  The consumer is the audio ingest of  *)
(* a meeting: open(), start(), sendAudio(), stop().                        *)
(***************************************************************************)
EXTENDS Naturals, Sequences, FiniteSets

CONSTANTS
    Requests,      \* calls of open(), one per meeting's audio ingest
    BufferLimit,   \* EVENT_BUFFER_LIMIT
    MaxAudio,      \* bound: audio chunks per session
    MaxEvents      \* bound: events a provider emits per session

ASSUME RelayConstants ==
    /\ IsFiniteSet(Requests)
    /\ BufferLimit \in Nat /\ MaxAudio \in Nat /\ MaxEvents \in Nat

Sessions == 1..Cardinality(Requests)   \* values of nextSessionId
NoSession == 0

VARIABLES
    caller,        \* each consumer of open()
    proxy,         \* the session id its proxy transcriber holds
    pendingOpens,  \* worker: requests waiting for stt.opened
    relay,         \* worker: its map of sessions, "none" = no entry
    buffer,        \* worker: events waiting for start()
    delivered,     \* events handed to the consumer, per session
    overflowed,    \* sessions whose buffer dropped an event
    serving,       \* daemon: where each handleOpen call is suspended
    sid,           \* daemon: the session id it has drawn
    nextSessionId,
    live,          \* daemon: its map of sessions
    provider,      \* the transcriber of each session
    emitted,       \* events it has emitted
    written,       \* and how many of them went into the worker's stdin
    firstEvent,    \* events written before stt.opened was
    toDaemon, toWorker,   \* the worker's stdout and stdin
    audio,         \* chunks sent per consumer
    workerUp, shutdownAsked, exitSeen

workerVars  == <<caller, proxy, pendingOpens, relay, buffer, delivered, overflowed, audio>>
bridgeVars  == <<serving, sid, nextSessionId, live, firstEvent>>
processVars == <<workerUp, shutdownAsked, exitSeen>>
vars == <<workerVars, bridgeVars, provider, emitted, written, toDaemon, toWorker, processVars>>

Msg(kind, id, info) == [kind |-> kind, id |-> id, info |-> info]
Ids == 0..Cardinality(Requests)
ToDaemonMsg == [kind : {"open"}, id : Requests, info : {0}]
               \cup [kind : {"audio", "stop"}, id : Sessions, info : {0}]
ToWorkerMsg == [kind : {"opened"}, id : Requests, info : Ids]
               \cup [kind : {"event"}, id : Sessions, info : 1..MaxEvents]

TypeOK ==
    /\ caller \in [Requests -> {"idle", "opening", "ready", "streaming", "refused", "stopped"}]
    /\ proxy \in [Requests -> Ids] /\ sid \in [Requests -> Ids]
    /\ pendingOpens \subseteq Requests
    /\ relay \in [Sessions -> {"none", "buffering", "streaming"}]
    /\ buffer \in [Sessions -> Seq(1..MaxEvents)]
    /\ delivered \in [Sessions -> Seq(1..MaxEvents)]
    /\ overflowed \subseteq Sessions /\ live \subseteq Sessions
    /\ serving \in [Requests -> {"idle", "opening", "starting", "done"}]
    /\ nextSessionId \in 1..(Cardinality(Requests) + 1)
    /\ provider \in [Sessions -> {"none", "starting", "live", "stopped", "failed"}]
    /\ emitted \in [Sessions -> 0..MaxEvents] /\ written \in [Sessions -> 0..MaxEvents]
    /\ firstEvent \in [Sessions -> 0..MaxEvents]
    /\ toDaemon \in Seq(ToDaemonMsg) /\ toWorker \in Seq(ToWorkerMsg)
    /\ audio \in [Requests -> 0..MaxAudio]
    /\ workerUp \in BOOLEAN /\ shutdownAsked \in BOOLEAN /\ exitSeen \in BOOLEAN

Init ==
    /\ caller = [r \in Requests |-> "idle"]
    /\ proxy = [r \in Requests |-> NoSession] /\ sid = [r \in Requests |-> NoSession]
    /\ pendingOpens = {} /\ overflowed = {} /\ live = {}
    /\ relay = [s \in Sessions |-> "none"]
    /\ buffer = [s \in Sessions |-> <<>>] /\ delivered = [s \in Sessions |-> <<>>]
    /\ serving = [r \in Requests |-> "idle"] /\ nextSessionId = 1
    /\ provider = [s \in Sessions |-> "none"]
    /\ emitted = [s \in Sessions |-> 0] /\ written = [s \in Sessions |-> 0]
    /\ firstEvent = [s \in Sessions |-> 0]
    /\ toDaemon = <<>> /\ toWorker = <<>>
    /\ audio = [r \in Requests |-> 0]
    /\ workerUp = TRUE /\ shutdownAsked = FALSE /\ exitSeen = FALSE

SendToDaemon(m) == toDaemon' = Append(toDaemon, m)
(* The shutdown of the runtime ends the worker's stdin.  A write to it from *)
(* then on is lost, as is one to a dead worker's, though the worker may    *)
(* live on for seconds.                                                    *)
PipeOpen == workerUp /\ ~shutdownAsked
SendToWorker(m) == toWorker' = IF PipeOpen THEN Append(toWorker, m) ELSE toWorker

-----------------------------------------------------------------------------
(* The worker: open() and the proxy it resolves to. *)

Open(r) ==
    /\ workerUp /\ caller[r] = "idle"
    /\ caller' = [caller EXCEPT ![r] = "opening"]
    /\ pendingOpens' = pendingOpens \cup {r}
    /\ SendToDaemon(Msg("open", r, 0))
    /\ UNCHANGED <<proxy, relay, buffer, delivered, overflowed, audio, bridgeVars, provider,
                   emitted, written, toWorker, processVars>>

(* OPEN_TIMEOUT_MS passed: open() resolves to null. *)
OpenTimesOut(r) ==
    /\ workerUp /\ r \in pendingOpens
    /\ pendingOpens' = pendingOpens \ {r}
    /\ caller' = [caller EXCEPT ![r] = "refused"]
    /\ UNCHANGED <<proxy, relay, buffer, delivered, overflowed, audio, bridgeVars, provider,
                   emitted, written, toDaemon, toWorker, processVars>>

StartForgetsBuffer(r) ==   \* mutant: installs the listener without the flush
    LET s == proxy[r] IN
    /\ workerUp /\ caller[r] = "ready"
    /\ caller' = [caller EXCEPT ![r] = "streaming"]
    /\ relay' = [relay EXCEPT ![s] = IF @ = "none" THEN @ ELSE "streaming"]
    /\ buffer' = [buffer EXCEPT ![s] = <<>>]
    /\ UNCHANGED <<proxy, pendingOpens, delivered, overflowed, audio, bridgeVars, provider,
                   emitted, written, toDaemon, toWorker, processVars>>
Start(r) ==
    LET s == proxy[r] IN
    /\ workerUp /\ caller[r] = "ready"
    /\ caller' = [caller EXCEPT ![r] = "streaming"]
    /\ relay' = [relay EXCEPT ![s] = "streaming"]
    /\ delivered' = [delivered EXCEPT ![s] = @ \o buffer[s]]
    /\ buffer' = [buffer EXCEPT ![s] = <<>>]
    /\ UNCHANGED <<proxy, pendingOpens, overflowed, audio, bridgeVars, provider,
                   emitted, written, toDaemon, toWorker, processVars>>

SendAudio(r) ==
    /\ workerUp /\ caller[r] = "streaming" /\ audio[r] < MaxAudio
    /\ audio' = [audio EXCEPT ![r] = @ + 1]
    /\ SendToDaemon(Msg("audio", proxy[r], 0))
    /\ UNCHANGED <<caller, proxy, pendingOpens, relay, buffer, delivered, overflowed, bridgeVars,
                   provider, emitted, written, toWorker, processVars>>

StopSilently(r) ==   \* mutant: forgets the session without telling the daemon
    /\ workerUp /\ caller[r] = "streaming"
    /\ caller' = [caller EXCEPT ![r] = "stopped"]
    /\ relay' = [relay EXCEPT ![proxy[r]] = "none"]
    /\ UNCHANGED <<proxy, pendingOpens, buffer, delivered, overflowed, audio, bridgeVars,
                   provider, emitted, written, toDaemon, toWorker, processVars>>
Stop(r) ==
    /\ workerUp /\ caller[r] = "streaming"
    /\ caller' = [caller EXCEPT ![r] = "stopped"]
    /\ relay' = [relay EXCEPT ![proxy[r]] = "none"]
    /\ SendToDaemon(Msg("stop", proxy[r], 0))
    /\ UNCHANGED <<proxy, pendingOpens, buffer, delivered, overflowed, audio, bridgeVars,
                   provider, emitted, written, toWorker, processVars>>

(* handleMessage of the relay: an answer nobody waits for is ignored, as   *)
(* is an event for a session without a proxy.                              *)
TakeOpened(m) ==
    /\ m.kind = "opened"
    /\ pendingOpens' = pendingOpens \ {m.id}
    /\ \/ m.id \notin pendingOpens /\ UNCHANGED <<caller, proxy, relay>>
       \/ /\ m.id \in pendingOpens /\ m.info = NoSession
          /\ caller' = [caller EXCEPT ![m.id] = "refused"]
          /\ UNCHANGED <<proxy, relay>>
       \/ /\ m.id \in pendingOpens /\ m.info # NoSession
          /\ caller' = [caller EXCEPT ![m.id] = "ready"]
          /\ proxy' = [proxy EXCEPT ![m.id] = m.info]
          /\ relay' = [relay EXCEPT ![m.info] = "buffering"]
    /\ UNCHANGED <<buffer, delivered, overflowed>>

TakeEvent(m) ==
    /\ m.kind = "event"
    /\ \/ relay[m.id] = "none" /\ UNCHANGED <<buffer, delivered, overflowed>>
       \/ /\ relay[m.id] = "streaming"
          /\ delivered' = [delivered EXCEPT ![m.id] = Append(@, m.info)]
          /\ UNCHANGED <<buffer, overflowed>>
       \/ /\ relay[m.id] = "buffering" /\ Len(buffer[m.id]) < BufferLimit
          /\ buffer' = [buffer EXCEPT ![m.id] = Append(@, m.info)]
          /\ UNCHANGED <<delivered, overflowed>>
       \/ /\ relay[m.id] = "buffering" /\ Len(buffer[m.id]) >= BufferLimit
          /\ overflowed' = overflowed \cup {m.id}
          /\ UNCHANGED <<buffer, delivered>>
    /\ UNCHANGED <<caller, proxy, pendingOpens, relay>>

WorkerReceives ==
    /\ workerUp /\ toWorker # <<>>
    /\ TakeOpened(Head(toWorker)) \/ TakeEvent(Head(toWorker))
    /\ toWorker' = Tail(toWorker)
    /\ UNCHANGED <<audio, bridgeVars, provider, emitted, written, toDaemon, processVars>>

-----------------------------------------------------------------------------
(* The daemon: handleMessage and handleOpen of the bridge. *)

DaemonReceives ==
    LET m == Head(toDaemon) IN
    /\ toDaemon # <<>>
    /\ toDaemon' = Tail(toDaemon)
    /\ \/ /\ m.kind = "open"
          /\ serving' = [serving EXCEPT ![m.id] = "opening"]
          /\ UNCHANGED <<live, provider>>
       \/ /\ m.kind = "audio"   \* forwarded if the session is known, else dropped
          /\ UNCHANGED <<serving, live, provider>>
       \/ /\ m.kind = "stop" /\ m.id \in live
          /\ live' = live \ {m.id}
          /\ provider' = [provider EXCEPT ![m.id] = "stopped"]
          /\ UNCHANGED serving
       \/ m.kind = "stop" /\ m.id \notin live /\ UNCHANGED <<serving, live, provider>>
    /\ UNCHANGED <<workerVars, sid, nextSessionId, firstEvent, emitted, written, toWorker, processVars>>

(* openSession() answered: no session, or one that is now being started. *)
SessionRefused(r) ==
    /\ serving[r] = "opening"
    /\ serving' = [serving EXCEPT ![r] = "done"]
    /\ SendToWorker(Msg("opened", r, NoSession))
    /\ UNCHANGED <<workerVars, sid, nextSessionId, live, firstEvent, provider, emitted, written, toDaemon,
                   processVars>>

SessionOpensAnswered(r) ==   \* mutant: stt.opened is sent before start() is awaited
    /\ serving[r] = "opening"
    /\ serving' = [serving EXCEPT ![r] = "starting"]
    /\ sid' = [sid EXCEPT ![r] = nextSessionId]
    /\ nextSessionId' = nextSessionId + 1
    /\ provider' = [provider EXCEPT ![nextSessionId] = "starting"]
    /\ SendToWorker(Msg("opened", r, nextSessionId))
    /\ UNCHANGED <<workerVars, live, firstEvent, emitted, written, toDaemon, processVars>>
SessionOpens(r) ==
    /\ serving[r] = "opening"
    /\ serving' = [serving EXCEPT ![r] = "starting"]
    /\ sid' = [sid EXCEPT ![r] = nextSessionId]
    /\ nextSessionId' = nextSessionId + 1
    /\ provider' = [provider EXCEPT ![nextSessionId] = "starting"]
    /\ UNCHANGED <<workerVars, live, firstEvent, emitted, written, toDaemon, toWorker, processVars>>

(* transcriber.start() returned: register the session, then answer. *)
SessionStarts(r) ==
    LET s == sid[r] IN
    /\ serving[r] = "starting"
    /\ serving' = [serving EXCEPT ![r] = "done"]
    /\ live' = live \cup {s}
    /\ provider' = [provider EXCEPT ![s] = "live"]
    /\ firstEvent' = [firstEvent EXCEPT ![s] = written[s]]
    /\ SendToWorker(Msg("opened", r, s))
    /\ UNCHANGED <<workerVars, sid, nextSessionId, emitted, written, toDaemon, processVars>>

StartFails(r) ==
    /\ serving[r] = "starting"
    /\ serving' = [serving EXCEPT ![r] = "done"]
    /\ provider' = [provider EXCEPT ![sid[r]] = "failed"]
    /\ SendToWorker(Msg("opened", r, NoSession))
    /\ UNCHANGED <<workerVars, sid, nextSessionId, live, firstEvent, emitted, written, toDaemon,
                   processVars>>

(* The provider emits while it starts, while it runs, and flushes after    *)
(* stop(); the callback relays every event.                                *)
Emit(s) ==
    /\ provider[s] \in {"starting", "live", "stopped"} /\ emitted[s] < MaxEvents
    /\ emitted' = [emitted EXCEPT ![s] = @ + 1]
    /\ written' = IF PipeOpen THEN [written EXCEPT ![s] = emitted'[s]] ELSE written
    /\ SendToWorker(Msg("event", s, emitted'[s]))
    /\ UNCHANGED <<workerVars, bridgeVars, provider, toDaemon, processVars>>

-----------------------------------------------------------------------------
(* The two processes.  stopAll() runs when the plugin shuts the runtime    *)
(* down, which then ends the worker's stdin, and in the worker's 'exit'    *)
(* handler; what the worker wrote before it died is still in the pipe then.*)
StopAllButKeepMap ==   \* mutant: clears the map without stopping the sessions
    /\ live' = {}
    /\ UNCHANGED provider
StopAll ==
    /\ live' = {}
    /\ provider' = [s \in Sessions |-> IF s \in live THEN "stopped" ELSE provider[s]]

ShutdownRuntime ==
    /\ ~shutdownAsked
    /\ shutdownAsked' = TRUE
    /\ StopAll
    /\ UNCHANGED <<workerVars, serving, sid, nextSessionId, firstEvent, emitted, written, toDaemon,
                   toWorker, workerUp, exitSeen>>

WorkerDies ==
    /\ workerUp
    /\ workerUp' = FALSE
    /\ toWorker' = <<>>
    /\ UNCHANGED <<workerVars, bridgeVars, provider, emitted, written, toDaemon, shutdownAsked, exitSeen>>

WorkerExitSeen ==
    /\ ~workerUp /\ ~exitSeen
    /\ exitSeen' = TRUE
    /\ StopAll
    /\ UNCHANGED <<workerVars, serving, sid, nextSessionId, firstEvent, emitted, written, toDaemon,
                   toWorker, workerUp, shutdownAsked>>

-----------------------------------------------------------------------------
Next ==
    \/ \E r \in Requests : \/ Open(r) \/ OpenTimesOut(r) \/ Start(r) \/ SendAudio(r) \/ Stop(r)
                           \/ SessionRefused(r) \/ SessionOpens(r)
                           \/ SessionStarts(r) \/ StartFails(r)
    \/ WorkerReceives \/ DaemonReceives
    \/ \E s \in Sessions : Emit(s)
    \/ ShutdownRuntime \/ WorkerDies \/ WorkerExitSeen

Spec == Init /\ [][Next]_vars

(* Pipes deliver, the open timer fires, an 'exit' event is dispatched.     *)
(* Nothing obliges the provider to answer or to emit.                      *)
Fairness ==
    /\ WF_vars(WorkerReceives) /\ WF_vars(DaemonReceives) /\ WF_vars(WorkerExitSeen)
    /\ \A r \in Requests : WF_vars(OpenTimesOut(r))

FairSpec == Spec /\ Fairness
-----------------------------------------------------------------------------
(* stt-bridge.ts: "a session is always registered here before its first    *)
(* audio chunk arrives": audio in the pipe names a session the bridge      *)
(* knows, unless stopAll() has run since.                                  *)
AudioFindsSession ==
    shutdownAsked \/ exitSeen \/
        \A i \in DOMAIN toDaemon : toDaemon[i].kind = "audio" => toDaemon[i].id \in live

Event(n, s) == toWorker[n].kind = "event" /\ toWorker[n].id = s
InTransit(s) == {toWorker[n].info : n \in {m \in DOMAIN toWorker : Event(m, s)}}
InOrder(s) ==
    \A m, n \in DOMAIN toWorker :
        m < n /\ Event(m, s) /\ Event(n, s) => toWorker[m].info < toWorker[n].info

(* Every event written after stt.opened was reaches the consumer, once and *)
(* in order, whatever happened between stt.opened and start(): what was    *)
(* delivered and what is in the pipe make up the whole run of events,      *)
(* unless the bounded buffer overflowed in that gap.  What the provider    *)
(* emits is written, but for what it flushes after the runtime's shutdown. *)
NothingLostInGap ==
    \A r \in Requests :
        LET s == proxy[r] IN
        workerUp /\ caller[r] = "streaming" /\ s \notin overflowed =>
            /\ \A i \in DOMAIN delivered[s] : delivered[s][i] = firstEvent[s] + i
            /\ InTransit(s) = firstEvent[s] + Len(delivered[s]) + 1 .. written[s]
            /\ shutdownAsked \/ written[s] = emitted[s]
            /\ InOrder(s)

(* Both, over well-typed states: neither direction of a session loses its  *)
(* partner.                                                                *)
SessionIsConnected == TypeOK /\ AudioFindsSession /\ NothingLostInGap

(* The only sessions the daemon holds for nobody are those whose open()    *)
(* had timed out before the answer came, while the worker lives: an        *)
(* ordinary stop, a refusal or a start failure leaves none behind.         *)
OnlyLateAnswersOrphan ==
    workerUp => \A r \in Requests :
        sid[r] \in live =>
            \/ caller[r] = "refused"
            \/ caller[r] \in {"opening", "ready", "streaming"}
            \/ \E i \in DOMAIN toDaemon : toDaemon[i] = Msg("stop", sid[r], 0)

(* Both: the two processes agree on which sessions there are.               *)
SessionsAgree == SessionIsConnected /\ OnlyLateAnswersOrphan

(* A transcriber whose consumer stopped it is stopped at the provider,     *)
(* also when the worker dies with the request still in its stdout.         *)
StopReachesProvider ==
    \A r \in Requests, s \in Sessions :
        caller[r] = "stopped" /\ proxy[r] = s ~> provider[s] = "stopped"
=============================================================================
