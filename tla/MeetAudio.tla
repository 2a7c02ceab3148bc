----------------------------- MODULE MeetAudio -----------------------------
(***************************************************************************)
(* One meeting's audio, end to end: the join that opens the ingest,        *)
(* launches the bot and waits for its connection (session-manager.ts), the *)
(* capture in the bot, the ingest, and the relay to the daemon's           *)
(* speech-to-text session.                                                 *)
(***************************************************************************)
EXTENDS SttRelay, AudioCapture

CONSTANT Opening   \* the join's call of the relay's open()

ASSUME MeetAudioConstants ==
    /\ Opening \in Requests
    /\ MaxReconnects \in Nat /\ Stable \in Nat \ {0} /\ Stable <= MaxAudio

VARIABLES
    launch,   \* the join and the leave: idle, audio, run, wait, live,
              \* leaving, closing, over, lost (with the worker)
    bot,      \* none, up, gone
    stray     \* does a bot run that no container id in the manager names?

meetVars  == <<launch, bot, stray>>
audioVars == <<ingestVars, captureVars, meetVars>>
allVars   == <<vars, audioVars>>

PathTypeOK ==
    /\ IngestTypeOK /\ CaptureTypeOK
    /\ launch \in {"idle", "audio", "run", "wait", "live", "leaving", "closing", "over", "lost"}
    /\ bot \in {"none", "up", "gone"} /\ stray \in BOOLEAN

MeetAudioInit ==
    /\ Init /\ IngestInit /\ CaptureInit
    /\ launch = "idle" /\ bot = "none" /\ stray = FALSE

LaunchGoes(from, to) == launch = from /\ launch' = to
IdleRelay   == UNCHANGED vars
IdleBot     == UNCHANGED <<captureVars, bot, stray>>

-----------------------------------------------------------------------------
(* join(): MeetAudioIngest.start(), whose failures end the join.           *)

JoinOpens ==
    /\ LaunchGoes("idle", "audio")
    /\ CreateTranscriber /\ Open(Opening)
    /\ IdleBot
JoinRefused ==
    /\ LaunchGoes("audio", "over")
    /\ caller[Opening] = "refused" /\ CreateFails
    /\ IdleBot /\ IdleRelay
JoinStartsTranscriber ==
    /\ TranscriberRuns /\ Start(Opening)
    /\ UNCHANGED launch /\ IdleBot
BindFailsQuietly ==   \* mutant: the transcriber is not stopped
    /\ LaunchGoes("audio", "over")
    /\ BindFails
    /\ IdleBot /\ IdleRelay
JoinCannotBind ==
    /\ LaunchGoes("audio", "over")
    /\ BindFails /\ Stop(Opening)
    /\ IdleBot
JoinBinds ==
    /\ workerUp /\ LaunchGoes("audio", "run")
    /\ Binds
    /\ IdleBot /\ IdleRelay

(* runner.run(): the container starts, then its inspection names the port. *)
(* If the inspection fails, the bot is left running; if the port is        *)
(* missing, it is removed; runner errors are swallowed there.              *)
StopsIngest == StopsListening /\ Stop(Opening)
RemovesBot(removed) ==
    IF removed
    THEN /\ bot' = "gone" /\ CaptureStops /\ UNCHANGED stray
         /\ conn' = [conn EXCEPT !["bot"] = "none"] /\ UNCHANGED <<ingest, ready>>
    ELSE stray' = (bot = "up") /\ UNCHANGED <<bot, captureVars, ingestVars>>
BotStarts ==
    /\ launch = "run" /\ bot = "none" /\ bot' = "up"
    /\ UNCHANGED <<launch, stray, ingestVars, captureVars>> /\ IdleRelay
RunReturns ==
    /\ workerUp /\ bot # "none" /\ LaunchGoes("run", "wait")
    /\ UNCHANGED ingestVars /\ IdleBot /\ IdleRelay
RunFails ==
    /\ LaunchGoes("run", "closing")
    /\ stray' = (bot = "up") /\ UNCHANGED bot
    /\ StopsIngest
    /\ UNCHANGED captureVars
RunWithoutPort ==
    /\ workerUp /\ bot # "none" /\ LaunchGoes("run", "leaving")
    /\ \E removed \in BOOLEAN : RemovesBot(removed)
    /\ IdleRelay

(* await ready.  On its rejection the bot is stopped and removed, and the  *)
(* ingest stopped.                                                         *)
JoinIsLive ==
    /\ workerUp /\ LaunchGoes("wait", "live")
    /\ ready = "resolved"
    /\ UNCHANGED ingestVars /\ IdleBot /\ IdleRelay
GivesUpWaiting ==
    /\ workerUp /\ LaunchGoes("wait", "leaving")
    /\ ready = "rejected"
    /\ \E removed \in BOOLEAN : RemovesBot(removed)
    /\ IdleRelay

(* leave(): on request, or because the bot is gone.                        *)
Leaves ==
    /\ workerUp /\ LaunchGoes("live", "leaving")
    /\ \E removed \in BOOLEAN : RemovesBot(removed)
    /\ IdleRelay
LeavesTheDead == bot = "gone" /\ Leaves

StopsAudioLater ==   \* mutant: the ingest is stopped only if the bot is gone
    /\ LaunchGoes("leaving", IF stray THEN "over" ELSE "closing")
    /\ IF stray THEN UNCHANGED ingestVars /\ IdleRelay ELSE StopsIngest
    /\ IdleBot
StopsAudio ==
    /\ LaunchGoes("leaving", "closing")
    /\ StopsIngest
    /\ IdleBot
AudioClosed ==
    /\ workerUp /\ LaunchGoes("closing", "over")
    /\ ServerCloses
    /\ IdleBot /\ IdleRelay

-----------------------------------------------------------------------------
(* The timers and connections of the ingest, while its process lives.      *)

PassesAudio(n) ==   \* n chunks reach the transcriber, which relays them
    IF n > 0 /\ ingest = "up" /\ audio[Opening] < MaxAudio
    THEN SendAudio(Opening) ELSE IdleRelay

IngestSteps ==
    /\ workerUp
    /\ \/ ConnectTimesOut /\ IdleRelay
       \/ Connects("stranger") /\ IdleRelay
       \/ Rejects("stranger") /\ IdleRelay
       \/ Rejects("bot") /\ IdleRelay
       \/ Accepts /\ PassesAudio(IF ready' = "resolved" THEN wrote ELSE 0)   \* the residual
       \/ ConnectionDrops /\ IdleRelay
    /\ UNCHANGED <<captureVars, meetVars>>
TimerFires     == workerUp /\ ConnectTimesOut /\ UNCHANGED <<captureVars, meetVars>> /\ IdleRelay
HandshakeSettles(p) == IngestSteps /\ HandshakeEnds(p)

-----------------------------------------------------------------------------
(* The bot: its capture, and its end when the capture cannot go on.        *)

BotSteps(step) == bot = "up" /\ step /\ UNCHANGED meetVars
CaptureAttempts == BotSteps(AttemptBegins) /\ IdleRelay
CaptureWrites ==
    /\ BotSteps(WritesFrame)
    /\ UNCHANGED ingestVars
    /\ PassesAudio(IF Hears THEN 1 ELSE 0)
CaptureLosesParec  == BotSteps(ParecExits) /\ IdleRelay
CaptureLosesSocket == BotSteps(SocketDies) /\ IdleRelay

BotEnds ==
    /\ bot = "up" /\ bot' = "gone"
    /\ CaptureStops
    /\ conn' = [conn EXCEPT !["bot"] = "none"]
    /\ UNCHANGED <<ingest, ready, launch, stray>> /\ IdleRelay
BotGivesUp == capture = "fatal" /\ BotEnds   \* onError shuts the bot down

-----------------------------------------------------------------------------
(* The relay's own steps.                                                  *)

RelaySteps ==
    /\ \/ OpenTimesOut(Opening) \/ WorkerReceives \/ DaemonReceives
       \/ SessionRefused(Opening) \/ SessionOpens(Opening)
       \/ SessionStarts(Opening) \/ StartFails(Opening)
       \/ \E s \in Sessions : Emit(s)
       \/ ShutdownRuntime \/ WorkerExitSeen
    /\ UNCHANGED audioVars

WorkerIsLost ==
    /\ WorkerDies
    /\ IngestDies
    /\ launch' = "lost"
    /\ UNCHANGED <<captureVars, bot, stray>>

MeetAudioNext ==
    \/ JoinOpens \/ JoinRefused \/ JoinStartsTranscriber \/ JoinCannotBind \/ JoinBinds
    \/ BotStarts \/ RunReturns \/ RunFails \/ RunWithoutPort \/ JoinIsLive \/ GivesUpWaiting
    \/ Leaves \/ StopsAudio \/ AudioClosed
    \/ IngestSteps
    \/ CaptureAttempts \/ CaptureWrites \/ CaptureLosesParec \/ CaptureLosesSocket \/ BotEnds
    \/ RelaySteps \/ WorkerIsLost

(* Timers fire, pipes and sockets deliver, the manager's and the capture's *)
(* code goes on; nobody must call, leave, speak, connect or die, and the   *)
(* provider need not answer.                                               *)
MeetAudioFairness ==
    /\ WF_allVars(RelaySteps /\ (WorkerReceives \/ DaemonReceives))
    /\ WF_allVars(RelaySteps /\ WorkerExitSeen)
    /\ WF_allVars(RelaySteps /\ OpenTimesOut(Opening))
    /\ WF_allVars(JoinIsLive \/ GivesUpWaiting \/ LeavesTheDead \/ StopsAudio \/ AudioClosed)
    /\ WF_allVars(TimerFires)
    /\ \A p \in Peers : WF_allVars(HandshakeSettles(p))
    /\ WF_allVars(CaptureAttempts) /\ WF_allVars(CaptureLosesSocket) /\ WF_allVars(BotGivesUp)

MeetAudioSpec == MeetAudioInit /\ [][MeetAudioNext]_allVars /\ MeetAudioFairness
-----------------------------------------------------------------------------
(* session-manager.ts, the rollbacks of join() and the end of leave():     *)
(* when they are through, the server is closed, no connection is open and  *)
(* the transcriber is stopped, and a bot that still runs is one the runner *)
(* failed to remove or to report.  The ingest passes audio only between    *)
(* the settling of `ready' in the bot's favour and stop().                 *)
EndedJoinHoldsNothing ==
    /\ PathTypeOK
    /\ Hears => ready = "resolved"
    /\ launch = "over" /\ workerUp =>
          /\ ingest \in {"failed", "stopped"}
          /\ \A p \in Peers : conn[p] # "accepted"
          /\ caller[Opening] \in {"refused", "stopped"}
          /\ bot = "up" => stray

Unheard ==   \* nobody listens to the bot and nobody will
    launch = "lost" \/ (ready \in {"rejected", "resolved"} /\ conn["bot"] # "accepted")

(* A teardown is not held up by a peer that connected and says nothing,    *)
(* and a bot nobody will hear again shuts down instead of reconnecting for *)
(* ever.  The one exception is the bot of a run() that failed after the    *)
(* container's start: stop() may meet it in the middle of its handshake,   *)
(* accept it and then wait for it.                                         *)
AudioPathSettles ==
    /\ launch = "closing" ~> (launch \in {"over", "lost"} \/ conn["bot"] = "accepted")
    /\ bot = "up" /\ Unheard ~> bot = "gone"
=============================================================================
