# meeting-bot in TLA+

A TLA+ model of the meeting bot: a daemon plugin that joins Google Meet calls
with a bot of its own (the *Vellum* provider) or through Recall.ai (the
*Recall* provider), transcribes them, hands the transcript to a conversation
and speaks the answers. Source paths below are relative to `src/src/` unless
they start with `src/`; `ext/` stands for
`vellum/meet/meet-controller-ext/src/`, `daemon/` and `bot/` for those
directories of `vellum/meet/`.

The modules are written from the code. Where the code and one of its comments
disagree, the model follows the code and the disagreement is listed under
[Disagreements](#disagreements-between-the-code-and-its-comments).

## How to run

    tlc -workers 2 -config SessionLeave.cfg MeetSessionManager.tla
    tlapm MeetSessionManagerProofs.tla

`PROJECT.json` names the module and configuration of each run, the source
lines of each definition and, for each property, mutations of the model that
break it (a `\* mutant:` operator next to the definition it replaces).

## The system

Processes and a browser; all but the browser are JavaScript event loops:

    daemon ──hooks──> provider-runtime ──> runtime.ts ──spawns──> Vellum worker
      │                     └──> realtime-server.ts ──spawns──> Recall receiver + tunnel
      │  session-store.ts, sessions.json <──> skill scripts join.ts / leave.ts
      └── stt-bridge.ts <──── two pipes ────> stt-relay.ts (worker)
    Vellum worker: session-manager.ts ──runs──> bot container or child process
      ├── audio-ingest.ts <── socket ── bot's audio-capture.ts
      ├── meet-internal route <── HTTP posts of events ── bot's daemon-client.ts
      │     └── dispatcher ──> storage writer, speaker resolver, consent monitor,
      │                        chat opportunity detector, barge-in watcher
      └── tts-bridge.ts ── HTTP ──> bot's /play_audio
    bot: main.ts ──> Xvfb, Chrome, pacat, parec, HTTP server, xdotool lane
      └── socket server <── native-host shim <── extension's background worker
                                                   └── content script ──> Meet page

| Part | State it keeps | Operations | What is hard |
|---|---|---|---|
| Session manager (`daemon/session-manager.ts`) | sessions, pendingBotTokens, flags, per-session timers, subscribers | join with rollback, leave, container exit, shutdownAll with a deadline, token resolution | every call suspends many times and any other may run meanwhile; one step of a teardown fails |
| Transcription relay (`vellum/stt-relay.ts`, `stt-bridge.ts`) | a map of sessions in each process, pending opens, a bounded gap buffer | open, start, audio, stop, events, stopAll | two maps that must agree; late answers; death of the worker with messages in the pipe |
| Audio path (`daemon/audio-ingest.ts`, `bot/media/audio-capture.ts`) | server, connections, `ready`; capture child, reconnect budget | start, handshake, stop; attempt, write, reconnect, stop | a stop races a handshake; each end may die first |
| Supervisor and fleet (`vellum/runtime.ts`, `worker-pidfile.ts`, `daemon/docker-runner.ts`, `direct-bot-runner.ts`) | `running`, the PID file; backend, build memo; bots of dead workers | init, restart, shutdown, events; run, stop, remove, startup sweep | state read before an await and used after; handles lost to reloads; a sweep against joins |
| Recall receiver and tunnel (`realtime-server.ts`, `tunnel.ts`) | handle, PID file, port; tunnel child and URL | start, stop, exit and error events | the same, with weaker reaping |
| Bot process (`bot/main.ts`) and link (`native-messaging/socket-server.ts`, `ext/messaging/native-port.ts`) | subsystem handles, shutdown flag, pending chats; client, port, shim | boot, lifecycle, send_chat, shutdown from seven callers; connect, replace, lose | a shutdown in the middle of the boot; a late close of a replaced client |
| Bot media (`bot/control/http-server.ts`, `media/audio-playback.ts`, `media/avatar/…`) | promise chain, pacat and its clock, viseme buffer, renderer, device, tab | POST and DELETE /play_audio, viseme post, /avatar routes, frames | two writers on one stdin; visemes in any order; late frames and late acknowledgements |
| Controller (`ext/messaging/content-bridge.ts`, `ext/content.ts`, `ext/features/…`, `bot/browser/xdotool-click.ts`) | retries and generations, join flow, composer, the xdotool lane, camera | join, leave, send_chat, camera, consent post | commands retried for ten seconds; one composer for many writers |
| Scrapers and client (`ext/features/participants.ts`, `speaker.ts`, `chat.ts`, `bot/control/daemon-client.ts`) | what was told before; batch, timer, chain | poll, observe; enqueue, flush, retry, stop | panels that hide each other; answers lost |
| Records (`daemon/storage-writer.ts`, `speaker-resolver.ts`, ingress route, dispatcher) | open segment, participants, meta; label bindings | events in, files out | repeated and late events, failing writes |
| Listeners (`daemon/consent-monitor.ts`, `chat-opportunity-detector.ts`) | rolling buffers, watermark, debounce, one call in flight; cooldowns, a 1:1 timer | event, tick, verdict, dispose | content that arrives during a call |
| Voice (`daemon/tts-bridge.ts`, `barge-in-watcher.ts`) | active streams, debounce timer | speak, cancelAll, barge in | cancel during the preflight; a bot that never answers |
| Transcript pipeline (`realtime-server.ts`, `session-store.ts`) and skill scripts | live meetings, `sessions.json`, line buffers and timers | events, flush, join and leave scripts | lines that arrive during a flush; three writers of one file |
| Routes, settings, history, dashboard, formats, build | little or none | adapters and I/O | nothing concurrent of their own |

`PROJECT.json` lists all 41 parts with their sources and status, and under
`hazards` what is hard to test in them, each at the line where it bites with
the properties that would notice.

## The modules

One action is the code between two awaits that really suspend. An await whose
callee is synchronous underneath does not end an action. Where the code awaits
in the middle of a handler, the handler is a process with a program counter
(`jpc`, `pc`, `phase`, `stage`, `boot`, ...), and its remaining part is another
action. Modules whose names stand side by side below are composed by EXTENDS or
INSTANCE; the last one named has the specification TLC checks.

### MeetSessionManager, MeetingLease

`MeetSessionManager` has a process for each call of `join()` (`JoinStep`), for
each call of `leave()` and each container exit (`TaskStep`), and one for
`shutdownAll()` (`ShutdownStep`, with the deadline that forces what remains).
`sessions`, `pendingBotTokens`, `registered` (session event router) and
`subscribed` (dispatcher) are the maps of the code; `ingest` and `container`
stand for the audio ingest and the engine, with the calls in `FaultyCalls`
free to fail. A join can fail at each of its steps and rolls back in the
code's order. `runner.run()` creates, starts and then inspects a container:
`named` has the joins it returned an id to, and a join whose inspection throws
undoes everything but the container, which nothing can name. `MeetingLease` is
the abstract view of one join (absent, starting, serving, closing, closed, with
a bot only in between, unless it was lost while starting: `orphans`);
`ImplementsLease` is the refinement. The monitors, the timer and the tools are
one kind of caller of `leave()`.

### SttRelay, AudioIngest, AudioCapture, MeetAudio

`SttRelay` has both ends of the relay with the two ordered pipes between them.
The provider may refuse, fail to start, answer after the 15 s open timeout, or
emit between `stt.opened` and `start()`; the worker may die with messages in
its stdout, which the daemon still reads before it sees the exit; and the
runtime's shutdown ends the worker's stdin (`PipeOpen`), after which whatever
the bridge writes is lost, though the worker lives on. `AudioIngest`
is the ingest's server: the bot's connection and a stranger's, each with its
handshake, the `ready` promise, `stop()` and the wait for `server.close()`.
`AudioCapture` is the bot's end: attempts, the budget of reconnects and what
resets it, the fatal end. `MeetAudio` composes the three with the part of
`join()` and `leave()` that drives them and with a runner that may fail before
or after the container runs.

### RuntimeSupervisor, BotFleet, RealtimeReceiver, ProviderRuntime

`RuntimeSupervisor` runs the calls of the hooks and of the provider route
against the Vellum worker: spawn, readiness and its timeout, exit and error
events, the PID file with the check of `/proc/<pid>/cmdline`, reap, stop and
kill. A dead worker is a zombie until the daemon's loop reaps it, which is when
the exit event fires; a reload loses the handle and nothing else. `BotFleet` adds what a worker does: the choice of a
backend, launches through docker or directly, and the startup sweep that ends
bots of an earlier worker while joins come in. `RealtimeReceiver` is the other
provider: the receiver, its port and PID file, and the tunnel. `ProviderRuntime`
puts one of the two under the same calls. `overlapped` records that two calls
ran at once: the parts named `...InTurn` speak of histories without that.

### BotMain, NativeLink, BotLink

`BotMain` is the boot as a sequence of awaits, the stages of `shutdown()` in
their order, every caller of it, the extension's lifecycle messages (its own
tab and a stray one), the join deadline, and the `send_chat` requests with
reply, timer and shutdown racing to settle each. `NativeLink` is the way to
the extension: its port with the retry, the shims Chrome starts, the socket
server that serves one client and destroys the one before, the `ready` message.
`BotLink` lets the bot hear the extension only over an intact link.

### PlayAudio, LipSync, AvatarTab, TalkingHead, BotMedia

`PlayAudio` follows a POST /play_audio through each of its awaits (the wait on
the chain, the pacat start, body reads, writes, the trailing silence); `sink`
is what reaches pacat, by request. `LipSync` adds the viseme buffer and posts
of the daemon's forwarder, delivered in any order or lost. `AvatarTab` is the
extension's side of the avatar, `TalkingHead` the routes with their mutation
chain, the renderer's start, acknowledgement and stop, the transcoding of
frames and the device writer. `BotMedia` lets the renderer come and go in the
middle of an utterance.

### ContentBridge, ContentScript, MeetPage, AvatarRoutes, MeetController

The bot's commands on their way to the page. `ContentBridge` offers each to the
Meet tab, retries while there is none and drops what a newer command
supersedes. `ContentScript` handles them: the join flow, the consent message,
the chat sender, the camera toggle, and, while a session is installed, the poll
that wants the list of participants where the chat panel is
(`PollShowsPeople`, `participants.ts:123-130,164-186`). `MeetPage` is the page
with its one composer, its one side panel and the lane of xdotool input that
types into it. `AvatarRoutes` is the HTTP side of the camera with its round trip
and timeout; `MeetController` composes them and has the queue of /send_chat. Its
`displaced` is history: the chats that were at the composer (`AtComposer`: the
text asked for, the click on the send button not yet run) as the chat panel was
closed, by the poll or by a press of the panel's button.

The poll may act at any moment at which the chat is open, and need not: its
click is a script's, and whether Meet heeds it on that button is not known
(`participants.ts:158-161` says that it closes the other panel). The chat's own
toggle is gated on trusted events (`chat.ts:718-722`), so the chat reader's bare
`.click()` on it (`chat.ts:201,797`) does nothing here. Whether a draft outlives
the closing of the panel is Meet's, and both are allowed (`ClosesChat`); a click
of the lane whose button has gone does nothing.

### DaemonClient, MeetScrapers, StorageWriter, SpeakerResolver, MeetingRecords

From the page to the files. `MeetScrapers` has a page with a side panel that
shows the participants or the chat, the participants poll (which clicks the
panel open when it does not find the list), the active speaker and the chat
reader. `DaemonClient` batches and posts, over a network that loses requests
and answers. `MeetingRecords` is the ingress route with its token check and
the dispatcher of a meeting that is joining, in session or left;
`StorageWriter` and `SpeakerResolver` are two of its subscribers.

### ConsentMonitor, ChatOpportunityDetector, MeetingListeners

Two listeners that ask a language model, on one stream of events and with one
explicit clock `now`, because what they promise is in seconds. Texts are
members of small sets; what the model answers is nondeterministic.

### TtsBridge, BargeInWatcher, MeetVoice

`TtsBridge` takes a `speak()` from its preflight to the settling of synthesis,
ffmpeg and the POST, with `cancelAll()`; the POST may be answered, refused or
never answered. `BargeInWatcher` hears of utterances through the event hub
(`hub`) and of people through the dispatcher. `MeetVoice` has the session
manager's part: `speak`, `cancelSpeak` and a `leave` that awaits `cancelAll`.
(The shipped worker installs no-op stand-ins for both, `vellum/worker.ts:128-162`.)

### TranscriptPipeline

`sessions` is the store's memory, `file` is `sessions.json`, `buffer` the line
buffer and its timer, `conversation` what turns have been given. Daemon
handlers are single actions; a script's read of the file and its write are two,
with the daemon free to act in between. Line *n* is the *n*-th one finalized
with the meeting's id. `AnonymousUtterance` is a Recall payload without an id.

## The runs and what they show

Every run but one passes. "States" are distinct states.

| Run (module, configuration) | What is asked | States |
|---|---|---|
| `session_leave` (MeetSessionManager, SessionLeave) | One meeting; two leaves, a container exit and a shutdown interleaved at every await, with an engine that may fail to stop a container or to inspect the one it has started. Is everything released and `meta.json` written, however it ended (`TeardownsAreComplete`; the bot a failed inspection hid is excepted, and must be cut off)? Does an end the daemon brought about stay silent (`ExitNotReportedWhileLeaving`)? Does every teardown end and every dead bot lead to one (`TeardownsEnd`)? Does the manager implement the lease (`ImplementsLease`)? | 89 thousand |
| `session_shutdown` (…, SessionShutdown) | Two meetings joined concurrently and shut down together, deadline included, with an engine whose wait may fail. Are bots authenticated without a gap (`BotIsAuthenticated`)? Do the meetings keep their routes while the other one goes, and is the snapshot's last container stopped on return (`ShutdownIsOrderly`)? | 1.3 million |
| `session_reentry` (…, SessionReentry) | Can two leaves tear down one session (`LeaveNotReentered`)? **Violated**, see below. | stops at the violation |
| `meet_audio` (MeetAudio) | Bot, daemon, runner and network may each fail at any step. Do the two session maps agree (`SessionsAgree`: audio finds its session, nothing written is lost in the open–start gap and everything emitted is written until the runtime's shutdown, only a late answer orphans), does a stop reach the provider (`StopReachesProvider`), does an ended join hold nothing (`EndedJoinHoldsNothing`), do teardowns return and does a bot nobody hears go away (`AudioPathSettles`)? | 83 thousand |
| `supervisor` (ProviderRuntime, Provider) | An init, a restart and a shutdown in any order and overlap over either provider, with crashes, a process that is mute and ignores SIGTERM, spawn errors, a reload. One recorded process at most while the calls come in turn, none that is known of after the shutdown hook, and no handle of a dead process, ever (`RuntimesInTurn`); the sweep never signals a bot of a meeting being joined (`SweepSparesTheLive`); every call returns and what a dead worker left is ended (`RuntimesSettle`). | 217 thousand |
| `bot_main` (BotLink) | Every trigger of a shutdown against every await of the boot, over a link that breaks. One terminal event and it is the last, no child left once Chrome was up, the server serves the client whose socket is open (`BotAndLinkAgree`); nothing comes up late (`NothingComesUpLate`); a join is decided and chats are answered (`RequestsAreDecided`); a broken link is mended (`LinkComesBack`). | 187 thousand |
| `bot_media` (BotMedia) | Two POSTs, DELETEs, a pacat crash, visemes in any order, the avatar disabled and enabled meanwhile. PCM is not interleaved, a 200 means played out, the mouth does not run ahead (`SoundAndMouthAgree`); a pre-empted utterance falls silent (`PreemptedFallsSilent`); no frame reaches a closing device and the tabs follow the renderer (`FaceIsClean`); every request is answered (`RequestsAreAnswered`). | 186 thousand |
| `controller` (MCMeetController, Controller) | A join, a leave and two of two chats, an enable and a disable, through retries, timeouts, a slow lane and a page that may refuse. No superseded command acts late (`NoCommandActsLate`), a leave is final (`LeaveIsFinal`), posted messages are whole, but for the chats the panel was closed on (`ChatsAreWhole`), the camera is not on without frames (`CameraShowsFrames`). | 2.1 million |
| `records` (MCMeetingRecords, Records) | Three events of a changing page, batches of up to two with one retry, lost requests and answers, a failing write, a meeting joined and left, three lines under one label. Order (`SeenInOrder`), files (`RecordsTellTheMeeting`), bindings (`BindingIsEarned`), the page (`PageIsTold`), the last flush (`StopDrains`). | 634 thousand |
| `listeners` (MCMeetingListeners, Listeners) | Four events of nine kinds over two ticks. Everything said or written is put to the model within 28 s (`AskedInTime`); the assistant speaks up only when it has earned it (`WakesAreEarned`). | 3.4 million |
| `voice` (MeetVoice, Voice) | Two utterances against a bot that may be gone or mute, an ffmpeg and a provider that may fail, a human who takes the floor, a leave at any time. Cancelled streams are over when the cancel is, the watcher forgets ended ones (`VoiceIsAccountedFor`); leave gets through and nothing outlives the container (`LeaveSilences`); a human who keeps talking is heard (`HumanIsHeard`). | 335 thousand |
| `transcript` (TranscriptPipeline, Transcript) | A meeting of each provider, scripts between the daemon's writes, the receiver coming and going. No line of an open meeting is lost, repeated or overtaken (`ConversationHasEveryLine`); a dead meeting is forgotten unless a script writes it back (`DeadMeetingIsForgotten`); each line arrives (`EveryLineArrives`). | 652 thousand |

A module's type invariant is a conjunct of one of the invariants checked, or
checked by itself (`TypeOK`). Deadlock is not checked: every one of these
systems may really stop (all calls returned, the process exited, no more
lines).

### Bounds, and why they are enough

* **Session manager.** The hazards are races *on one session* and interference
  *between two*. One join with two leaves, an exit and a shutdown has every
  pair, and every triple, of teardowns; two joins without leaves have the
  interference, through the maps shared by meeting id. `FaultyCalls` allows
  few kinds of engine failure per run, to keep the state space small: `stop` and
  `inspect` where rollbacks and teardowns race, `wait` where the watcher's
  absence matters. Meeting ids are
  distinct, as `worker.ts` mints a UUID per join.
* **Audio.** Sessions share nothing but the id counter and the pipes, so one
  request meets every race of the protocol; a gap buffer of 1 with 2 events
  reaches both sides of its limit, 2 frames of audio let one be stable, two
  reconnects use up a budget that was reset once.
* **Supervisor.** Three calls, one of each kind, in every order and overlap;
  worker `load` has both defects (mute, ignores SIGTERM). One reload loses the
  handle once; a second would meet the same state. One meeting, whose bot
  ignores SIGTERM: the sweep judges bots one at a time and shares nothing among
  them but the list. The theorems of `ProviderRuntimeProofs` lift all of these
  bounds for the two safety properties; only `RuntimesSettle` rests on them.
* **Bot.** One chat, since requests share nothing but the shutdown that settles
  them; two shims, so that one can replace the other; one fault at either end.
  `DiagDir` TRUE is the longer boot; `MaxReports` 2 is joining and a terminal
  event.
* **Media.** Two POSTs with the same or no stream id, up to two chunks each, two
  pacats (a crash and a respawn); one viseme per utterance, stamped 2, so that
  it lies beyond the first chunk. A budget of requests lets an utterance meet
  two avatar calls, or four avatar calls meet one another.
* **Controller.** Two HTTP calls beside the join and the leave; one failed
  delivery, which is what it takes to be overtaken. The poll is not
  bounded: the panel may be opened by the consent message, taken by the poll,
  opened by a chat and taken again, with the second chat behind the first. The
  constraint `OneFault` explores an xdotool that fails, after which nothing is
  claimed of the chats, apart from a missing tab and from a displaced chat; the
  theorems are of all three together.
* **Records.** Three events give two batches and an overlap; one retry each. The
  constraint `OneTrouble` explores the page at its liveliest, trouble on the way
  (a retry, a repetition, a failed write, an event before its time) and
  transcript lines apart: the full product is out of reach. The threshold of
  two lines is reached, interrupted and exceeded by three. The theorems of
  `MeetingProofs` about the records know neither the bounds nor the constraint.
* **Listeners.** A unit is about seven seconds; the constants keep the code's
  proportions. The listeners share the stream and the clock only, so in each
  behaviour one of the two is at work. An objection, the keyword's debounce,
  the tick and the call need four events and six units. The theorems of
  `MeetingProofs` about them are of any intervals that nest.
* **Voice.** Two utterances share the probe, the map and the watcher. They have
  ids of their own; the theorem of `MeetVoiceProofs` is of shared ones too.
* **Transcript.** Two lines of one meeting, so that there is an order, one of
  the other. The theorems of `TranscriptPipelineProofs` remove the bound for
  all but the liveness.

### Fairness, and why the code justifies it

A JavaScript continuation runs when its promise settles, so each suspended
call has weak fairness on its next step as far as the awaited thing settles:

* Session manager: the HTTP calls to the engine and to the bot have time limits
  of their own, and the shutdown has its deadline; a container's exit is
  observed by the watcher. Nothing makes a container exit or a tool call leave.
* Audio: pipes and sockets deliver, the open and connect timers and the
  handshake timer fire, the manager's own code goes on. The provider, a
  stranger on the port and the bot's parec are obliged to nothing.
* Supervisor: timers fire, a spawned process's exit or error event is
  dispatched, SIGTERM ends what is not in `Stubborn` or `Deaf`, SIGKILL ends
  everything, a worker outside `Mute` signals readiness in time.
* Bot: every stage of the shutdown and every await of the boot is bounded by a
  timer, except the last flush of the daemon client, which gets no fairness:
  its `fetch` has no time limit. On the link a due dial is made, a shim that
  lost an end exits, the closing of a socket is noticed at both ends.
* Media: a handler's next step is taken; *that a body ends and that pacat
  drains or exits* are assumptions about the daemon and PulseAudio, since
  neither has a time limit in this code. The acknowledgement timer of an avatar
  start fires; the extension owes no acknowledgement.
* Records: the network delivers or fails (an answer that never came would hold
  the client's chain for ever), the daemon answers what it has accepted.
* Voice: the provider honours its abort signal, the probe and the hub settle, a
  human with the floor is transcribed, the container goes after the session.
  The bot need not answer.
* Transcript: an armed timer fires. A new line re-arms it, so a meeting
  whose lines are never a second apart would postpone the flush for ever; the
  model has no clock and its bounded lines exclude that.
* Listeners and controller have safety properties only.

## The proofs

The proof modules extend the component's module; TLAPS checks them for every
value of the constants that satisfies the component's assumption and those a
theorem names.

**`MeetSessionManagerProofs`.** `TypeCorrect` proves `TypeOK` (with
`TargetsKnown`: a task under way has a session). `BotAlwaysAuthenticated`
proves `BotIsAuthenticated` and `ExitsReportedHonestly` proves
`ExitNotReportedWhileLeaving`, both from the inductive invariant `Handover`,
assuming `DistinctIds`. `BotIsAuthenticated` is not inductive: it says
nothing about *why* the token is there, and a rollback or a teardown of another
join could remove it. `Handover` says who holds it at each stage of a join
(`TokenHeld`: the pending map, then the record), that a map entry is of the
join it is keyed by (`RecordsMatch`), that a joined session stays in the map
until a teardown claims it (`InMapUntilClaimed`), that only joined sessions are
claimed (`LeavingJoined`), and that every teardown, and the shutdown's
snapshot, works on claimed sessions only (`TargetsClaimed`,
`ForcedInSnapshot`).

Its second part goes on from `Handover`, assuming `DistinctIds` and
`RemoveWorks`: the engine's `remove` does not fail. Without it the theorems are
false, as they should be — a container that the engine will neither stop nor
remove outlives its lease, and nothing in the code comes back to it. The inspection may
fail, and what the theorems then say of the bot it hides is part of them.

* `ManagerImplementsLease` proves `ImplementsLease`: the first state maps to a
  lease's first state, and each action of the manager to a step of one join's
  lease or to none (`JoinMoves`, `TaskMoves`, `ExitMoves`, `OtherMoves`, over
  the frame lemma `LeaseFrame`). Of the state it needs only the invariant
  `Bots`: where a bot can be, at each stage of a join, of a teardown and of the
  shutdown. `NoBotWithoutLease` puts the lease's own invariant under that
  mapping beside `Wired`: a bot outside its lease is one whose inspection failed,
  and it has neither token nor ingest.
* `NothingIsLeftBehind` proves `TeardownsAreComplete`. It says of ended
  teardowns that everything is released, so the invariant `Wired` says of
  running ones what they have released so far: one conjunct for joins
  (`JoinWired`), one for rollbacks (`Unwound`), one for teardowns (`TaskWired`).
* `ShutdownStaysOrderly` proves `ShutdownIsOrderly` from `Wired` and `Reaped`:
  a member of the snapshot is held by a teardown that is not over, or its
  container is gone.

**`TranscriptPipelineProofs`.** `TypeCorrect` includes that a timer is armed
exactly while lines wait. `EveryLineKept` proves `ConversationHasEveryLine`
from `Ledger`: for each meeting, the lines in the buffer and in the
conversation are numbered no higher than those heard, the former above the
latter, and a meeting not in memory owes nothing (`since = heard`) — needed
because an opening starts the account afresh. `DeadForgotten` proves
`DeadMeetingIsForgotten` from `Forgotten`, which adds that the join script
writes only Recall meetings, so a stale write is the only way back.

**`ProviderRuntimeProofs`** speaks of any number of calls, reloads, meetings
and processes that are mute or ignore SIGTERM.

* `RuntimesStayInTurn` proves `RuntimesInTurn` from one invariant per provider,
  `WorkerInv` and `ReceiverInv`, of the same build. What holds however the calls
  overlap (`Handles`, `ReceiverHandles`) says which process a call or a module
  handle may name: `NoStaleHandle` and `NoStaleServer` follow. What holds only
  in turn (`Turns`, `ReceiverTurns`: `overlapped`, or `crossed`, implies nothing)
  says that one call is in progress, that at most one process of each kind
  exists, and that it is the held one, or the one that the call waits for, and
  recorded unless it was told to die. "At most one" is not inductive by itself:
  a spawn keeps it only because the reap before it waited for, or killed, what
  the PID file named.
* `TheSweepSparesTheLive` proves `SweepSparesTheLive` from `SweepInv` and
  `WorkerInv`. A sweep spares its own manager's joins by looking them up; those
  of another worker it would kill. That there are none is the point: a join in
  progress is hosted by a live worker (`JoinsAreHosted`), and the live worker is
  unique in turn.

**`MeetingProofs`** speaks of those who hear a meeting: `MeetingListeners` (any
stream of events, any intervals, any length) and `MeetingRecords` (any people,
messages, labels, size of a batch, number of attempts, events and faults).

* `ObjectionsAreAskedInTime` proves `AskedInTime`, assuming `IntervalsNest`: the
  call's time limit is no longer than the debounce, and debounce and tick
  together no longer than the window (5, 8, 20 and 30 seconds in the code). The
  property is not inductive: that an objection waits says nothing of when it
  will be asked about. `MonitorInv` does: as long as one waits and can still be
  shown, the next tick is within debounce and interval of it, and neither the
  last check nor the call in flight is younger than it (`Unblocked`), so that
  what blocks a tick is over before the window is (`InTime`).
* `WakesEarned` proves `WakesAreEarned`, as a property of each step.
* `EventsAreSeenInOrder` proves `SeenInOrder`, from `OrderInv`. That an event
  comes after those before it says nothing of where those are. The invariant
  says where an event can be: in the buffer, in a batch of the chain, or in what
  the daemon walks through, numbered in that order (`InOrder`), or else seen or
  reported (`SeenStands`). What the daemon walks through is the rest of the
  first batch, or lies before the whole chain when the client has meanwhile
  given that batch up (`Within`, `Beyond`): so a batch that is posted again
  repeats the one just before and nothing older.
* `RecordsKeepTelling` proves `RecordsTellTheMeeting`. Its list of participants
  is a claim about rest, which no step establishes; `RosterInv` says it of every
  moment: the latest event on its way that speaks of somebody agrees with what
  the page last showed (`LatestTells`), and of whom none still to come speaks,
  the writer knows as much as the page (`SettledAgree`). It stands as long as
  nothing was reported or came outside the session, and a repetition does not
  disturb it. `WriterInv` relates the spans to the turns and to the last event
  seen.
* `BindingsAreEarned` proves `BindingIsEarned`, from `ResolverInv`: the counted
  disagreements of a label are the lines heard last for it, all of one
  challenger (`LastAre`).
* `PagesAreTold` proves `PageIsTold`, from `KeysStand`.

**`MeetVoiceProofs`.** `VoiceStaysAccountedFor` proves `VoiceIsAccountedFor` for
any number of utterances and any reuse of their ids, from `VoiceInv`: how far a
call can be at each stage of its POST (`CallsStand`), that what `leave()` awaits
has settled when the session is forgotten (`AwaitedSettles`), and that a stream
which is active for the watcher, or will be once it has had the events still in
the hub, is one of a call that speaks (`WatcherWillFollow`): the property speaks
of the watcher's set only, which runs behind the bridge by those events.

**`MeetControllerProofs`** speaks of any number of chats, avatar calls, retries
and misses.

* `NothingActsLate` proves `NoCommandActsLate` from `FanInv`. The property looks
  back at what was handled; the invariant says why it will go on to hold: of
  what Chrome has been asked for and has not answered, nothing is overtaken by
  what it will answer first, nor by what the script has handled already. A
  retry keeps that only because it looks at the generations again.
* `LeaveStaysFinal` proves `LeaveIsFinal`: only the join knocks, and its
  generation is past from the moment the leave is delivered (`JoinIsOld`).
* `CameraKeepsShowingFrames` proves `CameraShowsFrames` from `CameraInv`: the
  call that has the camera asked for is the one whose turn it is in the
  mutation chain (`CallsStand`), and, unless a request has failed, at most one
  click is in the lane, for a camera that is not yet as desired
  (`CameraFollows`).
* `ChatsStayWhole` proves `ChatsAreWhole` from `ChatInv`. Only the oldest chat
  of the queue is at the composer (`QueueStands`), and none before it asked for
  its text (`TextsBegun`). The rest is of the chats the panel has never been
  closed on: the panel is open while they are at the composer (`PanelStands`),
  their own click on the send button is behind their text or still to be asked
  for (`TextsFollow`), a click on it lies between their text and the next chat's
  (`TextsInOrder`), and every one that got as far as its text is posted, in the
  composer or in the lane (`ChatsReach`). The two halves hold each other up:
  a text is followed only as long as its flow finds the panel open, and who is
  in the composer or the lane is at the composer, so that a closing of the
  panel, whoever does it, displaces all whose texts it can hurt and no other.

**`MeetAudioProofs`** speaks of any number of requests, chunks, events and
reconnects and any buffer limit.

* `SessionsStayAgreed` proves `SessionsAgree` of the relay, from `RelayInv`. What
  the property says of a session in use, the invariant must say from the moment
  its answer is written: behind that answer the pipe has every event written
  since, and no others (`AnswersLead`), and until the runtime's shutdown that is
  every event emitted (`OpenPipeTakesAll`); once it is read, what the worker has and
  what the pipe has make up the whole run (`ProxiesKeepUp`), and because the
  pipe is in order (`PipeIsInOrder`) the next event is the next number. In the
  other direction, a stop is in the pipe as long as the daemon has a session
  whose consumer is gone (`StopsArrive`), and behind a session's audio, never
  before it (`DaemonKnows`). All of it rests on who names a session: ids are
  drawn once (`SessionsAreDistinct`), and a request is asked and answered once
  (`RequestsWait`, `AnswersWait`).
* `PathKeepsSessionsAgreed`: each step of the audio path is a step of the relay
  or leaves it alone, so the same holds while a join drives it.
* `EndedJoinsHoldNothing` proves `EndedJoinHoldsNothing` from `AudioInv`: which
  state of ingest and caller goes with each stage of the join (`WhileItLives`),
  that an ingest neither up nor closing has no open connection (`Silenced`), and
  that the bot is accepted only with `ready` settled in its favour (`Admitted`),
  as a late handshake must not be.

**`BotProofs`** speaks of any number of requests, shims and faults: of the bot and
its link, and of its voice and its face.

* `ShutdownIsClean` proves `ShutdownEndsClean` of the bot, whatever the extension
  does, from `BotIInv`. That nothing outlives a shutdown is not inductive; that
  what it has *passed* does not run is (`PassedIsGone`), together with what the
  shutdown can see: a process that runs has its handle in `subsystems`, but for
  the Xvfb the boot still awaits (`HandlesCoverProcesses`), which is the
  exception the property makes. A step of the shutdown walks over all stages
  whose resource is not there; `BodyRuns` says where that walk ends and what it
  has touched on its way, and is proved without recursion from the first stage
  that suspends (`FirstOfNine`).
* `LinkedBotIsABot` proves that the bot behind the link is the bot of `BotMain`:
  each step is one of its steps or leaves it alone. `BotAndLinkStayAgreed` adds
  to it that the server serves exactly the client whose socket is open
  (`ServesTheOpenClient`), and so proves `BotAndLinkAgree`.
* `NothingIsBroughtUpLate` proves `NothingComesUpLate`, from the guards the boot
  looks at again after each await.

* `SoundAndMouthStayAgreed` proves `SoundAndMouthAgree` for any number of
  utterances, chunks, visemes and avatar calls. Of the pipe, `PlayInv` says that
  everything the owner of pacat has written is the end of what was written
  (`PipeStands`), the owner being the head of the promise chain, and that who is
  to answer 200 is not cancelled and no longer registered (`VerdictsStand`,
  `RegisteredStand`): from the moment it left its loop no cancel reaches it. Of
  the mouth, `MouthStands` adds that the renderer's clock is no further than the
  audio of whoever has its turn, and that a viseme still held back which came
  during its own utterance has met no other utterance in its turn (`InTune`): a
  reset would have cleared it. What the buffer releases and what the reset keeps
  are defined by `CHOOSE`; what they return rests on the least element of a set
  of numbers (`DueIsDue`, `WhatIsKept`).
* `PreemptedStaySilent` proves `PreemptedFallsSilent`, as a property of each step.
* `FaceStaysClean` proves `FaceIsClean` from `FaceInv`. At rest the right tab is
  up only because of what was under way before. The invariant says where the
  call at the head of the chain stands and which renderers and which subscriber
  there are by then, one stage per await (`AtRest`, `StartingUp`, `Opening`,
  `Attached`, `Detaching`, `ClosingDown`), and which tab the extension will show
  when it has handled all it was sent (`Aims`): the last command in the link, or
  the start that runs, or the tab it knows. While a renderer starts up that is
  its own tab, or none if Chrome failed to create it.

Only model-checked: every liveness property, which is out of the prover's reach
(it has no `ENABLED`).

## Disagreements between the code and its comments

One of them has a run that shows it:

* `session_reentry` — `session-manager.ts:1839-1840` says the state is cleared
  "immediately" so that leave is not re-entered; the await of `cancelAll()`
  comes first, and a second leave passes the same test.

The others, and surprises that no comment denies, were met while the models
were written: behaviours of the models that the properties allow, or, marked *,
of code beside them.

**Session manager.** When the inspection at the end of `run()` throws
(`docker-runner.ts:593`), the rollback (`session-manager.ts:1408-1423`) has no
id to stop: the bot runs on without a token until the next worker's startup
sweep ends it. `leave()` entered during `handleContainerExit`'s await of
`cancelAll()` tears the session down a second time (`session-manager.ts:2046-2049`).
A join in flight when `shutdownAll` runs completes after it (`:1145`, `:2391`).
A bot that joins before the watcher of `lifecycle:joined` subscribes is never
announced (`:1609-1613`).

**Relay and audio.** `stopAll` misses a session whose `handleOpen` awaits the
provider (`stt-bridge.ts:28`, `:81`): a session that comes up after it is held
for nobody. The last results a provider flushes when it is stopped go to a stdin
the shutdown has just ended (`runtime.ts:513-516`); they are lost while the
worker lives on, and the `catch` at `runtime.ts:396` does not see it, since a
write after `end()` is reported to the stream and does not throw (* what Node
does with the report is outside the model). `audio-capture.ts:22-26` says transient
failures are absorbed by reconnects; the ingest accepts one connection ever, so
a reconnect that follows an accepted one is in vain. A `run()` whose inspection
fails after the start leaves its container running, and when that bot is in the
middle of its handshake at `stop()`, its socket keeps the server, and `join()`,
from ending: `AudioPathSettles` names this exception. * `stop()` during
`createTranscriber` would leave a provider session (`audio-ingest.ts:408`).

**Supervisors.** A shutdown hook in the middle of a restart leaves the new
worker behind (`runtime.ts:504`, against `worker-pidfile.ts:11-13`); the late
exit of a killed process deletes its successor's PID file (`runtime.ts:75-80`,
`:459`, and alike for the receiver). `provider-runtime.ts:4` says one runtime at
a time; overlapping calls pass the test of `running` on both sides of an await
(`runtime.ts:350`). With the handle lost to a reload, `stopRealtimeServer`
returns at once (`realtime-server.ts:300`, against `provider-runtime.ts:192-198`):
receiver and tunnel survive the shutdown, and the next start makes a second
tunnel. Neither stop waits after SIGKILL, the tunnel's exit handler forgets
whichever child is current, and * the resolved configuration keeps a dead
tunnel's URL.

**Fleet.** A second, overlapping worker's sweep would end the first one's live
bots; bots of the direct backend, and containers created but not started, are
never swept; a container of the same second as the manager's start counts as
new. Of the cutoff and the list of active meetings either alone protects
the joins of this worker.

**Bot and link.** A signal during the first awaits of the boot leaves Xvfb or
Chrome running (`main.ts:638-641`, `:755`). `daemon-client.ts:238` has no time
limit, so an ingress that never answers holds the last flush of a shutdown.
Events the extension posts while its port is down are lost; the server's
`ready` stays true after its client is gone; a chat request to a client that
dies ends by its timer only.

**Media.** A queued POST is not aborted by a later one, and its DELETE answers
404 (`http-server.ts:442`, against "last-writer-wins" at `:429`). A viseme that
overtakes its POST has been released against the previous utterance's clock
before the reset it is said to survive (`http-server.ts:476-479`,
`renderer.ts:498`). `avatar.stop` during `avatar.start` leaks a tab
(`background.ts:40`), and so does a lost `avatar.stop` (`renderer.ts:346`);
`avatar.started` names no start; the frame listener is never removed
(`avatar-channel.ts:135`); a frame the device queued under back-pressure counts
as dropped; * the device's stream has no error listener and `close()` no limit.

**Controller.** The consent post takes no place in the chat queue, and may be
glued to a chat typed at the same time or press the panel's button with it: the
second press closes the panel on it. So does the poll of the participants, every
two seconds, if Meet heeds its click (`participants.ts:158-161,174-179` names
only the chat *reader* as its rival, the sender is another): a chat that is
being typed then is lost, or its draft is left for the next chat to be glued to,
or it is reported as sent although nothing was posted.
`send_chat`'s reply timer runs while the queues are busy. A camera click behind
a long type, or after a timed-out request, leaves the camera on after a
disable. `http-server.ts:837-840` says the next enable retries a failed toggle;
a running renderer answers `alreadyRunning`. A join flow that leave abandoned
still posts its consent message. * A stray Meet tab answers `undefined`, which
counts as delivered.

**Scrapers, client, records.** Chat nodes are marked seen before their text is
there (`chat.ts:352-356`); two equal messages without an id in one timestamp
merge; once the poll has opened its own panel (`participants.ts:181-186`) the
chat is not read until it is opened again; a list without rows reads as
everybody leaving, and a diff lost while the port is down is never sent again.
`daemon-client.ts:207` says "same order"; after a lost answer a batch is
dispatched twice, and `segments.jsonl` gets spans that end before they start. A
failing append in `onSpeakerChange` loses the next turn. Events that arrive
while joining are answered 204 and dropped, the first roster among them.

**Listeners.** Five chat messages push an unasked objection out of the buffer
(`consent-monitor.ts:128-134`); a human who repeats the bot's words within five
seconds is taken for its echo; a `leave()` that throws after a decided
objection is not tried again; content of the watermark's own millisecond is
masked; the comment at `:625-628` promises that a failed call's speech is asked
about again, and by the next tick it may have left the window. `config-schema.ts:438`
says voice mode at two participants or fewer, the code wants exactly two.

**Voice.** `cancelAll` does nothing to a stream in its preflight
(`tts-bridge.ts:831-837`) and waits for a provider that ignores its abort
signal, with `leave()` behind it; two `speak()` with one caller-given id
displace each other; the watcher learns of an utterance after the 1.5 s of the
probe, where `session-manager.ts:2234-2236` says before; until the bot's own id
is known, its own tile starts a barge-in; * `runPost` may report a cancel as an
error (`:1017-1038`).

**Transcript.** A final that follows `lifecycle: left` is neither in a turn nor
in the store (`realtime-server.ts:639-641`, `session-store.ts:98-99`);
`sessions.json` is rewritten from stale reads, though `leave.ts:57-58` calls its
removal "harmless belt-and-braces"; a payload without an id goes to the only
meeting in memory (`session-store.ts:239`), which `leave.ts` may have ended; a
turn that fails is not tried again; `join.ts:252` offers `leave.ts --bot-id`
for a pending join, whose entry is not written yet; * the answers of two
flushes may be spoken out of order (`realtime-server.ts:700`).

## Modelling conventions and assumptions

* One event loop per process: an action is atomic with respect to every other
  action of its process. Promise continuations that are already settled run
  before any I/O (`Settled` in `PlayAudio`).
* The operating system keeps its promises: SIGKILL ends a process; a dead child
  is a zombie until reaped; PIDs are not reused; file writes are atomic.
* Timers have no duration: an armed timer may fire at any time, which covers
  every relation between durations, and some that cannot happen. The listeners
  are the exception, with one clock.
* Counters and queues are bounded by constants named in each module.
* A `\* mutant:` operator is the defective form of the definition under it and
  no part of any specification.

## Not modelled, and why

* **Pure formats**: contracts, native-messaging schemas, Velay URLs, Recall
  field extraction. No state; the models use the messages, not their encodings.
* **I/O adapters**: Recall client, browser stack installer, tool runtime,
  routes, settings, identity, meeting history. One call, one answer.
* **The page's markup**: DOM selectors and the waits for them. `MeetPage` and
  `MeetScrapers` model the page as the code uses it (a composer, a panel, rows).
* **Dashboard, build and benchmark scripts.**
* **Within modelled parts**: the live switch from one provider to the other
  (the provider is fixed for a behaviour); the answer's way back from a turn to
  the speaker; ffmpeg and fsync of the storage writer; backoff lengths and
  frame bytes of the native link; `/health` and `/status`, which only read.

Hazards the list leaves to this text, with no property of their own:
`shuttingDown` is read once at the top of `join()` (`session-manager.ts:1145`);
the late subscription to `lifecycle:joined` (`:1613`); the fetch without a limit
(`daemon-client.ts:238`), which the fairness of `bot_main` leaves out instead;
the early viseme (`renderer.ts:498`); the payload without an id
(`session-store.ts:239`); the order of two answers (`realtime-server.ts:700`).

What is left to do, in order: the live switch of the provider in
`ProviderRuntime`; the answer's way back in `TranscriptPipeline`.
