------------------------------- MODULE BotMain -------------------------------
(***************************************************************************)
(* The bot process (bot/main.ts): the boot sequence that brings up Xvfb,   *)
(* the native-messaging socket, the daemon client, Chrome, audio capture   *)
(* and the HTTP control surface, and the shutdown that takes them down in  *)
(* the reverse order.  Signals, /leave, the extension, Chrome, the audio   *)
(* pipeline, the daemon client and the boot's own errors all call the same *)
(* shutdown(), while the boot may still be suspended in one of its awaits. *)
(*                                                                         *)
(* One action is the code between two awaits that really suspend:          *)
(* launchChrome, startAudioCapture and the HTTP server's start() are       *)
(* synchronous underneath.                                                 *)
(***************************************************************************)
EXTENDS Naturals, Sequences, FiniteSets

CONSTANTS
    Requests,    \* send_chat requests to the HTTP surface
    DiagDir,     \* TRUE when BOT_DIAG_DIR is set: errors take a screenshot
    MaxReports   \* bound on the lifecycle events handed to the daemon client

ASSUME BotConstants == DiagDir \in BOOLEAN /\ MaxReports \in Nat

VARIABLES
    boot,        \* the await the boot sequence is suspended in
    started,     \* the handles present in `subsystems`
    running,     \* child processes and servers that really run
    connected,   \* the extension's shim holds the socket
    timer,       \* extensionJoinedTimer is armed
    phase,       \* BotState
    stage,       \* the await shutdown() is suspended in; "none" before it
    finalState,  \* the state the first shutdown() was called with
    flapped,     \* firstDaemonErrorAt is set and inside the window
    chats,       \* pendingSendChat
    reported,    \* lifecycle events enqueued to the daemon client
    inMeeting,   \* our tab has really reached the meeting
    bootAt       \* where the boot was when shutdown began

procVars == <<boot, started, running>>
downVars == <<stage, finalState, bootAt>>
vars == <<procVars, downVars, connected, timer, phase, flapped, chats, reported, inMeeting>>

-----------------------------------------------------------------------------
Booting   == {"probe", "xvfb", "manifest", "socket", "display", "ready", "settle"}
BootOver  == {"up", "failed", "abandoned"}
Resources == {"xvfb", "socket", "chrome", "audio", "http"}
Children  == {"xvfb", "chrome", "audio"}
Terminal  == {"left", "error"}

(* The awaits of shutdown(), in the order of its body. *)
StagesNoAudio ==   \* mutant: the capture pipeline is forgotten
    <<"shot", "http", "grace", "chrome", "xvfb", "socket", "flush", "exited">>
Stages == <<"shot", "http", "grace", "chrome", "audio", "xvfb", "socket", "flush", "exited">>

TypeOK ==
    /\ boot \in Booting \cup BootOver
    /\ started \subseteq Resources \cup {"client"} /\ running \subseteq Resources
    /\ connected \in BOOLEAN /\ timer \in BOOLEAN
    /\ flapped \in BOOLEAN /\ inMeeting \in BOOLEAN
    /\ phase \in {"joining", "joined", "leaving"} \cup Terminal
    /\ stage \in {"none"} \cup {Stages[i] : i \in DOMAIN Stages}
    /\ finalState \in {"none"} \cup Terminal
    /\ bootAt \in {"none"} \cup Booting \cup BootOver
    /\ chats \in [Requests -> {"none", "pending", "sent", "failed"}]
    /\ reported \in Seq({"joining", "joined"} \cup Terminal)

Init ==
    /\ boot = "probe" /\ started = {} /\ running = {}
    /\ connected = FALSE /\ timer = FALSE /\ phase = "joining"
    /\ stage = "none" /\ finalState = "none" /\ bootAt = "none"
    /\ flapped = FALSE /\ inMeeting = FALSE
    /\ chats = [r \in Requests |-> "none"] /\ reported = <<>>

-----------------------------------------------------------------------------
(* shutdown() *)

ShuttingDown == stage # "none"

(* A stage whose subsystem is absent when it is reached does not suspend.  *)
Suspends(s, state, up) ==
    \/ s = "shot"  /\ state = "error" /\ DiagDir
    \/ s = "grace" /\ "socket" \in up /\ connected
    \/ s = "flush" /\ "client" \in up
    \/ s \in up \cup {"exited"}

RejectChats(c) == [r \in Requests |-> IF c[r] = "pending" THEN "failed" ELSE c[r]]

(* Run the body of shutdown() from Stages[i] to its next await: past the   *)
(* screenshot the timer is cleared and the chats are rejected; stopping    *)
(* the socket server drops the extension and rejects a waitForReady; the   *)
(* terminal event goes to the daemon client just before its last flush.    *)
(* `up` and `events` are the handles and events, and `b` is where the boot *)
(* stands, when this body runs.                                            *)
ContinueFrom(i, state, up, events, b) ==
    LET s == Stages[CHOOSE k \in i..Len(Stages) :
                /\ Suspends(Stages[k], state, up)
                /\ \A j \in i..(k - 1) : ~Suspends(Stages[j], state, up)]
        closing == s \in {"socket", "flush", "exited"} /\ "socket" \in up
        ending  == s \in {"flush", "exited"} /\ stage # "flush" /\ "client" \in up
        beyond  == s # "shot" /\ i <= 2
    IN
    /\ stage' = s
    /\ timer' = (timer /\ ~beyond)
    /\ chats' = IF beyond THEN RejectChats(chats) ELSE chats
    /\ connected' = (connected /\ ~closing)
    /\ boot' = IF closing /\ b = "ready" THEN "failed" ELSE b
    /\ reported' = IF ending THEN Append(events, state) ELSE events
    /\ phase' = IF s = "exited" THEN state
                ELSE IF state = "error" THEN "error" ELSE "leaving"

(* Only the first call runs the body; later ones await the same promise.   *)
Shutdown(state, up, events, b) ==
    IF ShuttingDown
    THEN /\ boot' = b /\ reported' = events
         /\ UNCHANGED <<downVars, timer, phase, chats, connected>>
    ELSE /\ finalState' = state /\ bootAt' = boot
         /\ ContinueFrom(1, state, up, events, b)

(* The await of a stage settles: the subsystem it stops is gone. *)
StageDone(i) ==
    /\ stage = Stages[i] /\ i < Len(Stages)
    /\ running' = running \ {stage}
    /\ ContinueFrom(i + 1, finalState, started, reported, boot)
    /\ UNCHANGED <<started, finalState, bootAt, flapped, inMeeting>>

-----------------------------------------------------------------------------
(* The boot sequence. *)

(* What a boot step that neither reports nor touches shutdown() leaves.    *)
Quiet == UNCHANGED <<downVars, connected, timer, phase, flapped, chats, reported, inMeeting>>

(* startXvfb: reuse the X server already on the display, or spawn one and  *)
(* poll it; the handle reaches `subsystems` only when the await returns.   *)
(* (Stopping a reused server does nothing, so it is not in `started`.)     *)
BootReuseXvfb ==
    /\ boot = "probe" /\ boot' = "manifest"
    /\ UNCHANGED <<started, running>> /\ Quiet

BootSpawnXvfb ==
    /\ boot = "probe" /\ boot' = "xvfb"
    /\ running' = running \cup {"xvfb"} /\ UNCHANGED started /\ Quiet

BootXvfb ==
    /\ boot = "xvfb" /\ boot' = "manifest"
    /\ started' = started \cup {"xvfb"} /\ UNCHANGED running /\ Quiet

BootManifest ==
    /\ boot = "manifest" /\ boot' = "socket"
    /\ started' = started \cup {"socket"} /\ UNCHANGED running /\ Quiet

(* The socket listens; the daemon client is created. *)
BootSocket ==
    /\ boot = "socket" /\ boot' = "display"
    /\ running' = running \cup {"socket"}
    /\ started' = started \cup {"client"} /\ Quiet

(* The display answered: Chrome is launched and waitForReady begins. *)
BootChrome ==
    /\ boot = "display" /\ boot' = "ready"
    /\ started' = started \cup {"chrome"}
    /\ running' = running \cup {"chrome"} /\ Quiet

(* A step of the boot throws, or the ready handshake times out. *)
BootFails ==
    /\ boot \in Booting \ {"probe", "settle"}
    /\ running' = IF boot = "xvfb" THEN running \ {"xvfb"} ELSE running
    /\ UNCHANGED <<started, flapped, inMeeting>>
    /\ Shutdown("error", started', reported, "failed")

(* The settle sleep ended: bring up audio and HTTP unless a shutdown began *)
(* meanwhile; a missing port or token, or a failing bind, ends the boot.   *)
(* (Stopping a server that never bound does nothing.)                      *)
BootSettleUnguarded ==   \* mutant: `if (shutdownInProgress) return` is missing
    /\ boot = "settle" /\ boot' = "up"
    /\ started' = started \cup {"audio", "http"} /\ running' = running \cup {"audio", "http"}
    /\ UNCHANGED <<flapped, inMeeting, downVars, connected, timer, phase, chats, reported>>
BootSettle ==
    /\ boot = "settle"
    /\ UNCHANGED <<flapped, inMeeting>>
    /\ \/ /\ ShuttingDown /\ boot' = "abandoned"
          /\ UNCHANGED <<started, running, downVars, connected, timer, phase, chats, reported>>
       \/ /\ ~ShuttingDown /\ boot' = "up"
          /\ started' = started \cup {"audio", "http"} /\ running' = running \cup {"audio", "http"}
          /\ UNCHANGED <<downVars, connected, timer, phase, chats, reported>>
       \/ /\ ~ShuttingDown
          /\ \/ UNCHANGED <<started, running>>
             \/ started' = started \cup {"audio"} /\ running' = running \cup {"audio"}
          /\ Shutdown("error", started', reported, "failed")

-----------------------------------------------------------------------------
(* The extension behind the native-messaging socket. *)

Listening == "socket" \in running /\ stage \notin {"socket", "flush", "exited"}

ShimConnects ==
    /\ Listening /\ connected' = TRUE
    /\ UNCHANGED <<procVars, downVars, timer, phase, flapped, chats, reported, inMeeting>>

ShimCloses ==
    /\ connected /\ connected' = FALSE
    /\ UNCHANGED <<procVars, downVars, timer, phase, flapped, chats, reported, inMeeting>>

Report(state) == IF "client" \in started THEN Append(reported, state) ELSE reported

(* The first `ready` frame releases waitForReady: lifecycle:joining is     *)
(* published, `join` is sent and the extension-joined deadline is armed.   *)
ExtensionReady ==
    /\ connected /\ boot = "ready"
    /\ boot' = "settle" /\ timer' = TRUE /\ reported' = Report("joining")
    /\ UNCHANGED <<started, running, downVars, connected, phase, flapped, chats, inMeeting>>

(* `join` does not pass the message schema. *)
JoinSendFails ==
    /\ connected /\ boot = "ready"
    /\ Shutdown("error", started, Report("joining"), "failed")
    /\ UNCHANGED <<started, running, flapped, inMeeting>>

(* Messages from a tab that is not ours are dropped; lifecycle messages    *)
(* are swallowed once a shutdown has begun.                                *)
HeededForeign(own) == ~ShuttingDown   \* mutant: no source-tab gate
Heeded(own) == own /\ ~ShuttingDown

ExtensionReportsJoined(own) ==
    /\ connected /\ boot # "ready" /\ Len(reported) < MaxReports
    /\ inMeeting' = (inMeeting \/ own)
    /\ IF Heeded(own)
       THEN phase' = "joined" /\ timer' = FALSE /\ reported' = Report("joined")
       ELSE UNCHANGED <<phase, timer, reported>>
    /\ UNCHANGED <<procVars, downVars, connected, flapped, chats>>

(* lifecycle:left, lifecycle:error and page_navigated end the session;     *)
(* shutdown() itself publishes the terminal event.                         *)
ExtensionEndsTwice(own, state) ==   \* mutant: forwards the event as well
    /\ connected /\ boot # "ready"
    /\ Heeded(own)
    /\ Shutdown(state, started, Report(state), boot)
    /\ UNCHANGED <<started, running, flapped, inMeeting>>
ExtensionEnds(own, state) ==
    /\ connected /\ boot # "ready"
    /\ Heeded(own)
    /\ Shutdown(state, started, reported, boot)
    /\ UNCHANGED <<started, running, flapped, inMeeting>>

JoinDeadline ==
    /\ timer /\ stage # "exited"
    /\ IF ShuttingDown
       THEN /\ timer' = FALSE
            /\ UNCHANGED <<boot, downVars, connected, phase, chats, reported>>
       ELSE Shutdown("error", started, reported, boot)
    /\ UNCHANGED <<started, running, flapped, inMeeting>>

-----------------------------------------------------------------------------
(* The other callers of shutdown(). *)

Signal ==
    /\ ~ShuttingDown
    /\ Shutdown("left", started, reported, boot)
    /\ UNCHANGED <<started, running, flapped, inMeeting>>

ApiLeave ==
    /\ "http" \in running /\ ~ShuttingDown
    /\ Shutdown("left", started, reported, boot)
    /\ UNCHANGED <<started, running, flapped, inMeeting>>

ChromeExits ==
    /\ "chrome" \in running /\ stage # "exited"
    /\ running' = running \ {"chrome"}
    /\ Shutdown("error", started, reported, boot)
    /\ UNCHANGED <<started, flapped, inMeeting>>

AudioFatal ==
    /\ "audio" \in running /\ stage # "exited"
    /\ running' = running \ {"audio"}
    /\ Shutdown("error", started, reported, boot)
    /\ UNCHANGED <<started, flapped, inMeeting>>

(* A batch is lost: the first one opens a 30 s window, a second one inside *)
(* it ends the session.                                                    *)
DaemonError ==
    /\ "client" \in started /\ stage # "exited"
    /\ UNCHANGED <<started, running, inMeeting>>
    /\ IF flapped THEN Shutdown("error", started, reported, boot) /\ UNCHANGED flapped
       ELSE /\ flapped' = TRUE
            /\ UNCHANGED <<boot, downVars, connected, timer, phase, chats, reported>>

DaemonWindowExpires ==
    /\ flapped /\ flapped' = FALSE
    /\ UNCHANGED <<procVars, downVars, connected, timer, phase, chats, reported, inMeeting>>

-----------------------------------------------------------------------------
(* send_chat through the extension. *)

SetChat(r, s) ==
    /\ chats' = [chats EXCEPT ![r] = s]
    /\ UNCHANGED <<procVars, downVars, connected, timer, phase, flapped, reported, inMeeting>>

ChatRequested(r) ==
    /\ "http" \in running /\ chats[r] = "none" /\ stage # "exited"
    /\ SetChat(r, IF connected THEN "pending" ELSE "failed")

ChatAnswered(r) ==
    /\ chats[r] = "pending" /\ connected
    /\ \E ok \in {"sent", "failed"} : SetChat(r, ok)

ChatTimesOutConnected(r) ==   \* mutant: the timer lives with the connection
    /\ chats[r] = "pending" /\ connected /\ SetChat(r, "failed")
ChatTimesOut(r) ==
    /\ chats[r] = "pending" /\ stage # "exited"
    /\ SetChat(r, "failed")

-----------------------------------------------------------------------------
BootStep ==
    \/ BootReuseXvfb \/ BootSpawnXvfb \/ BootXvfb \/ BootManifest \/ BootSocket
    \/ BootChrome \/ BootFails \/ BootSettle

(* Once the process has exited nothing of it runs. *)
OwnStep ==
    \/ BootStep /\ stage # "exited"
    \/ \E i \in DOMAIN Stages : StageDone(i)
    \/ JoinDeadline \/ Signal \/ ApiLeave \/ ChromeExits \/ AudioFatal
    \/ DaemonError \/ DaemonWindowExpires
    \/ \E r \in Requests : ChatRequested(r) \/ ChatTimesOut(r)

(* What the extension says once its `ready` is behind it. *)
Spoken ==
    \/ \E own \in BOOLEAN : \/ ExtensionReportsJoined(own)
                            \/ \E state \in Terminal : ExtensionEnds(own, state)
    \/ \E r \in Requests : ChatAnswered(r)

Next ==
    \/ OwnStep \/ Spoken
    \/ ShimConnects \/ ShimCloses \/ ExtensionReady \/ JoinSendFails

Spec == Init /\ [][Next]_vars

(* Every await of the boot carries a timeout or is local I/O, and so does  *)
(* every stage of shutdown() (Chrome and Xvfb are killed after a grace)    *)
(* except the last: the daemon client's fetch has no time limit.           *)
Fairness ==
    /\ WF_vars(BootStep /\ stage # "exited")
    /\ \A i \in DOMAIN Stages : WF_vars(StageDone(i) /\ stage # "flush")
    /\ WF_vars(JoinDeadline)
    /\ \A r \in Requests : WF_vars(ChatTimesOut(r))

FairSpec == Spec /\ Fairness
-----------------------------------------------------------------------------
(* Properties. *)

(* The daemon sees at most one terminal lifecycle event of a bot, it is    *)
(* the last event of the stream and it is the one the first shutdown was   *)
(* called with, whichever triggers race ("only the first one wins").       *)
TerminalEventIsLast ==
    \A i \in DOMAIN reported :
        reported[i] \in Terminal => i = Len(reported) /\ reported[i] = finalState

(* No audio capture and no HTTP control surface comes up once a shutdown   *)
(* has begun, so `meet-bot ready` is not logged for a dead meeting.        *)
NothingComesUpLate ==
    [][ShuttingDown => (started' \ started) \cap {"audio", "http"} = {}]_vars

(* A shutdown that begins when Chrome is already up leaves no child        *)
(* process behind when the bot exits, also when the boot goes on meanwhile.*)
ShutdownAfterLaunchIsClean ==
    stage = "exited" /\ bootAt \in {"ready", "settle", "up"} => running \cap Children = {}

(* The shutdown ends clean: both of the above, over well-typed states.     *)
ShutdownEndsClean == TypeOK /\ TerminalEventIsLast /\ ShutdownAfterLaunchIsClean

(* A bot that has asked to join does not sit in `joining` for ever: our    *)
(* tab reaches the meeting or the shutdown begins.                         *)
JoinIsDecided == boot = "settle" ~> inMeeting \/ ShuttingDown

(* The HTTP caller of send_chat is answered: by the extension, the         *)
(* length-scaled timer or the shutdown.                                    *)
ChatsAreAnswered ==
    \A r \in Requests : chats[r] = "pending" ~> chats[r] # "pending" \/ stage = "exited"

(* Both: nobody who asked the bot for something waits for ever.             *)
RequestsAreDecided == JoinIsDecided /\ ChatsAreAnswered
=============================================================================
