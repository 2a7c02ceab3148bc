----------------------------- MODULE TalkingHead -----------------------------
(***************************************************************************)
(* The avatar of the bot in detail: /avatar/enable and /avatar/disable     *)
(* (http-server.ts) with every await, TalkingHeadRenderer's start, stop    *)
(* and frames (renderer.ts, avatar-channel.ts), the device writer and the  *)
(* video device.  AvatarRoutes has the same two routes as seen from the    *)
(* Meet tab.  A renderer is named by the call that made it; the extension  *)
(* is AvatarTab.  The `started` and the frames of a tab carry no name: the *)
(* renderer that listens takes them, whichever tab they come from.         *)
(***************************************************************************)
EXTENDS AvatarTab

CONSTANT Disables            \* the calls of /avatar/disable

ASSUME CallsDiffer == Starts \cap Disables = {} /\ NoTab \notin Disables

VARIABLES
    avatarChain,    \* avatarMutationChain: the calls not yet answered
    call,           \* where each call is suspended
    avatarRenderer, \* the server's renderer
    renderer,       \* of each renderer: none, waiting, started, refused, stopped
    device,         \* the video device: closed, open, ending
    writer,         \* the renderer the device writer subscribes to
    transcoding,    \* the renderers with a frame in ffmpeg
    lateWrite       \* history: a frame was written to a device not open

headVars == <<avatarChain, call, avatarRenderer, renderer, device, writer, transcoding, lateWrite>>
headAndTab == <<headVars, tabVars>>

Calls == Starts \cup Disables

HeadTypeOK ==
    /\ TabTypeOK
    /\ avatarChain \in Seq(Calls)
    /\ call \in [Calls -> {"idle", "queued", "starting", "opening", "camera", "closing", "answered"}]
    /\ avatarRenderer \in Starts \cup {NoTab} /\ writer \in Starts \cup {NoTab}
    /\ renderer \in [Starts -> {"none", "waiting", "started", "refused", "stopped"}]
    /\ device \in {"closed", "open", "ending"}
    /\ transcoding \subseteq Starts /\ lateWrite \in BOOLEAN

(* The avatar is off, or on since the call r. *)
HeadInit(r) ==
    /\ TabInit(r)
    /\ avatarChain = <<>> /\ transcoding = {} /\ lateWrite = FALSE
    /\ call = [c \in Calls |-> IF c = r THEN "answered" ELSE "idle"]
    /\ renderer = [s \in Starts |-> IF s = r THEN "started" ELSE "none"]
    /\ avatarRenderer = r /\ writer = r
    /\ device = IF r = NoTab THEN "closed" ELSE "open"

Turn(c) == avatarChain # <<>> /\ Head(avatarChain) = c
At(c, where) == Turn(c) /\ call[c] = where
To(c, where) == call' = [call EXCEPT ![c] = where] /\ UNCHANGED avatarChain
Answer(c) == call' = [call EXCEPT ![c] = "answered"] /\ avatarChain' = Tail(avatarChain)

CallsAvatar(c) ==
    /\ call[c] = "idle"
    /\ call' = [call EXCEPT ![c] = "queued"]
    /\ avatarChain' = Append(avatarChain, c)
    /\ UNCHANGED <<avatarRenderer, renderer, device, writer, transcoding, lateWrite, tabVars>>

-----------------------------------------------------------------------------
(* stop() of the renderer: the tab is told to go, the channel is disposed  *)
(* of, ffmpeg is killed and the subscribers are dropped.                   *)
StopRendererOf(s) ==
    /\ renderer' = [renderer EXCEPT ![s] = "stopped"]
    /\ SendTo(AvatarStop)
    /\ transcoding' = transcoding \ {s}

(* Running already; or there is no renderer to be had (no factory, noop).  *)
EnableWithout(c) ==
    /\ At(c, "queued") /\ c \in Starts
    /\ Answer(c)
    /\ UNCHANGED <<avatarRenderer, renderer, device, writer, transcoding, lateWrite, tabVars>>

(* start() sends avatar.start and awaits the tab; a send that throws ends  *)
(* in the same failure as a tab that refuses.                              *)
EnableStarts(c) ==
    /\ At(c, "queued") /\ c \in Starts /\ avatarRenderer = NoTab
    /\ To(c, "starting")
    /\ SendTo(c)
    /\ renderer' = [renderer EXCEPT ![c] = IF commands' = commands THEN "refused" ELSE "waiting"]
    /\ UNCHANGED <<avatarRenderer, device, writer, transcoding, lateWrite>>

(* A page that came up reports to the renderer that waits; one with the    *)
(* placeholder model is refused.                                           *)
Waiting == {s \in Starts : renderer[s] = "waiting"}
Started(s) ==
    /\ PageUp(s) /\ mishap' = (mishap \/ Waiting \notin {{}, {s}})
    /\ \E how \in {"started", "refused"} :
         renderer' = [r \in Starts |-> IF r \in Waiting THEN how ELSE renderer[r]]
    /\ UNCHANGED <<avatarChain, call, avatarRenderer, device, writer, transcoding, lateWrite>>

AckTimeoutOfNone(s) == FALSE   \* mutant: start() waits for ever
AckTimeout(s) ==
    /\ renderer[s] = "waiting"
    /\ renderer' = [renderer EXCEPT ![s] = "refused"]
    /\ UNCHANGED <<avatarChain, call, avatarRenderer, device, writer, transcoding, lateWrite, tabVars>>

EnableRefusedKeepsTab(c) ==   \* mutant: a renderer that did not start is not stopped
    /\ At(c, "starting") /\ renderer[c] = "refused"
    /\ Answer(c)
    /\ renderer' = [renderer EXCEPT ![c] = "stopped"] /\ UNCHANGED transcoding
    /\ UNCHANGED <<avatarRenderer, device, writer, lateWrite, tabVars>>
EnableRefused(c) ==
    /\ At(c, "starting") /\ renderer[c] = "refused"
    /\ Answer(c)
    /\ StopRendererOf(c)
    /\ UNCHANGED <<avatarRenderer, device, writer, lateWrite>>

EnableOpens(c) ==
    /\ At(c, "starting") /\ renderer[c] = "started"
    /\ To(c, "opening")
    /\ UNCHANGED <<avatarRenderer, renderer, device, writer, transcoding, lateWrite, tabVars>>

(* No device node, v4l2-ctl fails, the node cannot be opened. *)
OpenFails(c) ==
    /\ At(c, "opening")
    /\ Answer(c)
    /\ StopRendererOf(c)
    /\ UNCHANGED <<avatarRenderer, device, writer, lateWrite>>

EnableAttaches(c) ==
    /\ At(c, "opening")
    /\ To(c, "camera")
    /\ device' = "open" /\ writer' = c /\ avatarRenderer' = c
    /\ UNCHANGED <<renderer, transcoding, lateWrite, tabVars>>

(* The camera answers, or its request times out. *)
EnableEnds(c) ==
    /\ At(c, "camera") /\ c \in Starts
    /\ Answer(c)
    /\ UNCHANGED <<avatarRenderer, renderer, device, writer, transcoding, lateWrite, tabVars>>

-----------------------------------------------------------------------------
(* Disabling forgets the renderer at once and then turns off the camera.   *)
DisableBegins(c) ==
    /\ At(c, "queued") /\ c \in Disables
    /\ To(c, "camera")
    /\ avatarRenderer' = NoTab
    /\ UNCHANGED <<renderer, device, writer, transcoding, lateWrite, tabVars>>

DisableOfNothing(c) ==
    /\ At(c, "camera") /\ c \in Disables /\ writer = NoTab
    /\ Answer(c)
    /\ UNCHANGED <<avatarRenderer, renderer, device, writer, transcoding, lateWrite, tabVars>>

(* The writer unsubscribes, and the device's stream ends behind what it    *)
(* has been given.                                                         *)
DisableClosesAttached(c) ==   \* mutant: the writer goes on with the device
    /\ At(c, "camera") /\ c \in Disables /\ writer # NoTab
    /\ To(c, "closing")
    /\ device' = "ending"
    /\ UNCHANGED <<avatarRenderer, renderer, writer, transcoding, lateWrite, tabVars>>
DisableCloses(c) ==
    /\ At(c, "camera") /\ c \in Disables /\ writer # NoTab
    /\ To(c, "closing")
    /\ writer' = NoTab /\ device' = "ending"
    /\ UNCHANGED <<avatarRenderer, renderer, transcoding, lateWrite, tabVars>>

Running == {s \in Starts : renderer[s] = "started"}

DeviceClosed(c) ==
    /\ At(c, "closing")
    /\ Answer(c)
    /\ device' = "closed" /\ writer' = NoTab
    /\ \E s \in Running : StopRendererOf(s)
    /\ UNCHANGED <<avatarRenderer, lateWrite>>

-----------------------------------------------------------------------------
(* A frame of any live tab goes to the renderer that listens, through an   *)
(* ffmpeg of its own; one of a stopped renderer is dropped.                *)
Listeners == {s \in Starts : renderer[s] \in {"waiting", "started", "refused"}}
FrameArrives(t) ==
    /\ tab[t] = "live" /\ Listeners # {}
    /\ transcoding' = transcoding \cup Listeners
    /\ UNCHANGED <<avatarChain, call, avatarRenderer, renderer, device, writer, lateWrite, tabVars>>

(* The device writer takes the frames of the renderer it subscribes to.    *)
Dispatch(s) == lateWrite' = (lateWrite \/ (writer = s /\ device # "open"))

FrameDone(s) ==
    /\ s \in transcoding
    /\ transcoding' = transcoding \ {s}
    /\ Dispatch(s)
    /\ UNCHANGED <<avatarChain, call, avatarRenderer, renderer, device, writer, tabVars>>

-----------------------------------------------------------------------------
CallStep(c) ==
    \/ EnableWithout(c) \/ EnableStarts(c) \/ EnableRefused(c) \/ EnableOpens(c)
    \/ OpenFails(c) \/ EnableEnds(c) \/ DisableOfNothing(c) \/ DisableCloses(c)
    \/ DeviceClosed(c)

TabStep(s) ==
    /\ \/ HandleStart(s) \/ OldTabClosed(s) \/ TabCreated(s) \/ TabFails(s) \/ TabGone(s)
       \/ HandleStop
    /\ UNCHANGED headVars
=============================================================================
