---------------------------- MODULE AvatarRoutes -----------------------------
(***************************************************************************)
(* POST /avatar/enable and /avatar/disable of the bot (http-server.ts) and *)
(* the camera channel under them (camera-channel.ts).  The calls run one   *)
(* at a time; each brings the renderer, the device and the device writer   *)
(* up or down and asks the extension for the camera, with a time limit.    *)
(* Each call here stands for the camera request it makes, too.             *)
(***************************************************************************)
EXTENDS Naturals, Sequences

CONSTANTS AvatarCalls, Enabling   \* the calls, and which of them enable

VARIABLES
    avatarChain,    \* the calls not yet answered
    call,           \* where each call is
    avatarHandle,   \* does the server hold a renderer, device and writer?
    renderer,       \* is a renderer running?
    device,         \* is the video device open?
    writer,         \* is the device writer attached?
    request         \* each call's camera request: none, pending, ok, failed

avatarVars == <<avatarChain, call, avatarHandle, renderer, device, writer, request>>

AvatarInit ==
    /\ avatarChain = <<>>
    /\ call = [a \in AvatarCalls |-> "idle"]
    /\ request = [a \in AvatarCalls |-> "none"]
    /\ avatarHandle = FALSE /\ renderer = FALSE /\ device = FALSE /\ writer = FALSE

Goes(a, to) == call' = [call EXCEPT ![a] = to]
Turn(a) == avatarChain # <<>> /\ Head(avatarChain) = a
Answers(a) == Goes(a, "answered") /\ avatarChain' = Tail(avatarChain)

CallsAvatar(a) ==
    /\ call[a] = "idle"
    /\ Goes(a, "queued")
    /\ avatarChain' = Append(avatarChain, a)
    /\ UNCHANGED <<avatarHandle, renderer, device, writer, request>>

(* A running renderer is left as it is, and so is the camera.              *)
EnableRunning(a) ==
    /\ Turn(a) /\ a \in Enabling /\ call[a] = "queued" /\ avatarHandle
    /\ Answers(a)
    /\ UNCHANGED <<avatarHandle, renderer, device, writer, request>>

(* The noop renderer, an unavailable one, a start or an opening of the     *)
(* device that fails: the renderer is stopped again.                       *)
EnableFails(a) ==
    /\ Turn(a) /\ a \in Enabling /\ call[a] = "queued" /\ ~avatarHandle
    /\ Answers(a)
    /\ UNCHANGED <<avatarHandle, renderer, device, writer, request>>

(* The renderer runs, the device is open and fed; then the camera.         *)
EnableAttaches(a) ==
    /\ Turn(a) /\ a \in Enabling /\ call[a] = "queued" /\ ~avatarHandle
    /\ avatarHandle' = TRUE /\ renderer' = TRUE /\ device' = TRUE /\ writer' = TRUE
    /\ Goes(a, "camera")
    /\ request' = [request EXCEPT ![a] = "pending"]
    /\ UNCHANGED avatarChain

EnableEnds(a) ==
    /\ a \in Enabling /\ call[a] = "camera" /\ request[a] # "pending"
    /\ Answers(a)
    /\ UNCHANGED <<avatarHandle, renderer, device, writer, request>>

(* The server forgets its handles at once; the camera goes off before      *)
(* anything that feeds it is stopped.                                      *)
DisableTearsDownFirst(a) ==   \* mutant: the writer stops, then the camera
    /\ Turn(a) /\ a \notin Enabling /\ call[a] = "queued"
    /\ avatarHandle' = FALSE
    /\ writer' = FALSE
    /\ Goes(a, IF avatarHandle THEN "camera" ELSE "camera only")
    /\ request' = [request EXCEPT ![a] = "pending"]
    /\ UNCHANGED <<avatarChain, renderer, device>>
DisableAsksCamera(a) ==
    /\ Turn(a) /\ a \notin Enabling /\ call[a] = "queued"
    /\ avatarHandle' = FALSE
    /\ Goes(a, IF avatarHandle THEN "camera" ELSE "camera only")
    /\ request' = [request EXCEPT ![a] = "pending"]
    /\ UNCHANGED <<avatarChain, renderer, device, writer>>

DisableTearsDown(a) ==
    /\ a \notin Enabling /\ call[a] = "camera" /\ request[a] # "pending"
    /\ writer' = FALSE /\ device' = FALSE /\ renderer' = FALSE
    /\ Answers(a)
    /\ UNCHANGED <<avatarHandle, request>>

DisableOfNothing(a) ==
    /\ call[a] = "camera only" /\ request[a] # "pending"
    /\ Answers(a)
    /\ UNCHANGED <<avatarHandle, renderer, device, writer, request>>

(* camera-channel.ts: the first answer or the timeout settles a request.   *)
CameraTimeout(a) ==
    /\ request[a] = "pending"
    /\ request' = [request EXCEPT ![a] = "failed"]
    /\ UNCHANGED <<avatarChain, call, avatarHandle, renderer, device, writer>>
Settled(a, how) == IF request[a] = "pending" THEN [request EXCEPT ![a] = how] ELSE request

AvatarNext(a) ==
    \/ EnableRunning(a) \/ EnableFails(a) \/ EnableEnds(a)
    \/ DisableTearsDown(a) \/ DisableOfNothing(a)

AvatarTypeOK ==
    /\ call \in [AvatarCalls -> {"idle", "queued", "camera", "camera only", "answered"}]
    /\ request \in [AvatarCalls -> {"none", "pending", "ok", "failed"}]
    /\ {avatarHandle, renderer, device, writer} \subseteq BOOLEAN
=============================================================================
