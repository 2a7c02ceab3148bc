--------------------------- MODULE MeetController ----------------------------
(***************************************************************************)
(* The bot process (its HTTP commands, camera channel and xdotool lane),   *)
(* the extension's background worker, the content script and the Meet page *)
(* around one another.  The native link keeps the order of messages both   *)
(* ways; here it never breaks.                                             *)
(***************************************************************************)
EXTENDS ContentScript, FiniteSets

CONSTANTS Chats, AvatarCalls, Enabling, Join, Leave, MaxMisses,
    MaxCalls   \* bound: HTTP calls in one behaviour

ASSUME ControllerConstants ==
    /\ Commands = Chats \cup AvatarCalls \cup {Join, Leave}
    /\ \A c \in Commands :
          /\ TypeOf[c] = "join" <=> c = Join
          /\ TypeOf[c] = "leave" <=> c = Leave
          /\ TypeOf[c] = "chat" <=> c \in Chats
          /\ TypeOf[c] = "enable" <=> c \in Enabling
          /\ TypeOf[c] = "disable" <=> c \in AvatarCalls \ Enabling

VARIABLES
    chat,        \* of each POST /send_chat: idle, chained, pending, ok, failed
    chatChain,   \* the requests not yet answered
    arrived, fan, asked, misses, handled, tab,                               \* ContentBridge
    avatarChain, call, avatarHandle, renderer, device, writer, request,        \* AvatarRoutes
    displaced    \* history: whose text was at the composer when the chat panel was closed

Fan == INSTANCE ContentBridge
Avatar == INSTANCE AvatarRoutes

chatVars == <<chat, chatChain>>
vars == <<chatVars, arrived, fan, asked, misses, handled, tab, avatarChain, call, avatarHandle,
          renderer, device, writer, request, scriptVars, pageVars, displaced>>

BotIdle == UNCHANGED chatVars
FanIdle == UNCHANGED <<arrived, fan, asked, misses, handled, tab>>
AvatarIdle == UNCHANGED <<avatarChain, call, avatarHandle, renderer, device, writer, request>>
ScriptIdle == UNCHANGED <<scriptVars, pageVars>>

Init ==
    /\ chat = [c \in Chats |-> "idle"] /\ chatChain = <<>>
    /\ Fan!FanInit /\ Avatar!AvatarInit /\ ScriptInit /\ PageInit
    /\ displaced = {}

Leaving == fan[Leave] # "idle"
MayCall == /\ ~Leaving
           /\ Cardinality({c \in Chats : chat[c] # "idle"} \cup {a \in AvatarCalls : call[a] # "idle"}) < MaxCalls

(* ---- the bot ---------------------------------------------------------- *)

(* The join goes out once the extension is ready, the leave when the bot   *)
(* shuts down; the shutdown has settled every pending request before it.   *)
SendJoin == ~Leaving /\ Fan!Arrives(Join) /\ BotIdle /\ AvatarIdle /\ ScriptIdle

SendLeave ==
    /\ Fan!Arrives(Leave)
    /\ chat' = [c \in Chats |-> IF chat[c] \in {"chained", "pending"} THEN "failed" ELSE chat[c]]
    /\ chatChain' = <<>>
    /\ request' = [a \in AvatarCalls |-> IF request[a] = "pending" THEN "failed" ELSE request[a]]
    /\ UNCHANGED <<avatarChain, call, avatarHandle, renderer, device, writer>>
    /\ ScriptIdle

PostSendChat(c) ==
    /\ MayCall /\ chat[c] = "idle"
    /\ chat' = [chat EXCEPT ![c] = "chained"]
    /\ chatChain' = Append(chatChain, c)
    /\ FanIdle /\ AvatarIdle /\ ScriptIdle

(* sendChatViaExtension(): one request at a time, with a reply timer that  *)
(* starts as the command leaves.                                           *)
SendChatViaExtension(c) ==
    /\ chat[c] = "chained" /\ c = Head(chatChain)
    /\ chat' = [chat EXCEPT ![c] = "pending"]
    /\ Fan!Arrives(c)
    /\ UNCHANGED chatChain /\ AvatarIdle /\ ScriptIdle

ReplyTimeout(c) ==
    /\ chat[c] = "pending"
    /\ chat' = [chat EXCEPT ![c] = "failed"]
    /\ chatChain' = Tail(chatChain)
    /\ FanIdle /\ AvatarIdle /\ ScriptIdle

CallsAvatar(a) == MayCall /\ Avatar!CallsAvatar(a) /\ BotIdle /\ FanIdle /\ ScriptIdle
AsksCamera(a) ==
    /\ ~Leaving
    /\ Avatar!EnableAttaches(a) \/ Avatar!DisableAsksCamera(a)
    /\ Fan!Arrives(a)
    /\ BotIdle /\ ScriptIdle
AvatarSteps(a) ==
    /\ Avatar!AvatarNext(a) \/ Avatar!CameraTimeout(a)
    /\ BotIdle /\ FanIdle /\ ScriptIdle

(* send_chat_result and camera_result: a pending request is settled by the *)
(* first of its kind, an unknown one is dropped.                           *)
Replies ==
    /\ chat' = [c \in Chats |-> IF chat[c] = "pending" /\ flow'[c] \in Ended
                                THEN IF flow'[c] = "sent" THEN "ok" ELSE "failed"
                                ELSE chat[c]]
    /\ chatChain' = SelectSeq(chatChain, LAMBDA c : chat'[c] \in {"chained", "pending"})
    /\ request' = [a \in AvatarCalls |-> IF request[a] = "pending" /\ flow'[a] \in Ended
                                         THEN IF flow'[a] = "changed" THEN "ok" ELSE "failed"
                                         ELSE request[a]]
    /\ UNCHANGED <<avatarChain, call, avatarHandle, renderer, device, writer>>

(* ---- the extension and the page --------------------------------------- *)

Delivers(c) == Fan!Delivered(c) /\ Handle(c) /\ Replies
FanSteps ==
    /\ Fan!NoTab \/ Fan!TabOpens \/ \E c \in Commands : Fan!RetryFires(c)
    /\ BotIdle /\ AvatarIdle /\ ScriptIdle
ScriptSteps(c) == ScriptNext(c) /\ Replies /\ FanIdle
HandsRun == LaneRuns /\ BotIdle /\ FanIdle /\ AvatarIdle /\ UNCHANGED scriptVars
PollActs == PollShowsPeople /\ BotIdle /\ FanIdle /\ AvatarIdle
HostActs == HostDecides /\ BotIdle /\ FanIdle /\ AvatarIdle /\ UNCHANGED scriptVars

(* A chat is at the composer from the moment it asks for its text until    *)
(* its click on the send button has been run.                              *)
AtComposer == {c \in Chats : flow[c] = "typing" \/ [op |-> "send", by |-> c] \in ToSet(lane)}
Displaces == displaced' = IF panel /\ ~panel' THEN displaced \cup AtComposer ELSE displaced

Steps ==
    \/ SendJoin \/ SendLeave
    \/ \E c \in Chats : PostSendChat(c) \/ SendChatViaExtension(c) \/ ReplyTimeout(c)
    \/ \E a \in AvatarCalls : CallsAvatar(a) \/ AsksCamera(a) \/ AvatarSteps(a)
    \/ \E c \in Commands : Delivers(c) \/ ScriptSteps(c)
    \/ FanSteps \/ HandsRun \/ PollActs \/ HostActs

Next == Steps /\ Displaces

Spec == Init /\ [][Next]_vars

(* ---- properties ------------------------------------------------------- *)

TypeOK == ScriptTypeOK /\ Avatar!AvatarTypeOK

(* However long a command has been retried, the content script never acts  *)
(* on it after a newer one that supersedes it: no join after the leave, no *)
(* chat of the meeting left, no camera enabled after its disable           *)
(* (content-bridge.ts, fanOutGenerations).                                 *)
NoCommandActsLate ==
    \A i, j \in DOMAIN handled :
        i < j /\ Fan!Supersedes(handled[i], handled[j]) => Fan!Before(arrived, handled[i], handled[j])

(* Once the content script has taken the leave, a join flow that is still  *)
(* running announces nothing more and starts no scrapers (content.ts,      *)
(* joinGeneration).                                                        *)
LeaveIsFinal ==
    [][fan[Leave] = "delivered" => announced' = announced /\ session' = session]_vars

(* What the meeting reads of the bot is one command's whole text, in spite *)
(* of retries, timed-out requests and a lane full of other work; and what  *)
(* was reported as sent has been posted when the lane is through.  Not if  *)
(* an xdotool failed, or the consent message is part of it, which takes no *)
(* place in the chat queue.  And a command loses its text, or leaves it    *)
(* for the next to be glued to, when the panel is closed on it, by the     *)
(* poll of the participants or by a press of the consent message's: but    *)
(* only such a command, and no other message suffers.                      *)
ChatsAreWhole ==
    /\ TypeOK
    /\ \A m \in posted : slipped \/ Join \in ToSet(m) \/ \A i \in 1..(Len(m) - 1) : m[i] \in displaced
    /\ lane = <<>> =>
          \A c \in Chats : chat[c] = "ok" =>
              slipped \/ c \in displaced \/ \E m \in posted : c \in ToSet(m)

(* While the meeting sees the camera, the device writer feeds it, unless a *)
(* toggle failed or timed out, whose click may still come (http-server.ts, *)
(* the order of /avatar/enable and /avatar/disable).                       *)
CameraShowsFrames ==
    camera /\ ~writer => \E a \in AvatarCalls : request[a] = "failed"
=============================================================================
