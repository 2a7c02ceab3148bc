---------------------------- MODULE ContentScript ----------------------------
(***************************************************************************)
(* The script in the Meet tab (content.ts and its features): the join flow *)
(* with its consent message, the chat sender, the camera toggle and, while *)
(* a session is installed, the poll of the participants.  Each command     *)
(* starts a flow of its own; chats queue for one another, the consent      *)
(* message and the toggles do not.  Selectors, timings and the scrapers'   *)
(* events are left out; a wait may end at its deadline whenever the page   *)
(* has not fulfilled it.                                                   *)
(***************************************************************************)
EXTENDS MeetPage

CONSTANTS
    Commands,
    TypeOf,
    None

VARIABLES
    flow,             \* of each command's flow: see ScriptTypeOK
    generation,       \* of each join, the generation it began with
    joinGeneration,
    session,          \* the join whose scrapers are running
    announced,        \* the last lifecycle state sent to the bot
    sendChatQueue     \* the chats not yet replied to

scriptVars == <<flow, generation, joinGeneration, session, announced, sendChatQueue>>

ScriptInit ==
    /\ flow = [c \in Commands |-> "idle"]
    /\ generation = [c \in Commands |-> 0]
    /\ joinGeneration = 0
    /\ session = None
    /\ announced = "none"
    /\ sendChatQueue = <<>>

Ended == {"sent", "changed", "failed"}
Goes(c, pc) == flow' = [flow EXCEPT ![c] = pc]

(* chrome.runtime.onMessage.                                               *)
HandleJoin(c) ==
    /\ TypeOf[c] = "join"
    /\ joinGeneration' = joinGeneration + 1
    /\ generation' = [generation EXCEPT ![c] = joinGeneration']
    /\ session' = None
    /\ announced' = "joining"
    /\ Goes(c, "prejoin")
    /\ UNCHANGED <<sendChatQueue, pageVars>>

HandleLeave(c) ==
    /\ TypeOf[c] = "leave"
    /\ joinGeneration' = joinGeneration + 1
    /\ session' = None
    /\ Goes(c, "sent")
    /\ UNCHANGED <<generation, announced, sendChatQueue, pageVars>>

EnqueueSendChatUnqueued(c) ==   \* mutant: handleSendChat(msg) at once
    /\ TypeOf[c] = "chat"
    /\ Goes(c, "queued")
    /\ sendChatQueue' = <<c>> \o sendChatQueue
    /\ UNCHANGED <<generation, joinGeneration, session, announced, pageVars>>
EnqueueSendChat(c) ==
    /\ TypeOf[c] = "chat"
    /\ Goes(c, "queued")
    /\ sendChatQueue' = Append(sendChatQueue, c)
    /\ UNCHANGED <<generation, joinGeneration, session, announced, pageVars>>

(* toggleCameraTo(): nothing to do, no button, or a trusted click and a    *)
(* wait for the button's state to change.                                  *)
Desired(c) == TypeOf[c] = "enable"
HandleCameraToggle(c) ==
    /\ TypeOf[c] \in {"enable", "disable"}
    /\ IF page # "inside" THEN Goes(c, "failed") /\ AsksNothing
       ELSE IF camera = Desired(c) THEN Goes(c, "changed") /\ AsksNothing
       ELSE Goes(c, "toggling") /\ Asks("camera", c)
    /\ UNCHANGED <<generation, joinGeneration, session, announced, sendChatQueue>>
    /\ UNCHANGED <<slipped, page, panel, composer, posted, camera>>

Handle(c) == HandleJoin(c) \/ HandleLeave(c) \/ EnqueueSendChat(c) \/ HandleCameraToggle(c)

ToggleSettles(c) ==
    /\ flow[c] = "toggling"
    /\ Goes(c, IF camera = Desired(c) THEN "changed" ELSE "failed")
    /\ UNCHANGED <<generation, joinGeneration, session, announced, sendChatQueue, pageVars>>

(* ---- the composer: a chat's flow, and the consent message's ----------- *)

(* The consent message is not in the queue.                                *)
Turn(c) == sendChatQueue # <<>> /\ c = Head(sendChatQueue)
Dequeued(c) == sendChatQueue' = IF Turn(c) THEN Tail(sendChatQueue) ELSE sendChatQueue

(* ensurePanelOpen(): an open panel needs no click; with no button to      *)
(* click, sendChat() then finds no input.                                  *)
EnsurePanelOpen(c) ==
    IF panel THEN Goes(c, "typing") /\ Asks("type", c)
    ELSE IF page = "inside" THEN Goes(c, "panel") /\ Asks("panel", c)
    ELSE Goes(c, "failed") /\ AsksNothing

HandleSendChat(c) ==
    /\ flow[c] = "queued" /\ Turn(c)
    /\ EnsurePanelOpen(c)
    /\ IF flow'[c] = "failed" THEN Dequeued(c) ELSE UNCHANGED sendChatQueue
    /\ UNCHANGED <<generation, joinGeneration, session, announced>>
    /\ UNCHANGED <<slipped, page, panel, composer, posted, camera>>

(* The wait for the input is over; sendChat() focuses it and asks for the  *)
(* text, or throws.                                                        *)
PanelWaitEnds(c) ==
    /\ flow[c] = "panel"
    /\ IF panel THEN Goes(c, "typing") /\ Asks("type", c) /\ UNCHANGED sendChatQueue
                ELSE Goes(c, "failed") /\ Dequeued(c) /\ AsksNothing
    /\ UNCHANGED <<generation, joinGeneration, session, announced>>
    /\ UNCHANGED <<slipped, page, panel, composer, posted, camera>>

(* The typing time is over, whether the keys have been typed or not.       *)
TypeWaitEnds(c) ==
    /\ flow[c] = "typing"
    /\ IF panel THEN Goes(c, "sent") /\ Asks("send", c)
                ELSE Goes(c, "failed") /\ AsksNothing
    /\ Dequeued(c)
    /\ UNCHANGED <<generation, joinGeneration, session, announced>>
    /\ UNCHANGED <<slipped, page, panel, composer, posted, camera>>

(* ---- runJoinFlow() ---------------------------------------------------- *)

ClickAdmissionButton(c) ==
    /\ flow[c] = "prejoin"
    /\ Goes(c, "knocked") /\ Asks("admission", c)
    /\ UNCHANGED <<generation, joinGeneration, session, announced, sendChatQueue>>
    /\ UNCHANGED <<slipped, page, panel, composer, posted, camera>>

(* The surface has not advanced: one more trusted click.                   *)
RetryAdmissionClick(c) ==
    /\ flow[c] = "knocked" /\ page = "prejoin"
    /\ Goes(c, "knocked again") /\ Asks("admission", c)
    /\ UNCHANGED <<generation, joinGeneration, session, announced, sendChatQueue>>
    /\ UNCHANGED <<slipped, page, panel, composer, posted, camera>>

(* The meeting's UI is there: onAdmitted(), then the consent message.      *)
FinalizeAdmissionOfAny(c) ==   \* mutant: no look at the generation
    session' = c /\ announced' = "joined"
FinalizeAdmission(c) ==
    IF generation[c] = joinGeneration
    THEN session' = c /\ announced' = "joined"
    ELSE UNCHANGED <<session, announced>>

Admitted(c) ==
    /\ flow[c] \in {"knocked", "knocked again"} /\ page = "inside"
    /\ FinalizeAdmission(c)
    /\ EnsurePanelOpen(c)
    /\ UNCHANGED <<generation, joinGeneration, sendChatQueue>>
    /\ UNCHANGED <<slipped, page, panel, composer, posted, camera>>

(* No prejoin surface, no button, a click that does not register, a        *)
(* refusal, or nobody who admits: the catch of handleJoin().               *)
JoinFlowFails(c) ==
    /\ \/ flow[c] \in {"prejoin", "knocked again"} /\ page # "inside"
       \/ flow[c] = "knocked" /\ page \in {"knocking", "refused"}
    /\ announced' = IF generation[c] = joinGeneration THEN "error" ELSE announced
    /\ Goes(c, "failed")
    /\ UNCHANGED <<generation, joinGeneration, session, sendChatQueue, pageVars>>

ScriptNext(c) ==
    \/ ToggleSettles(c) \/ HandleSendChat(c) \/ PanelWaitEnds(c) \/ TypeWaitEnds(c)
    \/ ClickAdmissionButton(c) \/ RetryAdmissionClick(c) \/ Admitted(c) \/ JoinFlowFails(c)

(* ---- the session's poll ----------------------------------------------- *)

(* Every two seconds, and no list of participants (it is not there while   *)
(* the chat is): ensurePanelOpen() of participants.ts clicks the button    *)
(* for it.  The click is a script's, and Meet may not heed it.             *)
PollShowsPeople ==
    /\ session # None /\ panel
    /\ ClosesChat
    /\ UNCHANGED <<scriptVars, lane, slipped, page, posted, camera>>

ScriptTypeOK ==
    /\ flow \in [Commands -> {"idle", "queued", "panel", "typing", "prejoin", "knocked", "knocked again",
                              "toggling"} \cup Ended]
    /\ session \in Commands \cup {None}
    /\ announced \in {"none", "joining", "joined", "error"}
=============================================================================
