------------------------------ MODULE AvatarTab ------------------------------
(***************************************************************************)
(* The avatar's tab in the bot's Chrome (features/avatar.ts and the page   *)
(* avatar/avatar.ts).  The bot's commands come over the link in order, but *)
(* each runs in a handler of its own: a later one is handled while an      *)
(* earlier one still waits for Chrome to close or to create a tab.  A tab  *)
(* is named by the start command that asked for it.                        *)
(***************************************************************************)
EXTENDS Naturals, Sequences

CONSTANTS
    Starts,      \* the avatar.start commands
    NoTab

ASSUME TabConstants == NoTab \notin Starts

VARIABLES
    commands,    \* what the bot has sent and the worker has not handled
    handler,     \* of each start: idle, closing (the old tab), creating
    avatarTab,   \* avatarTabId
    tab,         \* of each tab: none, loading, live, closing
    mishap       \* history: a command was lost or met another's handler, or a
                 \* page reported to the renderer of another

tabVars == <<commands, handler, avatarTab, tab, mishap>>

AvatarStop == NoTab          \* avatar.stop among the commands

TabTypeOK ==
    /\ commands \in Seq(Starts \cup {AvatarStop})
    /\ handler \in [Starts -> {"idle", "closing", "creating"}]
    /\ tab \in [Starts -> {"none", "loading", "live", "closing"}]
    /\ avatarTab \in Starts \cup {NoTab} /\ mishap \in BOOLEAN

(* The extension before the first start, or with tab t up since an earlier *)
(* one.                                                                    *)
TabInit(t) ==
    /\ commands = <<>> /\ mishap = FALSE
    /\ handler = [s \in Starts |-> "idle"]
    /\ avatarTab = t
    /\ tab = [s \in Starts |-> IF s = t THEN "live" ELSE "none"]

(* closeAvatarTab forgets the tab before it asks Chrome to remove it.      *)
CloseTab ==
    /\ avatarTab' = NoTab
    /\ tab' = IF avatarTab = NoTab THEN tab ELSE [tab EXCEPT ![avatarTab] = "closing"]

Command(c) == commands # <<>> /\ Head(commands) = c
Overlaps == \E s \in Starts : handler[s] # "idle"

HandleStart(s) ==
    /\ Command(s)
    /\ commands' = Tail(commands)
    /\ handler' = [handler EXCEPT ![s] = IF avatarTab = NoTab THEN "creating" ELSE "closing"]
    /\ CloseTab
    /\ mishap' = (mishap \/ Overlaps)

HandleStop ==
    /\ Command(AvatarStop)
    /\ commands' = Tail(commands)
    /\ CloseTab
    /\ mishap' = (mishap \/ Overlaps)
    /\ UNCHANGED handler

(* The removal a start awaits is over, or failed. *)
OldTabClosed(s) ==
    /\ handler[s] = "closing"
    /\ handler' = [handler EXCEPT ![s] = "creating"]
    /\ UNCHANGED <<commands, avatarTab, tab, mishap>>

TabCreated(s) ==
    /\ handler[s] = "creating"
    /\ handler' = [handler EXCEPT ![s] = "idle"]
    /\ avatarTab' = s
    /\ tab' = [tab EXCEPT ![s] = "loading"]
    /\ UNCHANGED <<commands, mishap>>

(* tabs.create fails: the bot's start will time out. *)
TabFails(s) ==
    /\ handler[s] = "creating"
    /\ handler' = [handler EXCEPT ![s] = "idle"]
    /\ UNCHANGED <<commands, avatarTab, tab, mishap>>

(* The page is up and reports itself, once. *)
PageUp(s) ==
    /\ tab[s] = "loading"
    /\ tab' = [tab EXCEPT ![s] = "live"]
    /\ UNCHANGED <<commands, handler, avatarTab>>

TabGone(s) ==
    /\ tab[s] = "closing"
    /\ tab' = [tab EXCEPT ![s] = "none"]
    /\ UNCHANGED <<commands, handler, avatarTab, mishap>>

(* What the bot hands to the link is lost while the link is down.          *)
SendTo(c) ==
    /\ \/ commands' = Append(commands, c) /\ UNCHANGED mishap
       \/ UNCHANGED commands /\ mishap' = TRUE
    /\ UNCHANGED <<handler, avatarTab, tab>>

Up == {s \in Starts : tab[s] \in {"loading", "live"}}
Idle == commands = <<>> /\ ~Overlaps
=============================================================================
