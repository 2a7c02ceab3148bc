---------------------------- MODULE ContentBridge ----------------------------
(***************************************************************************)
(* The extension's background worker between the bot and the Meet tab      *)
(* (messaging/content-bridge.ts): every command of the bot is offered to   *)
(* the tab, again and again while no tab is there, unless a newer command  *)
(* supersedes it.  Chrome answers one worker's requests in their order.    *)
(***************************************************************************)
EXTENDS Naturals, Sequences, SequencesExt

CONSTANTS
    Commands,
    TypeOf,        \* join, leave, chat, enable, disable
    MaxMisses      \* bound: failed deliveries in one behaviour

VARIABLES
    arrived,    \* the commands in the order the worker received them
    fan,        \* of each command: idle, asked, waiting, delivered, dropped
    asked,      \* the requests Chrome has not answered yet
    misses,     \* failed deliveries so far
    handled,    \* the commands the content script took, in its order
    tab         \* is a tab with a content script open?

fanVars == <<arrived, fan, asked, misses, handled, tab>>

FanInit ==
    /\ arrived = <<>> /\ asked = <<>> /\ handled = <<>>
    /\ fan = [c \in Commands |-> "idle"]
    /\ misses = 0
    /\ tab = FALSE

(* The generations a command moves on, and those that must not move on     *)
(* while it is being retried.                                              *)
Bumps(c) == IF TypeOf[c] \in {"join", "leave"} THEN {"lifecycle", "camera"}
            ELSE IF TypeOf[c] \in {"enable", "disable"} THEN {"camera"}
            ELSE {}
Captures(c) == {"lifecycle"} \cup (IF TypeOf[c] \in {"enable", "disable"} THEN {"camera"} ELSE {})

Supersedes(d, c) == Bumps(d) \cap Captures(c) # {}
Before(s, c, d) == \E j \in DOMAIN s : s[j] = d /\ \E i \in 1..(j - 1) : s[i] = c

IsSupersededByNone(c) == FALSE   \* mutant: no generations
IsSuperseded(c) == \E d \in ToSet(arrived) : Supersedes(d, c) /\ Before(arrived, c, d)

Arrives(c) ==
    /\ fan[c] = "idle"
    /\ arrived' = Append(arrived, c)
    /\ fan' = [fan EXCEPT ![c] = "asked"]
    /\ asked' = Append(asked, c)
    /\ UNCHANGED <<misses, handled, tab>>

(* A tab is there and its listener runs, whatever it makes of the command. *)
Delivered(c) ==
    /\ tab /\ asked # <<>> /\ c = Head(asked)
    /\ asked' = Tail(asked)
    /\ handled' = Append(handled, c)
    /\ fan' = [fan EXCEPT ![c] = "delivered"]
    /\ UNCHANGED <<arrived, misses, tab>>

(* No tab yet: the command waits for its next attempt, or this was its     *)
(* last.                                                                   *)
NoTab ==
    /\ ~tab /\ asked # <<>> /\ misses < MaxMisses
    /\ misses' = misses + 1
    /\ \E next \in {"waiting", "dropped"} : fan' = [fan EXCEPT ![Head(asked)] = next]
    /\ asked' = Tail(asked)
    /\ UNCHANGED <<arrived, handled, tab>>

RetryFires(c) ==
    /\ fan[c] = "waiting"
    /\ IF IsSuperseded(c)
       THEN fan' = [fan EXCEPT ![c] = "dropped"] /\ UNCHANGED asked
       ELSE fan' = [fan EXCEPT ![c] = "asked"] /\ asked' = Append(asked, c)
    /\ UNCHANGED <<arrived, misses, handled, tab>>

TabOpens == ~tab /\ tab' = TRUE /\ UNCHANGED <<arrived, fan, asked, misses, handled>>
=============================================================================
