---------------------------- MODULE MeetingLease ----------------------------
(***************************************************************************)
(* What the session manager promises about one call of join(): a lease on  *)
(* a bot.  A lease is absent, then starting, serving, closing and closed,  *)
(* each at most once and in this order (it may skip serving); the bot runs *)
(* only while the lease is between absent and closed.  The one exception   *)
(* is a bot lost while its lease was starting: an orphan, which the lease  *)
(* never served and no longer answers for.                                 *)
(***************************************************************************)
CONSTANT Joins
VARIABLES phase, bot, orphans

vars == <<phase, bot, orphans>>

Init == phase = [j \in Joins |-> "absent"] /\ bot = [j \in Joins |-> FALSE] /\ orphans = {}

Move(j, from, to) == phase[j] \in from /\ phase' = [phase EXCEPT ![j] = to]

Start(j) == Move(j, {"absent"}, "starting") /\ UNCHANGED <<bot, orphans>>

Spawn(j) ==
    /\ ~bot[j] /\ phase[j] = "starting"
    /\ bot' = [bot EXCEPT ![j] = TRUE]
    /\ UNCHANGED <<phase, orphans>>

Serve(j) == Move(j, {"starting"}, "serving") /\ UNCHANGED <<bot, orphans>>

Close(j) == Move(j, {"starting", "serving"}, "closing") /\ UNCHANGED <<bot, orphans>>

(* A lease that is only starting loses hold of its bot. *)
Lose(j) ==
    /\ Move(j, {"starting"}, "closing")
    /\ orphans' = orphans \cup {j}
    /\ UNCHANGED bot

(* The bot stops, by itself or because the lease is closing. *)
Die(j) == bot[j] /\ bot' = [bot EXCEPT ![j] = FALSE] /\ UNCHANGED <<phase, orphans>>

(* A lease ends with its bot: stopped before, or removed by the last step. *)
(* An orphan goes on.                                                      *)
End(j) ==
    /\ Move(j, {"starting", "closing"}, "closed")
    /\ bot' = [bot EXCEPT ![j] = bot[j] /\ j \in orphans]
    /\ UNCHANGED orphans

Next == \E j \in Joins :
    Start(j) \/ Spawn(j) \/ Serve(j) \/ Close(j) \/ Lose(j) \/ Die(j) \/ End(j)

Spec == Init /\ [][Next]_vars

(* The promise in one line. *)
NoBotOutsideLease == \A j \in Joins \ orphans : bot[j] => phase[j] \notin {"absent", "closed"}
=============================================================================
