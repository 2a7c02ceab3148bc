------------------------------ MODULE BotFleet ------------------------------
(***************************************************************************)
(* The bots of the workers that come and go under the supervisor.  A       *)
(* worker picks a backend when it boots, builds its session manager, and   *)
(* the manager sweeps the bots an earlier worker left behind while joins   *)
(* already come in (docker-runner.ts, direct-bot-runner.ts, the            *)
(* constructor in session-manager.ts).  A bot is named after its meeting.  *)
(***************************************************************************)
EXTENDS RuntimeSupervisor

CONSTANTS
    Meetings,
    Deaf        \* bots that do not exit on SIGTERM

ASSUME FleetConstants == Deaf \subseteq Meetings

VARIABLES
    backend,    \* of each worker: none, docker, direct
    build,      \* its memo of the extension build: none, building, built
    sweep,      \* its startup sweep: none, listing, listed
    seen,       \* what the sweep has still to do with each bot: nothing,
                \* judge or kill it; or it could not signal it
    stage,      \* each join: idle, pending, created, starting, session, over,
                \* lost (with its worker)
    host,       \* the worker it runs in
    box,        \* its bot: absent, created, running (containers), child
    young       \* the workers in whose eyes it is new: Created >= createdBefore

fleetVars == <<backend, build, sweep, seen, stage, host, box, young>>
allVars   == <<vars, fleetVars>>

FleetTypeOK ==
    /\ backend \in [Calls -> {"none", "docker", "direct"}]
    /\ build \in [Calls -> {"none", "building", "built"}]
    /\ sweep \in [Calls -> {"none", "listing", "listed"}]
    /\ seen \in [Calls -> [Meetings -> {"nothing", "judge", "kill", "missed"}]]
    /\ stage \in [Meetings -> {"idle", "pending", "created", "starting", "session", "over", "lost"}]
    /\ host \in [Meetings -> Calls \cup {None}]
    /\ box \in [Meetings -> {"absent", "created", "running", "child"}]
    /\ young \in [Meetings -> SUBSET Calls]

FleetInit ==
    /\ Init
    /\ backend = [w \in Calls |-> "none"] /\ build = [w \in Calls |-> "none"]
    /\ sweep = [w \in Calls |-> "none"]
    /\ seen = [w \in Calls |-> [m \in Meetings |-> "nothing"]]
    /\ stage = [m \in Meetings |-> "idle"] /\ host = [m \in Meetings |-> None]
    /\ box = [m \in Meetings |-> "absent"] /\ young = [m \in Meetings |-> {}]

Active(w) == {m \in Meetings : host[m] = w /\ stage[m] \notin {"over", "lost"}}
Up(m) == box[m] \in {"running", "child"}
Listed == {m \in Meetings : box[m] = "running"}   \* listContainers, all = false
Box(m, s)   == box' = [box EXCEPT ![m] = s]
Stage(m, s) ==   \* a join that is over leaves its worker
    /\ stage' = [stage EXCEPT ![m] = s]
    /\ host' = [host EXCEPT ![m] = IF s = "over" THEN None ELSE @]
Sees(w, m, v) == seen' = [seen EXCEPT ![w][m] = v]

IdleSupervisor == UNCHANGED vars
IdleSweep == UNCHANGED <<backend, sweep, seen>>
IdleJoin  == UNCHANGED <<build, stage, host, young>>

-----------------------------------------------------------------------------
(* main() of the worker: probe the engine, choose, build the manager, say  *)
(* ready.  The cutoff is in whole seconds, so that a bot created a moment  *)
(* before may count as new.                                                *)
BootsManager(w) ==
    /\ WorkerReady(w)
    /\ \E b \in {"docker", "direct"} :
          /\ backend' = [backend EXCEPT ![w] = b]
          /\ sweep' = [sweep EXCEPT ![w] = IF b = "docker" THEN "listing" ELSE "listed"]
    /\ \E same \in SUBSET {m \in Meetings : box[m] # "absent"} :
          young' = [m \in Meetings |-> young[m] \cup (IF m \in same THEN {w} ELSE {})]
    /\ UNCHANGED <<build, seen, stage, host, box>>

-----------------------------------------------------------------------------
(* reapOrphanedMeetBots: running bots of this instance are listed, then    *)
(* judged one after the other while the manager goes on.                   *)

SweepLists(w) ==
    /\ Alive(w) /\ sweep[w] = "listing"
    /\ sweep' = [sweep EXCEPT ![w] = "listed"]
    /\ \/ seen' = [seen EXCEPT ![w] = [m \in Meetings |->
                     IF m \in Listed THEN "judge" ELSE "nothing"]]
       \/ UNCHANGED seen   \* the engine did not answer
    /\ UNCHANGED <<backend, box>> /\ IdleJoin /\ IdleSupervisor

JudgesHarshly(w, m) ==   \* mutant: neither the cutoff nor the active meetings
    /\ Alive(w) /\ seen[w][m] = "judge"
    /\ Sees(w, m, "kill")
    /\ UNCHANGED <<backend, sweep, box>> /\ IdleJoin /\ IdleSupervisor
Judges(w, m) ==
    /\ Alive(w) /\ seen[w][m] = "judge"
    /\ IF w \in young[m] \/ m \in Active(w)
       THEN Sees(w, m, "nothing")
       ELSE Sees(w, m, "kill") \/ Sees(w, m, "missed")
    /\ UNCHANGED <<backend, sweep, box>> /\ IdleJoin /\ IdleSupervisor

(* kill: a container that is gone or not running is no error.              *)
Kill(m) == Box(m, IF box[m] = "running" THEN "absent" ELSE box[m])

(* REAPER_TERM_KILL_GRACE_MS after the SIGTERM, without a second look.     *)
TermIsEnough(w, m) ==   \* mutant: no SIGKILL for a bot that is still up
    /\ Alive(w) /\ seen[w][m] = "kill"
    /\ Sees(w, m, "nothing")
    /\ UNCHANGED <<backend, sweep, box>> /\ IdleJoin /\ IdleSupervisor
KillsLater(w, m) ==
    /\ Alive(w) /\ seen[w][m] = "kill"
    /\ Sees(w, m, "nothing")
    /\ Kill(m)
    /\ UNCHANGED <<backend, sweep>> /\ IdleJoin /\ IdleSupervisor

-----------------------------------------------------------------------------
(* A join's launch: its token is pending from before the container is      *)
(* created, the session takes over from it.                                *)

Join(w, m) ==
    /\ process[w] = "up" /\ stage[m] = "idle"
    /\ stage' = [stage EXCEPT ![m] = "pending"] /\ host' = [host EXCEPT ![m] = w]
    /\ UNCHANGED <<build, young, box>> /\ IdleSweep /\ IdleSupervisor

RunsIn(m, b) == host[m] # None /\ Alive(host[m]) /\ backend[host[m]] = b

Appears(m, s) ==   \* a container or child, new to every worker that has booted
    /\ Box(m, s)
    /\ young' = [young EXCEPT ![m] = {w \in Calls : sweep[w] # "none"}]
Creates(m) ==
    /\ RunsIn(m, "docker") /\ stage[m] = "pending"
    /\ \/ Stage(m, "created") /\ Appears(m, "created")
       \/ Stage(m, "over") /\ UNCHANGED <<box, young>>
    /\ UNCHANGED build /\ IdleSweep /\ IdleSupervisor
(* A failed start is cleaned up, if the engine lets the container go.      *)
Starts(m) ==
    /\ RunsIn(m, "docker") /\ stage[m] = "created"
    /\ \/ Stage(m, "starting") /\ Box(m, "running")
       \/ Stage(m, "over") /\ (Box(m, "absent") \/ Box(m, "created"))
    /\ UNCHANGED <<build, young>> /\ IdleSweep /\ IdleSupervisor

(* The direct runner: one extension build is shared by the runs that wait  *)
(* for it, and a failed one fails them and is forgotten.                   *)
BuildsExtension(w) ==
    /\ Alive(w) /\ \E m \in Active(w) : RunsIn(m, "direct") /\ stage[m] = "pending"
    /\ \/ /\ build' = [build EXCEPT ![w] = IF @ = "none" THEN "building" ELSE "built"]
          /\ build[w] # "built" /\ UNCHANGED <<stage, host>>
       \/ /\ build[w] = "building" /\ build' = [build EXCEPT ![w] = "none"]
          /\ LET waiting == {m \in Active(w) : stage[m] = "pending"} IN
             /\ stage' = [m \in Meetings |-> IF m \in waiting THEN "over" ELSE stage[m]]
             /\ host' = [m \in Meetings |-> IF m \in waiting THEN None ELSE host[m]]
    /\ UNCHANGED <<young, box>> /\ IdleSweep /\ IdleSupervisor
Spawns(m) ==
    /\ RunsIn(m, "direct") /\ stage[m] = "pending" /\ build[host[m]] = "built"
    /\ Stage(m, "starting") /\ Appears(m, "child")
    /\ UNCHANGED build /\ IdleSweep /\ IdleSupervisor

GetsLive(m) ==
    /\ stage[m] = "starting"
    /\ Stage(m, "session")
    /\ UNCHANGED <<build, young, box>> /\ IdleSweep /\ IdleSupervisor
(* A rollback or a leave.  Of a container, stop and remove may fail, and a *)
(* failed inspection after the start does not even try them; a child is    *)
(* killed and awaited.                                                     *)
EndsContainer(m) ==
    /\ stage[m] \in {"starting", "session"} /\ box[m] # "child"
    /\ Stage(m, "over")
    /\ \/ box[m] = "running" /\ UNCHANGED box
       \/ Box(m, "absent")
    /\ UNCHANGED <<build, young>> /\ IdleSweep /\ IdleSupervisor
EndsChild(m) ==
    /\ stage[m] \in {"starting", "session"} /\ box[m] = "child"
    /\ Stage(m, "over") /\ Box(m, "absent")
    /\ UNCHANGED <<build, young>> /\ IdleSweep /\ IdleSupervisor

BotExits(m) ==
    /\ Up(m) /\ Box(m, "absent")
    /\ IdleJoin /\ IdleSweep /\ IdleSupervisor
Signalled(m) == \E w \in Calls : seen[w][m] = "kill"
BotObeys(m) == m \notin Deaf /\ Signalled(m) /\ BotExits(m)

(* A worker takes its joins with it, never its bots; the engine may have   *)
(* accepted a start that the worker will not see answered.                 *)
WorkerLeavesBots(w) ==
    /\ WorkerDies(w)
    /\ LET mine == Active(w) IN
       /\ stage' = [m \in Meetings |-> IF m \in mine THEN "lost" ELSE stage[m]]
       /\ host' = [m \in Meetings |-> IF m \in mine THEN None ELSE host[m]]
       /\ box' \in {box, [m \in Meetings |-> IF m \in mine /\ stage[m] = "created"
                                             THEN "running" ELSE box[m]]}
    /\ backend' = [backend EXCEPT ![w] = "none"] /\ build' = [build EXCEPT ![w] = "none"]
    /\ sweep' = [sweep EXCEPT ![w] = "none"]
    /\ seen' = [seen EXCEPT ![w] = [m \in Meetings |-> "nothing"]]
    /\ young' = [m \in Meetings |-> young[m] \ {w}]

-----------------------------------------------------------------------------
SupervisorSteps ==
    /\ \/ \E c \in Calls : InitCalled(c) \/ ShutdownCalled(c) \/ CallStep(c)
       \/ \E w \in Calls : ReadyTimeout(w) \/ ExitEvent(w) \/ SpawnError(w)
       \/ Reload
    /\ UNCHANGED fleetVars

FleetNext ==
    \/ SupervisorSteps
    \/ \E w \in Calls : \/ BootsManager(w) \/ WorkerLeavesBots(w)
                        \/ SweepLists(w) \/ BuildsExtension(w)
                        \/ \E m \in Meetings : Judges(w, m) \/ KillsLater(w, m) \/ Join(w, m)
    \/ \E m \in Meetings : \/ Creates(m) \/ Starts(m) \/ Spawns(m)
                           \/ GetsLive(m) \/ EndsContainer(m) \/ EndsChild(m) \/ BotExits(m)

(* Timers fire and events are dispatched; a signal a process cannot ignore *)
(* ends it; one that is not mute gets ready; a sweep goes on.  None of     *)
(* these can go on for ever, so that fairness of the choice among them is  *)
(* fairness of each.                                                       *)
FleetMust ==
    \/ \E c \in Calls :
          \/ /\ \/ CallStep(c) \/ ExitEvent(c) \/ SpawnError(c) \/ ReadyTimeout(c)
             /\ UNCHANGED fleetVars
          \/ c \notin Mute /\ BootsManager(c)
          \/ Killed(c) /\ WorkerLeavesBots(c)
          \/ \E m \in Meetings : Judges(c, m) \/ KillsLater(c, m)
    \/ \E m \in Meetings : BotObeys(m)

-----------------------------------------------------------------------------
(* session-manager.ts, at the sweep: "Three guards make the sweep          *)
(* race-safe with concurrent joins".  A sweep never signals the bot of a   *)
(* meeting a living worker is joining or attending, while the supervisor's *)
(* calls come one at a time.                                               *)
SweepSparesTheLive ==
    /\ FleetTypeOK
    /\ InTurn => \A w \in Calls, m \in Meetings :
          seen[w][m] = "kill" => stage[m] \in {"over", "lost"}

(* A bot that a dead worker left behind, once a sweep has it on its list,  *)
(* is ended even if it ignores SIGTERM, unless the sweep takes it for new, *)
(* the engine refuses the signal, or the sweeping worker dies too.         *)
OrphansAreReaped ==
    \A w \in {c \in Calls : Kind[c] # "shutdown"}, m \in Meetings :
        seen[w][m] = "judge" /\ stage[m] = "lost" /\ w \notin young[m]
            ~> box[m] # "running" \/ seen[w][m] = "missed" \/ ~Alive(w)

=============================================================================
