------------------------- MODULE MeetSessionManager -------------------------
(***************************************************************************)
(* The session manager of the meeting-bot worker: it joins meetings (spawn *)
(* a bot container, open an audio ingest, wire the event subscribers),     *)
(* leaves them on request, on the meeting-length timer and on shutdown,    *)
(* and tears a session down when its container dies by itself.             *)
(*                                                                         *)
(* The program is one JavaScript event loop, so one action is the code     *)
(* between two awaits that really suspend.  An await whose callee is       *)
(* synchronous underneath (MeetStorageWriter.stop and startAudio) does not *)
(* end an action.  Every call of join(), leave(), handleContainerExit()    *)
(* and shutdownAll() is a process of its own with a program counter.       *)
(***************************************************************************)
EXTENDS Naturals, FiniteSets

CONSTANTS
    Joins,        \* calls of join(); a call owns at most one container
    Meetings,     \* meeting ids
    MeetingOf,    \* the meeting id each call of join() is given
    Callers,      \* calls of leave() by tools, monitors and timers
    FaultyCalls,  \* the engine calls that may fail, among those of EngineCalls
    NoJoin        \* "no entry" in a map keyed by meeting id

EngineCalls == {"inspect", "stop", "remove", "wait"}

ASSUME SessionConstants ==
    /\ MeetingOf \in [Joins -> Meetings]
    /\ FaultyCalls \subseteq EngineCalls
    /\ NoJoin \notin Joins

\* worker.ts: every join has a meeting id of its own, named here after it.
FreshIds == [j \in Joins |-> j]

VARIABLES
    sessions,          \* meeting id -> the join whose session record it holds
    pendingBotTokens,  \* meeting id -> the join whose token is pre-registered
    registered,        \* meeting ids with a handler in the event router
    shuttingDown,
    jpc,               \* where each call of join() is suspended
    named,             \* joins whose runner.run() returned the container's id
    container,         \* the bot container of each join
    ingest,            \* the audio ingest of each join
    subscribed,        \* joins whose dispatcher subscriptions are live
    monitors,          \* joins whose consent, chat and barge-in monitors run
    timers,            \* joins whose max-meeting-minutes timer is armed
    leaving,           \* joins with leaveInitiatedByDaemon set
    pc, target,        \* each teardown: where it is suspended, whose session
    shutdownPc, snapshot,
    botJoined,         \* joins whose bot has reported lifecycle:joined
    announced,         \* joins with joinedPublished set: meet.joined was sent
    exitReported,      \* joins whose unexpected exit was sent as meet.error
    metaWritten        \* joins whose storage writer flushed meta.json

joinVars  == <<jpc, named, pendingBotTokens>>
taskVars  == <<pc, target>>
stopVars  == <<shuttingDown, shutdownPc, snapshot>>
histVars  == <<botJoined, announced, exitReported, metaWritten>>
wiring    == <<sessions, registered, subscribed, monitors, timers, leaving>>
resources == <<container, ingest>>
vars == <<joinVars, taskVars, stopVars, histVars, wiring, resources>>

-----------------------------------------------------------------------------
(* Calls that tear a session down. *)
LeaveTasks    == {"leave"} \X Callers
ShutdownTasks == {"shutdown"} \X Joins   \* the leave() that shutdownAll starts
ExitTasks     == {"exit"} \X Joins       \* handleContainerExit
ForceTasks    == {"force"} \X Joins      \* the straggler path of shutdownAll
Tasks == LeaveTasks \cup ShutdownTasks \cup ExitTasks \cup ForceTasks

UndoPc   == {"undoStop", "undoRemove", "undoIngest", "dropIngest", "dropStop", "dropRemove"}
JoinOver == {"joined", "failed", "refused"}
JoinPc   == {"idle", "publishing", "key", "ingest", "run", "inspect", "ready"} \cup UndoPc \cup JoinOver
TaskPc   == {"idle", "cancel", "bot", "stop", "remove", "ingest", "done"}

TypeOK ==
    /\ sessions \in [Meetings -> Joins \cup {NoJoin}]
    /\ pendingBotTokens \in [Meetings -> Joins \cup {NoJoin}]
    /\ registered \subseteq Meetings
    /\ shuttingDown \in BOOLEAN
    /\ jpc \in [Joins -> JoinPc] /\ named \subseteq Joins
    /\ container \in [Joins -> {"none", "running", "exited", "removed"}]
    /\ ingest \in [Joins -> {"none", "listening", "stopped"}]
    /\ subscribed \subseteq Joins /\ monitors \subseteq Joins
    /\ timers \subseteq Joins /\ leaving \subseteq Joins
    /\ pc \in [Tasks -> TaskPc]
    /\ target \in [Tasks -> Joins \cup {NoJoin}]
    /\ shutdownPc \in {"idle", "waiting", "forcing", "done"}
    /\ snapshot \subseteq Joins
    /\ botJoined \subseteq Joins /\ announced \subseteq Joins
    /\ exitReported \subseteq Joins /\ metaWritten \subseteq Joins

Init ==
    /\ sessions = [m \in Meetings |-> NoJoin]
    /\ pendingBotTokens = [m \in Meetings |-> NoJoin]
    /\ registered = {} /\ shuttingDown = FALSE
    /\ jpc = [j \in Joins |-> "idle"] /\ named = {}
    /\ container = [j \in Joins |-> "none"]
    /\ ingest = [j \in Joins |-> "none"]
    /\ subscribed = {} /\ monitors = {} /\ timers = {} /\ leaving = {}
    /\ pc = [t \in Tasks |-> "idle"]
    /\ target = [t \in Tasks |-> NoJoin]
    /\ shutdownPc = "idle" /\ snapshot = {}
    /\ botJoined = {} /\ announced = {} /\ exitReported = {} /\ metaWritten = {}

-----------------------------------------------------------------------------
(* The token the ingress route accepts for a meeting id. *)
ResolveTokenNoPending(m) == sessions[m]   \* mutant: no pre-registered token
ResolveToken(m) == IF sessions[m] # NoJoin THEN sessions[m] ELSE pendingBotTokens[m]

OfMeeting(m) == {j \in Joins : MeetingOf[j] = m}

(* The engine's answers: the states a container may be in after the call. *)
AfterStop(s) == IF s # "running" THEN {s}
                ELSE {"exited"} \cup (IF "stop" \in FaultyCalls THEN {"running"} ELSE {})
AfterRemove(s) == {"removed"} \cup (IF "remove" \in FaultyCalls THEN {s} ELSE {})

SetJpc(j, p)      == jpc' = [jpc EXCEPT ![j] = p]
ForgetTokenEntry(m) ==   \* mutant: leaves the map without an answer for m
    pendingBotTokens' = [x \in Meetings \ {m} |-> pendingBotTokens[x]]
ForgetToken(m)    == pendingBotTokens' = [pendingBotTokens EXCEPT ![m] = NoJoin]
SetContainer(j, S) == \E s \in S : container' = [container EXCEPT ![j] = s]

(* unregisterMeetingDispatcher: the router entry and every subscriber. *)
UnregisterAll(m) == registered' = {} /\ subscribed' = {}   \* mutant: ignores the id
Unregister(m) ==
    /\ registered' = registered \ {m}
    /\ subscribed' = subscribed \ OfMeeting(m)

-----------------------------------------------------------------------------
(* join() *)

(* The two guards, then the await of the meet.joining publish. *)
JoinStart(j) ==
    /\ jpc[j] = "idle"
    /\ SetJpc(j, IF shuttingDown \/ sessions[MeetingOf[j]] # NoJoin
                 THEN "refused" ELSE "publishing")
    /\ UNCHANGED <<named, pendingBotTokens, taskVars, stopVars, histVars, wiring, resources>>

(* Config, preflight and mkdir; mint and pre-register the bot's token. *)
JoinPrepare(j) ==
    /\ jpc[j] = "publishing"
    /\ \/ /\ SetJpc(j, "key")
          /\ pendingBotTokens' = [pendingBotTokens EXCEPT ![MeetingOf[j]] = j]
       \/ SetJpc(j, "failed") /\ ForgetToken(MeetingOf[j])
    /\ UNCHANGED <<named, taskVars, stopVars, histVars, wiring, resources>>

(* The provider key arrived; resolve URL and name, register the router. *)
JoinRegister(j) ==
    /\ jpc[j] = "key"
    /\ \/ /\ SetJpc(j, "ingest")
          /\ registered' = registered \cup {MeetingOf[j]}
          /\ UNCHANGED pendingBotTokens
       \/ /\ SetJpc(j, "failed") /\ ForgetToken(MeetingOf[j])
          /\ UNCHANGED registered
    /\ UNCHANGED <<named, sessions, subscribed, monitors, timers, leaving,
                   taskVars, stopVars, histVars, resources>>

JoinIngest(j) ==
    /\ jpc[j] = "ingest"
    /\ \/ /\ SetJpc(j, "run")
          /\ ingest' = [ingest EXCEPT ![j] = "listening"]
          /\ UNCHANGED <<registered, subscribed, pendingBotTokens>>
       \/ /\ SetJpc(j, "failed")
          /\ Unregister(MeetingOf[j]) /\ ForgetToken(MeetingOf[j])
          /\ UNCHANGED ingest
    /\ UNCHANGED <<named, sessions, monitors, timers, leaving, container,
                   taskVars, stopVars, histVars>>

(* runner.run creates and starts the container.  A creation that fails     *)
(* leaves none; after a start that failed run() removes what it created,   *)
(* as best it can, started or not ("exited" is: there, but not running).   *)
JoinSpawn(j) ==
    /\ jpc[j] = "run"
    /\ \/ SetJpc(j, "inspect") /\ container' = [container EXCEPT ![j] = "running"]
       \/ SetJpc(j, "undoIngest") /\ UNCHANGED container
       \/ /\ SetJpc(j, "undoIngest")
          /\ \E s \in {"exited", "running"} : SetContainer(j, AfterRemove(s))
    /\ UNCHANGED <<named, pendingBotTokens, ingest, taskVars, stopVars, histVars, wiring>>

(* run() inspects the started container for its ports and returns its id,  *)
(* with the control port or without.  When the inspection throws, run()    *)
(* throws and the id is lost: join() undoes all but the container.         *)
JoinInspect(j) ==
    /\ jpc[j] = "inspect"
    /\ \/ /\ SetJpc(j, "ready") \/ SetJpc(j, "undoRemove")
          /\ named' = named \cup {j}
       \/ "inspect" \in FaultyCalls /\ SetJpc(j, "undoIngest") /\ UNCHANGED named
    /\ UNCHANGED <<pendingBotTokens, taskVars, stopVars, histVars, wiring, resources>>

(* The bot dialled the ingest (it may have died since): from here to the   *)
(* end of join() nothing suspends.                                         *)
JoinActivate(j) ==
    /\ jpc[j] = "ready"
    /\ SetJpc(j, "joined")
    /\ sessions' = [sessions EXCEPT ![MeetingOf[j]] = j]
    /\ ForgetToken(MeetingOf[j])
    /\ subscribed' = subscribed \cup {j}
    /\ monitors' = monitors \cup {j}
    /\ timers' = timers \cup {j}
    /\ UNCHANGED <<named, registered, leaving, taskVars, stopVars, histVars, resources>>

(* The bridge or the writer threw while subscribing: the session record is *)
(* taken back and the container and the ingest are rolled back.            *)
JoinSubscribeFails(j) ==
    /\ jpc[j] = "ready"
    /\ SetJpc(j, "dropIngest")
    /\ sessions' = [sessions EXCEPT ![MeetingOf[j]] = NoJoin]
    /\ ForgetToken(MeetingOf[j])
    /\ Unregister(MeetingOf[j])
    /\ UNCHANGED <<named, monitors, timers, leaving, taskVars, stopVars, histVars, resources>>

(* The bot never dialled in, or the ingest failed while waiting for it. *)
JoinNotReady(j) ==
    /\ jpc[j] = "ready"
    /\ SetJpc(j, "undoStop")
    /\ UNCHANGED <<named, pendingBotTokens, taskVars, stopVars, histVars, wiring, resources>>

AfterUndoKeepContainer ==   \* mutant: a rollback stops the container but leaves it
    [undoStop |-> "undoIngest", undoRemove |-> "undoIngest", undoIngest |-> "failed",
     dropIngest |-> "dropStop", dropStop |-> "failed", dropRemove |-> "failed"]
AfterUndo == [undoStop |-> "undoRemove", undoRemove |-> "undoIngest", undoIngest |-> "failed",
              dropIngest |-> "dropStop", dropStop |-> "dropRemove", dropRemove |-> "failed"]

(* One awaited step of a rollback; the undo chain unregisters at its end,  *)
(* the drop chain has done so already.                                     *)
JoinUndo(j) ==
    /\ jpc[j] \in UndoPc
    /\ SetJpc(j, AfterUndo[jpc[j]])
    /\ \/ /\ jpc[j] \in {"undoStop", "dropStop"}
          /\ SetContainer(j, AfterStop(container[j])) /\ UNCHANGED ingest
       \/ /\ jpc[j] \in {"undoRemove", "dropRemove"}
          /\ SetContainer(j, AfterRemove(container[j])) /\ UNCHANGED ingest
       \/ /\ jpc[j] \in {"undoIngest", "dropIngest"}
          /\ ingest' = [ingest EXCEPT ![j] = "stopped"] /\ UNCHANGED container
    /\ IF jpc[j] = "undoIngest"
       THEN Unregister(MeetingOf[j]) /\ ForgetToken(MeetingOf[j])
       ELSE UNCHANGED <<registered, subscribed, pendingBotTokens>>
    /\ UNCHANGED <<named, sessions, monitors, timers, leaving, taskVars, stopVars, histVars>>

-----------------------------------------------------------------------------
(* The bot and its container. *)

(* The bot posts lifecycle:joined once; the route checks the token, the    *)
(* router hands the event to the subscribers of that meeting.              *)
BotReportsJoined(j) ==
    LET m == MeetingOf[j] IN
    /\ container[j] = "running" /\ j \notin botJoined
    /\ botJoined' = botJoined \cup {j}
    /\ announced' = IF ResolveToken(m) = j /\ m \in registered
                    THEN announced \cup (subscribed \cap OfMeeting(m)) ELSE announced
    /\ UNCHANGED <<exitReported, metaWritten, joinVars, taskVars, stopVars, wiring, resources>>

ContainerExits(j) ==
    /\ container[j] = "running"
    /\ container' = [container EXCEPT ![j] = "exited"]
    /\ UNCHANGED <<ingest, joinVars, taskVars, stopVars, histVars, wiring>>

-----------------------------------------------------------------------------
(* Teardown.  A task claims the session it finds in the map: it sets the   *)
(* flag, stops the monitors and awaits ttsBridge.cancelAll().              *)
ClaimUnflagged(t, j) ==   \* mutant: leaveInitiatedByDaemon is not set before the await
    /\ leaving' = leaving
    /\ monitors' = monitors \ {j}
    /\ pc' = [pc EXCEPT ![t] = "cancel"]
    /\ target' = [target EXCEPT ![t] = j]
Claim(t, j) ==
    /\ leaving' = leaving \cup {j}
    /\ monitors' = monitors \ {j}
    /\ pc' = [pc EXCEPT ![t] = "cancel"]
    /\ target' = [target EXCEPT ![t] = j]

Skip(t) ==
    /\ pc' = [pc EXCEPT ![t] = "done"]
    /\ UNCHANGED <<leaving, monitors, target>>

BeginLeave(t, m) == IF sessions[m] = NoJoin THEN Skip(t) ELSE Claim(t, sessions[m])

LeaveCalled(c, m) ==
    /\ pc[<<"leave", c>>] = "idle"
    /\ BeginLeave(<<"leave", c>>, m)
    /\ UNCHANGED <<sessions, registered, subscribed, timers,
                   joinVars, stopVars, histVars, resources>>

TimeoutFires(c, j) ==
    /\ j \in timers /\ pc[<<"leave", c>>] = "idle"
    /\ timers' = timers \ {j}
    /\ BeginLeave(<<"leave", c>>, MeetingOf[j])
    /\ UNCHANGED <<sessions, registered, subscribed, joinVars, stopVars, histVars, resources>>

(* runner.wait resolved: handleContainerExit, a no-op unless this session  *)
(* is still the one in the map and no leave has flagged it.                *)
ExitObservedIfRemoved(j) ==   \* mutant: waits for the removal, not for the exit
    /\ jpc[j] = "joined" /\ container[j] = "removed" /\ pc[<<"exit", j>>] = "idle"
    /\ Skip(<<"exit", j>>)
    /\ UNCHANGED <<sessions, registered, subscribed, timers, histVars, joinVars, stopVars, resources>>
ExitObserved(j) ==
    LET t == <<"exit", j>> IN
    /\ jpc[j] = "joined" /\ container[j] \in {"exited", "removed"}
    /\ pc[t] = "idle"
    /\ IF sessions[MeetingOf[j]] = j /\ j \notin leaving
       THEN Claim(t, j) /\ exitReported' = exitReported \cup {j}
       ELSE Skip(t) /\ UNCHANGED exitReported
    /\ UNCHANGED <<sessions, registered, subscribed, timers, botJoined, announced,
                   metaWritten, joinVars, stopVars, resources>>

(* The wait call itself failed: nobody observes this container any more. *)
ExitUnobserved(j) ==
    LET t == <<"exit", j>> IN
    /\ "wait" \in FaultyCalls
    /\ jpc[j] = "joined" /\ pc[t] = "idle"
    /\ Skip(t)
    /\ UNCHANGED <<sessions, registered, subscribed, timers, joinVars, stopVars,
                   histVars, resources>>

(* The synthetic lifecycle:left: each subscribed writer flushes meta.json. *)
DispatchLeftUnregistered(m) ==   \* mutant: dispatched after the dispatcher is torn down
    metaWritten' = metaWritten \cup (subscribed' \cap OfMeeting(m))
DispatchLeft(m) == metaWritten' = metaWritten \cup (subscribed \cap OfMeeting(m))

(* cancelAll() returned: drop the timer and the session record, dispatch   *)
(* lifecycle:left, stop the bridge and the writer, unsubscribe, unregister.*)
DropSession(t) ==
    LET j == target[t]
        m == MeetingOf[j]
    IN
    /\ pc[t] = "cancel" /\ t \notin ForceTasks
    /\ timers' = timers \ {j}
    /\ sessions' = [sessions EXCEPT ![m] = NoJoin]
    /\ IF t \in ExitTasks THEN ForgetToken(m) ELSE UNCHANGED pendingBotTokens
    /\ Unregister(m) /\ DispatchLeft(m)
    /\ pc' = [pc EXCEPT ![t] = IF t \in ExitTasks THEN "remove" ELSE "bot"]
    /\ UNCHANGED <<monitors, leaving, target, jpc, named, stopVars, botJoined, announced,
                   exitReported, resources>>

(* The bot's /leave: it answers and will exit by itself, or the call fails *)
(* or times out and the container is stopped instead.                      *)
BotLeaveNoFallback(t) ==   \* mutant: no time limit and no fallback to stop
    /\ pc[t] = "bot" /\ container[target[t]] = "running"
    /\ pc' = [pc EXCEPT ![t] = "remove"]
    /\ UNCHANGED <<target, joinVars, stopVars, histVars, wiring, resources>>
BotLeave(t) ==
    /\ pc[t] = "bot"
    /\ \/ container[target[t]] = "running" /\ pc' = [pc EXCEPT ![t] = "remove"]
       \/ pc' = [pc EXCEPT ![t] = "stop"]
    /\ UNCHANGED <<target, joinVars, stopVars, histVars, wiring, resources>>

StopContainer(t) ==
    /\ pc[t] = "stop"
    /\ pc' = [pc EXCEPT ![t] = "remove"]
    /\ SetContainer(target[t], AfterStop(container[target[t]]))
    /\ UNCHANGED <<target, ingest, joinVars, stopVars, histVars, wiring>>

RemoveContainer(t) ==
    /\ pc[t] = "remove"
    /\ pc' = [pc EXCEPT ![t] = "ingest"]
    /\ SetContainer(target[t], AfterRemove(container[target[t]]))
    /\ UNCHANGED <<target, ingest, joinVars, stopVars, histVars, wiring>>

(* The last await; leave() then publishes meet.left. *)
StopIngest(t) ==
    /\ pc[t] = "ingest"
    /\ pc' = [pc EXCEPT ![t] = "done"]
    /\ ingest' = [ingest EXCEPT ![target[t]] = "stopped"]
    /\ UNCHANGED <<target, container, joinVars, stopVars, histVars, wiring>>

-----------------------------------------------------------------------------
(* shutdownAll() *)

(* Snapshot the map and start one leave() per session; their synchronous   *)
(* prefixes all run before anything else does.  The worker calls it once.  *)
ShutdownAll ==
    /\ ~shuttingDown
    /\ shuttingDown' = TRUE
    /\ snapshot' = {j \in Joins : sessions[MeetingOf[j]] = j}
    /\ shutdownPc' = IF snapshot' = {} THEN "done" ELSE "waiting"
    /\ leaving' = leaving \cup snapshot'
    /\ monitors' = monitors \ snapshot'
    /\ pc' = [t \in Tasks |-> IF t \in {"shutdown"} \X snapshot' THEN "cancel" ELSE pc[t]]
    /\ target' = [t \in Tasks |-> IF t \in {"shutdown"} \X snapshot' THEN t[2] ELSE target[t]]
    /\ UNCHANGED <<sessions, registered, subscribed, timers, joinVars, histVars, resources>>

StragglersInMap == {j \in snapshot : sessions[MeetingOf[j]] = j}   \* mutant: trusts the map
Stragglers == {j \in snapshot : pc[<<"shutdown", j>>] # "done"}

(* All leaves resolved before the deadline. *)
ShutdownCompletes ==
    /\ shutdownPc = "waiting" /\ Stragglers = {}
    /\ shutdownPc' = "done"
    /\ UNCHANGED <<shuttingDown, snapshot, joinVars, taskVars, histVars, wiring, resources>>

(* The deadline passed: each straggler whose record is still in the map is *)
(* unwound first, the others go straight to runner.stop.                   *)
ShutdownDeadline ==
    LET lingering == {j \in Stragglers : sessions[MeetingOf[j]] # NoJoin} IN
    /\ shutdownPc = "waiting" /\ Stragglers # {}
    /\ shutdownPc' = "forcing"
    /\ monitors' = monitors \ {sessions[MeetingOf[j]] : j \in lingering}
    /\ pc' = [t \in Tasks |-> IF t \notin {"force"} \X Stragglers THEN pc[t]
                              ELSE IF t[2] \in lingering THEN "cancel" ELSE "stop"]
    /\ target' = [t \in Tasks |-> IF t \notin {"force"} \X Stragglers THEN target[t]
                              ELSE IF t[2] \in lingering THEN sessions[MeetingOf[t[2]]] ELSE t[2]]
    /\ UNCHANGED <<sessions, registered, subscribed, timers, leaving,
                   shuttingDown, snapshot, joinVars, histVars, resources>>

(* The lingering record's cancelAll() returned: unwind it, then stop and   *)
(* remove the container of the snapshot.                                   *)
ForceUnwind(t) ==
    LET m == MeetingOf[target[t]] IN
    /\ pc[t] = "cancel" /\ t \in ForceTasks
    /\ timers' = timers \ {target[t]}
    /\ sessions' = [sessions EXCEPT ![m] = NoJoin]
    /\ Unregister(m)
    /\ pc' = [pc EXCEPT ![t] = "stop"]
    /\ target' = [target EXCEPT ![t] = t[2]]
    /\ UNCHANGED <<monitors, leaving, joinVars, stopVars, histVars, resources>>

ShutdownForced ==
    /\ shutdownPc = "forcing"
    /\ \A t \in ForceTasks : pc[t] \in {"idle", "done"}
    /\ shutdownPc' = "done"
    /\ UNCHANGED <<shuttingDown, snapshot, joinVars, taskVars, histVars, wiring, resources>>

-----------------------------------------------------------------------------
JoinStep(j) ==
    \/ JoinStart(j) \/ JoinPrepare(j) \/ JoinRegister(j) \/ JoinIngest(j) \/ JoinSpawn(j)
    \/ JoinInspect(j) \/ JoinActivate(j) \/ JoinSubscribeFails(j) \/ JoinNotReady(j) \/ JoinUndo(j)

TaskStep(t) ==
    \/ DropSession(t) \/ BotLeave(t) \/ StopContainer(t) \/ RemoveContainer(t)
    \/ StopIngest(t) \/ ForceUnwind(t)

ShutdownStep == ShutdownCompletes \/ ShutdownDeadline \/ ShutdownForced

Next ==
    \/ \E j \in Joins : \/ JoinStep(j)
                        \/ BotReportsJoined(j) \/ ContainerExits(j)
                        \/ ExitObserved(j) \/ ExitUnobserved(j)
    \/ \E c \in Callers : \/ \E m \in Meetings : LeaveCalled(c, m)
                          \/ \E j \in Joins : TimeoutFires(c, j)
    \/ \E t \in Tasks : TaskStep(t)
    \/ ShutdownAll \/ ShutdownStep

Spec == Init /\ [][Next]_vars

(* Every await of the code settles: HTTP calls, the bot-connect wait and   *)
(* shutdownAll carry timeouts, and the engine's wait call returns once the *)
(* container is gone.  Nothing obliges a caller to join, leave or shut     *)
(* down, a bot to report, or a container to exit.                          *)
Fairness ==
    /\ \A j \in Joins : /\ WF_vars(JoinStep(j) /\ jpc[j] # "idle")
                        /\ WF_vars(ExitObserved(j))
    /\ \A t \in Tasks : WF_vars(TaskStep(t))
    /\ WF_vars(ShutdownStep)

FairSpec == Spec /\ Fairness
-----------------------------------------------------------------------------
(* Properties.  They are stated for calls of join() with distinct meeting  *)
(* ids, as worker.ts makes them (a fresh UUID per join), unless said.      *)

(* From the moment a bot's container can run until a teardown claims its   *)
(* session, the ingress route accepts the bot's token: pendingBotTokens    *)
(* hands over to the session record without a gap, whatever other joins,   *)
(* rollbacks and leaves do meanwhile.                                      *)
BotIsAuthenticated ==
    \A j \in Joins :
        jpc[j] \in {"run", "inspect", "ready"} \/ (jpc[j] = "joined" /\ j \notin leaving)
            => ResolveToken(MeetingOf[j]) = j

(* While an ingest can produce transcripts for a join that is not being    *)
(* torn down the router has a handler for its meeting, and a session in    *)
(* the map always has its subscribers: no transcript meets "dropping event *)
(* for unregistered meeting".                                              *)
TranscriptsAreRouted ==
    \A j \in Joins :
        /\ ingest[j] = "listening" /\ jpc[j] \in {"run", "inspect", "ready"}
              => MeetingOf[j] \in registered
        /\ sessions[MeetingOf[j]] = j => MeetingOf[j] \in registered /\ j \in subscribed

(* The teardowns of j that have begun and not ended. *)
Pending(j) == {t \in Tasks : target[t] = j /\ pc[t] # "done"}

(* The joins whose container may outlive them: run() failed before it had  *)
(* said which container it started, so no rollback can name it.            *)
Orphans == {j \in Joins : /\ jpc[j] \in {"undoIngest", "failed"} /\ j \notin named
                          /\ container[j] \notin {"none", "removed"}}

(* A join that has failed, or whose session is gone with every teardown of *)
(* it finished, holds nothing: no ingest, timer, monitor, subscription,    *)
(* router entry or pre-registered token, and no container, unless a failed *)
(* inspection hid its id.  Even such a bot is cut off from the rest.       *)
NothingLeaks ==
    \A j \in Joins :
        jpc[j] \in {"failed", "joined"} /\ sessions[MeetingOf[j]] # j /\ Pending(j) = {}
            => /\ container[j] \in {"none", "removed"} \/ ("inspect" \in FaultyCalls /\ j \in Orphans)
               /\ ingest[j] # "listening"
               /\ j \notin timers \cup monitors \cup subscribed
               /\ MeetingOf[j] \notin registered /\ pendingBotTokens[MeetingOf[j]] # j

(* The exit of a container that the daemon itself is taking down is never  *)
(* reported to clients as an unexpected meet.error, however the engine's   *)
(* wait call races the teardown.                                           *)
ExitNotReportedWhileLeaving ==
    [][\A j \in exitReported' \ exitReported :
          \A t \in LeaveTasks \cup ShutdownTasks : target[t] # j]_vars

(* A session that leave() or handleContainerExit took out of the map has   *)
(* its meta.json: the synthetic lifecycle:left reaches the writer before   *)
(* its subscription goes.  (The straggler path of shutdownAll writes none.) *)
MetaIsWritten ==
    \A t \in Tasks \ ForceTasks :
        pc[t] \in {"bot", "stop", "remove", "ingest", "done"} /\ target[t] # NoJoin
            => \/ target[t] \in metaWritten
               \/ \E f \in ForceTasks : pc[f] # "idle"

(* Both: whatever way a join or a session ended, nothing of it is held and  *)
(* its record is written.                                                  *)
TeardownsAreComplete == NothingLeaks /\ MetaIsWritten

(* When shutdownAll returns no container of its snapshot is running, also  *)
(* when the deadline cut the leaves short.                                 *)
ShutdownReapsSnapshot ==
    shutdownPc = "done" => \A j \in snapshot : container[j] # "running" /\ ingest[j] = "stopped"

(* Both: meetings that share a manager keep their routes while the others   *)
(* go, and the shutdown leaves none of its snapshot behind.                 *)
ShutdownIsOrderly == TranscriptsAreRouted /\ ShutdownReapsSnapshot

(* A teardown that has claimed a session runs to its end: the record goes, *)
(* the container is removed and the ingest stopped.                        *)
LeaveFinishes ==
    \A j \in Joins : j \in leaving ~> /\ sessions[MeetingOf[j]] # j
                                     /\ container[j] = "removed" /\ ingest[j] = "stopped"

(* A session whose container dies by itself does not stay in the map for   *)
(* ever: the exit watcher, or a leave already under way, takes it out.     *)
DeadBotIsReclaimed ==
    \A j \in Joins : jpc[j] = "joined" /\ container[j] = "exited"
                        ~> sessions[MeetingOf[j]] # j

(* Both: no teardown stays unfinished, and none that is due stays undone.   *)
TeardownsEnd == LeaveFinishes /\ DeadBotIsReclaimed

(* The lease a client sees (MeetingLease): the phase of each join and      *)
(* whether its bot runs.                                                   *)
LeasePhase == [j \in Joins |->
    IF jpc[j] \in {"idle", "refused"} THEN "absent"
    ELSE IF jpc[j] = "failed" THEN "closed"
    ELSE IF jpc[j] \in UndoPc THEN "closing"
    ELSE IF jpc[j] # "joined" THEN "starting"
    ELSE IF sessions[MeetingOf[j]] = j THEN "serving"
    ELSE IF Pending(j) # {} THEN "closing" ELSE "closed"]
BotRuns == [j \in Joins |-> container[j] = "running"]
Lease == INSTANCE MeetingLease WITH phase <- LeasePhase, bot <- BotRuns, orphans <- Orphans

(* Every behaviour of the session manager is a behaviour of the lease: no  *)
(* bot runs before its join starts or after its lease is closed, unless it *)
(* is an orphan that a lease never served; a closed lease never reopens,   *)
(* and serving always ends through closing.                                *)
ImplementsLease == Lease!Spec

(* leave(): "Immediately clear state so we don't re-enter this path via    *)
(* the timeout firing concurrently with a caller-initiated leave."  Two    *)
(* leaves never both get past that point with the same session.            *)
LeaveNotReentered ==
    \A t, u \in LeaveTasks : target[t] = target[u] /\ t # u =>
        target[t] = NoJoin \/ pc[t] = "cancel" \/ pc[u] = "cancel"
=============================================================================
