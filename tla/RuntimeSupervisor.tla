-------------------------- MODULE RuntimeSupervisor --------------------------
(***************************************************************************)
(* The daemon's supervision of the Vellum worker process: the init hook,   *)
(* the provider route (restart) and the shutdown hook all go through       *)
(* initVellumRuntime and shutdownVellumRuntime, which keep a child handle  *)
(* in memory (`running`) and a PID file as the backstop for a worker whose *)
(* handle was lost.  Each call is a process that may be suspended while    *)
(* others run; a worker is named after the call that spawned it.           *)
(*                                                                         *)
(* A worker that dies is a zombie until the daemon's event loop reaps it,  *)
(* which is also when the 'exit' event is emitted: /proc/<pid>/cmdline is  *)
(* empty from the death on, kill(pid, 0) fails only after the event.       *)
(***************************************************************************)
EXTENDS Naturals, FiniteSets

CONSTANTS
    Inits, Restarts, Shutdowns,   \* the calls of the init hook, the route and the shutdown hook
    Stubborn,    \* processes that outlive SIGTERM by the grace period
    Mute,        \* processes that may never say they are ready
    MaxReloads,  \* bound: reloads of the module without a shutdown
    None

Calls == Inits \cup Restarts \cup Shutdowns
Kind  == [c \in Calls |-> IF c \in Inits THEN "init"
                          ELSE IF c \in Restarts THEN "restart" ELSE "shutdown"]

ASSUME SupervisorConstants ==
    /\ Inits \cap Restarts = {} /\ Shutdowns \cap (Inits \cup Restarts) = {}
    /\ MaxReloads \in Nat
    /\ Stubborn \subseteq Calls /\ Mute \subseteq Calls
    /\ None \notin Calls

VARIABLES
    running,     \* the worker whose handle the module holds
    pidFile,     \* the worker the PID file names
    process,     \* the operating system's view of each worker
    signal,      \* the strongest request to end it has been sent
    ready,       \* workers whose "ready" was received
    readyTimer,  \* workers whose readiness timer is armed
    strayed,     \* workers whose supervisor state was lost in a reload
    pc, child,   \* each call: where it is suspended, the worker it waits for
    latest,      \* the call that began last
    reloads,
    overlapped   \* history: a call, or the second half of a restart, began
                 \* before the one before it was over

vars == <<running, pidFile, process, signal, ready, readyTimer, strayed, pc, child, latest,
          reloads, overlapped>>

Alive(w)    == process[w] \in {"starting", "up"}
Waiting     == {"grace", "term"}          \* waitForExit
InProgress(c) == pc[c] \notin {"idle", "done"}

TypeOK ==
    /\ running \in Calls \cup {None} /\ pidFile \in Calls \cup {None}
    /\ process \in [Calls -> {"none", "starting", "up", "zombie", "gone", "failed"}]
    /\ signal \in [Calls -> {"none", "stop", "term", "kill"}]
    /\ ready \subseteq Calls /\ readyTimer \subseteq Calls /\ strayed \subseteq Calls
    /\ pc \in [Calls -> {"idle", "starting", "stopReap", "initReap", "resume", "done"}
                        \cup Waiting]
    /\ child \in [Calls -> Calls \cup {None}] /\ latest \in Calls \cup {None}
    /\ reloads \in 0..MaxReloads /\ overlapped \in BOOLEAN

Init ==
    /\ running = None /\ pidFile = None
    /\ process = [w \in Calls |-> "none"] /\ signal = [w \in Calls |-> "none"]
    /\ ready = {} /\ readyTimer = {} /\ strayed = {}
    /\ pc = [c \in Calls |-> "idle"] /\ child = [c \in Calls |-> None]
    /\ latest = None /\ reloads = 0 /\ overlapped = FALSE

(* A stop whose wait is over resumes before anything else happens: that is *)
(* a microtask of the 'exit' event or of the timer that ended the wait.    *)
Quiet == \A c \in Calls : pc[c] # "resume"

SetPc(c, p) == pc' = [pc EXCEPT ![c] = p]
Send(w, s)  == signal' = [signal EXCEPT ![w] = IF @ = "kill" THEN @ ELSE s]

-----------------------------------------------------------------------------
(* initVellumRuntime and the pieces it shares with the shutdown.  They are *)
(* given the PID file as the caller has left it.                           *)

(* reapStaleWorker signals only a live process that runs our script. *)
Reapable(file) == file # None /\ Alive(file)

SpawnUnrecorded(c) ==   \* mutant: the PID is not recorded
    /\ running' = c /\ readyTimer' = readyTimer \cup {c}
    /\ process' = [process EXCEPT ![c] = "starting"] /\ pidFile' = None
    /\ SetPc(c, "starting")
    /\ UNCHANGED <<signal, child>>
Spawn(c) ==
    /\ running' = c /\ readyTimer' = readyTimer \cup {c}
    /\ \/ process' = [process EXCEPT ![c] = "starting"] /\ pidFile' = c
       \/ process' = [process EXCEPT ![c] = "failed"] /\ pidFile' = None
    /\ SetPc(c, "starting")
    /\ UNCHANGED <<signal, child>>

Reap(c, file, at) ==
    /\ Reapable(file)
    /\ Send(file, "term") /\ child' = [child EXCEPT ![c] = file] /\ SetPc(c, at)
    /\ pidFile' = file
    /\ UNCHANGED <<running, process, readyTimer>>

EnterInitNoReap(c, file) ==   \* mutant: spawns over whatever the PID file names
    \/ /\ running # None /\ SetPc(c, "done") /\ pidFile' = file
       /\ UNCHANGED <<running, process, signal, readyTimer, child>>
    \/ running = None /\ Spawn(c)
EnterInit(c, file) ==
    \/ /\ running # None /\ SetPc(c, "done") /\ pidFile' = file
       /\ UNCHANGED <<running, process, signal, readyTimer, child>>
    \/ running = None /\ Reap(c, file, "initReap")
    \/ running = None /\ ~Reapable(file) /\ Spawn(c)

(* The stop is over and has dropped the PID file; a restart goes on to the *)
(* start in the same turn.                                                 *)
StopDone(c) ==
    \/ Kind[c] = "restart" /\ EnterInit(c, None)
    \/ /\ Kind[c] = "shutdown" /\ SetPc(c, "done") /\ pidFile' = None
       /\ UNCHANGED <<running, process, signal, readyTimer, child>>

-----------------------------------------------------------------------------
(* A call is over when it has returned and the worker it stopped has gone. *)
Pending(d) == InProgress(d) \/ process[d] = "zombie" \/ (Alive(d) /\ signal[d] = "kill")

Begin(c) ==
    /\ Quiet /\ pc[c] = "idle"
    /\ overlapped' = (overlapped \/ \E d \in Calls : Pending(d))

InitCalled(c) ==
    /\ Begin(c) /\ Kind[c] = "init"
    /\ EnterInit(c, pidFile)
    /\ latest' = c
    /\ UNCHANGED <<ready, strayed, reloads>>

ShutdownCalledNoReap(c) ==   \* mutant: the shutdown hook stops only what is tracked
    /\ Begin(c) /\ Kind[c] # "init"
    /\ \/ /\ running = None /\ Kind[c] = "shutdown" /\ SetPc(c, "done")
          /\ UNCHANGED <<running, pidFile, process, signal, readyTimer, child>>
       \/ running = None /\ Kind[c] = "restart" /\ Reap(c, pidFile, "stopReap")
       \/ running = None /\ Kind[c] = "restart" /\ ~Reapable(pidFile) /\ StopDone(c)
       \/ /\ running # None
          /\ running' = None
          /\ child' = [child EXCEPT ![c] = running] /\ SetPc(c, "grace")
          /\ signal' = [signal EXCEPT ![running] = IF @ = "none" THEN "stop" ELSE @]
          /\ UNCHANGED <<pidFile, process, readyTimer>>
    /\ latest' = c
    /\ UNCHANGED <<ready, strayed, reloads>>
(* shutdownVellumRuntime, for the shutdown hook or as the first half of a  *)
(* restart: ask the tracked worker to stop, or reap the recorded one.      *)
ShutdownCalled(c) ==
    /\ Begin(c) /\ Kind[c] # "init"
    /\ \/ running = None /\ Reap(c, pidFile, "stopReap")
       \/ running = None /\ ~Reapable(pidFile) /\ StopDone(c)
       \/ /\ running # None
          /\ running' = None
          /\ child' = [child EXCEPT ![c] = running] /\ SetPc(c, "grace")
          /\ signal' = [signal EXCEPT ![running] = IF @ = "none" THEN "stop" ELSE @]
          /\ UNCHANGED <<pidFile, process, readyTimer>>
    /\ latest' = c
    /\ UNCHANGED <<ready, strayed, reloads>>

(* The poll of a reap finds the process gone. *)
ReapEnds(c) ==
    /\ Quiet /\ pc[c] \in {"stopReap", "initReap"} /\ process[child[c]] = "gone"
    /\ IF pc[c] = "initReap" THEN Spawn(c) ELSE StopDone(c)
    /\ UNCHANGED <<ready, strayed, latest, reloads, overlapped>>

ReapEscalates(c) ==
    /\ Quiet /\ pc[c] \in {"stopReap", "initReap"}
    /\ child[c] \in Stubborn /\ process[child[c]] # "gone" /\ signal[child[c]] # "kill"
    /\ Send(child[c], "kill")
    /\ UNCHANGED <<running, pidFile, process, ready, readyTimer, strayed, pc, child, latest, reloads, overlapped>>

(* STOP_GRACE_MS passed. *)
GraceEnds(c) ==
    /\ Quiet /\ pc[c] = "grace"
    /\ SetPc(c, "term") /\ Send(child[c], "term")
    /\ UNCHANGED <<running, pidFile, process, ready, readyTimer, strayed, child, latest, reloads, overlapped>>

(* KILL_GRACE_MS passed: SIGKILL, and the stop does not wait for its       *)
(* effect.  SIGTERM ends all but the stubborn; a wait that began after the *)
(* 'exit' event runs out here too.                                         *)
TermEnds(c) ==
    /\ Quiet /\ pc[c] = "term"
    /\ child[c] \in Stubborn \/ process[child[c]] \in {"gone", "failed"}
    /\ SetPc(c, "resume") /\ Send(child[c], "kill")
    /\ overlapped' = (overlapped \/ (Kind[c] = "restart" /\ process[child[c]] # "gone"))
    /\ UNCHANGED <<running, pidFile, process, ready, readyTimer, strayed, child, latest, reloads>>

(* The wait is over, by an exit or by its last timeout: drop the PID file. *)
WaitOver(c) ==
    /\ pc[c] = "resume"
    /\ StopDone(c)
    /\ UNCHANGED <<ready, strayed, latest, reloads, overlapped>>

-----------------------------------------------------------------------------
(* The worker, its events and the readiness timer. *)

WorkerReady(w) ==
    /\ Quiet /\ process[w] = "starting"
    /\ process' = [process EXCEPT ![w] = "up"]
    /\ ready' = ready \cup {w} /\ readyTimer' = readyTimer \ {w}
    /\ SetPc(w, IF pc[w] = "starting" THEN "done" ELSE pc[w])
    /\ UNCHANGED <<running, pidFile, signal, strayed, child, latest, reloads, overlapped>>

ReadyTimeout(w) ==
    /\ Quiet /\ w \in readyTimer /\ w \in Mute /\ process[w] # "failed"
    /\ readyTimer' = readyTimer \ {w}
    /\ Send(w, "kill") /\ running' = None
    /\ SetPc(w, "done")
    /\ UNCHANGED <<pidFile, process, ready, strayed, child, latest, reloads, overlapped>>

(* It dies because it was told to, or it crashes. *)
WorkerDies(w) ==
    /\ Alive(w)
    /\ process' = [process EXCEPT ![w] = "zombie"]
    /\ UNCHANGED <<running, pidFile, signal, ready, readyTimer, strayed, pc, child, latest, reloads, overlapped>>

(* The 'exit' handler, and the waits it ends.  The handler of a worker     *)
(* from before a reload acts on the lost instance of the module.           *)
HandleLeft(w) ==   \* mutant: an exit after readiness leaves the handle in place
    IF w \notin ready THEN None ELSE running
HandleAfterExit(w) == IF w \notin ready \/ running = w THEN None ELSE running
ExitEvent(w) ==
    /\ Quiet /\ process[w] = "zombie"
    /\ process' = [process EXCEPT ![w] = "gone"]
    /\ readyTimer' = readyTimer \ {w}
    /\ pidFile' = None
    /\ running' = IF w \in strayed THEN running ELSE HandleAfterExit(w)
    /\ pc' = [c \in Calls |-> IF c = w /\ pc[c] = "starting" THEN "done"
                             ELSE IF pc[c] \in Waiting /\ child[c] = w THEN "resume"
                             ELSE pc[c]]
    /\ UNCHANGED <<signal, ready, strayed, child, latest, reloads, overlapped>>

(* The 'error' event of a spawn that failed. *)
SpawnErrorNoReject(w) ==   \* mutant: leaves the caller waiting
    /\ Quiet /\ process[w] = "failed" /\ w \in readyTimer
    /\ readyTimer' = readyTimer \ {w}
    /\ running' = None
    /\ UNCHANGED <<pidFile, process, signal, ready, strayed, pc, child, latest, reloads, overlapped>>
SpawnError(w) ==
    /\ Quiet /\ process[w] = "failed" /\ w \in readyTimer
    /\ readyTimer' = readyTimer \ {w}
    /\ running' = None
    /\ SetPc(w, IF pc[w] = "starting" THEN "done" ELSE pc[w])
    /\ UNCHANGED <<pidFile, process, signal, ready, strayed, child, latest, reloads, overlapped>>

(* The daemon reloads the module without the shutdown hook: the handle is  *)
(* lost, the worker and the PID file stay.                                 *)
Reload ==
    /\ reloads < MaxReloads /\ \A c \in Calls : ~InProgress(c) /\ process[c] # "zombie"
    /\ reloads' = reloads + 1
    /\ running' = None
    /\ strayed' = {w \in Calls : process[w] # "none"}
    /\ UNCHANGED <<pidFile, process, signal, ready, readyTimer, pc, child, latest, overlapped>>

-----------------------------------------------------------------------------
CallStep(c) == ReapEnds(c) \/ ReapEscalates(c) \/ GraceEnds(c) \/ TermEnds(c) \/ WaitOver(c)

Next ==
    \/ \E c \in Calls : InitCalled(c) \/ ShutdownCalled(c) \/ CallStep(c)
    \/ \E w \in Calls : \/ WorkerReady(w) \/ ReadyTimeout(w) \/ WorkerDies(w)
                        \/ ExitEvent(w) \/ SpawnError(w)
    \/ Reload

(* SIGTERM ends a worker that is not stubborn, SIGKILL every worker.       *)
Killed(w) == signal[w] = "kill" \/ (signal[w] = "term" /\ w \notin Stubborn)
-----------------------------------------------------------------------------
InTurn == ~overlapped

(* provider-runtime.ts: "The plugin runs exactly one provider runtime at a *)
(* time": no two workers live.                                             *)
AtMostOneWorker == \A v, w \in Calls : Alive(v) /\ Alive(w) => v = w

(* While the calls come one at a time there is at most one worker, through *)
(* any crashes, failed spawns, readiness timeouts and reloads.             *)
OneWorkerInTurn == InTurn => AtMostOneWorker

(* worker-pidfile.ts: the PID file is "the backstop for every path where   *)
(* that handle is lost while the worker lives": while the calls come one   *)
(* at a time, a live worker that nobody has asked to end is named by it.   *)
(* (A worker that had to be killed is not waited for, and its late exit    *)
(* drops the file of its successor: that call has come too early.)         *)
RecordedInTurn ==
    InTurn => \A w \in Calls : Alive(w) /\ signal[w] = "none" => pidFile = w

(* worker-pidfile.ts: the next init and the shutdown hook reap the worker  *)
(* "so an orphan can never survive a disable": when the calls came one at  *)
(* a time, the last was the shutdown hook and it has returned, every       *)
(* worker is dead or dying.                                                *)
NoOrphanInTurn ==
    \/ ~InTurn \/ latest = None
    \/ latest # None /\ Kind[latest] # "shutdown"
    \/ \E c \in Calls : InProgress(c)
    \/ \A w \in Calls : Alive(w) => signal[w] = "kill"

(* The three together, over well-typed states.                             *)
WorkersInTurn == TypeOK /\ OneWorkerInTurn /\ RecordedInTurn /\ NoOrphanInTurn

(* The module never holds the handle of a worker whose 'exit' event has    *)
(* been handled, which would make every later init a silent no-op, however *)
(* the calls overlap.                                                      *)
NoStaleHandle == running # None => process[running] # "gone"
=============================================================================
