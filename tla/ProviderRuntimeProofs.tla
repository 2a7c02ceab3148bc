------------------------ MODULE ProviderRuntimeProofs ------------------------
(***************************************************************************)
(* Proofs about ProviderRuntime: while the calls of the hooks and the      *)
(* route come one at a time, the runtime they drive has one process that   *)
(* is known and recorded; no handle of an exited process is ever held; and *)
(* the sweep of a new worker kills no bot of a meeting being joined.       *)
(***************************************************************************)
EXTENDS ProviderRuntime, TLAPS

-----------------------------------------------------------------------------
(* The Vellum worker.                                                      *)

Reaping == {"stopReap", "initReap"}
Present(w) == process[w] \in {"starting", "up", "zombie"}

(* Whatever overlaps: a call has a worker only from its spawn on, waits    *)
(* for a worker only, and holds the readiness timer of its own; the held   *)
(* handle is of a worker that was spawned by this instance of the module   *)
(* and has not exited.                                                     *)
Handles ==
    /\ \A c \in Calls : pc[c] \in {"idle", "resume"} \cup Reaping \cup Waiting => process[c] = "none"
    /\ \A c \in Calls : pc[c] \in {"resume"} \cup Reaping \cup Waiting =>
           child[c] \in Calls /\ process[child[c]] # "none"
    /\ \A c \in Calls : pc[c] \in {"starting", "initReap"} => Kind[c] # "shutdown"
    /\ \A w \in readyTimer : pc[w] = "starting" /\ process[w] # "none"
    /\ \A w \in Calls : process[w] = "none" => signal[w] = "none"
    /\ \A w \in strayed : process[w] # "none"
    /\ running # None => running \notin strayed /\ process[running] \notin {"none", "gone"}
    /\ latest # None => pc[latest] # "idle"

(* In turn, a call in progress is the latest, and at most one worker is    *)
(* there: the held one, or the one the call waits for ...                  *)
OneCall   == \A c \in Calls : InProgress(c) => c = latest
OneWorker == \A v, w \in Calls : Present(v) /\ Present(w) => v = w
HeldIsIt  == running # None => \A w \in Calls : Present(w) => w = running
StartedIsHeld == \A c \in Calls : pc[c] = "starting" => running = c
AwaitedIsIt == \A c \in Calls : pc[c] \in Reaping \cup Waiting =>
    running = None /\ \A w \in Calls : Present(w) => w = child[c]
(* ... which a stop that goes on has killed, and a restart has outlived ...*)
StopIsFinal == \A c \in Calls : pc[c] = "resume" =>
    /\ running = None
    /\ \A w \in Calls : Present(w) => w = child[c] /\ signal[w] = "kill" /\ Kind[c] # "restart"
(* ... and a live worker nobody waits for is recorded, or was killed.      *)
Recorded == \A w \in Calls : Alive(w) /\ signal[w] = "none" => pidFile = w
AskedIsAwaited == \A w \in Calls : Alive(w) /\ signal[w] \in {"stop", "term"} =>
    \E c \in Calls : pc[c] \in Reaping \cup Waiting
ShutdownEnds == latest # None /\ Kind[latest] = "shutdown" /\ pc[latest] = "done" =>
    \A w \in Calls : Alive(w) => signal[w] = "kill"

Orderly == /\ OneCall /\ OneWorker /\ HeldIsIt /\ StartedIsHeld /\ AwaitedIsIt
           /\ StopIsFinal /\ Recorded /\ AskedIsAwaited /\ ShutdownEnds

Turns == InTurn => Orderly

WorkerInv == TypeOK /\ Handles /\ Turns

-----------------------------------------------------------------------------
(* What a call is one of.                                                  *)
LEMMA CallKinds ==
    /\ None \notin Calls
    /\ Kind \in [Calls -> {"init", "restart", "shutdown"}]
  BY SupervisorConstants DEF Calls, Kind

(* The supervisor's steps keep its types: the worker that a step refers    *)
(* to is there, by Handles.                                                *)
LEMMA WorkerTypeStep == TypeOK /\ Handles /\ [Next]_vars => TypeOK'
  <1> SUFFICES ASSUME TypeOK, Handles, [Next]_vars PROVE TypeOK'
    OBVIOUS
  <1> USE CallKinds, SupervisorConstants
  <1> USE DEF TypeOK, Waiting, Reaping
  <1>1. ASSUME NEW c \in Calls, InitCalled(c) PROVE TypeOK'
    BY <1>1 DEF InitCalled, Begin, EnterInit, Reap, Reapable, Spawn, Send, SetPc
  <1>2. ASSUME NEW c \in Calls, ShutdownCalled(c) PROVE TypeOK'
    BY <1>2 DEF ShutdownCalled, Begin, StopDone, EnterInit, Reap, Reapable, Spawn, Send, SetPc
  <1>3. ASSUME NEW c \in Calls, CallStep(c) PROVE TypeOK'
    <2>1. CASE ReapEnds(c)
      BY <2>1 DEF ReapEnds, StopDone, EnterInit, Reap, Reapable, Spawn, Send, SetPc
    <2>2. CASE WaitOver(c)
      BY <2>2 DEF WaitOver, StopDone, EnterInit, Reap, Reapable, Spawn, Send, SetPc
    <2>3. CASE ReapEscalates(c)
      BY <2>3 DEF ReapEscalates, Send
    <2>4. CASE GraceEnds(c)
      BY <2>4 DEF GraceEnds, Send, SetPc
    <2>5. CASE TermEnds(c)
      BY <2>5 DEF TermEnds, Send, SetPc
    <2> QED BY <1>3, <2>1, <2>2, <2>3, <2>4, <2>5 DEF CallStep
  <1>4. ASSUME NEW w \in Calls,
               WorkerReady(w) \/ ReadyTimeout(w) \/ WorkerDies(w) \/ SpawnError(w)
        PROVE  TypeOK'
    BY <1>4 DEF WorkerReady, ReadyTimeout, WorkerDies, SpawnError, Send, SetPc
  <1>5. ASSUME NEW w \in Calls, ExitEvent(w) PROVE TypeOK'
    BY <1>5 DEF ExitEvent, HandleAfterExit
  <1>6. CASE Reload
    BY <1>6 DEF Reload
  <1>7. CASE UNCHANGED vars
    BY <1>7 DEF vars
  <1> QED
    BY <1>1, <1>2, <1>3, <1>4, <1>5, <1>6, <1>7 DEF Next

(* No step mistakes a handle, whatever overlaps.                           *)
LEMMA HandlesStep == TypeOK /\ Handles /\ [Next]_vars => Handles'
  <1> SUFFICES ASSUME TypeOK, Handles, [Next]_vars PROVE Handles'
    OBVIOUS
  <1> USE CallKinds
  <1> USE DEF TypeOK, Waiting, Reaping, Handles
  <1>1. ASSUME NEW c \in Calls, InitCalled(c) PROVE Handles'
    BY <1>1 DEF InitCalled, Begin, EnterInit, Reap, Reapable, Spawn, Send, SetPc, Alive
  <1>2. ASSUME NEW c \in Calls, ShutdownCalled(c) PROVE Handles'
    <2>1. CASE running = None /\ Reap(c, pidFile, "stopReap")
      BY <1>2, <2>1 DEF ShutdownCalled, Begin, Reap, Reapable, SetPc, Send, Alive
    <2>2. CASE running = None /\ StopDone(c)
      BY <1>2, <2>2 DEF ShutdownCalled, Begin, StopDone, EnterInit, Reap, Reapable, Spawn,
             SetPc, Send, Alive
    <2>3. CASE running # None /\ running' = None
      BY <1>2, <2>3 DEF ShutdownCalled, Begin, StopDone, EnterInit, Reap, Reapable, Spawn,
             SetPc, Send, Alive
    <2> QED BY <1>2, <2>1, <2>2, <2>3 DEF ShutdownCalled
  <1>3. ASSUME NEW c \in Calls, CallStep(c) PROVE Handles'
    <2>1. CASE ReapEnds(c)
      BY <2>1 DEF ReapEnds, StopDone, EnterInit, Reap, Reapable, Spawn, SetPc, Send, Alive
    <2>2. CASE WaitOver(c)
      BY <2>2 DEF WaitOver, StopDone, EnterInit, Reap, Reapable, Spawn, SetPc, Send, Alive
    <2>3. CASE ReapEscalates(c) \/ GraceEnds(c) \/ TermEnds(c)
      BY <2>3 DEF ReapEscalates, GraceEnds, TermEnds, SetPc, Send
    <2> QED BY <1>3, <2>1, <2>2, <2>3 DEF CallStep
  <1>4. ASSUME NEW w \in Calls,
               WorkerReady(w) \/ ReadyTimeout(w) \/ WorkerDies(w) \/ SpawnError(w)
        PROVE  Handles'
    BY <1>4 DEF WorkerReady, ReadyTimeout, WorkerDies, SpawnError, SetPc, Send, Alive
  <1>5. ASSUME NEW w \in Calls, ExitEvent(w) PROVE Handles'
    BY <1>5 DEF ExitEvent, HandleAfterExit
  <1>6. CASE Reload
    BY <1>6 DEF Reload
  <1>7. CASE UNCHANGED vars
    BY <1>7 DEF vars
  <1> QED
    BY <1>1, <1>2, <1>3, <1>4, <1>5, <1>6, <1>7 DEF Next

(* Where no worker is left and nobody else is under way, a spawn and a     *)
(* return keep the order.                                                  *)
LEMMA SpawnIsOrderly ==
    ASSUME TypeOK, NEW c \in Calls, Kind[c] # "shutdown", Spawn(c), latest' = c, signal[c] = "none",
           \A w \in Calls : ~Present(w),
           \A d \in Calls \ {c} : ~InProgress(d)
    PROVE  Orderly'
  <1> USE CallKinds DEF TypeOK, Spawn, SetPc, Present, Alive, InProgress, Waiting, Reaping
  <1>1. /\ \A w \in Calls : Present(w)' => w = c
        /\ \A d \in Calls \ {c} : pc'[d] \in {"idle", "done"}
        /\ pc'[c] = "starting" /\ running' = c
        /\ Alive(c)' => pidFile' = c
    OBVIOUS
  <1> QED
    BY <1>1 DEF Orderly, OneCall, OneWorker, HeldIsIt, StartedIsHeld, AwaitedIsIt, StopIsFinal,
           Recorded, AskedIsAwaited, ShutdownEnds

(* A call that returns ends its turn: what it leaves behind is what the    *)
(* next one finds.                                                         *)
LEMMA ReturnIsOrderly ==
    ASSUME TypeOK, NEW c \in Calls, SetPc(c, "done"), latest' = c, running' = None,
           UNCHANGED <<process, signal>>,
           \A v, w \in Calls : Present(v) /\ Present(w) => v = w,
           \A w \in Calls : Alive(w) => signal[w] = "kill",
           \A d \in Calls \ {c} : ~InProgress(d)
    PROVE  Orderly'
  <1> USE CallKinds DEF TypeOK, SetPc, Present, Alive, InProgress, Waiting, Reaping
  <1>1. \A d \in Calls : pc'[d] \in {"idle", "done"}
    OBVIOUS
  <1> QED
    BY <1>1 DEF Orderly, OneCall, OneWorker, HeldIsIt, StartedIsHeld, AwaitedIsIt, StopIsFinal,
           Recorded, AskedIsAwaited, ShutdownEnds

(* In turn, a call begins when nobody else is under way, and with no       *)
(* worker unless it is recorded.                                           *)
LEMMA TurnBegins ==
    ASSUME TypeOK, Handles, Orderly, NEW c \in Calls, Begin(c), ~overlapped'
    PROVE  /\ \A d \in Calls : ~InProgress(d)
           /\ \A w \in Calls : Present(w) => Alive(w) /\ signal[w] = "none" /\ pidFile = w
           /\ ~Reapable(pidFile) => \A w \in Calls : ~Present(w)
  <1>1. \A d \in Calls : ~Pending(d)
    BY DEF Begin, TypeOK
  <1>2. \A d \in Calls : ~InProgress(d)
    BY <1>1 DEF Pending
  <1>3. \A w \in Calls : Present(w) => Alive(w) /\ signal[w] # "kill"
    BY <1>1 DEF Pending, Present, Alive
  <1>4. \A w \in Calls : Alive(w) => signal[w] \notin {"stop", "term"}
    BY <1>2 DEF Orderly, AskedIsAwaited, InProgress, Waiting, Reaping
  <1>5. \A w \in Calls : Present(w) => Alive(w) /\ signal[w] = "none" /\ pidFile = w
    BY <1>3, <1>4 DEF TypeOK, Orderly, Recorded
  <1> QED
    BY <1>2, <1>5, CallKinds DEF Reapable

(* The calls keep the order ...                                            *)
LEMMA CallsAreOrderly ==
    ASSUME TypeOK, Handles, Orderly, NEW c \in Calls, ~overlapped',
           InitCalled(c) \/ ShutdownCalled(c) \/ CallStep(c)
    PROVE  Orderly'
  <1> USE CallKinds
  <1> DEFINE Alone == \A d \in Calls \ {c} : ~InProgress(d)
             Empty == \A w \in Calls : ~Present(w)
  <1>1. ASSUME Alone, Empty, Spawn(c), latest' = c, Kind[c] # "shutdown",
               pc[c] \in {"idle", "resume"} \cup Reaping
        PROVE  Orderly'
    <2>1. process[c] = "none" /\ signal[c] = "none"
      BY <1>1 DEF Handles
    <2> QED
      BY <1>1, <2>1, SpawnIsOrderly
  <1>2. ASSUME Alone, Empty, StopDone(c), latest' = c, running = None,
               pc[c] \in {"idle", "resume"} \cup Reaping
        PROVE  Orderly'
    <2>1. CASE Kind[c] = "restart"
      BY <1>1, <1>2, <2>1 DEF StopDone, EnterInit, Reap, Reapable
    <2>2. CASE Kind[c] = "shutdown"
      <3>1. SetPc(c, "done") /\ running' = None /\ UNCHANGED <<process, signal>>
        BY <1>2, <2>2 DEF StopDone
      <3> QED
        BY <1>2, <3>1, ReturnIsOrderly DEF Present, Alive
    <2> QED
      BY <1>2, <2>1, <2>2 DEF StopDone
  (* A reap that begins. *)
  <1>3. ASSUME NEW at \in Reaping, at = "initReap" => Kind[c] # "shutdown",
               Begin(c), running = None, Reap(c, pidFile, at), latest' = c
        PROVE  Orderly'
    <2>1. /\ \A d \in Calls : ~InProgress(d)
          /\ \A w \in Calls : Present(w) => w = pidFile
      BY <1>3, TurnBegins
    <2>2. /\ pidFile \in Calls /\ running' = None /\ child'[c] = pidFile
          /\ \A w \in Calls : Present(w)' => w = pidFile
          /\ \A d \in Calls \ {c} : pc'[d] \in {"idle", "done"}
          /\ pc'[c] = at /\ signal'[pidFile] # "none"
      BY <1>3, <2>1 DEF Reap, Reapable, Send, SetPc, TypeOK, Present, Alive, InProgress
    <2> QED
      BY <1>3, <2>2 DEF Orderly, OneCall, OneWorker, HeldIsIt, StartedIsHeld, AwaitedIsIt,
             StopIsFinal, Recorded, AskedIsAwaited, ShutdownEnds, InProgress, Waiting, Reaping,
             Present, Alive, TypeOK
  <1>4. CASE InitCalled(c)
    <2>1. /\ \A d \in Calls : ~InProgress(d)
          /\ ~Reapable(pidFile) => Empty
      BY <1>4, TurnBegins DEF InitCalled
    <2>2. CASE running # None
      BY <1>4, <2>1, <2>2 DEF InitCalled, EnterInit, Reap, Spawn, SetPc, TypeOK, Orderly,
             OneCall, OneWorker, HeldIsIt, StartedIsHeld, AwaitedIsIt, StopIsFinal, Recorded,
             AskedIsAwaited, ShutdownEnds, InProgress, Waiting, Reaping, Present, Alive
    <2>3. CASE running = None /\ Reap(c, pidFile, "initReap")
      BY <1>3, <1>4, <2>3 DEF InitCalled, Reaping
    <2>4. CASE running = None /\ ~Reapable(pidFile) /\ Spawn(c)
      BY <1>1, <1>4, <2>1, <2>4 DEF InitCalled, Begin
    <2> QED
      BY <1>4, <2>2, <2>3, <2>4 DEF InitCalled, EnterInit
  <1>5. CASE ShutdownCalled(c)
    <2>1. /\ \A d \in Calls : ~InProgress(d)
          /\ ~Reapable(pidFile) => Empty
      BY <1>5, TurnBegins DEF ShutdownCalled
    <2>2. CASE running # None
      BY <1>5, <2>1, <2>2 DEF ShutdownCalled, SetPc, TypeOK, Orderly, OneCall, OneWorker,
             HeldIsIt, StartedIsHeld, AwaitedIsIt, StopIsFinal, Recorded, AskedIsAwaited,
             ShutdownEnds, InProgress, Waiting, Reaping, Present, Alive
    <2>3. CASE running = None /\ Reap(c, pidFile, "stopReap")
      BY <1>3, <1>5, <2>3 DEF ShutdownCalled, Reaping
    <2>4. CASE running = None /\ ~Reapable(pidFile) /\ StopDone(c)
      BY <1>2, <1>5, <2>1, <2>4 DEF ShutdownCalled, Begin
    <2> QED
      BY <1>5, <2>2, <2>3, <2>4 DEF ShutdownCalled
  <1>6. CASE ReapEnds(c)
    <2>1. latest' = c /\ Alone
      BY <1>6 DEF ReapEnds, Orderly, OneCall, InProgress
    <2>2. Empty /\ running = None
      BY <1>6 DEF ReapEnds, Orderly, AwaitedIsIt, Reaping, Present
    <2>3. CASE pc[c] = "initReap"
      BY <1>1, <1>6, <2>1, <2>2, <2>3 DEF ReapEnds, Handles, Reaping
    <2>4. CASE pc[c] # "initReap"
      BY <1>2, <1>6, <2>1, <2>2, <2>4 DEF ReapEnds, Reaping
    <2> QED
      BY <2>3, <2>4
  <1>7. CASE ReapEscalates(c) \/ GraceEnds(c)
    BY <1>7 DEF ReapEscalates, GraceEnds, Send, SetPc, TypeOK, Handles, Orderly, OneCall,
           OneWorker, HeldIsIt, StartedIsHeld, AwaitedIsIt, StopIsFinal, Recorded,
           AskedIsAwaited, ShutdownEnds, InProgress, Waiting, Reaping, Present, Alive
  <1>8. CASE TermEnds(c)
    <2>1. /\ c = latest /\ running' = None /\ child[c] \in Calls /\ UNCHANGED <<child, latest>>
          /\ \A w \in Calls : Present(w)' => w = child[c] /\ Kind[c] # "restart"
      BY <1>8 DEF TermEnds, TypeOK, Handles, Orderly, OneCall, AwaitedIsIt, InProgress, Waiting,
             Present
    <2>2. /\ \A d \in Calls \ {c} : pc'[d] \in {"idle", "done"}
          /\ pc'[c] = "resume"
      BY <1>8 DEF TermEnds, SetPc, TypeOK, Orderly, OneCall, InProgress
    <2>3. signal'[child[c]] = "kill"
      BY <1>8, <2>1 DEF TermEnds, Send, TypeOK
    <2> QED
      BY <2>1, <2>2, <2>3 DEF Orderly, OneCall, OneWorker, HeldIsIt, StartedIsHeld, AwaitedIsIt,
             StopIsFinal, Recorded, AskedIsAwaited, ShutdownEnds, InProgress, Waiting, Reaping,
             Present, Alive
  <1>9. CASE WaitOver(c)
    <2>1. latest' = c /\ Alone
      BY <1>9 DEF WaitOver, Orderly, OneCall, InProgress
    <2>2. /\ running = None
          /\ \A w \in Calls : Present(w) => w = child[c] /\ signal[w] = "kill" /\ Kind[c] # "restart"
      BY <1>9 DEF WaitOver, Orderly, StopIsFinal
    <2>3. CASE Empty
      BY <1>2, <1>9, <2>1, <2>2, <2>3 DEF WaitOver
    <2>4. CASE ~Empty
      <3>1. SetPc(c, "done") /\ running' = None /\ UNCHANGED <<process, signal>>
        BY <1>9, <2>2, <2>4 DEF WaitOver, StopDone
      <3> QED
        BY <2>1, <2>2, <3>1, ReturnIsOrderly DEF Present, Alive
    <2> QED
      BY <2>3, <2>4
  <1> QED
    BY <1>4, <1>5, <1>6, <1>7, <1>8, <1>9 DEF CallStep

(* ... and so do the worker and its events.                                *)
LEMMA EventsAreOrderly ==
    ASSUME TypeOK, Handles, Orderly, ~overlapped,
           Reload \/ \E w \in Calls : \/ WorkerReady(w) \/ ReadyTimeout(w) \/ WorkerDies(w)
                                      \/ ExitEvent(w) \/ SpawnError(w)
    PROVE  Orderly'
  <1> USE CallKinds
  <1> USE DEF TypeOK, Handles, Orderly, OneCall, OneWorker, HeldIsIt, StartedIsHeld,
              AwaitedIsIt, StopIsFinal, Recorded, AskedIsAwaited, ShutdownEnds, InProgress,
              Waiting, Reaping, Present, Alive
  <1>1. CASE Reload
    BY <1>1 DEF Reload
  <1>2. ASSUME NEW w \in Calls, WorkerReady(w) PROVE Orderly'
    BY <1>2 DEF WorkerReady, SetPc
  <1>3. ASSUME NEW w \in Calls, ReadyTimeout(w) PROVE Orderly'
    BY <1>3 DEF ReadyTimeout, SetPc, Send
  <1>4. ASSUME NEW w \in Calls, WorkerDies(w) PROVE Orderly'
    BY <1>4 DEF WorkerDies
  <1>5. ASSUME NEW w \in Calls, ExitEvent(w) PROVE Orderly'
    BY <1>5 DEF ExitEvent, HandleAfterExit
  <1>6. ASSUME NEW w \in Calls, SpawnError(w) PROVE Orderly'
    BY <1>6 DEF SpawnError, SetPc
  <1> QED
    BY <1>1, <1>2, <1>3, <1>4, <1>5, <1>6

-----------------------------------------------------------------------------
(* The receiver and its tunnel, in the same way.                           *)

Stopping  == {"stop", "grace", "term", "stopped", "teardown", "twait", "tdown"}
Launching == {"start", "reap", "starting", "setup", "tstart"}
Awaiting  == {"grace", "term", "reap"}
There(w)  == receiver[w] \in {"starting", "up", "zombie"}

(* Whatever overlaps: a call has a receiver and a tunnel only from their   *)
(* spawns on; the held handles are of this instance of the module, and the *)
(* receiver's is of one that has not exited.                               *)
ReceiverHandles ==
    /\ \A c \in Calls : At(c) \in {"idle", "start", "reap"} \cup Stopping => receiver[c] = "none"
    /\ \A c \in Calls : At(c) \in {"idle", "start", "reap", "starting", "setup"} \cup Stopping =>
           cloudflared[c] = "none"
    /\ \A w \in Calls : /\ receiver[w] = "none" => sent[w] = "none"
                        /\ cloudflared[w] = "none" => told[w] = "none"
    /\ \A c \in Calls : At(c) \in Awaiting => Target(c) \in Calls /\ receiver[Target(c)] # "none"
    /\ \A c \in Calls : At(c) = "twait" => Target(c) \in Calls /\ cloudflared[Target(c)] # "none"
    /\ \A c \in Calls : At(c) \in Launching => Kind[c] # "shutdown"
    /\ \A w \in readyWait : At(w) = "starting" /\ receiver[w] # "none"
    /\ \A w \in lost : At(w) = "done"
    /\ server # None => server \notin lost /\ receiver[server] \notin {"none", "gone"}
    /\ tunnel # None => tunnel \notin lost /\ cloudflared[tunnel] # "none"
    /\ newest # None => At(newest) # "idle"

(* In turn, a call in progress is the newest, and at most one receiver is  *)
(* there: the held one, or the one the call waits for, and none once a     *)
(* stop goes on ...                                                        *)
OneBusy         == \A c \in Calls : Busy(c) => c = newest
OneReceiver     == \A v, w \in Calls : There(v) /\ There(w) => v = w
ServerIsIt      == server # None => \A w \in Calls : There(w) => w = server
StartedIsServer == \A c \in Calls : At(c) = "starting" => server = c
AwaitedIsThere  == \A c \in Calls : At(c) \in Awaiting => \A w \in Calls : There(w) => w = Target(c)
StoppedIsGone   == \A c \in Calls : At(c) = "stopped" => \A w \in Calls : ~There(w)
(* ... the PID file names it until it is told to end, the handle until it  *)
(* is killed or lost ...                                                   *)
FileNamesIt     == \A w \in Calls : Running(w) /\ sent[w] = "none" => serverPid = w
HandleKnowsIt   == \A w \in Calls \ lost : Running(w) /\ sent[w] # "kill" => server = w
ToldIsAwaited   == \A w \in Calls : Running(w) /\ sent[w] \in {"stop", "term"} =>
                       \E c \in Calls : At(c) \in Awaiting
KilledIsLast    == \A w \in Calls : Running(w) /\ sent[w] = "kill" =>
                       \A c \in Calls : Busy(c) => At(c) = "reap"
(* ... and so is the tunnel known by its handle, until it is down.         *)
TunnelIsKnown   == \A t \in Calls \ lost : Tunnels(t) /\ told[t] # "kill" => tunnel = t
StartedIsTunnel == \A c \in Calls : At(c) = "tstart" => tunnel = c
KilledTunnelIsLast == \A t \in Calls : Tunnels(t) /\ told[t] = "kill" =>
                          tunnel = None /\ \A c \in Calls : ~Busy(c)
AwaitedTunnel   == \A c \in Calls : At(c) = "twait" => \A t \in Calls \ lost : Tunnels(t) => t = Target(c)
TunnelIsDown    == \A c \in Calls : At(c) = "tdown" => \A t \in Calls \ lost : ~Tunnels(t)
StopWasHeard    == \A c \in Calls : At(c) \in {"teardown", "twait", "tdown"} =>
                       \A w \in Calls \ lost : ~Running(w)
HookIsFinal     == newest # None /\ Kind[newest] = "shutdown" /\ At(newest) = "done" =>
                       \A w \in Calls \ lost : ~Running(w) /\ ~Tunnels(w)

ServerOrderly == /\ OneBusy /\ OneReceiver /\ ServerIsIt /\ StartedIsServer /\ AwaitedIsThere
                 /\ StoppedIsGone /\ FileNamesIt /\ HandleKnowsIt /\ ToldIsAwaited /\ KilledIsLast
                 /\ StopWasHeard
TunnelOrderly == /\ TunnelIsKnown /\ StartedIsTunnel /\ KilledTunnelIsLast /\ AwaitedTunnel /\ TunnelIsDown
ReceiverOrderly == ServerOrderly /\ TunnelOrderly /\ HookIsFinal

ReceiverTurns == OneAtATime => ReceiverOrderly

ReceiverInv == ReceiverTypeOK /\ ReceiverHandles /\ ReceiverTurns

(* The receiver's and the tunnel's steps keep their types.                 *)
LEMMA ReceiverTypeStep == ReceiverTypeOK /\ ReceiverHandles /\ [ReceiverNext]_receiverVars => ReceiverTypeOK'
  <1> SUFFICES ASSUME ReceiverTypeOK, ReceiverHandles, [ReceiverNext]_receiverVars
               PROVE  ReceiverTypeOK'
    OBVIOUS
  <1> USE CallKinds, SupervisorConstants
  <1> USE DEF ReceiverTypeOK, Steps, Goes, Waits, Step, NoTunnelStep, NoReceiverStep,
              NoCallBegins
  <1>1. ASSUME NEW c \in Calls, CallBegins(c) PROVE ReceiverTypeOK'
    BY <1>1 DEF CallBegins
  <1>2. ASSUME NEW c \in Calls, StopsServer(c) \/ ServerStopped(c) PROVE ReceiverTypeOK'
    BY <1>2, SMTT(60) DEF StopsServer, ServerStopped
  <1>3. ASSUME NEW c \in Calls, EscalatesStop(c) PROVE ReceiverTypeOK'
    <2>1. call' \in [Calls -> [at : Steps, of : Calls \cup {None}]]
      BY <1>3 DEF EscalatesStop, Target
    <2>2. sent' \in [Calls -> {"none", "stop", "term", "kill"}]
      BY <1>3 DEF EscalatesStop, Signals
    <2>3. crossed' \in BOOLEAN
      BY <1>3 DEF EscalatesStop
    <2> QED
      BY <1>3, <2>1, <2>2, <2>3 DEF EscalatesStop
  <1>4. ASSUME NEW c \in Calls, TearsDownTunnel(c) \/ KillsTunnel(c) \/ TunnelDown(c)
        PROVE  ReceiverTypeOK'
    <2>1. AfterStop(c) \in Steps
      BY DEF AfterStop
    <2>2. CASE TearsDownTunnel(c)
      BY <2>1, <2>2 DEF TearsDownTunnel, Tells
    <2>3. CASE KillsTunnel(c)
      <3>1. told' \in [Calls -> {"none", "term", "kill"}]
        BY <2>3 DEF KillsTunnel, Tells
      <3>2. crossed' \in BOOLEAN
        BY <2>3 DEF KillsTunnel
      <3>3. call' \in [Calls -> [at : Steps, of : Calls \cup {None}]]
        BY <2>3 DEF KillsTunnel
      <3> QED
        BY <2>3, <3>1, <3>2, <3>3 DEF KillsTunnel
    <2>4. CASE TunnelDown(c)
      BY <2>1, <2>4 DEF TunnelDown
    <2> QED
      BY <1>4, <2>2, <2>3, <2>4
  <1>5. ASSUME NEW c \in Calls, StartsServer(c) PROVE ReceiverTypeOK'
    BY <1>5 DEF StartsServer, StaleServer, SpawnsServer, Signals, Running
  <1>6. ASSUME NEW c \in Calls, Reaps(c) PROVE ReceiverTypeOK'
    <2>1. CASE SpawnsServer(c)
      BY <1>6, <2>1, SMTT(60) DEF Reaps, SpawnsServer
    <2>2. CASE Signals(Target(c), "kill") /\ UNCHANGED <<server, serverPid, receiver, readyWait, call>>
      <3>1. sent' \in [Calls -> {"none", "stop", "term", "kill"}]
        BY <2>2 DEF Signals
      <3> QED
        BY <1>6, <2>2, <3>1 DEF Reaps
    <2> QED
      BY <1>6, <2>1, <2>2 DEF Reaps
  <1>7. ASSUME NEW c \in Calls, SetsUpTunnel(c) PROVE ReceiverTypeOK'
    BY <1>7 DEF SetsUpTunnel
  <1>8. ASSUME NEW w \in Calls, ServerReady(w) \/ ServerReadyTimeout(w) \/ ServerSpawnError(w)
        PROVE  ReceiverTypeOK'
    BY <1>8 DEF ServerReady, ServerReadyTimeout, ServerSpawnError, Resolves, Signals
  <1>9. ASSUME NEW w \in Calls, ServerDies(w) \/ TunnelUrl(w) \/ TunnelTimeout(w)
        PROVE  ReceiverTypeOK'
    BY <1>9, SMTT(60) DEF ServerDies, TunnelUrl, TunnelTimeout, Tells
  <1>10. ASSUME NEW w \in Calls, ServerExit(w) PROVE ReceiverTypeOK'
    BY <1>10 DEF ServerExit, ServerAfterExit
  <1>11. ASSUME NEW t \in Calls, TunnelExit(t) PROVE ReceiverTypeOK'
    BY <1>11 DEF TunnelExit
  <1>12. CASE Forgets
    BY <1>12 DEF Forgets
  <1>13. CASE UNCHANGED receiverVars
    BY <1>13 DEF receiverVars
  <1> QED
    BY <1>1, <1>2, <1>3, <1>4, <1>5, <1>6, <1>7, <1>8, <1>9, <1>10, <1>11, <1>12, <1>13
       DEF ReceiverNext, ReceiverCallStep, ReceiverEvents

(* A step of one call leaves the others where they are.                    *)
LEMMA CallMoves ==
    ASSUME ReceiverTypeOK, NEW c \in Calls, NEW s, NEW w,
           call' = [call EXCEPT ![c] = [at |-> s, of |-> w]]
    PROVE  /\ At(c)' = s /\ Target(c)' = w
           /\ \A d \in Calls \ {c} : At(d)' = At(d) /\ Target(d)' = Target(d)
  BY DEF ReceiverTypeOK, At, Target

(* A step that assigns no call leaves each where it is.                    *)
LEMMA CallsStay ==
    ASSUME call' = call
    PROVE  \A d \in Calls : At(d)' = At(d) /\ Target(d)' = Target(d)
  BY DEF At, Target

(* A call that goes on to its next step is the only one that moves.        *)
LEMMA CallGoes ==
    ASSUME ReceiverTypeOK, NEW c \in Calls, NEW s, Goes(c, s)
    PROVE  /\ At(c)' = s
           /\ \A d \in Calls \ {c} : At(d)' = At(d) /\ Target(d)' = Target(d)
  BY CallMoves DEF Goes, Step

(* A call that begins to wait is the only one that moves.                  *)
LEMMA CallWaits ==
    ASSUME ReceiverTypeOK, NEW c \in Calls, NEW s, NEW w, Waits(c, s, w)
    PROVE  /\ At(c)' = s /\ Target(c)' = w
           /\ \A d \in Calls \ {c} : At(d)' = At(d) /\ Target(d)' = Target(d)
  BY CallMoves DEF Waits

(* A call whose wait is over is the only one that moves.                   *)
LEMMA CallResolves ==
    ASSUME ReceiverTypeOK, NEW w \in Calls, NEW s, Resolves(w, s)
    PROVE  /\ At(w)' = IF At(w) = "starting" THEN s ELSE At(w)
           /\ At(w)' # s => Target(w)' = Target(w)
           /\ \A d \in Calls \ {w} : At(d)' = At(d) /\ Target(d)' = Target(d)
  BY CallGoes, CallsStay DEF Resolves

(* The receiver's exit moves the calls that wait for it and no other.      *)
LEMMA ServerExitCalls ==
    ASSUME ReceiverTypeOK, NEW w \in Calls, ServerExit(w)
    PROVE  \A c \in Calls :
               /\ At(c)' = IF c = w /\ At(c) = "starting" THEN "done"
                           ELSE IF At(c) \in {"grace", "term"} /\ Target(c) = w THEN "stopped"
                           ELSE At(c)
               /\ At(c)' \in Awaiting \cup {"twait"} => Target(c)' = Target(c)
  BY DEF ReceiverTypeOK, ServerExit, At, Target, Step, Awaiting

(* The tunnel's exit moves the calls that wait for it and no other.        *)
LEMMA TunnelExitCalls ==
    ASSUME ReceiverTypeOK, NEW t \in Calls, TunnelExit(t)
    PROVE  \A c \in Calls :
               /\ At(c)' = IF c = t /\ At(c) = "tstart" THEN "done"
                           ELSE IF At(c) = "twait" /\ Target(c) = t THEN "tdown"
                           ELSE At(c)
               /\ At(c)' \in Awaiting \cup {"twait"} => Target(c)' = Target(c)
  BY DEF ReceiverTypeOK, TunnelExit, At, Target, Step, Awaiting

(* No step mistakes a handle, whatever overlaps.                           *)
LEMMA ReceiverHandlesStep ==
    ReceiverTypeOK /\ ReceiverHandles /\ [ReceiverNext]_receiverVars => ReceiverHandles'
  <1> SUFFICES ASSUME ReceiverTypeOK, ReceiverHandles, [ReceiverNext]_receiverVars
               PROVE  ReceiverHandles'
    OBVIOUS
  <1> USE CallKinds, CallsStay, CallGoes, CallWaits
  <1> USE DEF ReceiverTypeOK, ReceiverHandles, Stopping, Launching, Awaiting, NoTunnelStep,
              NoReceiverStep, NoCallBegins
  <1>1. ASSUME NEW c \in Calls, CallBegins(c) PROVE ReceiverHandles'
    BY <1>1 DEF CallBegins
  <1>2. ASSUME NEW c \in Calls, StopsServer(c) PROVE ReceiverHandles'
    BY <1>2 DEF StopsServer
  <1>3. ASSUME NEW c \in Calls, ServerStopped(c) PROVE ReceiverHandles'
    BY <1>3 DEF ServerStopped
  <1>4. ASSUME NEW c \in Calls, EscalatesStop(c) PROVE ReceiverHandles'
    BY <1>4 DEF EscalatesStop, Signals, Running
  <1>5. ASSUME NEW c \in Calls, TearsDownTunnel(c) PROVE ReceiverHandles'
    BY <1>5 DEF TearsDownTunnel, AfterStop, Tells, Tunnels
  <1>6. ASSUME NEW c \in Calls, KillsTunnel(c) PROVE ReceiverHandles'
    BY <1>6 DEF KillsTunnel, Tells, Tunnels
  <1>7. ASSUME NEW c \in Calls, TunnelDown(c) PROVE ReceiverHandles'
    BY <1>7 DEF TunnelDown, AfterStop
  <1>8. ASSUME NEW c \in Calls, StartsServer(c) PROVE ReceiverHandles'
    BY <1>8 DEF StartsServer, StaleServer, SpawnsServer, Signals, Running
  <1>9. ASSUME NEW c \in Calls, Reaps(c) PROVE ReceiverHandles'
    BY <1>9 DEF Reaps, SpawnsServer, Signals, Running
  <1>10. ASSUME NEW c \in Calls, SetsUpTunnel(c) PROVE ReceiverHandles'
    BY <1>10 DEF SetsUpTunnel
  <1>11. ASSUME NEW w \in Calls, ServerReady(w) PROVE ReceiverHandles'
    BY <1>11, CallResolves DEF ServerReady
  <1>12. ASSUME NEW w \in Calls, ServerReadyTimeout(w) \/ ServerSpawnError(w)
         PROVE  ReceiverHandles'
    BY <1>12, CallResolves DEF ServerReadyTimeout, ServerSpawnError, Signals, Running
  <1>13. ASSUME NEW w \in Calls, ServerDies(w) PROVE ReceiverHandles'
    BY <1>13 DEF ServerDies, Running
  <1>14. ASSUME NEW w \in Calls, TunnelUrl(w) \/ TunnelTimeout(w) PROVE ReceiverHandles'
    BY <1>14 DEF TunnelUrl, TunnelTimeout, Tells, Tunnels
  <1>15. ASSUME NEW w \in Calls, ServerExit(w) PROVE ReceiverHandles'
    <2>1. /\ \A c \in Calls : /\ receiver'[c] = "none" <=> receiver[c] = "none"
                              /\ sent'[c] \in {sent[c], "none"}
          /\ receiver'[w] = "gone" /\ \A c \in Calls \ {w} : receiver'[c] = receiver[c]
          /\ readyWait' = readyWait \ {w}
          /\ UNCHANGED <<cloudflared, told, lost, tunnel, newest>>
      BY <1>15 DEF ServerExit
    <2>2. server' # None => server' = server /\ server # w
      BY <1>15 DEF ServerExit, ServerAfterExit
    <2> QED
      BY <1>15, <2>1, <2>2, ServerExitCalls
  <1>16. ASSUME NEW t \in Calls, TunnelExit(t) PROVE ReceiverHandles'
    <2>1. /\ \A c \in Calls : /\ cloudflared'[c] = "none" <=> cloudflared[c] = "none"
                              /\ told'[c] \in {told[c], "none"}
          /\ UNCHANGED <<receiver, sent, readyWait, lost, server, newest>>
          /\ tunnel' # None => tunnel' = tunnel
      BY <1>16 DEF TunnelExit, Tunnels
    <2> QED
      BY <1>16, <2>1, TunnelExitCalls
  <1>17. CASE Forgets
    BY <1>17 DEF Forgets, Unfinished, Busy
  <1>18. CASE UNCHANGED receiverVars
    BY <1>18 DEF receiverVars
  <1> QED
    BY <1>1, <1>2, <1>3, <1>4, <1>5, <1>6, <1>7, <1>8, <1>9, <1>10, <1>11, <1>12, <1>13, <1>14,
       <1>15, <1>16, <1>17, <1>18
       DEF ReceiverNext, ReceiverCallStep, ReceiverEvents
(* In turn, a call begins when everything before it is over.               *)
LEMMA ReceiverTurnBegins ==
    ASSUME ReceiverTypeOK, NEW c \in Calls, CallBegins(c), ~crossed'
    PROVE  /\ \A d \in Calls : /\ ~Busy(d) /\ receiver[d] # "zombie"
                               /\ ~(Running(d) /\ sent[d] = "kill")
                               /\ ~(Tunnels(d) /\ told[d] = "kill")
           /\ At(c)' \in {"start", "stop"}
           /\ \A d \in Calls \ {c} : At(d)' = At(d) /\ At(d) \in {"idle", "done"}
  <1>1. \A d \in Calls : ~Unfinished(d)
    BY DEF CallBegins, ReceiverTypeOK
  <1>2. /\ At(c)' \in {"start", "stop"}
        /\ \A d \in Calls \ {c} : At(d)' = At(d)
    BY CallGoes DEF CallBegins
  <1> QED
    BY <1>1, <1>2 DEF Unfinished, Busy

(* The receiver's part of the order is kept,                               *)
LEMMA ServerStaysOrderly ==
    ASSUME ReceiverTypeOK, ReceiverHandles, ReceiverOrderly, ~crossed', ReceiverNext
    PROVE  ServerOrderly'
  <1> USE CallKinds, CallsStay, CallGoes, CallWaits
  <1> USE DEF ReceiverTypeOK, ReceiverOrderly, ServerOrderly, OneBusy, OneReceiver, ServerIsIt,
              StartedIsServer, AwaitedIsThere, StoppedIsGone, FileNamesIt, HandleKnowsIt,
              ToldIsAwaited, KilledIsLast, StopWasHeard, Stopping, Launching, Awaiting, Busy,
              There, Running, Tunnels, NoTunnelStep, NoReceiverStep, NoCallBegins
  <1>1. ASSUME NEW c \in Calls, CallBegins(c) PROVE ServerOrderly'
    BY <1>1, ReceiverTurnBegins DEF CallBegins
  <1>2. ASSUME NEW c \in Calls, StopsServer(c) PROVE ServerOrderly'
    BY <1>2 DEF StopsServer, ReceiverHandles
  <1>3. ASSUME NEW c \in Calls, ServerStopped(c) PROVE ServerOrderly'
    BY <1>3 DEF ServerStopped, ReceiverHandles
  <1>4. ASSUME NEW c \in Calls, EscalatesStop(c) PROVE ServerOrderly'
    <2>1. CASE At(c) = "grace"
      BY <1>4, <2>1 DEF EscalatesStop, Signals, ReceiverHandles
    <2>2. CASE At(c) = "term"
      <3>1. receiver[Target(c)] = "gone" /\ Goes(c, "stopped")
        BY <1>4, <2>2 DEF EscalatesStop
      <3>2. \A w \in Calls : ~There(w)
        BY <2>2, <3>1
      <3> QED
        BY <1>4, <3>1, <3>2 DEF EscalatesStop
    <2> QED
      BY <1>4, <2>1, <2>2 DEF EscalatesStop
  <1>5. ASSUME NEW c \in Calls, TearsDownTunnel(c) PROVE ServerOrderly'
    BY <1>5 DEF TearsDownTunnel, AfterStop, Tells, ReceiverHandles
  <1>6. ASSUME NEW c \in Calls, KillsTunnel(c) PROVE ServerOrderly'
    BY <1>6 DEF KillsTunnel, Tells, ReceiverHandles
  <1>7. ASSUME NEW c \in Calls, TunnelDown(c) PROVE ServerOrderly'
    BY <1>7 DEF TunnelDown, AfterStop, ReceiverHandles
  <1>8. ASSUME NEW c \in Calls, StartsServer(c) PROVE ServerOrderly'
    <2>1. c = newest /\ \A d \in Calls : receiver[d] # "zombie"
      BY <1>8 DEF StartsServer
    <2>2. \A w \in Calls : There(w) => sent[w] = "none" /\ serverPid = w
      BY <1>8, <2>1 DEF StartsServer
    <2>3. CASE server # None
      BY <1>8, <2>1, <2>3 DEF StartsServer
    <2>4. CASE server = None /\ StaleServer
      BY <1>8, <2>1, <2>2, <2>4 DEF StartsServer, StaleServer, Signals
    <2>5. CASE server = None /\ ~StaleServer
      <3>1. \A w \in Calls : ~There(w)
        BY <2>1, <2>2, <2>5 DEF StaleServer
      <3>2. sent[c] = "none"
        BY <1>8 DEF StartsServer, ReceiverHandles
      <3> QED
        BY <1>8, <2>1, <2>5, <3>1, <3>2 DEF StartsServer, SpawnsServer
    <2> QED
      BY <2>3, <2>4, <2>5
  <1>9. ASSUME NEW c \in Calls, Reaps(c) PROVE ServerOrderly'
    BY <1>9 DEF Reaps, SpawnsServer, Signals, ReceiverHandles
  <1>10. ASSUME NEW c \in Calls, SetsUpTunnel(c) PROVE ServerOrderly'
    BY <1>10 DEF SetsUpTunnel, ReceiverHandles
  <1>11. ASSUME NEW w \in Calls, ServerReady(w) PROVE ServerOrderly'
    BY <1>11, CallResolves, SMTT(60) DEF ServerReady, ReceiverHandles
  <1>12. ASSUME NEW w \in Calls, ServerReadyTimeout(w) PROVE ServerOrderly'
    BY <1>12, CallResolves DEF ServerReadyTimeout, Signals, ReceiverHandles
  <1>13. ASSUME NEW w \in Calls, ServerSpawnError(w) PROVE ServerOrderly'
    BY <1>13, CallResolves DEF ServerSpawnError, ReceiverHandles
  <1>14. ASSUME NEW w \in Calls, ServerDies(w) PROVE ServerOrderly'
    BY <1>14 DEF ServerDies, ReceiverHandles
  <1>15. ASSUME NEW w \in Calls, TunnelUrl(w) PROVE ServerOrderly'
    BY <1>15 DEF TunnelUrl, ReceiverHandles
  <1>16. ASSUME NEW w \in Calls, TunnelTimeout(w) PROVE ServerOrderly'
    BY <1>16 DEF TunnelTimeout, Tells, ReceiverHandles
  <1>17. ASSUME NEW w \in Calls, ServerExit(w) PROVE ServerOrderly'
    <2>1. (\A v \in Calls : ~There(v))' /\ UNCHANGED <<lost, newest>>
      BY <1>17 DEF ServerExit
    <2>2. \A c \in Calls : Busy(c)' => Busy(c)
      BY <1>17, ServerExitCalls
    <2>3. \A c \in Calls : At(c)' # "starting"
      <3>1. \A c \in Calls : At(c)' = "starting" => At(c) = "starting" /\ c # w
        BY <1>17, ServerExitCalls
      <3>2. There(w)
        BY <1>17 DEF ServerExit
      <3> QED
        BY <3>1, <3>2, CallKinds
    <2> QED
      BY <2>1, <2>2, <2>3
  <1>18. ASSUME NEW w \in Calls, TunnelExit(w) PROVE ServerOrderly'
    <2>1. UNCHANGED <<server, serverPid, receiver, sent, lost, newest>>
      BY <1>18 DEF TunnelExit
    <2>2. \A c \in Calls : /\ Busy(c)' => Busy(c)
                           /\ At(c) = "reap" => At(c)' = "reap"
                           /\ At(c)' \in Awaiting => At(c)' = At(c) /\ Target(c)' = Target(c)
                           /\ At(c) \in Awaiting => At(c)' = At(c)
                           /\ At(c)' \in {"starting", "stopped", "teardown", "twait"} => At(c) = At(c)'
                           /\ At(c)' = "tdown" => At(c) \in {"twait", "tdown"}
      BY <1>18, TunnelExitCalls
    <2>3. \A v \in Calls : (There(v)' <=> There(v)) /\ (Running(v)' <=> Running(v)) /\ sent'[v] = sent[v]
      BY <2>1
    <2>4. OneBusy' /\ OneReceiver' /\ ServerIsIt' /\ StartedIsServer' /\ AwaitedIsThere' /\ StoppedIsGone'
      BY <2>1, <2>2, <2>3
    <2>5. FileNamesIt' /\ HandleKnowsIt' /\ ToldIsAwaited' /\ KilledIsLast' /\ StopWasHeard'
      BY <2>1, <2>2, <2>3
    <2> QED
      BY <2>4, <2>5
  <1>19. CASE Forgets
    BY <1>19 DEF Forgets, Unfinished, ReceiverHandles
  <1> QED
    BY <1>1, <1>2, <1>3, <1>4, <1>5, <1>6, <1>7, <1>8, <1>9, <1>10, <1>11, <1>12, <1>13, <1>14,
       <1>15, <1>16, <1>17, <1>18, <1>19
       DEF ReceiverNext, ReceiverCallStep, ReceiverEvents

(* the tunnel's,                                                           *)
LEMMA TunnelStaysOrderly ==
    ASSUME ReceiverTypeOK, ReceiverHandles, ReceiverOrderly, ~crossed', ReceiverNext
    PROVE  TunnelOrderly'
  <1> USE CallKinds, CallsStay, CallGoes, CallWaits
  <1> USE DEF ReceiverTypeOK, ReceiverOrderly, TunnelOrderly, TunnelIsKnown, StartedIsTunnel,
              KilledTunnelIsLast, AwaitedTunnel, TunnelIsDown, ServerOrderly, OneBusy, Stopping,
              Launching, Awaiting, Busy, There, Running, Tunnels, NoTunnelStep, NoReceiverStep,
              NoCallBegins
  <1>1. ASSUME NEW c \in Calls, CallBegins(c) PROVE TunnelOrderly'
    BY <1>1, ReceiverTurnBegins DEF CallBegins
  <1>2. ASSUME NEW c \in Calls, StopsServer(c) PROVE TunnelOrderly'
    BY <1>2 DEF StopsServer, ReceiverHandles
  <1>3. ASSUME NEW c \in Calls, ServerStopped(c) PROVE TunnelOrderly'
    BY <1>3 DEF ServerStopped, ReceiverHandles
  <1>4. ASSUME NEW c \in Calls, EscalatesStop(c) PROVE TunnelOrderly'
    BY <1>4 DEF EscalatesStop, Signals, ReceiverHandles
  <1>5. ASSUME NEW c \in Calls, TearsDownTunnel(c) PROVE TunnelOrderly'
    BY <1>5 DEF TearsDownTunnel, AfterStop, Tells, ReceiverHandles
  <1>6. ASSUME NEW c \in Calls, KillsTunnel(c) PROVE TunnelOrderly'
    <2>1. Busy(c) /\ ~Tunnels(Target(c)) /\ UNCHANGED <<tunnel, cloudflared, told, lost>>
      BY <1>6 DEF KillsTunnel, Tells
    <2>2. At(c) = "twait" /\ At(c)' = "tdown" /\ \A d \in Calls \ {c} : At(d)' = At(d) /\ Target(d)' = Target(d)
      BY <1>6 DEF KillsTunnel
    <2> QED
      BY <2>1, <2>2
  <1>7. ASSUME NEW c \in Calls, TunnelDown(c) PROVE TunnelOrderly'
    BY <1>7 DEF TunnelDown, AfterStop, ReceiverHandles
  <1>8. ASSUME NEW c \in Calls, StartsServer(c) PROVE TunnelOrderly'
    BY <1>8 DEF StartsServer, StaleServer, SpawnsServer, Signals, ReceiverHandles
  <1>9. ASSUME NEW c \in Calls, Reaps(c) PROVE TunnelOrderly'
    BY <1>9 DEF Reaps, SpawnsServer, Signals, ReceiverHandles
  <1>10. ASSUME NEW c \in Calls, SetsUpTunnel(c) PROVE TunnelOrderly'
    BY <1>10 DEF SetsUpTunnel, ReceiverHandles
  <1>11. ASSUME NEW w \in Calls, ServerReady(w) PROVE TunnelOrderly'
    BY <1>11, CallResolves DEF ServerReady, ReceiverHandles
  <1>12. ASSUME NEW w \in Calls, ServerReadyTimeout(w) PROVE TunnelOrderly'
    BY <1>12, CallResolves DEF ServerReadyTimeout, Signals, ReceiverHandles
  <1>13. ASSUME NEW w \in Calls, ServerSpawnError(w) PROVE TunnelOrderly'
    BY <1>13, CallResolves DEF ServerSpawnError, ReceiverHandles
  <1>14. ASSUME NEW w \in Calls, ServerDies(w) PROVE TunnelOrderly'
    BY <1>14 DEF ServerDies, ReceiverHandles
  <1>15. ASSUME NEW w \in Calls, TunnelUrl(w) PROVE TunnelOrderly'
    BY <1>15 DEF TunnelUrl, ReceiverHandles
  <1>16. ASSUME NEW w \in Calls, TunnelTimeout(w) PROVE TunnelOrderly'
    BY <1>16 DEF TunnelTimeout, Tells, ReceiverHandles
  <1>17. ASSUME NEW w \in Calls, ServerExit(w) PROVE TunnelOrderly'
    <2>1. UNCHANGED <<lost, tunnel, cloudflared, told>>
      BY <1>17 DEF ServerExit
    <2>2. \A c \in Calls : /\ Busy(c)' => Busy(c)
                           /\ At(c)' \in {"tstart", "twait", "tdown"} => At(c) = At(c)'
                           /\ At(c)' = "twait" => Target(c) = Target(c)'
      BY <1>17, ServerExitCalls
    <2>3. \A t \in Calls : Tunnels(t)' <=> Tunnels(t)
      BY <2>1
    <2>4. TunnelIsKnown' /\ StartedIsTunnel' /\ KilledTunnelIsLast'
      BY <2>1, <2>2, <2>3
    <2>5. AwaitedTunnel' /\ TunnelIsDown'
      BY <2>1, <2>2, <2>3
    <2> QED
      BY <2>4, <2>5
  <1>18. ASSUME NEW w \in Calls, TunnelExit(w) PROVE TunnelOrderly'
    <2>1. /\ \A u \in Calls \ {w} : cloudflared'[u] = cloudflared[u] /\ told'[u] = told[u]
          /\ ~Tunnels(w)' /\ UNCHANGED lost
      BY <1>18 DEF TunnelExit
    <2>2. \A c \in Calls : Busy(c)' => Busy(c)
      BY <1>18, TunnelExitCalls
    <2>3. (\A u \in Calls \ lost : Tunnels(u) /\ told[u] # "kill" => tunnel = u)'
      BY <1>18, <2>1 DEF TunnelExit, ReceiverHandles
    <2>4. (\A c \in Calls : At(c) = "tstart" => tunnel = c)'
      <3>1. \A c \in Calls : At(c)' = "tstart" => At(c) = "tstart" /\ c # w
        BY <1>18, TunnelExitCalls
      <3>2. \A c \in Calls : At(c) = "tstart" => c = newest /\ tunnel = c
        OBVIOUS
      <3>3. \A c \in Calls : At(c) = "tstart" => w \in lost \/ c = w
        BY <1>18, <3>2 DEF TunnelExit
      <3> QED
        BY <1>18, <3>1, <3>2, <3>3 DEF TunnelExit
    <2>5. (\A c \in Calls : At(c) = "twait" => \A u \in Calls \ lost : Tunnels(u) => u = Target(c))'
      BY <1>18, <2>1, TunnelExitCalls
    <2>6. (\A c \in Calls : At(c) = "tdown" => \A u \in Calls \ lost : ~Tunnels(u))'
      BY <1>18, <2>1, TunnelExitCalls
    <2>7. (\A u \in Calls : Tunnels(u) /\ told[u] = "kill" => tunnel = None /\ \A c \in Calls : ~Busy(c))'
      BY <1>18, <2>1, <2>2 DEF TunnelExit
    <2> QED
      BY <2>3, <2>4, <2>5, <2>6, <2>7
  <1>19. CASE Forgets
    BY <1>19 DEF Forgets, Unfinished, ReceiverHandles
  <1> QED
    BY <1>1, <1>2, <1>3, <1>4, <1>5, <1>6, <1>7, <1>8, <1>9, <1>10, <1>11, <1>12, <1>13, <1>14,
       <1>15, <1>16, <1>17, <1>18, <1>19
       DEF ReceiverNext, ReceiverCallStep, ReceiverEvents

(* and what the shutdown hook ends with.                                   *)
LEMMA HookStaysFinal ==
    ASSUME ReceiverTypeOK, ReceiverHandles, ReceiverOrderly, ~crossed', ReceiverNext
    PROVE  HookIsFinal'
  <1> USE CallKinds, CallsStay, CallGoes, CallWaits
  <1> USE DEF ReceiverTypeOK, ReceiverOrderly, HookIsFinal, ServerOrderly, OneBusy, OneReceiver,
              ServerIsIt, StartedIsServer, AwaitedIsThere, StoppedIsGone, FileNamesIt,
              HandleKnowsIt, ToldIsAwaited, KilledIsLast, StopWasHeard, TunnelOrderly,
              TunnelIsKnown, StartedIsTunnel, KilledTunnelIsLast, AwaitedTunnel, TunnelIsDown,
              Stopping, Launching, Awaiting, Busy, There, Running, Tunnels, NoTunnelStep,
              NoReceiverStep, NoCallBegins
  <1>1. ASSUME NEW c \in Calls, CallBegins(c) PROVE HookIsFinal'
    BY <1>1 DEF CallBegins, Unfinished, ReceiverHandles
  <1>2. ASSUME NEW c \in Calls, StopsServer(c) PROVE HookIsFinal'
    BY <1>2 DEF StopsServer, ReceiverHandles
  <1>3. ASSUME NEW c \in Calls, ServerStopped(c) PROVE HookIsFinal'
    BY <1>3 DEF ServerStopped, ReceiverHandles
  <1>4. ASSUME NEW c \in Calls, EscalatesStop(c) PROVE HookIsFinal'
    BY <1>4 DEF EscalatesStop, Signals, ReceiverHandles
  <1>5. ASSUME NEW c \in Calls, TearsDownTunnel(c) PROVE HookIsFinal'
    BY <1>5 DEF TearsDownTunnel, AfterStop, Tells, ReceiverHandles
  <1>6. ASSUME NEW c \in Calls, KillsTunnel(c) PROVE HookIsFinal'
    BY <1>6 DEF KillsTunnel, Tells, ReceiverHandles
  <1>7. ASSUME NEW c \in Calls, TunnelDown(c) PROVE HookIsFinal'
    BY <1>7 DEF TunnelDown, AfterStop, ReceiverHandles
  <1>8. ASSUME NEW c \in Calls, StartsServer(c) PROVE HookIsFinal'
    BY <1>8 DEF StartsServer, StaleServer, SpawnsServer, Signals, ReceiverHandles
  <1>9. ASSUME NEW c \in Calls, Reaps(c) PROVE HookIsFinal'
    BY <1>9 DEF Reaps, SpawnsServer, Signals, ReceiverHandles
  <1>10. ASSUME NEW c \in Calls, SetsUpTunnel(c) PROVE HookIsFinal'
    BY <1>10 DEF SetsUpTunnel, ReceiverHandles
  <1>11. ASSUME NEW w \in Calls, ServerReady(w) PROVE HookIsFinal'
    BY <1>11, CallResolves DEF ServerReady, ReceiverHandles
  <1>12. ASSUME NEW w \in Calls, ServerReadyTimeout(w) PROVE HookIsFinal'
    BY <1>12, CallResolves DEF ServerReadyTimeout, Signals, ReceiverHandles
  <1>13. ASSUME NEW w \in Calls, ServerSpawnError(w) PROVE HookIsFinal'
    BY <1>13, CallResolves DEF ServerSpawnError, ReceiverHandles
  <1>14. ASSUME NEW w \in Calls, ServerDies(w) PROVE HookIsFinal'
    BY <1>14 DEF ServerDies, ReceiverHandles
  <1>15. ASSUME NEW w \in Calls, TunnelUrl(w) PROVE HookIsFinal'
    BY <1>15 DEF TunnelUrl, ReceiverHandles
  <1>16. ASSUME NEW w \in Calls, TunnelTimeout(w) PROVE HookIsFinal'
    BY <1>16 DEF TunnelTimeout, Tells, ReceiverHandles
  <1>17. ASSUME NEW w \in Calls, ServerExit(w) PROVE HookIsFinal'
    <2>1. UNCHANGED <<lost, newest, cloudflared>>
      BY <1>17 DEF ServerExit
    <2>2. newest # None => (At(newest)' = "done" => At(newest) \in {"done", "starting"})
      BY <1>17, <2>1, ServerExitCalls
    <2>3. newest # None /\ At(newest) = "starting" => Kind[newest] # "shutdown"
      BY DEF ReceiverHandles
    <2>4. \A v \in Calls : Running(v)' => Running(v)
      BY <1>17 DEF ServerExit
    <2> QED
      BY <2>1, <2>2, <2>3, <2>4
  <1>18. ASSUME NEW w \in Calls, TunnelExit(w) PROVE HookIsFinal'
    BY <1>18, TunnelExitCalls DEF TunnelExit, ReceiverHandles
  <1>19. CASE Forgets
    BY <1>19 DEF Forgets, Unfinished, ReceiverHandles
  <1> QED
    BY <1>1, <1>2, <1>3, <1>4, <1>5, <1>6, <1>7, <1>8, <1>9, <1>10, <1>11, <1>12, <1>13, <1>14,
       <1>15, <1>16, <1>17, <1>18, <1>19
       DEF ReceiverNext, ReceiverCallStep, ReceiverEvents

-----------------------------------------------------------------------------
(* The two invariants.                                                     *)

(* Initially there is no worker and no call.                               *)
LEMMA WorkerInvInit == Init => WorkerInv
  <1> SUFFICES ASSUME Init PROVE WorkerInv
    OBVIOUS
  <1> USE CallKinds, SupervisorConstants DEF Init
  <1>1. TypeOK
    <2>1. reloads \in 0..MaxReloads
      BY SMT
    <2> QED
      BY <2>1, Zenon DEF TypeOK, Waiting
  <1>2. Handles
    BY DEF Handles, Reaping, Waiting
  <1>3. Orderly
    BY DEF Orderly, OneCall, OneWorker, HeldIsIt, StartedIsHeld, AwaitedIsIt, StopIsFinal,
           Recorded, AskedIsAwaited, ShutdownEnds, InProgress, Reaping, Waiting, Present, Alive
  <1> QED
    BY <1>1, <1>2, <1>3 DEF WorkerInv, Turns

(* Once two calls have overlapped, the behaviour is out of turn for good.  *)
LEMMA OverlapStays == TypeOK /\ [Next]_vars /\ ~overlapped' => ~overlapped
  BY DEF TypeOK, vars, Next, InitCalled, ShutdownCalled, Begin, CallStep, ReapEnds,
         ReapEscalates, GraceEnds, TermEnds, WaitOver, Reload, WorkerReady, ReadyTimeout,
         WorkerDies, ExitEvent, SpawnError

(* Every step of the supervisor keeps its invariant.                       *)
LEMMA WorkerInvStep == WorkerInv /\ [Next]_vars => WorkerInv'
  <1> SUFFICES ASSUME WorkerInv, [Next]_vars PROVE WorkerInv'
    OBVIOUS
  <1>1. TypeOK' /\ Handles'
    BY WorkerTypeStep, HandlesStep DEF WorkerInv
  <1>2. ~overlapped' => ~overlapped
    BY OverlapStays DEF WorkerInv
  <1>3. ASSUME ~overlapped' PROVE Orderly'
    <2>1. CASE UNCHANGED vars
      BY <1>3, <2>1 DEF vars, WorkerInv, Turns, InTurn, Orderly, OneCall, OneWorker, HeldIsIt,
             StartedIsHeld, AwaitedIsIt, StopIsFinal, Recorded, AskedIsAwaited, ShutdownEnds,
             InProgress, Present, Alive
    <2>2. ASSUME NEW c \in Calls, InitCalled(c) \/ ShutdownCalled(c) \/ CallStep(c) PROVE Orderly'
      BY <1>2, <1>3, <2>2, CallsAreOrderly DEF WorkerInv, Turns, InTurn
    <2>3. CASE Reload \/ \E w \in Calls : \/ WorkerReady(w) \/ ReadyTimeout(w) \/ WorkerDies(w)
                                          \/ ExitEvent(w) \/ SpawnError(w)
      BY <1>2, <1>3, <2>3, EventsAreOrderly DEF WorkerInv, Turns, InTurn
    <2> QED
      BY <2>1, <2>2, <2>3 DEF Next
  <1> QED
    BY <1>1, <1>3 DEF WorkerInv, Turns, InTurn

(* In turn, one worker at most, recorded, and none after the hook.         *)
LEMMA WorkerInvSuffices == WorkerInv => WorkersInTurn /\ NoStaleHandle
  <1> SUFFICES ASSUME WorkerInv PROVE WorkersInTurn /\ NoStaleHandle
    OBVIOUS
  <1>1. NoStaleHandle
    BY DEF WorkerInv, Handles, NoStaleHandle
  <1>2. OneWorkerInTurn /\ RecordedInTurn
    BY DEF WorkerInv, Turns, Orderly, OneWorker, Recorded, Present, Alive, OneWorkerInTurn,
           AtMostOneWorker, RecordedInTurn
  <1>3. NoOrphanInTurn
    <2> SUFFICES ASSUME InTurn, latest # None, Kind[latest] = "shutdown", \A c \in Calls : ~InProgress(c)
                 PROVE  \A w \in Calls : Alive(w) => signal[w] = "kill"
      BY DEF NoOrphanInTurn
    <2>1. latest \in Calls /\ pc[latest] = "done"
      BY DEF WorkerInv, TypeOK, Handles, InProgress
    <2> QED
      BY <2>1 DEF WorkerInv, Turns, Orderly, ShutdownEnds
  <1> QED
    BY <1>1, <1>2, <1>3 DEF WorkersInTurn, WorkerInv

(* Initially there is no receiver, no tunnel and no call.                  *)
LEMMA ReceiverInvInit == ReceiverInit => ReceiverInv
  <1> SUFFICES ASSUME ReceiverInit PROVE ReceiverInv
    OBVIOUS
  <1> USE CallKinds, SupervisorConstants DEF ReceiverInit
  <1>1. ReceiverTypeOK
    <2>1. forgets \in 0..MaxReloads
      BY SMT
    <2> QED
      BY <2>1, Zenon DEF ReceiverTypeOK, Steps
  <1>2. ReceiverHandles
    BY DEF ReceiverHandles, Stopping, Launching, Awaiting, At, Target
  <1>3. ReceiverOrderly
    BY DEF ReceiverOrderly, ServerOrderly, OneBusy, OneReceiver, ServerIsIt, StartedIsServer,
           AwaitedIsThere, StoppedIsGone, FileNamesIt, HandleKnowsIt, ToldIsAwaited,
           KilledIsLast, StopWasHeard, TunnelOrderly, TunnelIsKnown, StartedIsTunnel,
           KilledTunnelIsLast, AwaitedTunnel, TunnelIsDown, HookIsFinal, Awaiting, At, Busy,
           There, Running, Tunnels
  <1> QED
    BY <1>1, <1>2, <1>3 DEF ReceiverInv, ReceiverTurns

(* Every step of the receiver's supervision keeps its invariant.           *)
LEMMA ReceiverInvStep == ReceiverInv /\ [ReceiverNext]_receiverVars => ReceiverInv'
  <1> SUFFICES ASSUME ReceiverInv, [ReceiverNext]_receiverVars PROVE ReceiverInv'
    OBVIOUS
  <1>1. ReceiverTypeOK' /\ ReceiverHandles'
    BY ReceiverTypeStep, ReceiverHandlesStep DEF ReceiverInv
  <1>2. ASSUME ~crossed' PROVE ReceiverOrderly'
    <2>1. CASE UNCHANGED receiverVars
      BY <1>2, <2>1 DEF receiverVars, ReceiverInv, ReceiverTurns, OneAtATime, ReceiverOrderly,
             ServerOrderly, OneBusy, OneReceiver, ServerIsIt, StartedIsServer, AwaitedIsThere,
             StoppedIsGone, FileNamesIt, HandleKnowsIt, ToldIsAwaited, KilledIsLast,
             StopWasHeard, TunnelOrderly, TunnelIsKnown, StartedIsTunnel, KilledTunnelIsLast,
             AwaitedTunnel, TunnelIsDown, HookIsFinal, At, Target, Busy, There, Running, Tunnels
    <2>2. CASE ReceiverNext
      <3>1. crossed' = crossed \/ \E b \in BOOLEAN : crossed' = (crossed \/ b)
        BY <2>2 DEF ReceiverNext, ReceiverCallStep, ReceiverEvents, CallBegins, StopsServer,
               EscalatesStop, ServerStopped, TearsDownTunnel, KillsTunnel, TunnelDown,
               StartsServer, Reaps, SetsUpTunnel, ServerReadyTimeout, ServerSpawnError,
               ServerExit, TunnelTimeout, ServerReady, ServerDies, TunnelUrl, TunnelExit,
               Forgets
      <3>2. ~crossed
        BY <1>2, <3>1 DEF ReceiverInv, ReceiverTypeOK
      <3>3. ReceiverOrderly
        BY <3>2 DEF ReceiverInv, ReceiverTurns, OneAtATime
      <3> QED
        BY <1>2, <2>2, <3>3, ServerStaysOrderly, TunnelStaysOrderly, HookStaysFinal
           DEF ReceiverInv, ReceiverOrderly
    <2> QED
      BY <2>1, <2>2
  <1> QED
    BY <1>1, <1>2 DEF ReceiverInv, ReceiverTurns, OneAtATime

(* In turn, one receiver and one tunnel at most, and none after the hook.  *)
LEMMA ReceiverInvSuffices == ReceiverInv => ReceiverInTurn /\ NoStaleServer
  <1> SUFFICES ASSUME ReceiverInv PROVE ReceiverInTurn /\ NoStaleServer
    OBVIOUS
  <1>1. NoStaleServer
    BY DEF ReceiverInv, ReceiverHandles, NoStaleServer
  <1>2. ASSUME OneAtATime
        PROVE  /\ \A v, w \in Calls : Running(v) /\ Running(w) => v = w
               /\ FileNamesIt /\ HandleKnowsIt /\ TunnelIsKnown
    BY <1>2 DEF ReceiverInv, ReceiverTurns, ReceiverOrderly, ServerOrderly, OneReceiver, There,
           Running, TunnelOrderly
  <1>3. ASSUME OneAtATime, newest # None, Kind[newest] = "shutdown", \A c \in Calls : ~Busy(c)
        PROVE  \A w \in Calls \ lost : ~Running(w) /\ ~Tunnels(w)
    <2>1. newest \in Calls /\ At(newest) = "done"
      BY <1>3 DEF ReceiverInv, ReceiverTypeOK, ReceiverHandles, Busy
    <2> QED
      BY <1>3, <2>1 DEF ReceiverInv, ReceiverTurns, ReceiverOrderly, HookIsFinal
  <1> QED
    BY <1>1, <1>2, <1>3 DEF ReceiverInTurn, ReceiverInv, FileNamesIt, HandleKnowsIt,
           TunnelIsKnown

-----------------------------------------------------------------------------
(* Whatever the fleet does besides is no step of the supervisor.           *)
LEMMA FleetIsSupervised == FleetNext => [Next]_vars
  <1>1. SupervisorSteps => Next
    BY DEF SupervisorSteps, Next
  <1>2. ASSUME NEW w \in Calls, BootsManager(w) \/ WorkerLeavesBots(w) PROVE Next
    BY <1>2 DEF BootsManager, WorkerLeavesBots, Next
  <1>3. ASSUME NEW w \in Calls, SweepLists(w) \/ BuildsExtension(w)
        PROVE  UNCHANGED vars
    BY <1>3 DEF SweepLists, BuildsExtension, IdleSupervisor
  <1>4. ASSUME NEW w \in Calls, NEW m \in Meetings, Judges(w, m) \/ KillsLater(w, m) \/ Join(w, m)
        PROVE  UNCHANGED vars
    BY <1>4 DEF Judges, KillsLater, Join, IdleSupervisor
  <1>5. ASSUME NEW m \in Meetings,
               \/ Creates(m) \/ Starts(m) \/ Spawns(m)
               \/ GetsLive(m) \/ EndsContainer(m) \/ EndsChild(m) \/ BotExits(m)
        PROVE  UNCHANGED vars
    BY <1>5 DEF Creates, Starts, Spawns, GetsLive, EndsContainer, EndsChild, BotExits,
           IdleSupervisor
  <1> QED
    BY <1>1, <1>2, <1>3, <1>4, <1>5 DEF FleetNext

(* A step of either runtime is a step of it, and a stutter of the other.   *)
LEMMA ProviderSteps == [ProviderNext]_providerVars => [Next]_vars /\ [ReceiverNext]_receiverVars
  <1>1. CASE VellumRuntime(FleetNext)
    BY <1>1, FleetIsSupervised DEF VellumRuntime
  <1>2. CASE RecallRuntime(ReceiverNext)
    BY <1>2 DEF RecallRuntime, allVars
  <1>3. CASE UNCHANGED providerVars
    BY <1>3 DEF providerVars, allVars
  <1> QED
    BY <1>1, <1>2, <1>3 DEF ProviderNext

(* For any number of calls of the hooks and the route, in any overlap: no  *)
(* handle of an exited process is held (runtime.ts, realtime-server.ts);   *)
(* and while they come one at a time there is one worker, or receiver, at  *)
(* most, it is recorded, and the shutdown hook leaves none behind that     *)
(* the module knows of.                                                    *)
THEOREM RuntimesStayInTurn == ProviderSpec => []RuntimesInTurn
  <1>1. ProviderInit => WorkerInv /\ ReceiverInv
    BY WorkerInvInit, ReceiverInvInit DEF ProviderInit, FleetInit
  <1>2. WorkerInv /\ ReceiverInv /\ [ProviderNext]_providerVars => WorkerInv' /\ ReceiverInv'
    BY ProviderSteps, WorkerInvStep, ReceiverInvStep
  <1>3. WorkerInv /\ ReceiverInv => RuntimesInTurn
    BY WorkerInvSuffices, ReceiverInvSuffices DEF RuntimesInTurn
  <1> QED
    BY <1>1, <1>2, <1>3, PTL DEF ProviderSpec

-----------------------------------------------------------------------------
(* The sweep.                                                              *)

Joining == {"pending", "created", "starting", "session"}

(* A join under way is in a live worker; a meeting nobody joined has no    *)
(* bot to list; and, in turn, a bot that is to be killed is of a meeting   *)
(* that is over or went with its worker.                                   *)
JoinsAreHosted == \A m \in Meetings : stage[m] \in Joining => host[m] \in Calls /\ Alive(host[m])
IdleHasNoBot   == \A m \in Meetings : stage[m] = "idle" =>
                      host[m] = None /\ box[m] = "absent" /\ \A w \in Calls : seen[w][m] = "nothing"
KilledIsOver   == \A w \in Calls, m \in Meetings : seen[w][m] = "kill" => stage[m] \in {"over", "lost"}

SweepInv == FleetTypeOK /\ JoinsAreHosted /\ IdleHasNoBot /\ (InTurn => KilledIsOver)

(* A sweep's sight of one bot keeps its place in the table.               *)
LEMMA SeesType ==
    ASSUME seen \in [Calls -> [Meetings -> {"nothing", "judge", "kill", "missed"}]],
           NEW w \in Calls, NEW m \in Meetings, NEW v \in {"nothing", "kill", "missed"}, Sees(w, m, v)
    PROVE  seen' \in [Calls -> [Meetings -> {"nothing", "judge", "kill", "missed"}]]
  <1>1. seen[w] \in [Meetings -> {"nothing", "judge", "kill", "missed"}]
    OBVIOUS
  <1>2. [seen[w] EXCEPT ![m] = v] \in [Meetings -> {"nothing", "judge", "kill", "missed"}]
    BY <1>1
  <1>3. seen' = [seen EXCEPT ![w] = [seen[w] EXCEPT ![m] = v]]
    BY DEF Sees
  <1> QED
    BY <1>2, <1>3

(* The fleet's steps keep its types.                                      *)
LEMMA FleetTypeStep == TypeOK /\ FleetTypeOK /\ [FleetNext]_allVars => FleetTypeOK'
  <1> SUFFICES ASSUME TypeOK, FleetTypeOK, [FleetNext]_allVars PROVE FleetTypeOK'
    OBVIOUS
  <1> USE DEF FleetTypeOK, Stage, Box, Sees, IdleSweep, IdleJoin
  <1> DEFINE Stages == [Meetings -> {"idle", "pending", "created", "starting", "session", "over", "lost"}]
  <1>1. CASE SupervisorSteps \/ UNCHANGED allVars
    BY <1>1 DEF SupervisorSteps, allVars, fleetVars
  <1>2. ASSUME NEW w \in Calls, BootsManager(w) PROVE FleetTypeOK'
    BY <1>2 DEF BootsManager
  <1>3. ASSUME NEW w \in Calls, WorkerLeavesBots(w) PROVE FleetTypeOK'
    <2>1. stage' \in Stages /\ host' \in [Meetings -> Calls \cup {None}]
      BY <1>3 DEF WorkerLeavesBots
    <2>2. box' \in [Meetings -> {"absent", "created", "running", "child"}]
      BY <1>3 DEF WorkerLeavesBots
    <2>3. seen' \in [Calls -> [Meetings -> {"nothing", "judge", "kill", "missed"}]]
      BY <1>3 DEF WorkerLeavesBots
    <2>4. young' \in [Meetings -> SUBSET Calls]
      BY <1>3 DEF WorkerLeavesBots
    <2> QED
      BY <1>3, <2>1, <2>2, <2>3, <2>4 DEF WorkerLeavesBots
  <1>4. ASSUME NEW w \in Calls, SweepLists(w) PROVE FleetTypeOK'
    BY <1>4 DEF SweepLists
  <1>5. ASSUME NEW w \in Calls, BuildsExtension(w) PROVE FleetTypeOK'
    BY <1>5, SMTT(60) DEF BuildsExtension
  <1>6. ASSUME NEW w \in Calls, NEW m \in Meetings, Judges(w, m) \/ KillsLater(w, m) \/ Join(w, m)
        PROVE  FleetTypeOK'
    <2>1. seen' \in [Calls -> [Meetings -> {"nothing", "judge", "kill", "missed"}]]
      <3>1. seen' = seen \/ \E v \in {"nothing", "kill", "missed"} : Sees(w, m, v)
        BY <1>6 DEF Judges, KillsLater, Join, IdleSweep
      <3> QED
        BY <3>1, SeesType
    <2>2. stage' \in Stages /\ host' \in [Meetings -> Calls \cup {None}]
      BY <1>6 DEF Judges, KillsLater, Join
    <2>3. box' \in [Meetings -> {"absent", "created", "running", "child"}]
      BY <1>6 DEF Judges, KillsLater, Kill, Join
    <2> QED
      BY <1>6, <2>1, <2>2, <2>3 DEF Judges, KillsLater, Join
  <1>7. ASSUME NEW m \in Meetings, Creates(m) \/ Spawns(m)
        PROVE  FleetTypeOK'
    <2>1. Stage(m, "created") \/ Stage(m, "over") \/ Stage(m, "starting")
      BY <1>7 DEF Creates, Spawns
    <2>2. stage' \in Stages
      BY <2>1
    <2>3. host' \in [Meetings -> Calls \cup {None}]
      BY <2>1
    <2>4. box' \in [Meetings -> {"absent", "created", "running", "child"}] /\ young' \in [Meetings -> SUBSET Calls]
      BY <1>7 DEF Creates, Spawns, Appears
    <2> QED
      BY <1>7, <2>2, <2>3, <2>4 DEF Creates, Spawns
  <1>8. ASSUME NEW m \in Meetings, Starts(m) \/ GetsLive(m) \/ EndsContainer(m) \/ EndsChild(m) \/ BotExits(m)
        PROVE  FleetTypeOK'
    <2>1. stage' \in Stages /\ host' \in [Meetings -> Calls \cup {None}]
      BY <1>8 DEF Starts, GetsLive, EndsContainer, EndsChild, BotExits
    <2>2. box' \in [Meetings -> {"absent", "created", "running", "child"}]
      BY <1>8 DEF Starts, GetsLive, EndsContainer, EndsChild, BotExits
    <2> QED
      BY <1>8, <2>1, <2>2 DEF Starts, GetsLive, EndsContainer, EndsChild, BotExits
  <1> QED
    BY <1>1, <1>2, <1>3, <1>4, <1>5, <1>6, <1>7, <1>8 DEF FleetNext

(* The supervisor's own steps end no worker: a death is an event of the    *)
(* fleet, which ends the worker's joins with it.                           *)
LEMMA SupervisorSparesWorkers ==
    ASSUME TypeOK, Handles, SupervisorSteps \/ \E w \in Calls : WorkerReady(w)
    PROVE  \A w \in Calls : Alive(w) => Alive(w)'
  <1> USE DEF TypeOK, Alive
  <1>1. ASSUME NEW c \in Calls, process[c] = "none", Spawn(c)
        PROVE  \A w \in Calls : Alive(w) => Alive(w)'
    BY <1>1 DEF Spawn
  <1>2. ASSUME NEW c \in Calls, InitCalled(c) \/ ShutdownCalled(c) \/ CallStep(c)
        PROVE  \A w \in Calls : Alive(w) => Alive(w)'
    <2>1. process' = process \/ (Spawn(c) /\ pc[c] \in {"idle", "resume"} \cup Reaping)
      BY <1>2 DEF InitCalled, ShutdownCalled, Begin, CallStep, ReapEnds, ReapEscalates,
             GraceEnds, TermEnds, WaitOver, StopDone, EnterInit, Reap, Reaping
    <2> QED
      BY <1>1, <2>1 DEF Handles
  <1>3. ASSUME NEW w \in Calls, ReadyTimeout(w) \/ ExitEvent(w) \/ SpawnError(w) \/ WorkerReady(w)
        PROVE  \A v \in Calls : Alive(v) => Alive(v)'
    BY <1>3 DEF ReadyTimeout, ExitEvent, SpawnError, WorkerReady
  <1>4. CASE Reload
    BY <1>4 DEF Reload
  <1> QED
    BY <1>2, <1>3, <1>4 DEF SupervisorSteps

(* Every step of the fleet and its supervisor keeps the sweep's invariant. *)
LEMMA SweepInvStep ==
    ASSUME WorkerInv, WorkerInv', SweepInv, [FleetNext]_allVars
    PROVE  SweepInv'
  <1> USE CallKinds
  <1> USE DEF JoinsAreHosted, IdleHasNoBot, KilledIsOver, Joining
  <1>1. FleetTypeOK'
    BY FleetTypeStep DEF WorkerInv, SweepInv
  <1>2. FleetTypeOK /\ JoinsAreHosted /\ IdleHasNoBot
    BY DEF SweepInv
  <1>3. ASSUME SupervisorSteps \/ \E w \in Calls : BootsManager(w)
        PROVE  JoinsAreHosted' /\ IdleHasNoBot' /\ (KilledIsOver => KilledIsOver')
    <2>1. UNCHANGED <<stage, host, box, seen>>
      BY <1>3 DEF SupervisorSteps, BootsManager, fleetVars
    <2>2. \A w \in Calls : Alive(w) => Alive(w)'
      BY <1>3, SupervisorSparesWorkers DEF WorkerInv, BootsManager
    <2> QED
      BY <1>2, <2>1, <2>2
  <1>4. ASSUME NEW w \in Calls, WorkerLeavesBots(w)
        PROVE  JoinsAreHosted' /\ IdleHasNoBot' /\ (KilledIsOver => KilledIsOver')
    <2>1. \A m \in Meetings : /\ stage'[m] = IF m \in Active(w) THEN "lost" ELSE stage[m]
                              /\ host'[m] = IF m \in Active(w) THEN None ELSE host[m]
      BY <1>4 DEF WorkerLeavesBots
    <2>2. \A m \in Meetings : stage[m] = "idle" => m \notin Active(w) /\ box'[m] = box[m]
      <3>1. \A m \in Meetings : stage[m] = "idle" => m \notin Active(w)
        BY <1>2 DEF Active
      <3>2. CASE box' = box
        BY <3>1, <3>2
      <3>3. CASE box' = [m \in Meetings |-> IF m \in Active(w) /\ stage[m] = "created"
                                            THEN "running" ELSE box[m]]
        BY <3>1, <3>3
      <3> QED
        BY <1>4, <3>2, <3>3 DEF WorkerLeavesBots
    <2>3. \A v \in Calls, m \in Meetings : seen'[v][m] = seen[v][m] \/ seen'[v][m] = "nothing"
      BY <1>2, <1>4 DEF WorkerLeavesBots, FleetTypeOK
    <2>4. \A v \in Calls \ {w} : Alive(v) => Alive(v)'
      BY <1>4 DEF WorkerLeavesBots, WorkerDies, Alive, WorkerInv, TypeOK
    <2>5. JoinsAreHosted'
      BY <1>2, <2>1, <2>4 DEF Active
    <2> QED
      BY <1>2, <2>1, <2>2, <2>3, <2>5
  <1>5. ASSUME UNCHANGED vars, NEW w \in Calls, SweepLists(w) \/ BuildsExtension(w)
        PROVE  JoinsAreHosted' /\ IdleHasNoBot' /\ (KilledIsOver => KilledIsOver')
    <2>1. \A v \in Calls : Alive(v)' <=> Alive(v)
      BY <1>5 DEF vars, Alive
    <2>2. CASE SweepLists(w)
      <3>1. UNCHANGED <<stage, host, box>>
        BY <2>2 DEF SweepLists, IdleJoin
      <3>2. \A v \in Calls, n \in Meetings : stage[n] = "idle" => seen'[v][n] = "nothing"
        BY <1>2, <2>2 DEF SweepLists, Listed, FleetTypeOK
      <3>3. \A v \in Calls, n \in Meetings : seen'[v][n] = "kill" => seen[v][n] = "kill"
        <4>1. seen \in [Calls -> [Meetings -> {"nothing", "judge", "kill", "missed"}]]
          BY <1>2 DEF FleetTypeOK
        <4>2. CASE seen' = seen
          BY <4>2
        <4>3. CASE seen' = [seen EXCEPT ![w] = [n \in Meetings |-> IF n \in Listed THEN "judge" ELSE "nothing"]]
          <5>1. \A n \in Meetings : seen'[w][n] \in {"judge", "nothing"}
            BY <4>1, <4>3
          <5>2. \A v \in Calls \ {w} : seen'[v] = seen[v]
            BY <4>1, <4>3
          <5> QED
            BY <5>1, <5>2
        <4> QED
          BY <2>2, <4>2, <4>3 DEF SweepLists
      <3>4. JoinsAreHosted'
        BY <1>2, <1>5, <3>1 DEF Alive, vars
      <3>5. IdleHasNoBot'
        BY <1>2, <3>1, <3>2
      <3>6. KilledIsOver => KilledIsOver'
        BY <3>1, <3>3
      <3> QED
        BY <3>4, <3>5, <3>6
    <2>3. CASE BuildsExtension(w)
      BY <1>2, <2>1, <2>3 DEF BuildsExtension, IdleSweep, FleetTypeOK, Active
    <2> QED
      BY <1>5, <2>2, <2>3
  <1>6. ASSUME UNCHANGED vars, NEW w \in Calls, NEW m \in Meetings, KillsLater(w, m) \/ Join(w, m)
        PROVE  JoinsAreHosted' /\ IdleHasNoBot' /\ (KilledIsOver => KilledIsOver')
    <2>1. \A v \in Calls : Alive(v)' <=> Alive(v)
      BY <1>6 DEF vars, Alive
    <2>2. CASE KillsLater(w, m)
      BY <1>2, <2>1, <2>2 DEF KillsLater, IdleJoin, Sees, Kill, Box, FleetTypeOK
    <2>3. CASE Join(w, m)
      BY <1>2, <2>1, <2>3 DEF Join, IdleSweep, FleetTypeOK, Alive
    <2> QED
      BY <1>6, <2>2, <2>3
  (* The judge is the only live worker, so that a join that is not its own  *)
  (* has no worker any more.                                                *)
  <1>7. ASSUME UNCHANGED vars, NEW w \in Calls, NEW m \in Meetings, Judges(w, m)
        PROVE  JoinsAreHosted' /\ IdleHasNoBot' /\ (InTurn /\ KilledIsOver => KilledIsOver')
    <2>1. \A v \in Calls : Alive(v)' <=> Alive(v)
      BY <1>7 DEF vars, Alive
    <2>2. JoinsAreHosted' /\ IdleHasNoBot'
      BY <1>2, <1>7, <2>1 DEF Judges, IdleJoin, Sees, FleetTypeOK
    <2>3. ASSUME InTurn, m \notin Active(w) PROVE stage[m] \in {"over", "lost"}
      <3>1. Alive(w) /\ seen[w][m] = "judge"
        BY <1>7 DEF Judges
      <3>2. \A v \in Calls : Alive(v) => v = w
        BY <2>3, <3>1 DEF WorkerInv, Turns, Orderly, OneWorker, Present, Alive
      <3>3. stage[m] # "idle"
        BY <1>2, <3>1
      <3> QED
        BY <1>2, <2>3, <3>2, <3>3 DEF Active, FleetTypeOK
    <2>4. ASSUME InTurn, KilledIsOver PROVE KilledIsOver'
      <3>1. \A v \in Calls, n \in Meetings :
                seen'[v][n] = "kill" => seen[v][n] = "kill" \/ (n = m /\ m \notin Active(w))
        BY <1>2, <1>7, SMTT(60) DEF Judges, Sees, FleetTypeOK
      <3>2. stage' = stage
        BY <1>7 DEF Judges, IdleJoin
      <3> QED
        BY <2>3, <2>4, <3>1, <3>2
    <2> QED
      BY <2>2, <2>4
  <1>8. ASSUME UNCHANGED vars, NEW m \in Meetings,
               \/ Creates(m) \/ Starts(m) \/ Spawns(m)
               \/ GetsLive(m) \/ EndsContainer(m) \/ EndsChild(m) \/ BotExits(m)
        PROVE  JoinsAreHosted' /\ IdleHasNoBot' /\ (KilledIsOver => KilledIsOver')
    <2>1. \A v \in Calls : Alive(v)' <=> Alive(v)
      BY <1>8 DEF vars, Alive
    <2>2. UNCHANGED seen
      BY <1>8 DEF Creates, Starts, Spawns, GetsLive, EndsContainer, EndsChild, BotExits,
             IdleSweep
    <2>3. /\ \A n \in Meetings \ {m} : stage'[n] = stage[n] /\ host'[n] = host[n] /\ box'[n] = box[n]
          /\ \/ stage'[m] = "over" /\ stage[m] \in Joining
             \/ stage'[m] \in Joining /\ stage[m] \in Joining /\ host'[m] = host[m]
             \/ stage'[m] = stage[m] /\ host'[m] = host[m] /\ box'[m] = "absent"
      BY <1>2, <1>8 DEF Creates, Starts, Spawns, GetsLive, EndsContainer, EndsChild, BotExits,
             Stage, Box, Appears, IdleJoin, FleetTypeOK
    <2> QED
      BY <1>2, <2>1, <2>2, <2>3
  <1>9. JoinsAreHosted' /\ IdleHasNoBot' /\ (InTurn /\ KilledIsOver => KilledIsOver')
    <2>1. CASE UNCHANGED allVars
      BY <1>2, <2>1 DEF allVars, vars, fleetVars, Alive
    <2>2. CASE FleetNext
      <3>1. ASSUME NEW w \in Calls, SweepLists(w) \/ BuildsExtension(w) PROVE UNCHANGED vars
        BY <3>1 DEF SweepLists, BuildsExtension, IdleSupervisor
      <3>2. ASSUME NEW w \in Calls, NEW m \in Meetings, Judges(w, m) \/ KillsLater(w, m) \/ Join(w, m)
            PROVE  UNCHANGED vars
        BY <3>2 DEF Judges, KillsLater, Join, IdleSupervisor
      <3>3. ASSUME NEW m \in Meetings,
                   \/ Creates(m) \/ Starts(m) \/ Spawns(m)
                   \/ GetsLive(m) \/ EndsContainer(m) \/ EndsChild(m) \/ BotExits(m)
            PROVE  UNCHANGED vars
        BY <3>3 DEF Creates, Starts, Spawns, GetsLive, EndsContainer, EndsChild, BotExits,
               IdleSupervisor
      <3> QED
        BY <1>3, <1>4, <1>5, <1>6, <1>7, <1>8, <2>2, <3>1, <3>2, <3>3 DEF FleetNext
    <2> QED
      BY <2>1, <2>2
  <1>10. InTurn' => InTurn
    BY FleetIsSupervised, OverlapStays DEF WorkerInv, InTurn, allVars, vars
  <1> QED
    BY <1>1, <1>9, <1>10 DEF SweepInv

(* docker-runner.ts, session-manager.ts: while the calls of the hooks come *)
(* one at a time, the startup sweep of a worker never signals the bot of a *)
(* meeting that is being joined or attended, for any number of meetings.   *)
THEOREM TheSweepSparesTheLive == ProviderSpec => []SweepSparesTheLive
  <1>1. ProviderInit => WorkerInv /\ SweepInv
    <2> SUFFICES ASSUME ProviderInit PROVE SweepInv
      BY WorkerInvInit DEF ProviderInit, FleetInit
    <2>1. FleetTypeOK
      BY DEF ProviderInit, FleetInit, FleetTypeOK
    <2> QED
      BY <2>1, CallKinds DEF ProviderInit, FleetInit, SweepInv, JoinsAreHosted, IdleHasNoBot,
             KilledIsOver, Joining
  <1>2. WorkerInv /\ SweepInv /\ [ProviderNext]_providerVars => WorkerInv' /\ SweepInv'
    <2> SUFFICES ASSUME WorkerInv, SweepInv, [ProviderNext]_providerVars
                 PROVE  WorkerInv' /\ SweepInv'
      OBVIOUS
    <2>1. WorkerInv'
      BY ProviderSteps, WorkerInvStep
    <2>2. [FleetNext]_allVars
      BY DEF ProviderNext, VellumRuntime, RecallRuntime, providerVars
    <2> QED
      BY <2>1, <2>2, SweepInvStep
  <1>3. SweepInv => SweepSparesTheLive
    BY DEF SweepInv, SweepSparesTheLive, KilledIsOver
  <1> QED
    BY <1>1, <1>2, <1>3, PTL DEF ProviderSpec
=============================================================================
