-------------------------- MODULE RealtimeReceiver --------------------------
(***************************************************************************)
(* The other provider's runtime: the receiver process Recall streams to    *)
(* (realtime-server.ts, recall/worker.ts) and, no publicWsUrl being        *)
(* configured, the tunnel that makes it reachable (inbound.ts).  The       *)
(* receiver has a handle in memory and a PID file, the tunnel a handle     *)
(* only.  Its calls are those of RuntimeSupervisor and run one step at a   *)
(* time: a step in Urgent goes on in the microtasks of the event that woke *)
(* it, before anything else happens.                                       *)
(***************************************************************************)
EXTENDS Naturals, RuntimeSupervisor

VARIABLES
    server,      \* the receiver whose handle the module holds
    serverPid,   \* the receiver its PID file names
    receiver,    \* each process: none, starting, up, zombie, gone, failed
    sent,        \* the strongest request to end it: none, stop, term, kill
    listening,   \* receivers whose "ready" was received
    readyWait,   \* receivers whose readiness timer is armed
    lost,        \* processes whose handles went with a reload
    tunnel,      \* the tunnel whose handle the module holds
    cloudflared, \* each tunnel: none, starting, up, gone, failed
    told,        \* the tunnels' signals: none, term, kill
    call,        \* each call: its step, and the process it waits for
    newest,      \* the call that began last
    forgets,     \* reloads so far
    crossed      \* history: a call, or its start, came before what was stopped had gone

receiverVars == <<server, serverPid, receiver, sent, listening, readyWait, lost, tunnel,
                  cloudflared, told, call, newest, forgets, crossed>>

Steps  == {"idle", "stop", "grace", "term", "stopped", "teardown", "twait", "tdown",
           "start", "reap", "starting", "setup", "tstart", "done"}
Urgent == {"stop", "stopped", "teardown", "tdown", "setup"}

ReceiverTypeOK ==
    /\ server \in Calls \cup {None} /\ serverPid \in Calls \cup {None}
    /\ receiver \in [Calls -> {"none", "starting", "up", "zombie", "gone", "failed"}]
    /\ sent \in [Calls -> {"none", "stop", "term", "kill"}]
    /\ listening \subseteq Calls /\ readyWait \subseteq Calls /\ lost \subseteq Calls
    /\ tunnel \in Calls \cup {None}
    /\ cloudflared \in [Calls -> {"none", "starting", "up", "gone", "failed"}]
    /\ told \in [Calls -> {"none", "term", "kill"}]
    /\ call \in [Calls -> [at : Steps, of : Calls \cup {None}]]
    /\ newest \in Calls \cup {None} /\ forgets \in 0..MaxReloads /\ crossed \in BOOLEAN

ReceiverInit ==
    /\ server = None /\ serverPid = None /\ tunnel = None
    /\ receiver = [w \in Calls |-> "none"] /\ sent = [w \in Calls |-> "none"]
    /\ cloudflared = [w \in Calls |-> "none"] /\ told = [w \in Calls |-> "none"]
    /\ listening = {} /\ readyWait = {} /\ lost = {}
    /\ call = [c \in Calls |-> [at |-> "idle", of |-> None]]
    /\ newest = None /\ forgets = 0 /\ crossed = FALSE

Running(w)  == receiver[w] \in {"starting", "up"}
Tunnels(t)  == cloudflared[t] \in {"starting", "up"}
At(c)       == call[c].at
Target(c)   == call[c].of
Settled     == \A c \in Calls : At(c) \notin Urgent
Busy(c)     == At(c) \notin {"idle", "done"}

\* A call is over when it has returned and what it stopped has gone.
Unfinished(d) == \/ Busy(d)
                 \/ receiver[d] = "zombie" \/ (Running(d) /\ sent[d] = "kill")
                 \/ Tunnels(d) /\ told[d] = "kill"

Step(s)        == [at |-> s, of |-> None]
Goes(c, s)     == call' = [call EXCEPT ![c] = Step(s)]
Waits(c, s, w) == call' = [call EXCEPT ![c] = [at |-> s, of |-> w]]
Signals(w, s)  == sent' = IF ~Running(w) \/ sent[w] = "kill" THEN sent
                          ELSE [sent EXCEPT ![w] = s]
Tells(t, s)    == told' = IF Tunnels(t) THEN [told EXCEPT ![t] = s] ELSE told

NoTunnelStep   == UNCHANGED <<tunnel, cloudflared, told>>
NoReceiverStep == UNCHANGED <<server, serverPid, receiver, sent, listening, readyWait>>
NoCallBegins   == UNCHANGED <<lost, newest, forgets>>

-----------------------------------------------------------------------------
(* init, restartProviderRuntime, and the shutdown hook.  The first two     *)
(* read the configuration anew, in which there is no URL.                  *)
CallBegins(c) ==
    /\ Settled /\ At(c) = "idle"
    /\ Goes(c, IF Kind[c] = "init" THEN "start" ELSE "stop")
    /\ newest' = c
    /\ crossed' = (crossed \/ \E d \in Calls : Unfinished(d))
    /\ NoReceiverStep
    /\ UNCHANGED <<lost, tunnel, cloudflared, told, forgets>>

-----------------------------------------------------------------------------
(* stopRealtimeServer.  It keeps the handle until the wait is over.        *)
StopsServer(c) ==
    /\ At(c) = "stop"
    /\ \/ server = None /\ Goes(c, "teardown") /\ UNCHANGED sent
       \/ /\ server # None
          /\ Waits(c, "grace", server)
          /\ sent' = [sent EXCEPT ![server] = IF @ = "none" THEN "stop" ELSE @]
    /\ UNCHANGED <<server, serverPid, receiver, listening, readyWait, crossed>>
    /\ NoTunnelStep /\ NoCallBegins

(* STOP_GRACE_MS, then KILL_GRACE_MS, pass without an exit event: all but  *)
(* the stubborn obey SIGTERM, and an exit before the wait is not noticed.  *)
EscalatesStop(c) ==
    /\ Settled
    /\ \/ At(c) = "grace" /\ Waits(c, "term", Target(c)) /\ Signals(Target(c), "term")
       \/ /\ At(c) = "term"
          /\ Target(c) \in Stubborn \/ receiver[Target(c)] \in {"gone", "failed"}
          /\ Goes(c, "stopped") /\ Signals(Target(c), "kill")
    /\ crossed' = (crossed \/ (At(c) = "term" /\ receiver[Target(c)] # "gone"))
    /\ UNCHANGED <<server, serverPid, receiver, listening, readyWait>>
    /\ NoTunnelStep /\ NoCallBegins

ServerStopped(c) ==
    /\ At(c) = "stopped"
    /\ serverPid' = None /\ server' = None
    /\ Goes(c, "teardown")
    /\ UNCHANGED <<receiver, sent, listening, readyWait, crossed>>
    /\ NoTunnelStep /\ NoCallBegins

(* teardownInbound. *)
AfterStop(c) == IF Kind[c] = "restart" THEN "start" ELSE "done"

TearsDownTunnel(c) ==
    /\ At(c) = "teardown"
    /\ \/ tunnel = None /\ Goes(c, AfterStop(c)) /\ UNCHANGED told
       \/ tunnel # None /\ Waits(c, "twait", tunnel) /\ Tells(tunnel, "term")
    /\ NoReceiverStep /\ NoCallBegins
    /\ UNCHANGED <<tunnel, cloudflared, crossed>>

KillsTunnel(c) ==   \* its grace passed
    /\ Settled /\ At(c) = "twait"
    /\ Target(c) \in Stubborn \/ ~Tunnels(Target(c))
    /\ Tells(Target(c), "kill") /\ Goes(c, "tdown")
    /\ crossed' = (crossed \/ Tunnels(Target(c)))
    /\ NoReceiverStep /\ NoCallBegins
    /\ UNCHANGED <<tunnel, cloudflared>>

TunnelDown(c) ==
    /\ At(c) = "tdown"
    /\ tunnel' = None
    /\ Goes(c, AfterStop(c))
    /\ NoReceiverStep /\ NoCallBegins
    /\ UNCHANGED <<cloudflared, told, crossed>>

-----------------------------------------------------------------------------
(* startRealtimeServer.  reapStaleSubprocess signals only a live process   *)
(* that runs the receiver's script, and clears the file in any case.       *)
SpawnsServer(c) ==
    /\ server' = c /\ readyWait' = readyWait \cup {c}
    /\ \/ receiver' = [receiver EXCEPT ![c] = "starting"] /\ serverPid' = c
       \/ receiver' = [receiver EXCEPT ![c] = "failed"] /\ serverPid' = None
    /\ Goes(c, "starting")
    /\ UNCHANGED sent

StaleServer == serverPid # None /\ Running(serverPid)

StartsServerNoReap(c) ==   \* mutant: does not look at the PID file
    /\ Settled /\ At(c) = "start"
    /\ \/ /\ server # None /\ Goes(c, "setup")
          /\ UNCHANGED <<server, serverPid, receiver, sent, readyWait>>
       \/ server = None /\ SpawnsServer(c)
    /\ NoTunnelStep /\ NoCallBegins
    /\ UNCHANGED listening
    /\ crossed' = (crossed \/ \E d \in Calls : receiver[d] = "zombie")
StartsServer(c) ==
    /\ Settled /\ At(c) = "start"
    /\ \/ /\ server # None /\ Goes(c, "setup")   \* already running
          /\ UNCHANGED <<server, serverPid, receiver, sent, readyWait>>
       \/ /\ server = None /\ StaleServer
          /\ Waits(c, "reap", serverPid) /\ Signals(serverPid, "term")
          /\ UNCHANGED <<server, serverPid, receiver, readyWait>>
       \/ server = None /\ ~StaleServer /\ SpawnsServer(c)
    /\ NoTunnelStep /\ NoCallBegins
    /\ UNCHANGED listening
    /\ crossed' = (crossed \/ \E d \in Calls : receiver[d] = "zombie")

(* The poll finds the old process gone, or its time has run out.           *)
Reaps(c) ==
    /\ Settled /\ At(c) = "reap"
    /\ \/ receiver[Target(c)] = "gone" /\ SpawnsServer(c)
       \/ /\ Target(c) \in Stubborn /\ receiver[Target(c)] # "gone" /\ sent[Target(c)] # "kill"
          /\ Signals(Target(c), "kill")
          /\ UNCHANGED <<server, serverPid, receiver, readyWait, call>>
    /\ NoTunnelStep /\ NoCallBegins
    /\ UNCHANGED <<listening, crossed>>

(* startRealtimeServer settles: a rejection is logged and ends the call.   *)
Resolves(w, s) == IF At(w) = "starting" THEN Goes(w, s) ELSE call' = call

(* The receiver binds its port, which another one may still hold.          *)
PortTaken(w) == \E v \in Calls \ {w} : receiver[v] = "up"

ServerReady(w) ==
    /\ Settled /\ receiver[w] = "starting" /\ ~PortTaken(w)
    /\ receiver' = [receiver EXCEPT ![w] = "up"]
    /\ listening' = listening \cup {w} /\ readyWait' = readyWait \ {w}
    /\ Resolves(w, "setup")
    /\ NoTunnelStep /\ NoCallBegins
    /\ UNCHANGED <<server, serverPid, sent, crossed>>

ServerReadyTimeout(w) ==
    /\ Settled /\ w \in readyWait /\ w \in Mute /\ receiver[w] # "failed"
    /\ readyWait' = readyWait \ {w}
    /\ Signals(w, "kill") /\ server' = None
    /\ Resolves(w, "done")
    /\ NoTunnelStep /\ NoCallBegins
    /\ UNCHANGED <<serverPid, receiver, listening, crossed>>

ServerSpawnErrorNoReject(w) ==   \* mutant: the caller is not told
    /\ Settled /\ receiver[w] = "failed" /\ w \in readyWait
    /\ readyWait' = readyWait \ {w} /\ server' = None
    /\ NoTunnelStep /\ NoCallBegins
    /\ UNCHANGED <<serverPid, receiver, sent, listening, call, crossed>>
ServerSpawnError(w) ==
    /\ Settled /\ receiver[w] = "failed" /\ w \in readyWait
    /\ readyWait' = readyWait \ {w} /\ server' = None
    /\ Resolves(w, "done")
    /\ NoTunnelStep /\ NoCallBegins
    /\ UNCHANGED <<serverPid, receiver, sent, listening, crossed>>

(* It was told to, it found its port taken, or it crashed.                 *)
ServerDies(w) ==
    /\ Running(w)
    /\ receiver' = [receiver EXCEPT ![w] = "zombie"]
    /\ NoTunnelStep /\ NoCallBegins
    /\ UNCHANGED <<server, serverPid, sent, listening, readyWait, call, crossed>>

(* The 'exit' handler, which for a receiver of before a reload acts on the *)
(* lost instance of the module, but on the same PID file.                  *)
HeldOn(w) == server = w \/ w \in lost

ServerKept(w) ==   \* mutant: an exit after readiness leaves the handle in place
    IF w \notin listening /\ w \notin lost THEN None ELSE server
ServerAfterExit(w) ==
    IF (w \notin listening /\ w \notin lost) \/ server = w THEN None ELSE server

ServerExit(w) ==
    /\ Settled /\ receiver[w] = "zombie"
    /\ receiver' = [receiver EXCEPT ![w] = "gone"]
    /\ readyWait' = readyWait \ {w} /\ listening' = listening \ {w}
    /\ sent' = [sent EXCEPT ![w] = "none"]
    /\ server' = ServerAfterExit(w)
    /\ serverPid' = IF w \in listening /\ HeldOn(w) THEN None ELSE serverPid
    /\ call' = [c \in Calls |->
                   IF c = w /\ At(c) = "starting" THEN Step("done")
                   ELSE IF At(c) \in {"grace", "term"} /\ Target(c) = w THEN Step("stopped")
                   ELSE call[c]]
    /\ NoTunnelStep /\ NoCallBegins
    /\ UNCHANGED crossed

-----------------------------------------------------------------------------
(* setupInbound: no second tunnel while the handle of one is held.         *)
SetsUpTunnel(c) ==
    /\ At(c) = "setup"
    /\ \/ tunnel # None /\ Goes(c, "done") /\ UNCHANGED <<tunnel, cloudflared>>
       \/ /\ tunnel = None /\ tunnel' = c
          /\ \E s \in {"starting", "failed"} : cloudflared' = [cloudflared EXCEPT ![c] = s]
          /\ Goes(c, "tstart")
    /\ NoReceiverStep /\ NoCallBegins
    /\ UNCHANGED <<told, crossed>>

TunnelUrl(t) ==
    /\ Settled /\ cloudflared[t] = "starting"
    /\ cloudflared' = [cloudflared EXCEPT ![t] = "up"]
    /\ IF At(t) = "tstart" THEN Goes(t, "done") ELSE call' = call
    /\ NoReceiverStep /\ NoCallBegins
    /\ UNCHANGED <<tunnel, told, crossed>>

TunnelTimeout(t) ==
    /\ Settled /\ At(t) = "tstart" /\ t \in Mute /\ cloudflared[t] = "starting"
    /\ Tells(t, "kill") /\ tunnel' = None
    /\ Goes(t, "done")
    /\ NoReceiverStep /\ NoCallBegins
    /\ UNCHANGED <<cloudflared, crossed>>

(* It was told to or it crashed, or could not be spawned: 'exit', 'error'. *)
TunnelExitNotHeard(t) ==   \* mutant: nobody listens for it until the URL is there
    /\ Settled
    /\ Tunnels(t) \/ (cloudflared[t] = "failed" /\ At(t) = "tstart")
    /\ cloudflared' = [cloudflared EXCEPT ![t] = IF @ = "failed" THEN @ ELSE "gone"]
    /\ tunnel' = IF t \in lost THEN tunnel ELSE None
    /\ call' = [c \in Calls |->
                   IF At(c) = "twait" /\ Target(c) = t THEN Step("tdown") ELSE call[c]]
    /\ told' = [told EXCEPT ![t] = "none"]
    /\ NoReceiverStep /\ NoCallBegins
    /\ UNCHANGED crossed
TunnelExit(t) ==
    /\ Settled
    /\ Tunnels(t) \/ (cloudflared[t] = "failed" /\ At(t) = "tstart")
    /\ cloudflared' = [cloudflared EXCEPT ![t] = IF @ = "failed" THEN @ ELSE "gone"]
    /\ tunnel' = IF t \in lost THEN tunnel ELSE None
    /\ call' = [c \in Calls |->
                   IF c = t /\ At(c) = "tstart" THEN Step("done")
                   ELSE IF At(c) = "twait" /\ Target(c) = t THEN Step("tdown")
                   ELSE call[c]]
    /\ told' = [told EXCEPT ![t] = "none"]
    /\ NoReceiverStep /\ NoCallBegins
    /\ UNCHANGED crossed

(* The module is reloaded without the shutdown hook: the handles are lost, *)
(* the processes and the PID file stay.                                    *)
Forgets ==
    /\ forgets < MaxReloads /\ \A c \in Calls : ~Unfinished(c)
    /\ forgets' = forgets + 1
    /\ server' = None /\ tunnel' = None
    /\ lost' = lost \cup ({server, tunnel} \ {None})
    /\ UNCHANGED <<serverPid, receiver, sent, listening, readyWait, cloudflared, told,
                   call, newest, crossed>>

-----------------------------------------------------------------------------
ReceiverCallStep(c) ==
    \/ StopsServer(c) \/ EscalatesStop(c) \/ ServerStopped(c)
    \/ TearsDownTunnel(c) \/ KillsTunnel(c) \/ TunnelDown(c)
    \/ StartsServer(c) \/ Reaps(c) \/ SetsUpTunnel(c)

ReceiverEvents(w) ==
    \/ ServerReadyTimeout(w) \/ ServerSpawnError(w) \/ ServerExit(w) \/ TunnelTimeout(w)

ReceiverNext ==
    \/ \E c \in Calls : \/ CallBegins(c) \/ ReceiverCallStep(c) \/ ReceiverEvents(c)
                        \/ ServerReady(c) \/ ServerDies(c) \/ TunnelUrl(c) \/ TunnelExit(c)
    \/ Forgets

(* Timers fire, events are dispatched, the calls go on; a process that is  *)
(* not mute says it is ready, and one that was told to end, or finds its   *)
(* port taken, ends.  None of these can go on for ever, so that fairness   *)
(* of the choice among them is fairness of each.                           *)
ServerMustDie(w) == \/ sent[w] = "kill" \/ (sent[w] \in {"stop", "term"} /\ w \notin Stubborn)
                    \/ receiver[w] = "starting" /\ PortTaken(w)
TunnelMustEnd(t) == \/ told[t] = "kill" \/ (told[t] = "term" /\ t \notin Stubborn)
                    \/ cloudflared[t] = "failed"

ReceiverMust == \E c \in Calls :
    \/ ReceiverCallStep(c) \/ ReceiverEvents(c)
    \/ c \notin Mute /\ (ServerReady(c) \/ TunnelUrl(c))
    \/ ServerMustDie(c) /\ ServerDies(c)
    \/ TunnelMustEnd(c) /\ TunnelExit(c)

-----------------------------------------------------------------------------
OneAtATime == ~crossed

(* provider-runtime.ts: "The plugin runs exactly one provider runtime at a *)
(* time", and realtime-server.ts: the reap "is what prevents the port 8790 *)
(* in use failure on reload".  While the calls come one at a time there is *)
(* at most one live receiver, through crashes, failed spawns, readiness    *)
(* timeouts and reloads; the PID file names it unless it was told to end;  *)
(* the module holds the handle of every live tunnel and receiver that no   *)
(* reload has cost it and that it has not killed; and when the last call   *)
(* was the shutdown hook and is over, only those whose handle went with a  *)
(* reload live on.  (stopRealtimeServer does not look at the PID file,     *)
(* although provider-runtime.ts says both runtimes do.)                    *)
ReceiverInTurn ==
    /\ ReceiverTypeOK
    /\ OneAtATime =>
        /\ \A v, w \in Calls : Running(v) /\ Running(w) => v = w
        /\ \A w \in Calls : Running(w) /\ sent[w] = "none" => serverPid = w
        /\ \A w \in Calls \ lost : Running(w) /\ sent[w] # "kill" => server = w
        /\ \A t \in Calls \ lost : Tunnels(t) /\ told[t] # "kill" => tunnel = t
        /\ (newest # None /\ Kind[newest] = "shutdown" /\ \A c \in Calls : ~Busy(c)) =>
              \A w \in Calls \ lost : (Running(w) => sent[w] = "kill")
                                   /\ (Tunnels(w) => told[w] = "kill")

(* The module never holds the handle of a receiver whose exit event has    *)
(* been handled, which would make every later start a silent no-op.        *)
NoStaleServer == server # None => receiver[server] # "gone"
=============================================================================
