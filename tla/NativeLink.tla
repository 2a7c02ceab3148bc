----------------------------- MODULE NativeLink -----------------------------
(***************************************************************************)
(* The pipe between the extension and the bot: the extension's native port *)
(* (messaging/native-port.ts) reconnects for ever; each connection is a    *)
(* shim process of its own (nmh-shim.ts) that Chrome spawns and that dials *)
(* the bot's socket (socket-server.ts); the server serves the newest       *)
(* client only.  The two ends learn of a broken shim at different times.   *)
(*                                                                         *)
(* Frames are left out, except the `ready` that is the first of every      *)
(* connection: `unread` is one no bot code has read yet.  Left out too are *)
(* the delays and their doubling, close(), which nothing calls, and a shim *)
(* that finds no server: the server listens before Chrome is launched, and *)
(* what the link does once it has stopped reaches nobody.                  *)
(***************************************************************************)
EXTENDS Naturals

CONSTANTS
    Shims,       \* the shim processes that may exist at a time
    NoShim,
    MaxFaults    \* bound: shims that fail, frames that break the protocol

ASSUME LinkConstants == NoShim \notin Shims /\ MaxFaults \in Nat

VARIABLES
    port,        \* the shim of currentPort
    retry,       \* a dial is due: the worker boots, or reconnectTimer is armed
    shim,        \* of each shim: gone (not running), dialing, piping
    client,      \* activeSocket, named by its shim
    sock,        \* the server's end of each shim: none, open, destroyed
    unread,      \* the shims whose `ready` has not been read
    faults       \* the faults so far

linkVars == <<port, retry, shim, client, sock, unread, faults>>

LinkTypeOK ==
    /\ port \in Shims \cup {NoShim} /\ client \in Shims \cup {NoShim}
    /\ shim \in [Shims -> {"gone", "dialing", "piping"}]
    /\ sock \in [Shims -> {"none", "open", "destroyed"}]
    /\ unread \subseteq Shims /\ faults \in 0..MaxFaults
    /\ retry \in BOOLEAN

(* Chrome is not up: nothing has dialled. *)
LinkInit ==
    /\ port = NoShim /\ client = NoShim
    /\ shim = [s \in Shims |-> "gone"]
    /\ sock = [s \in Shims |-> "none"]
    /\ unread = {} /\ faults = 0
    /\ retry = FALSE

-----------------------------------------------------------------------------
(* The extension's end. *)

ScheduleReconnectNot == retry' = retry   \* mutant: a lost port is not dialled again
ScheduleReconnect == retry' = TRUE

(* connectNative answers at once, whatever becomes of the process, and     *)
(* every connection starts with `ready`.  (A throw arms the timer again.)  *)
(* A name both ends have done with stands for a new shim.                  *)
Connect(s) ==
    /\ retry /\ shim[s] = "gone" /\ sock[s] = "none"
    /\ port' = s /\ retry' = FALSE
    /\ shim' = [shim EXCEPT ![s] = "dialing"]
    /\ unread' = unread \cup {s}
    /\ UNCHANGED <<client, sock, faults>>

(* A frame that does not pass the schema: the port is dropped, and Chrome  *)
(* ends the shim's stdin.                                                  *)
ProtocolError(s) ==
    /\ port = s /\ shim[s] = "piping" /\ sock[s] = "open"
    /\ faults < MaxFaults /\ faults' = faults + 1
    /\ port' = NoShim /\ ScheduleReconnect
    /\ UNCHANGED <<shim, client, sock, unread>>

(* The shim has gone: Chrome disconnects the port. *)
PortDisconnects(s) ==
    /\ port = s /\ shim[s] = "gone"
    /\ port' = NoShim /\ ScheduleReconnect
    /\ UNCHANGED <<shim, client, sock, unread, faults>>

-----------------------------------------------------------------------------
(* The shim, and the server that accepts it. *)

(* The new client replaces the one before it, whose socket is destroyed    *)
(* here and seen to close later.                                           *)
AcceptClient(s) ==
    /\ client' = s
    /\ sock' = [t \in Shims |-> IF t = s THEN "open"
                                ELSE IF t = client THEN "destroyed" ELSE sock[t]]

(* The first of its attempts to dial that finds the server.                *)
ShimDials(s) ==
    /\ shim[s] = "dialing"
    /\ shim' = [shim EXCEPT ![s] = "piping"]
    /\ AcceptClient(s)
    /\ UNCHANGED <<port, retry, unread, faults>>

ShimGone(s) ==
    /\ shim' = [shim EXCEPT ![s] = "gone"]
    /\ UNCHANGED <<port, retry, client, sock>>

(* Chrome ended the shim's stdin, or the server its socket: it pipes what  *)
(* it has already read, and exits.                                         *)
Ended(s) == port # s \/ sock[s] # "open"
ShimSettles(s) ==
    /\ shim[s] = "piping" /\ Ended(s)
    /\ ShimGone(s) /\ UNCHANGED <<unread, faults>>

(* A frame too long or no JSON, two megabytes without a newline, a broken  *)
(* pipe, a crash.  The socket may close before what was piped is read.     *)
ShimFails(s) ==
    /\ shim[s] = "piping" /\ ~Ended(s)
    /\ faults < MaxFaults /\ faults' = faults + 1
    /\ ShimGone(s) /\ UNCHANGED unread

(* The close event of a socket the shim ended or the server destroyed.     *)
CloseSeen(s) ==
    /\ \/ sock[s] = "destroyed"
       \/ sock[s] = "open" /\ shim[s] = "gone"
    /\ sock' = [sock EXCEPT ![s] = "none"] /\ unread' = unread \ {s}
    /\ UNCHANGED <<port, retry, shim, faults>>
SocketClosesUnguarded(s) ==   \* mutant: the close of an old client clears the new one
    CloseSeen(s) /\ client' = NoShim
SocketCloses(s) ==
    CloseSeen(s) /\ client' = IF client = s THEN NoShim ELSE client

(* The first frame of the active client releases waitForReady. *)
ReadyArrives(s) ==
    /\ client = s /\ sock[s] = "open" /\ s \in unread
    /\ unread' = unread \ {s}
    /\ UNCHANGED <<port, retry, shim, client, sock, faults>>

-----------------------------------------------------------------------------
(* The bot hears a client once it has read its `ready`; the link works     *)
(* when that client is the one the extension posts to.                     *)
Heard  == client # NoShim /\ client \notin unread
Linked == port # NoShim /\ client = port /\ shim[port] = "piping" /\ Heard

(* stop() of the server destroys the client.                               *)
Stop ==
    /\ client' = NoShim
    /\ sock' = [s \in Shims |-> IF s = client THEN "destroyed" ELSE sock[s]]
=============================================================================
