---------------------------- MODULE AudioIngest ----------------------------
(***************************************************************************)
(* The audio server of one meeting (audio-ingest.ts).  It opens a          *)
(* transcriber, binds a port, and hands the port to the bot; the promise   *)
(* `ready' settles once, when a peer has shown the bot's token or when the *)
(* connect timer fires.  Every connection is a peer's: the bot's, or that  *)
(* of a stranger who found the port.                                       *)
(***************************************************************************)
EXTENDS Naturals

VARIABLES
    ingest,   \* off, creating, binding, up, closing, stopped, failed
    ready,    \* none, pending, resolved, rejected
    conn      \* of each peer: none, authenticating, accepted, destroyed

ingestVars == <<ingest, ready, conn>>

Peers == {"bot", "stranger"}

IngestTypeOK ==
    /\ ingest \in {"off", "creating", "binding", "up", "closing", "stopped", "failed"}
    /\ ready \in {"none", "pending", "resolved", "rejected"}
    /\ conn \in [Peers -> {"none", "authenticating", "accepted", "destroyed"}]

IngestInit == ingest = "off" /\ ready = "none" /\ conn = [p \in Peers |-> "none"]

IngestGoes(from, to) == ingest = from /\ ingest' = to /\ UNCHANGED <<ready, conn>>

CreateTranscriber == IngestGoes("off", "creating")
CreateFails       == IngestGoes("creating", "failed")
TranscriberRuns   == IngestGoes("creating", "binding")
BindFails         == IngestGoes("binding", "failed")

Binds ==
    /\ ingest = "binding" /\ ingest' = "up"
    /\ ready' = "pending"
    /\ UNCHANGED conn

(* BOT_CONNECT_TIMEOUT_MS passed; stop() does not clear the timer.         *)
ConnectTimesOut ==
    /\ ready = "pending" /\ ready' = "rejected"
    /\ UNCHANGED <<ingest, conn>>

(* What a peer sees of a socket the ingest destroyed: the bot's capture    *)
(* has yet to notice, a stranger is of no further interest.                *)
Destroyed(p) == IF p = "bot" THEN "destroyed" ELSE "none"

Connects(p) ==
    /\ ingest = "up" /\ conn[p] = "none"
    /\ conn' = [conn EXCEPT ![p] = IF ready = "pending" THEN "authenticating"
                                                        ELSE Destroyed(p)]
    /\ UNCHANGED <<ingest, ready>>

(* The whole AUTH line arrived with the right token.                       *)
AcceptsAnyway ==   \* mutant: onAccept does not ask whether ready has settled
    /\ conn["bot"] = "authenticating"
    /\ conn' = [conn EXCEPT !["bot"] = "accepted"]
    /\ ready' = IF ready = "pending" THEN "resolved" ELSE ready
    /\ UNCHANGED ingest
Accepts ==
    /\ conn["bot"] = "authenticating"
    /\ \/ ready = "pending" /\ conn' = [conn EXCEPT !["bot"] = "accepted"] /\ ready' = "resolved"
       \/ ready # "pending" /\ conn' = [conn EXCEPT !["bot"] = "destroyed"] /\ UNCHANGED ready
    /\ UNCHANGED ingest

(* A line that is too long, lacks the prefix or has another token; an      *)
(* error or a close before the line was whole; HANDSHAKE_TIMEOUT_MS.       *)
RejectsPolitely(p) ==   \* mutant: the rejected peer keeps its socket
    /\ conn[p] = "authenticating" /\ p = "bot"
    /\ conn' = [conn EXCEPT ![p] = Destroyed(p)]
    /\ UNCHANGED <<ingest, ready>>
Rejects(p) ==
    /\ conn[p] = "authenticating"
    /\ conn' = [conn EXCEPT ![p] = Destroyed(p)]
    /\ UNCHANGED <<ingest, ready>>

HandshakeEnds(p) == Rejects(p) \/ (p = "bot" /\ Accepts)

(* wireConnection: the loss of the accepted connection is only logged.     *)
ConnectionDrops ==
    /\ conn["bot"] = "accepted"
    /\ conn' = [conn EXCEPT !["bot"] = "destroyed"]
    /\ UNCHANGED <<ingest, ready>>

Hears == ingest = "up" /\ conn["bot"] = "accepted"   \* handlePcmChunk passes audio on

(* stop() up to the wait for the server: only the accepted connection is   *)
(* destroyed, a peer still in its handshake is left to the handshake timer.*)
StopsListening ==
    /\ ingest = "up" /\ ingest' = "closing"
    /\ conn' = [conn EXCEPT !["bot"] = IF @ = "accepted" THEN "destroyed" ELSE @]
    /\ UNCHANGED ready

(* net.Server.close() calls back when the last connection has ended.       *)
ServerCloses ==
    /\ ingest = "closing" /\ ingest' = "stopped"
    /\ \A p \in Peers : conn[p] \in {"none", "destroyed"}
    /\ UNCHANGED <<ready, conn>>

IngestDies ==   \* with its process
    /\ ingest' = IF ingest = "off" THEN "off" ELSE "stopped"
    /\ ready' = "none"
    /\ conn' = [p \in Peers |-> IF conn[p] = "none" THEN "none" ELSE Destroyed(p)]
=============================================================================
