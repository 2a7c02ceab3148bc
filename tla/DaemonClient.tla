---------------------------- MODULE DaemonClient ----------------------------
(***************************************************************************)
(* The bot's DaemonClient: it batches the scrapers' events and posts them  *)
(* to the daemon's ingress, one batch after the other, each with a few     *)
(* retries.  The network is in here as well: it may lose the request or    *)
(* the answer, and the client cannot tell the two apart.                   *)
(***************************************************************************)
EXTENDS Integers, Sequences

CONSTANTS
    MaxBatchSize,   \* MAX_BATCH_SIZE
    Attempts,       \* the first try and the retries
    MaxEvents       \* bound: events the scrapers produce

VARIABLES
    produced,    \* events enqueued so far: the next one's number
    buffer, flushTimer, stopped,
    shipments,   \* flushChain: batches not yet settled, in order
    reported     \* history: numbers of the events handed to onError

clientVars == <<produced, buffer, flushTimer, stopped, shipments, reported>>

Init ==
    /\ produced = 0 /\ buffer = <<>> /\ flushTimer = FALSE /\ stopped = FALSE
    /\ shipments = <<>> /\ reported = {}

Idle == UNCHANGED clientVars
------------------------------------------------------------------------------
\* `at' is where the current request stands: on its way ("request"), accepted
\* by the ingress ("authenticated"), answered ("ok", "refused").
Shipment(batch) == [batch |-> batch, attempt |-> 1, at |-> "request"]
ShipBatch(batch) == shipments' = Append(shipments, Shipment(batch))

\* mutant: a batch does not wait for the one before
TurnOfAny(i) == i \in DOMAIN shipments
\* Shipments are chained: the first unsettled one is posted.
Turn(i) == i = 1 /\ shipments # <<>>

\* At MaxBatchSize the buffer leaves at once, otherwise with the timer.
Enqueue(what) ==
    /\ ~stopped /\ produced < MaxEvents
    /\ produced' = produced + 1
    /\ LET pending == Append(buffer, [what |-> what, at |-> produced + 1])
       IN  IF Len(pending) >= MaxBatchSize
           THEN ShipBatch(pending) /\ buffer' = <<>> /\ flushTimer' = FALSE
           ELSE buffer' = pending /\ flushTimer' = TRUE /\ UNCHANGED shipments
    /\ UNCHANGED <<stopped, reported>>

Flush ==
    /\ buffer' = <<>>
    /\ IF buffer = <<>> THEN UNCHANGED shipments ELSE ShipBatch(buffer)

FlushTimerFires ==
    /\ flushTimer /\ flushTimer' = FALSE
    /\ Flush
    /\ UNCHANGED <<produced, stopped, reported>>

Stop ==
    /\ ~stopped /\ stopped' = TRUE
    /\ flushTimer' = FALSE /\ Flush
    /\ UNCHANGED <<produced, reported>>

Own == FlushTimerFires \/ Stop
------------------------------------------------------------------------------
Settled(i) == shipments' = SubSeq(shipments, 1, i - 1) \o SubSeq(shipments, i + 1, Len(shipments))
Numbers(batch) == {batch[k].at : k \in DOMAIN batch}

\* The batch goes to onError.
GiveUp(i) == Settled(i) /\ reported' = reported \cup Numbers(shipments[i].batch)

\* mutant: the attempts are not counted
RetryForEver(i) ==
    shipments' = [shipments EXCEPT ![i].at = "request"] /\ UNCHANGED reported
\* The same batch again, until the attempts are used up.
Retry(i) ==
    IF shipments[i].attempt < Attempts
    THEN /\ shipments' = [shipments EXCEPT ![i].at = "request", ![i].attempt = @ + 1]
         /\ UNCHANGED reported
    ELSE GiveUp(i)

Unbuffered == UNCHANGED <<produced, buffer, flushTimer, stopped>>

\* No answer: the request was lost, or the connection, or the answer.
PostFails(i) == Turn(i) /\ Retry(i) /\ Unbuffered

PostSucceeds(i) ==
    /\ Turn(i) /\ shipments[i].at = "ok"
    /\ Settled(i) /\ UNCHANGED reported /\ Unbuffered

\* A 4xx is terminal.
PostIsRefused(i) ==
    /\ Turn(i) /\ shipments[i].at = "refused"
    /\ GiveUp(i) /\ Unbuffered

\* The daemon takes the request of shipment i from one stage to the next.
Served(i, from, to) ==
    /\ Turn(i) /\ shipments[i].at = from
    /\ shipments' = [shipments EXCEPT ![i].at = to]
    /\ UNCHANGED <<produced, buffer, flushTimer, stopped, reported>>

Settle == \E i \in DOMAIN shipments : PostFails(i) \/ PostSucceeds(i) \/ PostIsRefused(i)
==============================================================================
