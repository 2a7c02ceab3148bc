--------------------------- MODULE MeetingRecords ---------------------------
(***************************************************************************)
(* From the page to the records: the bot's client posts batches of events, *)
(* the daemon's ingress (meet-internal.ts) authenticates them and hands    *)
(* each event to the meeting's subscribers, of which the storage writer    *)
(* and the speaker resolver are here.  Transcripts come from the daemon's  *)
(* own audio ingest and enter at the router.  The daemon is one thread:    *)
(* while it walks through a batch nothing else of it runs.                 *)
(***************************************************************************)
EXTENDS Integers, Sequences

CONSTANTS
    People, Chats, KeyOf, MaxPageChanges, MaxBatchSize, Attempts, MaxEvents, MaxFaults,
    Labels, MappingReplaceThreshold,
    MaxLines      \* bound: final transcript lines

ASSUME RecordConstants ==
    /\ {MaxBatchSize, Attempts, MaxEvents, MappingReplaceThreshold} \subseteq Nat \ {0}
    /\ {MaxFaults, MaxLines} \subseteq Nat

VARIABLES
    crowd, panel, posted, mounted, pageChanges,
    previous, panelOpenAttempted, lastSpeakerId, seenMessageKeys, reads,
    produced, buffer, flushTimer, stopped, shipments, reported,
    started, writerStopped, openSegment, segments, transcriptLines, metaJson, turns, faults,
    participants, participantsJson,
    activeSpeaker, labelMappings, correlated,
    session,      \* "joining", "active" or "left"
    dispatching,  \* what is left of the batch the daemon walks through
    \* history
    seen,         \* the highest event number the router has been handed
    repeats,      \* some event has been dispatched twice
    missed        \* some event has come while the meeting was not in session

LeftEvent == [left |-> "bot"]
Client == INSTANCE MeetScrapers
Writer == INSTANCE StorageWriter
Resolver == INSTANCE SpeakerResolver

daemonVars == <<session, dispatching, seen, repeats, missed>>
recordsVars == <<daemonVars, Client!scraperVars, Client!clientVars, Writer!writerVars, Resolver!resolverVars>>

RecordsInit ==
    /\ Client!ScrapersInit /\ Client!Init /\ Writer!Init /\ Resolver!Init
    /\ session = "joining" /\ dispatching = <<>>
    /\ seen = 0 /\ repeats = FALSE /\ missed = FALSE

Free == dispatching = <<>>
SubscribersIdle == Writer!Idle /\ Resolver!Idle
DaemonIdle == SubscribersIdle /\ UNCHANGED daemonVars
BotIdle == Client!Idle /\ Client!ScrapersIdle
------------------------------------------------------------------------------
\* The token is that of a meeting that is joining or in session; without one
\* the batch is refused.  The body is read before anything else happens.
Authenticate(i) ==
    /\ Free
    /\ Client!Served(i, "request", IF session = "left" THEN "refused" ELSE "authenticated")
    /\ DaemonIdle /\ Client!ScrapersIdle

\* The body has been read: the batch goes to the router, whatever has become
\* of the meeting meanwhile.
DispatchBatch(i) ==
    /\ Free /\ Client!Served(i, "authenticated", "ok")
    /\ dispatching' = shipments[i].batch
    /\ UNCHANGED <<session, seen, repeats, missed>> /\ SubscribersIdle /\ Client!ScrapersIdle

Handed(what, at) ==
    CASE what = LeftEvent -> Writer!OnLeft(at) /\ Resolver!Idle
      [] "speaker" \in DOMAIN what ->
             Writer!OnSpeakerChange(what.speaker, at) /\ Resolver!OnSpeakerChange(what.speaker)
      [] "joined" \in DOMAIN what ->
             Writer!OnParticipantChange(what.joined, what.left) /\ Resolver!Idle
      [] "chat" \in DOMAIN what -> SubscribersIdle   \* the conversation's, not theirs

DispatchEvent ==
    /\ ~Free /\ dispatching' = Tail(dispatching)
    /\ LET event == Head(dispatching)
       IN  /\ seen' = IF event.at > seen THEN event.at ELSE seen
           /\ IF session = "active"
              THEN /\ Handed(event.what, event.at)
                   /\ repeats' = (repeats \/ event.at <= seen)
                   /\ UNCHANGED missed
              ELSE missed' = TRUE /\ UNCHANGED repeats /\ SubscribersIdle
    /\ UNCHANGED session /\ BotIdle

\* A final line from the transcriber.
TranscriptLine ==
    /\ Free /\ session = "active" /\ transcriptLines < MaxLines
    /\ Writer!OnTranscriptChunk
    /\ \E label \in Labels, inWindow \in BOOLEAN : Resolver!HandleFinalTranscript(label, inWindow)
    /\ UNCHANGED daemonVars /\ BotIdle

\* join() puts the session on the map and subscribes everybody.
JoinCompletes ==
    /\ Free /\ session = "joining" /\ session' = "active"
    /\ Writer!Start /\ Resolver!Idle /\ BotIdle
    /\ UNCHANGED <<dispatching, seen, repeats, missed>>

\* leave(): from the deletion of the session to the end of the routing, one step.
LeaveMeeting ==
    /\ Free /\ session = "active" /\ session' = "left"
    /\ Writer!LeaveAndStop(produced) /\ Resolver!Idle /\ BotIdle
    /\ UNCHANGED <<dispatching, seen, repeats, missed>>

\* The content script tells, the client flushes, the bot says that it leaves.
Page == Client!Scrape \/ Client!PageGoesOn
Posts == (Client!Own \/ Client!Settle \/ Client!Enqueue(LeftEvent)) /\ Client!ScrapersIdle
Bot == (Page \/ Posts) /\ DaemonIdle
RecordsNext ==
    \/ Bot
    \/ \E i \in DOMAIN shipments : Authenticate(i) \/ DispatchBatch(i)
    \/ DispatchEvent \/ TranscriptLine \/ JoinCompletes \/ LeaveMeeting

RecordsSpec == RecordsInit /\ [][RecordsNext]_recordsVars

\* The network loses a request or an answer, or it delivers; the daemon
\* answers what it has accepted.  (fetch() has no time limit of its own: a
\* daemon that never answered would hold the chain for ever.)
Fairness ==
    /\ WF_recordsVars(DispatchEvent)
    /\ WF_recordsVars(\E i \in DOMAIN shipments : Authenticate(i) \/ DispatchBatch(i))
    /\ WF_recordsVars(Client!Settle /\ Client!ScrapersIdle /\ DaemonIdle)
FairSpec == RecordsSpec /\ Fairness
------------------------------------------------------------------------------
\* An event reaches the router after all those before it but the ones of
\* batches that were reported as failed, or in a repetition of the batch
\* just before, whose answer was lost.
SeenInOrder ==
    [][DispatchEvent =>
          LET at == Head(dispatching).at
          IN  /\ \A k \in seen + 1 .. at - 1 : k \in reported
              /\ at > seen - MaxBatchSize]_recordsVars

\* segments.jsonl and meta.json tell the meeting: as long as no write has
\* failed and no batch came twice there is one span per turn, each ends
\* before the next begins, and after leave() none is open and meta.json
\* counts every line.  The list of participants is what the page last
\* showed once nothing is underway, also when a batch came twice.
NothingUnderway == buffer = <<>> /\ shipments = <<>> /\ Free
RecordsTellTheMeeting ==
    /\ faults = 0 /\ ~repeats =>
          /\ Len(segments) + (IF openSegment = Writer!NoSegment THEN 0 ELSE 1) = turns
          /\ \A i \in DOMAIN segments : segments[i].start <= segments[i].end
          /\ \A i \in 2..Len(segments) : segments[i - 1].end <= segments[i].start
    /\ faults = 0 /\ session = "left" =>
          openSegment = Writer!NoSegment /\ metaJson = transcriptLines
    /\ session = "active" /\ ~missed /\ reported = {} /\ NothingUnderway =>
          /\ participants = previous
          /\ faults = 0 => participantsJson = participants

\* A label changes hands only when the page has said so often enough.
BindingIsEarned == Resolver!BindingIsEarned

\* The scrapers tell what the page has shown, and a message once.
PageIsTold == Client!PageIsTold

\* stop() settles: every batch is accepted or reported, retries included.
StopDrains == stopped ~> shipments = <<>>
==============================================================================
