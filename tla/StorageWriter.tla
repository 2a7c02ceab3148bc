--------------------------- MODULE StorageWriter ---------------------------
(***************************************************************************)
(* MeetStorageWriter's artifacts: segments.jsonl (who spoke from when to   *)
(* when), the transcript, participants.json and meta.json.  A write may    *)
(* fail; the handler then stops where it is and the dispatcher carries on. *)
(* Flushing and the ffmpeg child are left out: no property here sees them. *)
(***************************************************************************)
EXTENDS Integers, Sequences

CONSTANTS MaxFaults   \* bound: writes that fail

VARIABLES
    started,       \* start() has subscribed it
    writerStopped,
    openSegment,
    segments,
    transcriptLines,
    metaJson,      \* how many lines it speaks of; -1 before it is written
    participants, participantsJson,   \* in memory and as last written
    \* history
    turns,         \* speaker changes the writer has been handed
    faults

writerVars == <<started, writerStopped, openSegment, segments, transcriptLines,
                metaJson, participants, participantsJson, turns, faults>>
roster == <<participants, participantsJson>>

NoSegment == [start |-> -1]

Init ==
    /\ started = FALSE /\ writerStopped = FALSE
    /\ openSegment = NoSegment /\ segments = <<>>
    /\ transcriptLines = 0 /\ metaJson = -1
    /\ participants = {} /\ participantsJson = {}
    /\ turns = 0 /\ faults = 0

Listening == started /\ ~writerStopped
------------------------------------------------------------------------------
\* closeOpenSegmentAt, when the write succeeds.
CloseOpenSegmentAt(stamp) ==
    segments' = IF openSegment = NoSegment THEN segments
                ELSE Append(segments, [start |-> openSegment.start, end |-> stamp,
                                       speaker |-> openSegment.speaker])

\* A handler whose append throws has changed nothing.
AppendFails ==
    /\ faults < MaxFaults /\ faults' = faults + 1
    /\ UNCHANGED <<segments, openSegment, transcriptLines, metaJson>>

\* mutant: those who leave stay on the list
OnlyJoined(joined, left) == participants \cup joined
Updated(joined, left) == (participants \cup joined) \ left

\* A failing write leaves the file as it was, not the list in memory.
OnParticipantChange(joined, left) ==
    /\ Listening
    /\ participants' = Updated(joined, left)
    /\ \/ participantsJson' = participants' /\ UNCHANGED faults
       \/ faults < MaxFaults /\ faults' = faults + 1 /\ UNCHANGED participantsJson
    /\ UNCHANGED <<started, writerStopped, openSegment, segments, transcriptLines, metaJson, turns>>

OnSpeakerChange(speaker, stamp) ==
    /\ Listening
    /\ turns' = turns + 1
    /\ \/ /\ CloseOpenSegmentAt(stamp)
          /\ openSegment' = [start |-> stamp, speaker |-> speaker]
          /\ UNCHANGED <<transcriptLines, metaJson, faults>>
       \/ openSegment # NoSegment /\ AppendFails
    /\ UNCHANGED <<started, writerStopped, roster>>

OnTranscriptChunk ==
    /\ Listening
    /\ \/ /\ transcriptLines' = transcriptLines + 1
          /\ UNCHANGED <<segments, openSegment, metaJson, faults>>
       \/ AppendFails
    /\ UNCHANGED <<started, writerStopped, turns, roster>>

\* lifecycle:left, from the bot or from leave() itself.
OnLeft(stamp) ==
    /\ Listening
    /\ \/ /\ CloseOpenSegmentAt(stamp)
          /\ openSegment' = NoSegment
          /\ \/ metaJson' = transcriptLines /\ UNCHANGED faults
             \/ faults < MaxFaults /\ faults' = faults + 1 /\ UNCHANGED metaJson
          /\ UNCHANGED transcriptLines
       \/ openSegment # NoSegment /\ AppendFails
    /\ UNCHANGED <<started, writerStopped, turns, roster>>

Start ==
    /\ ~started /\ started' = TRUE
    /\ UNCHANGED <<writerStopped, openSegment, segments, transcriptLines, metaJson, roster, turns,
                   faults>>

\* mutant: leave() trusts the bot to say goodbye
LeaveSilently(stamp) ==
    /\ started /\ writerStopped' = TRUE
    /\ UNCHANGED <<started, segments, openSegment, transcriptLines, metaJson, roster, turns,
                   faults>>

\* leave() dispatches its own lifecycle:left and stops the writer; stop()
\* tries once more to close a segment whose write has failed, and throws when
\* that fails too: the writer is dropped with the segment open.
LeaveAndStop(stamp) ==
    /\ started /\ writerStopped' = TRUE
    /\ \/ /\ CloseOpenSegmentAt(stamp) /\ openSegment' = NoSegment
          /\ metaJson' = transcriptLines
          /\ UNCHANGED faults
       \/ /\ faults < MaxFaults /\ faults' = faults + 1
          /\ CloseOpenSegmentAt(stamp) /\ openSegment' = NoSegment
          /\ UNCHANGED metaJson
       \/ /\ openSegment # NoSegment /\ faults + 1 < MaxFaults /\ faults' = faults + 2
          /\ UNCHANGED <<segments, openSegment, metaJson>>
    /\ UNCHANGED <<started, transcriptLines, roster, turns>>

Idle == UNCHANGED writerVars
==============================================================================
