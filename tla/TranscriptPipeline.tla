------------------------- MODULE TranscriptPipeline -------------------------
(***************************************************************************)
(* From a spoken line to the assistant's conversation.  The daemon keeps   *)
(* the live meetings in memory (session-store.ts), mirrors them in         *)
(* sessions.json, collects finalized lines per meeting and hands them to   *)
(* the conversation when the meeting has been quiet for a second           *)
(* (realtime-server.ts).  The skill's join and leave scripts are separate  *)
(* processes that read and rewrite the same file.                          *)
(*                                                                         *)
(* A handler of the daemon is one action: none of those below awaits.  A   *)
(* script's read and its write are two, so that the daemon or another      *)
(* script may come between them.  The line numbers of a meeting are        *)
(* abstract: line n is the n-th one finalized with the meeting's id.       *)
(***************************************************************************)
EXTENDS Naturals

CONSTANTS
    Meetings,      \* bot ids
    Vellum,        \* those run by the in-house bot; Recall runs the others
    Conversing,    \* those joined on behalf of a conversation
    Leavers,       \* those somebody may end with leave.ts
    MaxVellumLines, MaxRecallLines   \* bounds: lines finalized with their meeting's id

ASSUME MeetingsAssumption ==
    /\ Vellum \subseteq Meetings
    /\ Conversing \subseteq Meetings
    /\ Leavers \subseteq Meetings
    /\ MaxVellumLines \in Nat /\ MaxRecallLines \in Nat

MaxLines(m) == IF m \in Vellum THEN MaxVellumLines ELSE MaxRecallLines

VARIABLES
    sessions,      \* meetings in the daemon's memory
    transcript,    \* their lines in memory, <<meeting, n>>; n = 0 without id
    file,          \* meetings listed in sessions.json
    buffer,        \* lines waiting for the debounce timer
    conversation,  \* lines handed to the conversation
    call,          \* where the meeting's bot is
    leaving,       \* meetings whose "closed" message is under way
    script,        \* the join or leave script at work on a meeting
    receiver,      \* Recall's receiver process, as the daemon sees it
    heard,         \* history: lines finalized so far
    since,         \* history: the last line the pipeline does not owe
    restored       \* history: forgotten meetings a script's write put back

vars == <<sessions, transcript, file, buffer, conversation, call, leaving,
          script, receiver, heard, since, restored>>

Idle  == [at |-> "idle", seen |-> {}]
Empty == [lines |-> {}, armed |-> FALSE]

Init ==
    /\ sessions = {}
    /\ transcript = [m \in Meetings |-> {}]
    /\ file = {}
    /\ buffer = [m \in Meetings |-> Empty]
    /\ conversation = [m \in Meetings |-> {}]
    /\ call = [m \in Meetings |-> "none"]
    /\ leaving = {}
    /\ script = [m \in Meetings |-> Idle]
    /\ receiver = "down"
    /\ heard = [m \in Meetings |-> 0]
    /\ since = [m \in Meetings |-> 0]
    /\ restored = {}

(***************************************************************************)
(* The session store.                                                      *)
(***************************************************************************)

\* Looking a meeting up loads the file when memory does not have it.
Synced(m) == IF m \in sessions THEN sessions ELSE sessions \cup file

\* A line without a bot id belongs to the only meeting in memory, if any.
SoleSession ==
    LET known == IF sessions = {} THEN file ELSE sessions
    IN  [known |-> known, of |-> {m \in known : known = {m}}]

\* Opening replaces whatever memory had of the meeting.
OpenSession(m) ==
    /\ sessions' = sessions \cup {m}
    /\ transcript' = [transcript EXCEPT ![m] = {}]
    /\ file' = file \cup {m}
    /\ restored' = restored \ {m}
    /\ since' = [since EXCEPT ![m] = heard[m]]

\* mutant: the timer outlives the buffer it was set for.
ClearLinesOnly(b) == [b EXCEPT !.lines = {}]

ClearTranscriptBuffer(b) == Empty

\* mutant: a closed meeting stays in sessions.json.
ForgetInMemoryOnly(m) == file

RemovePersistedSession(m) == file \ {m}

\* "left", "error" and "closed" all end in the same three calls.
CloseSession(m) ==
    /\ buffer' = [buffer EXCEPT ![m] = ClearTranscriptBuffer(@)]
    /\ sessions' = sessions \ {m}
    /\ transcript' = [transcript EXCEPT ![m] = {}]
    /\ file' = RemovePersistedSession(m)
    /\ restored' = restored \ {m}
    /\ since' = [since EXCEPT ![m] = heard[m]]

(***************************************************************************)
(* Lines, and the debounced flush.                                         *)
(***************************************************************************)

\* mutant: every line starts a buffer of its own.
BufferLatest(b, n) == [lines |-> {n}, armed |-> TRUE]

\* mutant: a second line cancels the timer and does not set it again.
BufferWithoutRearm(b, n) == [lines |-> b.lines \cup {n}, armed |-> ~b.armed]

BufferTranscript(b, n) == [lines |-> b.lines \cup {n}, armed |-> TRUE]

\* ingestUtterance for a finalized line that names its meeting.  The store
\* takes it only if the meeting is known; the buffer takes it regardless.
Utterance(m) ==
    LET n     == heard[m] + 1
        known == Synced(m)
    IN  /\ call[m] \in {"in", "left"}
        /\ n <= MaxLines(m)
        /\ heard' = [heard EXCEPT ![m] = n]
        /\ sessions' = known
        /\ transcript' = IF m \in known
                         THEN [transcript EXCEPT ![m] = @ \cup {<<m, n>>}]
                         ELSE transcript
        /\ buffer' = [buffer EXCEPT ![m] = BufferTranscript(@, n)]
        /\ since' = IF m \in known THEN since ELSE [since EXCEPT ![m] = n]
        /\ UNCHANGED <<file, conversation, call, leaving, script, receiver,
                       restored>>

\* A Recall payload without a bot id is recorded and never buffered.
AnonymousUtterance(m) ==
    /\ m \notin Vellum
    /\ call[m] \in {"in", "left"}
    /\ sessions' = SoleSession.known
    /\ transcript' = [s \in Meetings |-> IF s \in SoleSession.of
                                         THEN transcript[s] \cup {<<m, 0>>}
                                         ELSE transcript[s]]
    /\ UNCHANGED <<file, buffer, conversation, call, leaving, script, receiver,
                   heard, since, restored>>

\* The timer fires.  The lines are taken at once, and handed to the
\* conversation if the meeting is known and has one; otherwise they go.
\* The assistant's spoken answer comes later and changes nothing here.
FlushTranscriptBuffer(m) ==
    LET known == Synced(m) IN
    /\ buffer[m].armed
    /\ buffer' = [buffer EXCEPT ![m] = Empty]
    /\ sessions' = known
    /\ conversation' =
           IF m \in known \cap Conversing
           THEN [conversation EXCEPT ![m] = @ \cup buffer[m].lines]
           ELSE conversation
    /\ UNCHANGED <<transcript, file, call, leaving, script, receiver, heard,
                   since, restored>>

(***************************************************************************)
(* The in-house bot, as the worker relays it.                              *)
(***************************************************************************)

VellumJoinRequested(m) ==
    /\ m \in Vellum
    /\ call[m] = "none"
    /\ call' = [call EXCEPT ![m] = "joining"]
    /\ UNCHANGED <<sessions, transcript, file, buffer, conversation, leaving,
                   script, receiver, heard, since, restored>>

SessionOpened(m) ==
    /\ m \in Vellum
    /\ call[m] = "joining"
    /\ call' = [call EXCEPT ![m] = "in"]
    /\ OpenSession(m)
    /\ UNCHANGED <<buffer, conversation, leaving, script, receiver, heard>>

\* lifecycle "left" or "error".  The transcription outlives the bot for a
\* moment, so a line may still follow until the worker has torn it down.
LifecycleEnded(m) ==
    /\ m \in Vellum
    /\ call[m] \in {"joining", "in"}
    /\ call' = [call EXCEPT ![m] = IF @ = "in" THEN "left" ELSE "gone"]
    /\ CloseSession(m)
    /\ UNCHANGED <<conversation, leaving, script, receiver, heard>>

SessionClosed(m) ==
    /\ m \in leaving
    /\ leaving' = leaving \ {m}
    /\ call' = [call EXCEPT ![m] = "gone"]
    /\ CloseSession(m)
    /\ UNCHANGED <<conversation, script, receiver, heard>>

(***************************************************************************)
(* Joining and leaving from outside the daemon.                            *)
(***************************************************************************)

\* The app's join runs in the daemon and adds the Recall bot in one go.
AppJoin(m) ==
    /\ m \notin Vellum
    /\ call[m] = "none"
    /\ call' = [call EXCEPT ![m] = "in"]
    /\ file' = file \cup {m}
    /\ restored' = restored \ {m}
    /\ UNCHANGED <<sessions, transcript, buffer, conversation, leaving, script,
                   receiver, heard, since>>

\* join.ts: the Recall bot exists; addSession reads the file ...
JoinScriptReads(m) ==
    /\ m \notin Vellum
    /\ call[m] = "none"
    /\ call' = [call EXCEPT ![m] = "joining"]
    /\ script' = [script EXCEPT ![m] = [at |-> "adding", seen |-> file]]
    /\ UNCHANGED <<sessions, transcript, file, buffer, conversation, leaving,
                   receiver, heard, since, restored>>

\* ... and writes it back, with what it read and its own entry.
JoinScriptWrites(m) ==
    /\ script[m].at = "adding"
    /\ call' = [call EXCEPT ![m] = "in"]
    /\ file' = script[m].seen \cup {m}
    /\ restored' = restored \cup (script[m].seen \ file)
    /\ script' = [script EXCEPT ![m] = [at |-> "polling", seen |-> {}]]
    /\ UNCHANGED <<sessions, transcript, buffer, conversation, leaving,
                   receiver, heard, since>>

\* pollJoin: the bot is in, or still waiting, and the script ends; or it
\* failed, and the script takes its entry out again.
JoinScriptEnds(m) ==
    /\ script[m].at = "polling"
    /\ \/ /\ script' = [script EXCEPT ![m] = Idle]
          /\ call' = call
       \/ /\ script' = [script EXCEPT ![m] = [at |-> "posted", seen |-> {}]]
          /\ call' = [call EXCEPT ![m] = "gone"]
    /\ UNCHANGED <<sessions, transcript, file, buffer, conversation, leaving,
                   receiver, heard, since, restored>>

\* leave.ts finds the meeting in the file and asks for the bot to leave: the
\* worker for an in-house bot, Recall's API for the others.  The entry is
\* taken out whether or not the request succeeded.
LeaveScriptAsks(m) ==
    /\ m \in Leavers \cap file
    /\ script[m].at = "idle"
    /\ script' = [script EXCEPT ![m] = [at |-> "posted", seen |-> {}]]
    /\ \/ /\ m \in Vellum
          /\ leaving' = leaving \cup {m}
          /\ call' = call
       \/ /\ m \notin Vellum
          /\ leaving' = leaving
          /\ call' = [call EXCEPT ![m] = "left"]
       \/ UNCHANGED <<leaving, call>>
    /\ UNCHANGED <<sessions, transcript, file, buffer, conversation, receiver,
                   heard, since, restored>>

RemoveScriptReads(m) ==
    /\ script[m].at = "posted"
    /\ script' = [script EXCEPT ![m] = [at |-> "removing", seen |-> file]]
    /\ UNCHANGED <<sessions, transcript, file, buffer, conversation, call,
                   leaving, receiver, heard, since, restored>>

RemoveScriptWrites(m) ==
    /\ script[m].at = "removing"
    /\ file' = script[m].seen \ {m}
    /\ restored' = restored \cup ((script[m].seen \ {m}) \ file)
    /\ script' = [script EXCEPT ![m] = Idle]
    /\ UNCHANGED <<sessions, transcript, buffer, conversation, call, leaving,
                   receiver, heard, since>>

(***************************************************************************)
(* Recall's receiver process.                                              *)
(***************************************************************************)

StartRealtimeServer ==
    /\ receiver = "down"
    /\ receiver' = "up"
    /\ sessions' = sessions \cup file
    /\ UNCHANGED <<transcript, file, buffer, conversation, call, leaving,
                   script, heard, since, restored>>

\* stopRealtimeServer asks the process to stop and waits for it; with no
\* process on record it returns at once.
StopRealtimeServer ==
    /\ receiver = "up"
    /\ receiver' = "stopping"
    /\ UNCHANGED <<sessions, transcript, file, buffer, conversation, call,
                   leaving, script, heard, since, restored>>

\* Then it cancels every pending flush, of every meeting.
RealtimeServerStopped ==
    /\ receiver = "stopping"
    /\ receiver' = "down"
    /\ buffer' = [m \in Meetings |-> ClearTranscriptBuffer(buffer[m])]
    /\ since' = heard
    /\ UNCHANGED <<sessions, transcript, file, conversation, call, leaving,
                   script, heard, restored>>

\* The process dies on its own: only the record of it goes.
RealtimeServerExits ==
    /\ receiver = "up"
    /\ receiver' = "down"
    /\ UNCHANGED <<sessions, transcript, file, buffer, conversation, call,
                   leaving, script, heard, since, restored>>

Next ==
    \/ \E m \in Meetings :
          \/ Utterance(m)
          \/ AnonymousUtterance(m)
          \/ FlushTranscriptBuffer(m)
          \/ VellumJoinRequested(m)
          \/ SessionOpened(m)
          \/ LifecycleEnded(m)
          \/ SessionClosed(m)
          \/ AppJoin(m)
          \/ JoinScriptReads(m)
          \/ JoinScriptWrites(m)
          \/ JoinScriptEnds(m)
          \/ LeaveScriptAsks(m)
          \/ RemoveScriptReads(m)
          \/ RemoveScriptWrites(m)
    \/ StartRealtimeServer
    \/ StopRealtimeServer
    \/ RealtimeServerStopped
    \/ RealtimeServerExits

Spec == Init /\ [][Next]_vars

\* A timer that is set fires.
FairSpec == Spec /\ \A m \in Meetings : WF_vars(FlushTranscriptBuffer(m))

-----------------------------------------------------------------------------
(***************************************************************************)
(* Properties.                                                             *)
(***************************************************************************)

ScriptStages == {"idle", "adding", "polling", "posted", "removing"}

\* The shape of the state; a timer runs exactly while lines wait for it
\* (bufferTranscript, flushTranscriptBuffer, clearTranscriptBuffer).
TypeOK ==
    /\ sessions \subseteq Meetings
    /\ transcript \in [Meetings -> SUBSET (Meetings \X Nat)]
    /\ file \subseteq Meetings
    /\ buffer \in [Meetings -> [lines : SUBSET Nat,
                                armed : BOOLEAN]]
    /\ conversation \in [Meetings -> SUBSET Nat]
    /\ call \in [Meetings -> {"none", "joining", "in", "left", "gone"}]
    /\ leaving \subseteq Meetings
    /\ script \in [Meetings -> [at : ScriptStages, seen : SUBSET Meetings]]
    /\ receiver \in {"down", "up", "stopping"}
    /\ heard \in [Meetings -> Nat]
    /\ since \in [Meetings -> Nat]
    /\ restored \subseteq Meetings
    /\ \A m \in Meetings : buffer[m].armed <=> buffer[m].lines # {}

\* While a meeting with a conversation stays in memory, every line of it is
\* in the conversation or waiting to be; and lines reach the conversation in
\* the order they were spoken, none of them twice (the flush takes the lines
\* and resets the buffer before its first await, realtime-server.ts:631-634).
ConversationHasEveryLine ==
    \A m \in Meetings :
        /\ m \in sessions \cap Conversing =>
              (since[m] + 1)..heard[m] \subseteq
                  conversation[m] \cup buffer[m].lines
        /\ \A told \in conversation[m], waiting \in buffer[m].lines :
              told < waiting

\* A meeting whose bot is known to be gone is forgotten, in memory and in
\* sessions.json, so that a line which arrives late finds neither: unless a
\* script that had read the file before wrote the entry back.
DeadMeetingIsForgotten ==
    \A m \in Vellum :
        call[m] \in {"left", "gone"} /\ m \in sessions \cup file =>
            m \in restored

\* Every line reaches the conversation, or the meeting was closed or opened
\* anew, or the receiver stopped, after it was spoken.
EveryLineArrives ==
    \A m \in Conversing : \A n \in 1..MaxLines(m) :
        n <= heard[m] ~> n \in conversation[m] \/ n <= since[m]

=============================================================================
