--------------------------- MODULE ConsentMonitor ---------------------------
(***************************************************************************)
(* MeetConsentMonitor: it listens to a meeting for somebody who does not   *)
(* want a note-taker, asks a language model about what was said lately,    *)
(* and leaves the meeting on a positive verdict.  A keyword asks at once,  *)
(* a timer asks in any case; a debounce, a flag and a watermark keep the   *)
(* calls few.  What can go wrong is that they keep a call away that some   *)
(* objection needed, so time is explicit here: `now' counts in steps of    *)
(* the constants' unit.  Events that carry no text are left out, and so    *)
(* are partial transcripts: the code returns at once on both.              *)
(***************************************************************************)
EXTENDS Integers, Sequences, FiniteSets, Functions

CONSTANTS
    Objections,   \* the texts that contain an objection keyword
    ChatSize,     \* CHAT_BUFFER_SIZE
    Window,       \* TRANSCRIPT_WINDOW_MS
    Interval,     \* LLM_TICK_INTERVAL_MS
    Debounce,     \* LLM_CHECK_DEBOUNCE_MS
    Dedupe,       \* DEDUPE_WINDOW_MS
    Timeout       \* CONSENT_LLM_TIMEOUT_MS

VARIABLES
    now, arrivals,     \* the clock; how many events there have been
    transcriptBuffer,  \* a set of [place, at]: an event's place tells it from the others
    chatBuffer,        \* places
    recentHashes,      \* [kind, text, at]
    lastContent,       \* lastContentTimestamp, as a place; 0 for null
    lastChecked,       \* lastLlmCheckContentTimestamp
    lastCheckAt,
    llmCall,           \* the call in flight: what it restores or advances
    nextTick,
    selfKnown,         \* botParticipantId is known
    monitor,           \* "listening", "decided", "stopped"
    owed               \* history: what participants said that no call has seen

consentVars == <<transcriptBuffer, chatBuffer, recentHashes, lastContent, lastChecked,
                 lastCheckAt, llmCall, nextTick, selfKnown, monitor, owed>>

NoCall == [since |-> -1]
Never == -Debounce   \* null: no check to be debounced by

\* A monitor that has decided is deaf; a meeting may start with one so that
\* an instance can study the other listener alone.
Init ==
    /\ now = 0 /\ arrivals = 0
    /\ transcriptBuffer = {} /\ chatBuffer = <<>> /\ recentHashes = {}
    /\ lastContent = 0 /\ lastChecked = 0 /\ lastCheckAt = Never
    /\ llmCall = NoCall /\ nextTick = Interval
    /\ selfKnown = FALSE /\ monitor \in {"listening", "decided"} /\ owed = {}

Idle == UNCHANGED consentVars
------------------------------------------------------------------------------
LastOf(s, n) == IF Len(s) > n THEN SubSeq(s, Len(s) - n + 1, Len(s)) ELSE s
Trimmed(transcript) == {entry \in transcript : entry.at >= now - Window}

\* The guards in the code's order, then the call; `due' is what is owed, the
\* event at hand included.  Only the tick looks at the watermark.
MaybeRunLLMCheck(isTick, transcript, chat, content, due) ==
    LET blocked ==
            \/ monitor # "listening" \/ llmCall # NoCall
            \/ isTick /\ transcript = {} /\ chat = <<>>
            \/ now - lastCheckAt < Debounce
            \/ isTick /\ content = lastChecked
        window == Trimmed(transcript)
        prompt == Range(chat) \cup {entry.place : entry \in window}
    IN  /\ chatBuffer' = chat /\ lastContent' = content
        /\ IF blocked
           THEN transcriptBuffer' = transcript /\ owed' = due /\ UNCHANGED <<llmCall, lastCheckAt>>
           ELSE /\ transcriptBuffer' = window
                /\ owed' = {x \in due : x.place \notin prompt}
                /\ llmCall' = [since |-> now, content |-> content, before |-> lastCheckAt]
                /\ lastCheckAt' = now

Tick ==
    /\ now = nextTick /\ monitor # "stopped"
    /\ nextTick' = nextTick + Interval
    /\ MaybeRunLLMCheck(TRUE, transcriptBuffer, chatBuffer, lastContent, owed)
    /\ UNCHANGED <<recentHashes, lastChecked, selfKnown, monitor>>

\* mutant: the watermark moves to what has come in meanwhile
LlmAnswersForAll(objected) ==
    /\ llmCall # NoCall /\ llmCall' = NoCall
    /\ lastChecked' = lastContent
    /\ monitor' = IF objected THEN "decided" ELSE monitor
    /\ owed' = IF objected THEN {} ELSE owed
    /\ UNCHANGED <<transcriptBuffer, chatBuffer, recentHashes, lastContent, lastCheckAt,
                   nextTick, selfKnown>>
\* On an objection the monitor is locked and, if so configured, asks for the
\* leave that MeetingListeners has as an action; after stop() the answer is
\* dropped.
LlmAnswers(objected) ==
    /\ llmCall # NoCall /\ llmCall' = NoCall
    /\ IF monitor = "stopped"
       THEN UNCHANGED <<lastChecked, monitor, owed>>
       ELSE /\ lastChecked' = llmCall.content
            /\ IF objected THEN monitor' = "decided" /\ owed' = {}
               ELSE UNCHANGED <<monitor, owed>>
    /\ UNCHANGED <<transcriptBuffer, chatBuffer, recentHashes, lastContent, lastCheckAt,
                   nextTick, selfKnown>>

\* A failed call does not count for the debounce.
LlmFails ==
    /\ llmCall # NoCall /\ llmCall' = NoCall
    /\ lastCheckAt' = llmCall.before
    /\ UNCHANGED <<transcriptBuffer, chatBuffer, recentHashes, lastContent, lastChecked,
                   nextTick, selfKnown, monitor, owed>>
------------------------------------------------------------------------------
IsDuplicate(e) ==
    \E h \in recentHashes : h.kind = e.kind /\ h.text = e.text /\ now - h.at < Dedupe
Remember(e) ==
    recentHashes' = {h \in recentHashes : now - h.at < Dedupe /\ ~(h.kind = e.kind /\ h.text = e.text)}
                    \cup {[kind |-> e.kind, text |-> e.text, at |-> now]}

\* The bot's own words move the watermark only while it does not know itself.
Watermark(e) == IF e.own /\ selfKnown THEN lastContent ELSE arrivals + 1

Place == arrivals + 1
Due(e) == IF e.own THEN owed ELSE owed \cup {[kind |-> e.kind, place |-> Place, at |-> now]}

Heard(e, transcript, chat) ==
    /\ Remember(e)
    /\ IF e.text \in Objections
       THEN MaybeRunLLMCheck(FALSE, transcript, chat, Watermark(e), Due(e))
       ELSE /\ transcriptBuffer' = transcript /\ chatBuffer' = chat
            /\ lastContent' = Watermark(e) /\ owed' = Due(e)
            /\ UNCHANGED <<llmCall, lastCheckAt>>
    /\ UNCHANGED <<lastChecked, nextTick, selfKnown, monitor>>

\* Final transcript chunks.
OnTranscriptChunk(e) ==
    /\ e.kind = "speech" /\ ~IsDuplicate(e)
    /\ Heard(e, Trimmed(transcriptBuffer \cup {[place |-> Place, at |-> now]}), chatBuffer)

OnInboundChat(e) ==
    /\ e.kind = "chat" /\ ~IsDuplicate(e)
    /\ Heard(e, transcriptBuffer, LastOf(Append(chatBuffer, Place), ChatSize))

\* Somebody new may object; the bot's own row tells its id.
OnParticipantChange(e) ==
    /\ e.kind = "joined"
    /\ selfKnown' = (selfKnown \/ e.own)
    /\ lastContent' = IF e.own THEN lastContent ELSE Place
    /\ UNCHANGED <<transcriptBuffer, chatBuffer, recentHashes, lastChecked, lastCheckAt,
                   llmCall, nextTick, monitor, owed>>

Dropped(e) ==
    \/ monitor # "listening" \/ e.kind = "left"
    \/ e.kind \in {"speech", "chat"} /\ IsDuplicate(e)

OnEvent(e) ==
    \/ Dropped(e) /\ Idle
    \/ /\ monitor = "listening"
       /\ OnTranscriptChunk(e) \/ OnInboundChat(e) \/ OnParticipantChange(e)

Stop ==
    /\ monitor' = "stopped" /\ owed' = {}
    /\ UNCHANGED <<transcriptBuffer, chatBuffer, recentHashes, lastContent, lastChecked,
                   lastCheckAt, llmCall, nextTick, selfKnown>>

\* Timers fire in the unit they are due in; a call has its timeout.
OnTime ==
    /\ monitor = "listening" => now < nextTick
    /\ llmCall # NoCall => now < llmCall.since + Timeout

Own == Tick \/ LlmFails \/ \E objected \in BOOLEAN : LlmAnswers(objected)
------------------------------------------------------------------------------
\* "Worst-case objection latency with this debounce in place: 8s (debounce
\* window) + 20s (next timer tick) = 28s, comfortably under the 30s
\* correctness invariant": whatever a participant says or writes, the model
\* has been asked about it by then, however debounce, watermark, flag and
\* window combine; unless a call failed meanwhile or later chat messages
\* have pushed a message out of the buffer.
AskedInTime ==
    \A x \in owed :
        \/ now <= x.at + Debounce + Interval
        \/ x.kind = "chat" /\ x.place \notin Range(chatBuffer)
==============================================================================
