---------------------- MODULE ChatOpportunityDetector ----------------------
(***************************************************************************)
(* MeetChatOpportunityDetector: it decides when the assistant should speak *)
(* up.  In a group a regular expression (transcript) or any message (chat) *)
(* leads to one question to a language model at a time; alone with one     *)
(* person, every utterance does, once that person has been silent for a    *)
(* moment.  All wakes share one cooldown.  What the model is shown, the    *)
(* rolling buffers, decides nothing here and is left out.                  *)
(***************************************************************************)
EXTENDS Integers

CONSTANTS
    Mentions,      \* the texts a Tier 1 pattern matches
    Proactive,     \* config.enabled
    VoiceMode,     \* voiceConfig.enabled
    Tier2Debounce, \* config.tier2DebounceMs
    Tier2Timeout,  \* CHAT_OPPORTUNITY_LLM_TIMEOUT_MS
    Cooldown,      \* config.escalationCooldownSec
    EndOfUtterance \* voiceConfig.eouDebounceMs

VARIABLES
    now,
    participantCount,
    tier2,             \* the call in flight
    lastTier2At,
    lastEscalationAt,
    voiceEouTimer,     \* when it fires; Never when it is not set
    disposed,
    \* history
    wake,              \* the last wake
    lastWord,          \* when somebody spoke last
    alone              \* a 1:1 without interruption since then

detectorVars == <<participantCount, tier2, lastTier2At, lastEscalationAt, voiceEouTimer,
                  disposed, wake, lastWord, alone>>

NoCall == [since |-> -1]
Never == -1 - Tier2Debounce - Cooldown   \* null: long ago

\* join() makes no detector (a disposed one here) when neither feature is on.
\* Two participants may have been reported before the first event that counts.
Init ==
    /\ participantCount \in {0, 2}
    /\ tier2 = NoCall /\ lastTier2At = Never /\ lastEscalationAt = Never
    /\ voiceEouTimer = Never /\ disposed \in BOOLEAN
    /\ wake = [kind |-> "none", at |-> Never] /\ lastWord = Never /\ alone = FALSE

Idle == UNCHANGED detectorVars
------------------------------------------------------------------------------
\* The bot and one other.
IsOneOnOne == participantCount = 2

TryFireOpportunity(kind) ==
    IF now - lastEscalationAt < Cooldown
    THEN UNCHANGED <<lastEscalationAt, wake>>
    ELSE lastEscalationAt' = now /\ wake' = [kind |-> kind, at |-> now]

MaybeRunTier2 ==
    IF tier2 # NoCall \/ now - lastTier2At < Tier2Debounce
    THEN UNCHANGED <<tier2, lastTier2At>>
    ELSE tier2' = [since |-> now, before |-> lastTier2At] /\ lastTier2At' = now

Tier2Answers(shouldRespond) ==
    /\ tier2 # NoCall /\ tier2' = NoCall
    /\ IF shouldRespond /\ ~disposed
       THEN TryFireOpportunity("chat")
       ELSE UNCHANGED <<lastEscalationAt, wake>>
    /\ UNCHANGED <<participantCount, lastTier2At, voiceEouTimer, disposed, lastWord, alone>>

\* A failed call does not count for the debounce.
Tier2Fails ==
    /\ tier2 # NoCall /\ tier2' = NoCall
    /\ lastTier2At' = tier2.before
    /\ UNCHANGED <<participantCount, lastEscalationAt, voiceEouTimer, disposed, wake,
                   lastWord, alone>>

\* Each final line of the human starts the wait for the end of the turn anew.
ScheduleVoiceEouWake == voiceEouTimer' = now + EndOfUtterance

OnVoiceEouFire ==
    /\ voiceEouTimer = now /\ voiceEouTimer' = Never
    /\ IF ~disposed /\ IsOneOnOne /\ VoiceMode
       THEN TryFireOpportunity("voice")
       ELSE UNCHANGED <<lastEscalationAt, wake>>
    /\ UNCHANGED <<participantCount, tier2, lastTier2At, disposed, lastWord, alone>>
------------------------------------------------------------------------------
\* Every final word resets the end-of-utterance timer in a 1:1; in a group a
\* mention asks Tier 2.
OnTranscriptChunk(e) ==
    /\ e.kind = "speech"
    /\ lastWord' = now /\ alone' = IsOneOnOne
    /\ IF VoiceMode /\ IsOneOnOne
       THEN ScheduleVoiceEouWake /\ UNCHANGED <<tier2, lastTier2At>>
       ELSE /\ IF Proactive /\ e.text \in Mentions THEN MaybeRunTier2
               ELSE UNCHANGED <<tier2, lastTier2At>>
            /\ UNCHANGED voiceEouTimer
    /\ UNCHANGED <<participantCount, lastEscalationAt, disposed, wake>>

\* Every message asks, but a replayed one.
OnInboundChat(e) ==
    /\ e.kind = "chat"
    /\ IF Proactive /\ ~e.backfill THEN MaybeRunTier2 ELSE UNCHANGED <<tier2, lastTier2At>>
    /\ UNCHANGED <<participantCount, lastEscalationAt, voiceEouTimer, disposed, wake,
                   lastWord, alone>>

NewCount(e) ==
    IF e.kind = "joined" THEN participantCount + 1
    ELSE IF participantCount = 0 THEN 0 ELSE participantCount - 1

\* mutant: the pending wake survives a change of mode
OnParticipantChangeOnly(e) ==
    /\ e.kind \in {"joined", "left"}
    /\ participantCount' = NewCount(e)
    /\ alone' = (alone /\ participantCount' = 2)
    /\ UNCHANGED <<tier2, lastTier2At, lastEscalationAt, voiceEouTimer, disposed, wake, lastWord>>
OnParticipantChange(e) ==
    /\ e.kind \in {"joined", "left"}
    /\ participantCount' = NewCount(e)
    /\ voiceEouTimer' = IF IsOneOnOne /\ participantCount' # 2 THEN Never ELSE voiceEouTimer
    /\ alone' = (alone /\ participantCount' = 2)
    /\ UNCHANGED <<tier2, lastTier2At, lastEscalationAt, disposed, wake, lastWord>>

OnEvent(e) ==
    IF disposed THEN Idle
    ELSE OnTranscriptChunk(e) \/ OnInboundChat(e) \/ OnParticipantChange(e)

\* The answer of a call in flight will be dropped.
Dispose ==
    /\ disposed' = TRUE /\ voiceEouTimer' = Never
    /\ UNCHANGED <<participantCount, tier2, lastTier2At, lastEscalationAt, wake, lastWord, alone>>

\* The timer fires in the unit it is due in; a call has its timeout.
OnTime ==
    /\ voiceEouTimer # Never => now < voiceEouTimer
    /\ tier2 # NoCall => now < tier2.since + Tier2Timeout

Own == OnVoiceEouFire \/ Tier2Fails \/ \E yes \in BOOLEAN : Tier2Answers(yes)
------------------------------------------------------------------------------
\* Every wake is earned: no wake after dispose(), none within the cooldown
\* of the one before, of either kind ("she already spoke" is a human-facing
\* property, not per-channel); and a voice wake only when the meeting has
\* been a 1:1 without interruption since the last word, and that word is an
\* end-of-utterance ago.
WakesAreEarned ==
    [][wake' # wake =>
          /\ ~disposed
          /\ now - wake.at >= Cooldown
          /\ wake'.kind = "voice" =>
                alone /\ now - lastWord >= EndOfUtterance]_<<detectorVars, now>>
==============================================================================
