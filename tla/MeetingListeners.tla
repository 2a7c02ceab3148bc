-------------------------- MODULE MeetingListeners --------------------------
(***************************************************************************)
(* The two listeners of a meeting that ask a language model, on the event  *)
(* stream they share: the dispatcher hands each event to both in one step, *)
(* leave() stops both, and one clock runs for them.                        *)
(***************************************************************************)
EXTENDS Integers

CONSTANTS
    Events,        \* what may happen: kind, text, by the bot itself, replayed
    Objections, ChatSize, Window, Interval, Debounce, Dedupe, Timeout,
    Mentions, Proactive, VoiceMode, Tier2Debounce, Tier2Timeout, Cooldown, EndOfUtterance,
    MaxArrivals,   \* bound: events of the meeting
    MaxNow         \* bound: how long it lasts

ASSUME ListenerConstants ==
    /\ {ChatSize, Window, Interval, Debounce, Dedupe, Timeout} \subseteq Nat
    /\ {Tier2Debounce, Tier2Timeout, Cooldown, EndOfUtterance, MaxArrivals, MaxNow} \subseteq Nat
    /\ {Proactive, VoiceMode} \subseteq BOOLEAN
    /\ \A e \in Events : {e.own, e.backfill} \subseteq BOOLEAN

VARIABLES
    now, arrivals,
    transcriptBuffer, chatBuffer, recentHashes, lastContent, lastChecked, lastCheckAt,
    llmCall, nextTick, selfKnown, monitor, owed,
    participantCount, tier2, lastTier2At, lastEscalationAt, voiceEouTimer, disposed,
    wake, lastWord, alone

Consent == INSTANCE ConsentMonitor
Chat == INSTANCE ChatOpportunityDetector

vars == <<now, arrivals, Consent!consentVars, Chat!detectorVars>>

Init == Consent!Init /\ Chat!Init

\* The dispatcher: every subscriber sees the event before the next one.
Dispatch(e) ==
    /\ arrivals < MaxArrivals /\ monitor # "stopped"
    /\ arrivals' = arrivals + 1
    /\ Consent!OnEvent(e) /\ Chat!OnEvent(e)
    /\ UNCHANGED now

\* leave() (session-manager.ts) stops the monitor and disposes of the detector.
Leave ==
    /\ monitor # "stopped"
    /\ Consent!Stop /\ Chat!Dispose
    /\ UNCHANGED <<now, arrivals>>

MonitorStep == Consent!Own /\ Chat!Idle /\ UNCHANGED <<now, arrivals>>
DetectorStep == Chat!Own /\ Consent!Idle /\ UNCHANGED <<now, arrivals>>

Advance ==
    /\ now < MaxNow /\ Consent!OnTime /\ Chat!OnTime
    /\ now' = now + 1
    /\ Consent!Idle /\ Chat!Idle
    /\ UNCHANGED arrivals

Next ==
    \/ \E e \in Events : Dispatch(e)
    \/ Leave \/ MonitorStep \/ DetectorStep \/ Advance

Spec == Init /\ [][Next]_vars

\* The properties of the two listeners, stated where they are (consent checks
\* come in time, wakes are earned).
AskedInTime == Consent!AskedInTime
WakesAreEarned == Chat!WakesAreEarned
==============================================================================
