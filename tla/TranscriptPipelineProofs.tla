---------------------- MODULE TranscriptPipelineProofs ----------------------
(***************************************************************************)
(* TranscriptPipeline for any meetings, any number of lines and any        *)
(* choice of providers: no line of an open meeting is lost, repeated or    *)
(* overtaken, and a meeting that is over is forgotten.                     *)
(***************************************************************************)
EXTENDS TranscriptPipeline, TLAPS

(***************************************************************************)
(* The steps of one meeting, and of the receiver, by name.                 *)
(***************************************************************************)

MeetingStep(m) ==
    \/ Utterance(m)
    \/ AnonymousUtterance(m)
    \/ FlushTranscriptBuffer(m)
    \/ VellumJoinRequested(m)
    \/ SessionOpened(m)
    \/ LifecycleEnded(m)
    \/ SessionClosed(m)
    \/ AppJoin(m)
    \/ JoinScriptReads(m)
    \/ JoinScriptWrites(m)
    \/ JoinScriptEnds(m)
    \/ LeaveScriptAsks(m)
    \/ RemoveScriptReads(m)
    \/ RemoveScriptWrites(m)

ReceiverStep ==
    \/ StartRealtimeServer
    \/ StopRealtimeServer
    \/ RealtimeServerStopped
    \/ RealtimeServerExits

LEMMA NextSplits ==
    ASSUME Next
    PROVE  (\E m \in Meetings : MeetingStep(m)) \/ ReceiverStep
  BY DEF Next, MeetingStep, ReceiverStep

-----------------------------------------------------------------------------

\* The state of TranscriptPipeline keeps its shape, and a meeting's timer is
\* set exactly while it has lines waiting.
THEOREM TypeCorrect == Spec => []TypeOK
<1>1. Init => TypeOK
  BY MeetingsAssumption DEF Init, TypeOK, Empty, Idle, ScriptStages
<1>2. TypeOK /\ [Next]_vars => TypeOK'
  <2> SUFFICES ASSUME TypeOK, [Next]_vars PROVE TypeOK'
    OBVIOUS
  <2> USE MeetingsAssumption
  <2>1. ASSUME NEW m \in Meetings, MeetingStep(m) PROVE TypeOK'
    <3>1. CASE Utterance(m)
      <4>1. /\ heard[m] + 1 \in Nat
            /\ Synced(m) \subseteq Meetings
        BY DEF TypeOK, Synced
      <4>2. /\ heard' = [heard EXCEPT ![m] = heard[m] + 1]
            /\ sessions' = Synced(m)
            /\ buffer' = [buffer EXCEPT ![m] =
                             BufferTranscript(buffer[m], heard[m] + 1)]
            /\ since' \in {since, [since EXCEPT ![m] = heard[m] + 1]}
            /\ transcript' \in
                  {transcript, [transcript EXCEPT ![m] =
                                   @ \cup {<<m, heard[m] + 1>>}]}
            /\ UNCHANGED <<file, conversation, call, leaving, script,
                           receiver, restored>>
        BY <3>1 DEF Utterance
      <4>3. heard' \in [Meetings -> Nat] /\ since' \in [Meetings -> Nat]
        BY <4>1, <4>2 DEF TypeOK
      <4>4. transcript' \in [Meetings -> SUBSET (Meetings \X Nat)]
        BY <4>1, <4>2, SMTT(60) DEF TypeOK
      <4>5. /\ buffer' \in [Meetings -> [lines : SUBSET Nat,
                                         armed : BOOLEAN]]
            /\ \A k \in Meetings : buffer'[k].armed <=> buffer'[k].lines # {}
        BY <4>1, <4>2 DEF TypeOK, BufferTranscript
      <4> QED
        BY <4>1, <4>2, <4>3, <4>4, <4>5 DEF TypeOK
    <3>2. CASE AnonymousUtterance(m)
      <4>1. SoleSession.known \subseteq Meetings
        BY DEF TypeOK, SoleSession
      <4>2. transcript' \in [Meetings -> SUBSET (Meetings \X Nat)]
        BY <3>2 DEF TypeOK, AnonymousUtterance
      <4> QED
        BY <3>2, <4>1, <4>2 DEF TypeOK, AnonymousUtterance
    <3>3. CASE FlushTranscriptBuffer(m)
      <4>1. Synced(m) \subseteq Meetings
        BY DEF TypeOK, Synced
      <4>2. conversation' \in [Meetings -> SUBSET Nat]
        BY <3>3 DEF TypeOK, FlushTranscriptBuffer
      <4>3. /\ buffer' \in [Meetings -> [lines : SUBSET Nat,
                                         armed : BOOLEAN]]
            /\ \A k \in Meetings : buffer'[k].armed <=> buffer'[k].lines # {}
        BY <3>3 DEF TypeOK, FlushTranscriptBuffer, Empty
      <4> QED
        BY <3>3, <4>1, <4>2, <4>3 DEF TypeOK, FlushTranscriptBuffer
    <3>4. CASE VellumJoinRequested(m)
      BY <3>4 DEF TypeOK, VellumJoinRequested
    <3>5. CASE SessionOpened(m)
      BY <3>5 DEF TypeOK, SessionOpened, OpenSession
    <3>6. ASSUME CloseSession(m)
          PROVE  /\ sessions' \subseteq Meetings
                 /\ file' \subseteq Meetings
                 /\ restored' \subseteq Meetings
                 /\ transcript' \in [Meetings -> SUBSET (Meetings \X Nat)]
                 /\ since' \in [Meetings -> Nat]
                 /\ buffer' \in [Meetings -> [lines : SUBSET Nat,
                                              armed : BOOLEAN]]
                 /\ \A k \in Meetings :
                       buffer'[k].armed <=> buffer'[k].lines # {}
      BY <3>6 DEF TypeOK, CloseSession, RemovePersistedSession,
                  ClearTranscriptBuffer, Empty
    <3>7. CASE LifecycleEnded(m)
      BY <3>6, <3>7 DEF TypeOK, LifecycleEnded
    <3>8. CASE SessionClosed(m)
      BY <3>6, <3>8 DEF TypeOK, SessionClosed
    <3>9. CASE AppJoin(m)
      BY <3>9 DEF TypeOK, AppJoin
    <3>10. CASE JoinScriptReads(m)
      BY <3>10 DEF TypeOK, JoinScriptReads, ScriptStages
    <3>11. CASE JoinScriptWrites(m)
      BY <3>11 DEF TypeOK, JoinScriptWrites, ScriptStages
    <3>12. CASE JoinScriptEnds(m)
      <4>1. script' \in [Meetings -> [at : ScriptStages,
                                     seen : SUBSET Meetings]]
        <5>1. \E r \in [at : ScriptStages, seen : SUBSET Meetings] :
                 script' = [script EXCEPT ![m] = r]
          BY <3>12 DEF JoinScriptEnds, ScriptStages, Idle
        <5> QED
          BY <5>1 DEF TypeOK
      <4>2. call' \in [Meetings -> {"none", "joining", "in", "left", "gone"}]
        BY <3>12 DEF TypeOK, JoinScriptEnds
      <4> QED
        BY <3>12, <4>1, <4>2 DEF TypeOK, JoinScriptEnds
    <3>13. CASE LeaveScriptAsks(m)
      <4>1. script' \in [Meetings -> [at : ScriptStages,
                                     seen : SUBSET Meetings]]
        BY <3>13 DEF TypeOK, LeaveScriptAsks, ScriptStages
      <4>2. /\ call' \in [Meetings -> {"none", "joining", "in", "left", "gone"}]
            /\ leaving' \subseteq Meetings
        BY <3>13 DEF TypeOK, LeaveScriptAsks
      <4> QED
        BY <3>13, <4>1, <4>2 DEF TypeOK, LeaveScriptAsks
    <3>14. CASE RemoveScriptReads(m)
      BY <3>14 DEF TypeOK, RemoveScriptReads, ScriptStages
    <3>15. CASE RemoveScriptWrites(m)
      BY <3>15 DEF TypeOK, RemoveScriptWrites, ScriptStages, Idle
    <3> QED
      BY <2>1, <3>1, <3>2, <3>3, <3>4, <3>5, <3>7, <3>8, <3>9, <3>10, <3>11,
         <3>12, <3>13, <3>14, <3>15 DEF MeetingStep
  <2>2. ASSUME ReceiverStep PROVE TypeOK'
    <3>1. CASE StartRealtimeServer
      BY <3>1 DEF TypeOK, StartRealtimeServer
    <3>2. CASE StopRealtimeServer
      BY <3>2 DEF TypeOK, StopRealtimeServer
    <3>3. CASE RealtimeServerStopped
      <4>1. /\ buffer' \in [Meetings -> [lines : SUBSET Nat,
                                         armed : BOOLEAN]]
            /\ \A k \in Meetings : buffer'[k].armed <=> buffer'[k].lines # {}
        BY <3>3 DEF RealtimeServerStopped, ClearTranscriptBuffer, Empty
      <4> QED
        BY <3>3, <4>1 DEF TypeOK, RealtimeServerStopped
    <3>4. CASE RealtimeServerExits
      BY <3>4 DEF TypeOK, RealtimeServerExits
    <3> QED
      BY <2>2, <3>1, <3>2, <3>3, <3>4 DEF ReceiverStep
  <2>3. CASE UNCHANGED vars
    BY <2>3 DEF TypeOK, vars
  <2> QED
    BY <2>1, <2>2, <2>3, NextSplits
<1> QED
  BY <1>1, <1>2, PTL DEF Spec

-----------------------------------------------------------------------------
(***************************************************************************)
(* What has to be known about every meeting, in memory or not, for         *)
(* ConversationHasEveryLine to survive a step: lines are numbered in the   *)
(* order they were spoken, and a meeting that is not in memory is owed     *)
(* nothing, since memory will know it from now on at the earliest.         *)
(***************************************************************************)

Accounted(m) ==
    /\ buffer[m].lines \subseteq 1..heard[m]
    /\ conversation[m] \subseteq 1..heard[m]
    /\ \A told \in conversation[m], waiting \in buffer[m].lines :
          told < waiting
    /\ m \notin sessions => since[m] = heard[m]
    /\ m \in sessions \cap Conversing =>
          (since[m] + 1)..heard[m] \subseteq
              conversation[m] \cup buffer[m].lines

Ledger == \A m \in Meetings : Accounted(m)

\* A step that touches neither the lines of meeting k nor the history of
\* them, and at most brings k into memory, keeps k's account.
LEMMA AccountKept ==
    ASSUME TypeOK, NEW k \in Meetings, Accounted(k),
           buffer'[k] = buffer[k],
           conversation'[k] = conversation[k],
           heard'[k] = heard[k],
           since'[k] = since[k],
           sessions \subseteq sessions'
    PROVE  Accounted(k)'
<1>1. heard[k] \in Nat /\ since[k] \in Nat
  BY DEF TypeOK
<1>2. CASE k \in sessions
  BY <1>2 DEF Accounted
<1>3. CASE k \notin sessions
  <2>1. (since[k] + 1)..heard[k] = {}
    BY <1>1, <1>3 DEF Accounted
  <2> QED
    BY <1>3, <2>1 DEF Accounted
<1> QED
  BY <1>2, <1>3

\* Taking a meeting's lines out of the buffer for good settles its account,
\* whatever becomes of its session.
LEMMA AccountSettled ==
    ASSUME TypeOK, NEW k \in Meetings, Accounted(k),
           buffer'[k].lines \subseteq buffer[k].lines,
           conversation'[k] = conversation[k],
           heard'[k] = heard[k],
           since'[k] = heard[k]
    PROVE  Accounted(k)'
<1>1. heard[k] \in Nat
  BY DEF TypeOK
<1>2. (heard[k] + 1)..heard[k] = {}
  BY <1>1
<1> QED
  BY <1>2 DEF Accounted

LEMMA UtteranceAccounted ==
    ASSUME TypeOK, Ledger, NEW m \in Meetings, Utterance(m)
    PROVE  Ledger'
<1> SUFFICES ASSUME NEW k \in Meetings PROVE Accounted(k)'
  BY DEF Ledger
<1> DEFINE n == heard[m] + 1
<1>1. /\ heard[m] \in Nat /\ since[m] \in Nat
      /\ n \in Nat
      /\ Accounted(m) /\ Accounted(k)
  BY DEF TypeOK, Ledger
<1>2. /\ heard' = [heard EXCEPT ![m] = n]
      /\ sessions' = Synced(m)
      /\ buffer' = [buffer EXCEPT ![m] = BufferTranscript(buffer[m], n)]
      /\ since' = IF m \in Synced(m) THEN since
                                     ELSE [since EXCEPT ![m] = n]
      /\ conversation' = conversation
  BY DEF Utterance
<1>3. CASE k # m
  <2>1. sessions \subseteq sessions'
    BY <1>2 DEF Synced
  <2>2. buffer'[k] = buffer[k] /\ heard'[k] = heard[k] /\ since'[k] = since[k]
    BY <1>2, <1>3 DEF TypeOK
  <2> QED
    BY <1>1, <1>2, <2>1, <2>2, AccountKept
<1>4. CASE k = m
  <2>1. /\ buffer'[m].lines = buffer[m].lines \cup {n}
        /\ heard'[m] = n
        /\ since'[m] = IF m \in sessions' THEN since[m] ELSE n
        /\ conversation'[m] = conversation[m]
    BY <1>2 DEF TypeOK, BufferTranscript
  <2>2. buffer'[m].lines \subseteq 1..heard'[m]
    BY <1>1, <2>1 DEF Accounted
  <2>3. conversation'[m] \subseteq 1..heard'[m]
    BY <1>1, <2>1 DEF Accounted
  <2>4. \A told \in conversation'[m], waiting \in buffer'[m].lines :
           told < waiting
    BY <1>1, <2>1 DEF Accounted
  <2>5. m \notin sessions' => since'[m] = heard'[m]
    BY <2>1
  <2>6. ASSUME m \in sessions' \cap Conversing
        PROVE  (since'[m] + 1)..heard'[m] \subseteq
                   conversation'[m] \cup buffer'[m].lines
    <3>1. (since[m] + 1)..heard[m] \subseteq
              conversation[m] \cup buffer[m].lines
      <4>1. CASE m \in sessions
        BY <1>1, <2>6, <4>1 DEF Accounted
      <4>2. CASE m \notin sessions
        BY <1>1, <4>2 DEF Accounted
      <4> QED
        BY <4>1, <4>2
    <3>2. (since[m] + 1)..n \subseteq ((since[m] + 1)..heard[m]) \cup {n}
      BY <1>1
    <3> QED
      BY <2>1, <2>6, <3>1, <3>2
  <2> QED
    BY <1>4, <2>2, <2>3, <2>4, <2>5, <2>6 DEF Accounted
<1> QED
  BY <1>3, <1>4

LEMMA FlushAccounted ==
    ASSUME TypeOK, Ledger, NEW m \in Meetings, FlushTranscriptBuffer(m)
    PROVE  Ledger'
<1> SUFFICES ASSUME NEW k \in Meetings PROVE Accounted(k)'
  BY DEF Ledger
<1>1. /\ heard[m] \in Nat /\ since[m] \in Nat
      /\ Accounted(m) /\ Accounted(k)
  BY DEF TypeOK, Ledger
<1>2. /\ sessions \subseteq sessions'
      /\ heard' = heard /\ since' = since
  BY DEF FlushTranscriptBuffer, Synced
<1>3. CASE k # m
  <2>1. buffer'[k] = buffer[k] /\ conversation'[k] = conversation[k]
    BY <1>3 DEF FlushTranscriptBuffer, TypeOK
  <2> QED
    BY <1>1, <1>2, <2>1, AccountKept
<1>4. CASE k = m
  <2>1. /\ buffer'[m].lines = {}
        /\ conversation'[m] = IF m \in sessions' \cap Conversing
                              THEN conversation[m] \cup buffer[m].lines
                              ELSE conversation[m]
    BY DEF FlushTranscriptBuffer, TypeOK, Empty
  <2>2. conversation'[m] \subseteq 1..heard'[m]
    BY <1>1, <1>2, <2>1 DEF Accounted
  <2>3. m \notin sessions' => since'[m] = heard'[m]
    BY <1>1, <1>2 DEF Accounted
  <2>4. ASSUME m \in sessions' \cap Conversing
        PROVE  (since'[m] + 1)..heard'[m] \subseteq conversation'[m]
    <3>1. CASE m \in sessions
      BY <1>1, <1>2, <2>1, <2>4, <3>1 DEF Accounted
    <3>2. CASE m \notin sessions
      BY <1>1, <1>2, <3>2 DEF Accounted
    <3> QED
      BY <3>1, <3>2
  <2> QED
    BY <1>4, <2>1, <2>2, <2>3, <2>4 DEF Accounted
<1> QED
  BY <1>3, <1>4

LEMMA OpenAccounted ==
    ASSUME TypeOK, Ledger, NEW m \in Meetings, SessionOpened(m)
    PROVE  Ledger'
<1> SUFFICES ASSUME NEW k \in Meetings PROVE Accounted(k)'
  BY DEF Ledger
<1>1. Accounted(k)
  BY DEF Ledger
<1>2. /\ sessions \subseteq sessions'
      /\ UNCHANGED <<buffer, conversation, heard>>
      /\ since' = [since EXCEPT ![m] = heard[m]]
  BY DEF SessionOpened, OpenSession
<1>3. CASE k # m
  BY <1>1, <1>2, <1>3, AccountKept DEF TypeOK
<1>4. CASE k = m
  BY <1>1, <1>2, <1>4, AccountSettled DEF TypeOK
<1> QED
  BY <1>3, <1>4

LEMMA CloseAccounted ==
    ASSUME TypeOK, Ledger, NEW m \in Meetings, CloseSession(m),
           conversation' = conversation, heard' = heard
    PROVE  Ledger'
<1> SUFFICES ASSUME NEW k \in Meetings PROVE Accounted(k)'
  BY DEF Ledger
<1>1. Accounted(k)
  BY DEF Ledger
<1>2. CASE k # m
  <2>1. /\ buffer'[k] = buffer[k]
        /\ since'[k] = since[k]
        /\ k \in sessions' <=> k \in sessions
    BY <1>2 DEF CloseSession, TypeOK
  <2> QED
    BY <1>1, <2>1 DEF Accounted
<1>3. CASE k = m
  <2>1. buffer'[m].lines \subseteq buffer[m].lines /\ since'[m] = heard[m]
    BY DEF CloseSession, TypeOK, ClearTranscriptBuffer, Empty
  <2> QED
    BY <1>1, <1>3, <2>1, AccountSettled
<1> QED
  BY <1>2, <1>3

\* The steps that leave the lines, and the history of them, alone.
LEMMA QuietStepAccounted ==
    ASSUME TypeOK, Ledger,
           UNCHANGED <<buffer, conversation, heard, since>>,
           sessions \subseteq sessions'
    PROVE  Ledger'
  BY AccountKept DEF Ledger

\* In every behaviour, for any number of meetings and lines: while a meeting
\* with a conversation is in memory, each of its lines is in the conversation
\* or waiting, in the order spoken and once.
THEOREM EveryLineKept == Spec => []ConversationHasEveryLine
<1>1. Init => Ledger
  <2> SUFFICES ASSUME Init, NEW m \in Meetings PROVE Accounted(m)
    BY DEF Ledger
  <2>1. /\ buffer[m].lines = {} /\ conversation[m] = {}
        /\ heard[m] = 0 /\ since[m] = 0
        /\ sessions = {}
    BY DEF Init, Empty
  <2> QED
    BY <2>1 DEF Accounted
<1>2. TypeOK /\ Ledger /\ [Next]_vars => Ledger'
  <2> SUFFICES ASSUME TypeOK, Ledger, [Next]_vars PROVE Ledger'
    OBVIOUS
  <2>1. ASSUME NEW m \in Meetings, MeetingStep(m) PROVE Ledger'
    <3>1. CASE Utterance(m)
      BY <3>1, UtteranceAccounted
    <3>2. CASE AnonymousUtterance(m)
      BY <3>2, QuietStepAccounted DEF AnonymousUtterance, SoleSession
    <3>3. CASE FlushTranscriptBuffer(m)
      BY <3>3, FlushAccounted
    <3>4. CASE SessionOpened(m)
      BY <3>4, OpenAccounted
    <3>5. CASE LifecycleEnded(m)
      BY <3>5, CloseAccounted DEF LifecycleEnded
    <3>6. CASE SessionClosed(m)
      BY <3>6, CloseAccounted DEF SessionClosed
    <3>7. CASE VellumJoinRequested(m) \/ AppJoin(m)
      BY <3>7, QuietStepAccounted DEF VellumJoinRequested, AppJoin
    <3>8. CASE JoinScriptReads(m) \/ JoinScriptWrites(m) \/ JoinScriptEnds(m)
      BY <3>8, QuietStepAccounted
         DEF JoinScriptReads, JoinScriptWrites, JoinScriptEnds
    <3>9. CASE \/ LeaveScriptAsks(m)
               \/ RemoveScriptReads(m)
               \/ RemoveScriptWrites(m)
      BY <3>9, QuietStepAccounted
         DEF LeaveScriptAsks, RemoveScriptReads, RemoveScriptWrites
    <3> QED
      BY <2>1, <3>1, <3>2, <3>3, <3>4, <3>5, <3>6, <3>7, <3>8, <3>9
         DEF MeetingStep
  <2>2. CASE StartRealtimeServer
    BY <2>2, QuietStepAccounted DEF StartRealtimeServer
  <2>3. CASE StopRealtimeServer \/ RealtimeServerExits
    BY <2>3, QuietStepAccounted DEF StopRealtimeServer, RealtimeServerExits
  <2>4. CASE RealtimeServerStopped
    BY <2>4, AccountSettled
       DEF Ledger, RealtimeServerStopped, ClearTranscriptBuffer, Empty
  <2>5. CASE UNCHANGED vars
    BY <2>5, QuietStepAccounted DEF vars
  <2> QED
    BY <2>1, <2>2, <2>3, <2>4, <2>5, NextSplits DEF ReceiverStep
<1>3. Ledger => ConversationHasEveryLine
  BY DEF Ledger, Accounted, ConversationHasEveryLine
<1> QED
  BY <1>1, <1>2, <1>3, TypeCorrect, PTL DEF Spec

-----------------------------------------------------------------------------
(***************************************************************************)
(* A meeting that is over.  Scripts that add an entry work for Recall      *)
(* meetings only, so that no in-house meeting enters the file by its own   *)
(* script; another script's write brings back only what it had read.       *)
(***************************************************************************)

Forgotten ==
    /\ DeadMeetingIsForgotten
    /\ \A m \in Meetings : script[m].at \in {"adding", "polling"} =>
          m \notin Vellum

\* In every behaviour, an in-house meeting whose bot is gone is in memory or
\* in sessions.json only if a script wrote back what it had read before.
THEOREM DeadForgotten == Spec => []DeadMeetingIsForgotten
<1>1. Init => Forgotten
  BY DEF Init, Forgotten, DeadMeetingIsForgotten, Idle
<1>2. TypeOK /\ Forgotten /\ [Next]_vars => Forgotten'
  <2> SUFFICES ASSUME TypeOK, Forgotten, [Next]_vars PROVE Forgotten'
    OBVIOUS
  <2> USE MeetingsAssumption DEF Forgotten, DeadMeetingIsForgotten
  <2>1. ASSUME NEW m \in Meetings, MeetingStep(m) PROVE Forgotten'
    <3>1. CASE Utterance(m)
      BY <3>1 DEF Utterance, Synced
    <3>2. CASE AnonymousUtterance(m)
      BY <3>2 DEF AnonymousUtterance, SoleSession
    <3>3. CASE FlushTranscriptBuffer(m)
      BY <3>3 DEF FlushTranscriptBuffer, Synced
    <3>4. CASE VellumJoinRequested(m)
      BY <3>4 DEF VellumJoinRequested, TypeOK
    <3>5. CASE SessionOpened(m)
      BY <3>5 DEF SessionOpened, OpenSession, TypeOK
    <3>6. CASE LifecycleEnded(m)
      BY <3>6 DEF LifecycleEnded, CloseSession, RemovePersistedSession, TypeOK
    <3>7. CASE SessionClosed(m)
      BY <3>7 DEF SessionClosed, CloseSession, RemovePersistedSession, TypeOK
    <3>8. CASE AppJoin(m)
      BY <3>8 DEF AppJoin, TypeOK
    <3>9. CASE JoinScriptReads(m)
      BY <3>9 DEF JoinScriptReads, TypeOK
    <3>10. CASE JoinScriptWrites(m)
      BY <3>10 DEF JoinScriptWrites, TypeOK
    <3>11. CASE JoinScriptEnds(m)
      <4>1. m \notin Vellum
        BY <3>11 DEF JoinScriptEnds
      <4>2. /\ \A k \in Vellum : call'[k] = call[k]
            /\ UNCHANGED <<sessions, file, restored>>
        BY <3>11, <4>1 DEF JoinScriptEnds, TypeOK
      <4>3. \A k \in Meetings : script'[k].at \in {"adding", "polling"} =>
               script'[k] = script[k]
        BY <3>11 DEF JoinScriptEnds, TypeOK, Idle
      <4> QED
        BY <4>2, <4>3
    <3>12. CASE LeaveScriptAsks(m)
      BY <3>12 DEF LeaveScriptAsks, TypeOK
    <3>13. CASE RemoveScriptReads(m)
      BY <3>13 DEF RemoveScriptReads, TypeOK
    <3>14. CASE RemoveScriptWrites(m)
      BY <3>14 DEF RemoveScriptWrites, TypeOK, Idle
    <3> QED
      BY <2>1, <3>1, <3>2, <3>3, <3>4, <3>5, <3>6, <3>7, <3>8, <3>9, <3>10,
         <3>11, <3>12, <3>13, <3>14 DEF MeetingStep
  <2>2. ASSUME ReceiverStep PROVE Forgotten'
    BY <2>2 DEF ReceiverStep, StartRealtimeServer, StopRealtimeServer,
                RealtimeServerStopped, RealtimeServerExits
  <2>3. CASE UNCHANGED vars
    BY <2>3 DEF vars
  <2> QED
    BY <2>1, <2>2, <2>3, NextSplits
<1>3. Forgotten => DeadMeetingIsForgotten
  BY DEF Forgotten
<1> QED
  BY <1>1, <1>2, <1>3, TypeCorrect, PTL DEF Spec

=============================================================================
