-------------------------- MODULE MeetAudioProofs --------------------------
(***************************************************************************)
(* That the two ends of the transcription relay agree about their sessions *)
(* and their events, for any number of requests and any limits, and that   *)
(* an ended join holds nothing of its audio path.                          *)
(***************************************************************************)
EXTENDS MeetAudio, SequenceTheorems, FiniteSetTheorems, TLAPS

(* The two pipes, and the two maps of sessions.                            *)

(* Where a request stands in the worker and in the daemon.                 *)
CallersStand ==
    \A r \in Requests :
        /\ r \in pendingOpens <=> caller[r] = "opening"
        /\ caller[r] = "idle" => serving[r] = "idle"
        /\ proxy[r] # NoSession <=> caller[r] \in {"ready", "streaming", "stopped"}
        /\ proxy[r] # NoSession => proxy[r] = sid[r] /\ serving[r] = "done"
        /\ serving[r] = "idle" \/ serving[r] = "opening" => sid[r] = NoSession
        /\ serving[r] = "starting" => sid[r] # NoSession

(* The daemon draws the ids in turn.                                       *)
Drawn == {r \in Requests : sid[r] # NoSession}
SessionsAreDistinct ==
    /\ Cardinality(Drawn) = nextSessionId - 1
    /\ \A r \in Requests : sid[r] < nextSessionId
    /\ \A q, r \in Drawn : sid[q] = sid[r] => q = r

(* The worker's map follows its callers, and has nothing of a session that *)
(* no answer has named yet.                                                *)
RelayFollows ==
    /\ \A r \in Requests :
          /\ caller[r] = "ready" => relay[proxy[r]] = "buffering"
          /\ caller[r] = "streaming" => relay[proxy[r]] = "streaming"
          /\ caller[r] = "stopped" => relay[proxy[r]] = "none"
    /\ \A s \in Sessions : (\A r \in Requests : proxy[r] # s) =>
          relay[s] = "none" /\ buffer[s] = <<>> /\ delivered[s] = <<>> /\ s \notin overflowed

(* A request is asked once and answered once.                              *)
RequestsWait ==
    /\ \A n \in DOMAIN toDaemon : toDaemon[n].kind = "open" =>
          serving[toDaemon[n].id] = "idle" /\ caller[toDaemon[n].id] # "idle"
    /\ \A m, n \in DOMAIN toDaemon : toDaemon[m].kind = "open" /\ toDaemon[n] = toDaemon[m] => m = n
Answer(n) == toWorker[n].kind = "opened"
AnswersWait ==
    /\ \A n \in DOMAIN toWorker : Answer(n) =>
          LET r == toWorker[n].id IN
          /\ serving[r] = "done" /\ proxy[r] = NoSession
          /\ toWorker[n].info # NoSession => toWorker[n].info = sid[r]
    /\ \A m, n \in DOMAIN toWorker : Answer(m) /\ Answer(n) /\ toWorker[m].id = toWorker[n].id => m = n

(* In the pipe to the daemon a session's audio comes before its stop, and  *)
(* the daemon has the session until it reads the stop.                     *)
Owned(s, pcs) == \E r \in Requests : proxy[r] = s /\ caller[r] \in pcs
StopAllRan == shutdownAsked \/ exitSeen
OwnersWrote ==
    \A n \in DOMAIN toDaemon :
       /\ toDaemon[n].kind = "stop" => Owned(toDaemon[n].id, {"stopped"})
       /\ toDaemon[n].kind = "audio" => Owned(toDaemon[n].id, {"streaming", "stopped"})
StopsArrive ==
    \A r \in Requests : caller[r] = "stopped" =>
       sid[r] \notin live \/ \E n \in DOMAIN toDaemon : toDaemon[n] = Msg("stop", sid[r], 0)
DaemonKnows ==
    StopAllRan \/
       /\ \A n \in DOMAIN toWorker : Answer(n) /\ toWorker[n].info # NoSession => toWorker[n].info \in live
       /\ \A r \in Requests : caller[r] \in {"ready", "streaming"} => proxy[r] \in live
       /\ \A n \in DOMAIN toDaemon : toDaemon[n].kind = "audio" =>
             /\ toDaemon[n].id \in live
             /\ \A m \in DOMAIN toDaemon : m < n => toDaemon[m] # Msg("stop", toDaemon[n].id, 0)

(* In the pipe to the worker a session's events are in order.  Behind its  *)
(* answer are all those written since, and once the answer is read the     *)
(* pipe has what the worker has not.  While the pipe is open, what is      *)
(* emitted is written.                                                     *)
OpenPipeTakesAll == PipeOpen => written = emitted
Run(seq, from) == \A i \in DOMAIN seq : seq[i] = from + i
Had(s) == firstEvent[s] + Len(delivered[s]) + Len(buffer[s])
Pending(s, from, p) ==   \* behind place p the pipe has the events of s after `from', and no others
    /\ from <= written[s]
    /\ \A k \in from + 1 .. written[s] : \E n \in DOMAIN toWorker : n > p /\ toWorker[n] = Msg("event", s, k)
    /\ \A n \in DOMAIN toWorker : n > p /\ Event(n, s) => toWorker[n].info > from
PipeIsInOrder ==
    /\ ~workerUp => toWorker = <<>>
    /\ \A n \in DOMAIN toWorker, s \in Sessions : Event(n, s) => toWorker[n].info <= written[s]
    /\ \A s \in Sessions : InOrder(s)
AnswersLead ==
    \A n \in DOMAIN toWorker : Answer(n) /\ toWorker[n].info # NoSession =>
       Pending(toWorker[n].info, firstEvent[toWorker[n].info], n)
Kept(s, pc) ==
    /\ Run(delivered[s], firstEvent[s]) /\ Run(buffer[s], firstEvent[s])
    /\ pc = "ready" => delivered[s] = <<>>
    /\ pc = "streaming" => buffer[s] = <<>>
    /\ Pending(s, Had(s), 0)
ProxiesKeepUp ==
    workerUp => \A r \in Requests : caller[r] \in {"ready", "streaming"} /\ proxy[r] \notin overflowed =>
       Kept(proxy[r], caller[r])

RelayInv ==
    /\ TypeOK /\ CallersStand /\ SessionsAreDistinct /\ RelayFollows
    /\ RequestsWait /\ AnswersWait
    /\ OwnersWrote /\ StopsArrive /\ DaemonKnows /\ OpenPipeTakesAll
    /\ PipeIsInOrder /\ AnswersLead /\ ProxiesKeepUp

-----------------------------------------------------------------------------
(* Elements of queues.                                                     *)

LEMMA QueueGrows ==
    ASSUME NEW M, NEW q \in Seq(M), NEW m \in M, NEW p, p = Append(q, m)
    PROVE  /\ p \in Seq(M) /\ Len(q) + 1 \in DOMAIN p /\ p[Len(q) + 1] = m
           /\ \A n \in DOMAIN q : n \in Nat /\ n > 0 /\ n < Len(q) + 1 /\ n \in DOMAIN p /\ p[n] = q[n] /\ q[n] \in M
           /\ \A n \in DOMAIN p : n = Len(q) + 1 \/ n \in DOMAIN q
  <1>1. /\ p \in Seq(M) /\ Len(q) \in Nat /\ DOMAIN q = 1..Len(q) /\ DOMAIN p = 1..(Len(q) + 1)
        /\ p[Len(q) + 1] = m /\ \A n \in 1..Len(q) : p[n] = q[n]
    BY AppendProperties, LenProperties
  <1>2. \A n \in DOMAIN q : q[n] \in M
    BY ElementOfSeq, <1>1
  <1> QED
    BY <1>1, <1>2

LEMMA QueueShrinks ==
    ASSUME NEW M, NEW q \in Seq(M), q # <<>>, NEW p, p = Tail(q)
    PROVE  /\ p \in Seq(M) /\ 1 \in DOMAIN q /\ Head(q) = q[1] /\ q[1] \in M
           /\ \A n \in DOMAIN p : n \in Nat /\ n > 0 /\ n + 1 \in DOMAIN q /\ p[n] = q[n + 1]
           /\ \A n \in DOMAIN q : n \in Nat /\ n > 0 /\ (n # 1 => n - 1 \in DOMAIN p /\ p[n - 1] = q[n])
  <1>1. /\ p \in Seq(M) /\ Len(q) \in Nat \ {0} /\ DOMAIN q = 1..Len(q) /\ DOMAIN p = 1..(Len(q) - 1)
        /\ Head(q) = q[1] /\ \A n \in 1..(Len(q) - 1) : p[n] = q[n + 1]
    BY HeadTailProperties, LenProperties, EmptySeq
  <1>2. 1 \in DOMAIN q /\ q[1] \in M
    BY <1>1, ElementOfSeq
  <1>3. \A n \in DOMAIN p : n \in Nat /\ n > 0 /\ n + 1 \in DOMAIN q /\ p[n] = q[n + 1]
    BY <1>1
  <1>4. ASSUME NEW n \in DOMAIN q PROVE n \in Nat /\ n > 0 /\ (n # 1 => n - 1 \in DOMAIN p /\ p[n - 1] = q[n])
    <2>1. n \in Nat /\ n > 0 /\ (n # 1 => n - 1 \in 1..(Len(q) - 1) /\ (n - 1) + 1 = n)
      BY <1>1
    <2> QED
      BY <1>1, <2>1
  <1> QED
    BY <1>1, <1>2, <1>3, <1>4

LEMMA Messages ==
    /\ \A r \in Requests : Msg("open", r, 0) \in ToDaemonMsg
    /\ \A s \in Sessions : Msg("audio", s, 0) \in ToDaemonMsg /\ Msg("stop", s, 0) \in ToDaemonMsg
    /\ \A r \in Requests, i \in Ids : Msg("opened", r, i) \in ToWorkerMsg
    /\ \A s \in Sessions, k \in 1..MaxEvents : Msg("event", s, k) \in ToWorkerMsg
    /\ \A m \in ToDaemonMsg : \/ m.kind = "open" /\ m.id \in Requests /\ m = Msg("open", m.id, 0)
                              \/ m.kind \in {"audio", "stop"} /\ m.id \in Sessions /\ m = Msg(m.kind, m.id, 0)
    /\ \A m \in ToWorkerMsg :
          \/ m.kind = "opened" /\ m.id \in Requests /\ m.info \in Ids
          \/ m.kind = "event" /\ m.id \in Sessions /\ m.info \in 1..MaxEvents /\ m = Msg("event", m.id, m.info)
    /\ NoSession \notin Sessions /\ Cardinality(Requests) \in Nat /\ Ids = Sessions \cup {NoSession}
  <1>1. Cardinality(Requests) \in Nat
    BY RelayConstants, FS_CardinalityType
  <1>2. NoSession \notin Sessions /\ Ids = Sessions \cup {NoSession}
    BY <1>1 DEF NoSession, Sessions, Ids
  <1> QED
    BY <1>1, <1>2 DEF ToDaemonMsg, ToWorkerMsg, Msg

(* There is an id for every request.                                       *)
LEMMA IdsSuffice ==
    ASSUME TypeOK, CallersStand, SessionsAreDistinct, NEW r \in Requests, serving[r] = "opening"
    PROVE  /\ nextSessionId \in Sessions /\ r \notin Drawn
           /\ nextSessionId + 1 \in 1..(Cardinality(Requests) + 1)
  <1>1. r \notin Drawn /\ Drawn \subseteq Requests \ {r}
    BY DEF CallersStand, Drawn
  <1>2. /\ IsFiniteSet(Requests \ {r}) /\ Cardinality(Requests \ {r}) = Cardinality(Requests) - 1
        /\ Cardinality(Requests) \in Nat
    BY RelayConstants, FS_RemoveElement, FS_CardinalityType
  <1>3. Cardinality(Drawn) <= Cardinality(Requests) - 1 /\ Cardinality(Drawn) \in Nat
    BY <1>1, <1>2, FS_Subset, FS_CardinalityType
  <1>4. nextSessionId \in 1..(Cardinality(Requests) + 1)
    BY DEF TypeOK
  <1>5. Cardinality(Drawn) = nextSessionId - 1
    BY DEF SessionsAreDistinct
  <1>6. nextSessionId <= Cardinality(Requests) /\ nextSessionId >= 1 /\ nextSessionId \in Nat
    BY <1>2, <1>3, <1>4, <1>5
  <1> QED
    BY <1>1, <1>2, <1>6 DEF Sessions

-----------------------------------------------------------------------------
(* The parts of the invariant, one at a time.                              *)

LEMMA TypesStand ==
    ASSUME RelayInv, [Next]_vars
    PROVE  TypeOK'
  <1> USE DEF workerVars, bridgeVars, processVars
  <1>t. TypeOK /\ CallersStand /\ SessionsAreDistinct /\ AnswersWait
    BY DEF RelayInv
  <1>m. /\ toDaemon \in Seq(ToDaemonMsg) /\ toWorker \in Seq(ToWorkerMsg)
        /\ \A m \in ToDaemonMsg : Append(toDaemon, m) \in Seq(ToDaemonMsg)
        /\ \A m \in ToWorkerMsg : Append(toWorker, m) \in Seq(ToWorkerMsg)
    BY <1>t, AppendProperties DEF TypeOK
  <1>p. \A r \in Requests : caller[r] \in {"ready", "streaming"} => proxy[r] \in Sessions
    BY <1>t, Messages DEF TypeOK, CallersStand
  <1>1. ASSUME NEW r \in Requests, Open(r) PROVE TypeOK'
    <2>1. toDaemon' \in Seq(ToDaemonMsg)
      BY <1>1, <1>m, Messages DEF Open, SendToDaemon
    <2> QED
      BY <1>t, <1>1, <2>1 DEF TypeOK, Open
  <1>2. ASSUME NEW r \in Requests, OpenTimesOut(r) PROVE TypeOK'
    BY <1>t, <1>2 DEF TypeOK, OpenTimesOut
  <1>3. ASSUME NEW r \in Requests, Start(r) PROVE TypeOK'
    <2>1. delivered[proxy[r]] \o buffer[proxy[r]] \in Seq(1..MaxEvents) /\ <<>> \in Seq(1..MaxEvents)
      BY <1>t, <1>p, <1>3, ConcatProperties DEF TypeOK, Start
    <2> HIDE DEF Sessions
    <2> QED
      BY <1>t, <1>3, <2>1 DEF TypeOK, Start
  <1>4. ASSUME NEW r \in Requests, SendAudio(r) PROVE TypeOK'
    <2>1. toDaemon' \in Seq(ToDaemonMsg)
      BY <1>4, <1>m, <1>p, Messages DEF SendAudio, SendToDaemon
    <2>2. audio' \in [Requests -> 0..MaxAudio]
      BY <1>t, <1>4, RelayConstants DEF TypeOK, SendAudio
    <2> QED
      BY <1>t, <1>4, <2>1, <2>2 DEF TypeOK, SendAudio
  <1>5. ASSUME NEW r \in Requests, Stop(r) PROVE TypeOK'
    <2>1. toDaemon' \in Seq(ToDaemonMsg)
      BY <1>5, <1>m, <1>p, Messages DEF Stop, SendToDaemon
    <2> QED
      BY <1>t, <1>5, <2>1 DEF TypeOK, Stop
  <1>6. ASSUME WorkerReceives PROVE TypeOK'
    <2>1. Head(toWorker) \in ToWorkerMsg /\ toWorker' \in Seq(ToWorkerMsg)
      BY <1>6, <1>m, QueueShrinks DEF WorkerReceives
    <2>2. CASE TakeOpened(Head(toWorker))
      <3>1. Head(toWorker).id \in Requests /\ Head(toWorker).info \in Ids
        BY <2>1, <2>2, Messages DEF TakeOpened
      <3> QED
        BY <1>t, <1>6, <2>1, <2>2, <3>1 DEF TypeOK, WorkerReceives, TakeOpened
    <2>3. CASE TakeEvent(Head(toWorker))
      <3>1. Head(toWorker).id \in Sessions /\ Head(toWorker).info \in 1..MaxEvents
        BY <2>1, <2>3, Messages DEF TakeEvent
      <3>2. delivered' \in [Sessions -> Seq(1..MaxEvents)] /\ buffer' \in [Sessions -> Seq(1..MaxEvents)]
        <4>1. /\ Append(delivered[Head(toWorker).id], Head(toWorker).info) \in Seq(1..MaxEvents)
              /\ Append(buffer[Head(toWorker).id], Head(toWorker).info) \in Seq(1..MaxEvents)
          BY <1>t, <3>1, AppendProperties DEF TypeOK
        <4> HIDE DEF Sessions
        <4>2. delivered' \in [Sessions -> Seq(1..MaxEvents)]
          BY <1>t, <2>3, <3>1, <4>1 DEF TypeOK, TakeEvent
        <4>3. buffer' \in [Sessions -> Seq(1..MaxEvents)]
          BY <1>t, <2>3, <3>1, <4>1 DEF TypeOK, TakeEvent
        <4> QED
          BY <4>2, <4>3
      <3>3. overflowed' \subseteq Sessions
        BY <1>t, <2>3, <3>1 DEF TypeOK, TakeEvent
      <3> QED
        BY <1>t, <1>6, <2>1, <2>3, <3>2, <3>3 DEF TypeOK, WorkerReceives, TakeEvent
    <2> QED
      BY <1>6, <2>2, <2>3 DEF WorkerReceives
  <1>7. ASSUME DaemonReceives PROVE TypeOK'
    <2>1. Head(toDaemon) \in ToDaemonMsg /\ toDaemon' \in Seq(ToDaemonMsg)
      BY <1>7, <1>m, QueueShrinks DEF DaemonReceives
    <2>2. serving' \in [Requests -> {"idle", "opening", "starting", "done"}]
      BY <1>t, <1>7, <2>1, Messages DEF TypeOK, DaemonReceives
    <2>3. live' \subseteq Sessions /\ provider' \in [Sessions -> {"none", "starting", "live", "stopped", "failed"}]
      BY <1>t, <1>7, <2>1, Messages DEF TypeOK, DaemonReceives
    <2> QED
      BY <1>t, <1>7, <2>1, <2>2, <2>3 DEF TypeOK, DaemonReceives
  <1>8. ASSUME NEW r \in Requests, SessionRefused(r) PROVE TypeOK'
    <2>1. toWorker' \in Seq(ToWorkerMsg)
      BY <1>8, <1>m, Messages DEF SessionRefused, SendToWorker
    <2> QED
      BY <1>t, <1>8, <2>1 DEF TypeOK, SessionRefused
  <1>9. ASSUME NEW r \in Requests, SessionOpens(r) PROVE TypeOK'
    <2>1. nextSessionId \in Sessions /\ nextSessionId' \in 1..(Cardinality(Requests) + 1) /\ nextSessionId \in Ids
      BY <1>t, <1>9, IdsSuffice, Messages DEF SessionOpens
    <2> QED
      BY <1>t, <1>9, <2>1 DEF TypeOK, SessionOpens
  <1>10. ASSUME NEW r \in Requests, SessionStarts(r) PROVE TypeOK'
    <2>1. sid[r] \in Sessions /\ sid[r] \in Ids
      BY <1>t, <1>10, Messages DEF TypeOK, CallersStand, SessionStarts
    <2>2. toWorker' \in Seq(ToWorkerMsg)
      BY <1>10, <1>m, <2>1, Messages DEF SessionStarts, SendToWorker
    <2>3. firstEvent' \in [Sessions -> 0..MaxEvents] /\ live' \subseteq Sessions
      BY <1>t, <1>10, <2>1 DEF TypeOK, SessionStarts
    <2> QED
      BY <1>t, <1>10, <2>1, <2>2, <2>3 DEF TypeOK, SessionStarts
  <1>11. ASSUME NEW r \in Requests, StartFails(r) PROVE TypeOK'
    <2>1. toWorker' \in Seq(ToWorkerMsg)
      BY <1>11, <1>m, Messages DEF StartFails, SendToWorker
    <2> QED
      BY <1>t, <1>11, <2>1 DEF TypeOK, StartFails
  <1>12. ASSUME NEW s \in Sessions, Emit(s) PROVE TypeOK'
    <2>1. emitted' \in [Sessions -> 0..MaxEvents] /\ emitted'[s] \in 1..MaxEvents
      BY <1>t, <1>12, RelayConstants DEF TypeOK, Emit
    <2>3. written' \in [Sessions -> 0..MaxEvents]
      BY <1>t, <1>12, <2>1, RelayConstants DEF TypeOK, Emit
    <2>2. toWorker' \in Seq(ToWorkerMsg)
      BY <1>12, <1>m, <2>1, Messages DEF Emit, SendToWorker
    <2> QED
      BY <1>t, <1>12, <2>1, <2>2, <2>3 DEF TypeOK, Emit
  <1>13. ASSUME ShutdownRuntime \/ WorkerDies \/ WorkerExitSeen PROVE TypeOK'
    <2>1. CASE WorkerDies
      <3>1. <<>> \in Seq(ToWorkerMsg)
        OBVIOUS
      <3> QED
        BY <1>t, <2>1, <3>1 DEF TypeOK, WorkerDies
    <2>2. CASE ShutdownRuntime \/ WorkerExitSeen
      <3>1. live' \subseteq Sessions /\ provider' \in [Sessions -> {"none", "starting", "live", "stopped", "failed"}]
        BY <1>t, <2>2 DEF TypeOK, ShutdownRuntime, WorkerExitSeen, StopAll
      <3> QED
        BY <1>t, <2>2, <3>1 DEF TypeOK, ShutdownRuntime, WorkerExitSeen
    <2> QED
      BY <1>13, <2>1, <2>2
  <1>14. ASSUME UNCHANGED vars PROVE TypeOK'
    BY <1>t, <1>14 DEF TypeOK, vars
  <1> QED
    BY <1>1, <1>2, <1>3, <1>4, <1>5, <1>6, <1>7, <1>8, <1>9, <1>10, <1>11, <1>12, <1>13, <1>14 DEF Next

LEMMA CallersStandStill ==
    ASSUME RelayInv, [Next]_vars
    PROVE  CallersStand'
  <1> USE DEF workerVars, bridgeVars, processVars
  <1>t. TypeOK /\ CallersStand /\ SessionsAreDistinct /\ RequestsWait /\ AnswersWait
    BY DEF RelayInv
  <1>s. NoSession \notin Sessions
    BY Messages
  <1>1. ASSUME NEW r \in Requests, Open(r) \/ OpenTimesOut(r) PROVE CallersStand'
    BY <1>t, <1>1 DEF TypeOK, CallersStand, Open, OpenTimesOut
  <1>2. ASSUME NEW r \in Requests, Start(r) \/ SendAudio(r) \/ Stop(r) PROVE CallersStand'
    BY <1>t, <1>2 DEF TypeOK, CallersStand, Start, SendAudio, Stop
  <1>3. ASSUME WorkerReceives, TakeOpened(Head(toWorker)) PROVE CallersStand'
    <2> DEFINE m == Head(toWorker)
    <2>1. m \in ToWorkerMsg /\ 1 \in DOMAIN toWorker /\ m = toWorker[1]
      BY <1>t, <1>3, QueueShrinks DEF TypeOK, WorkerReceives
    <2>2. m.id \in Requests /\ serving[m.id] = "done" /\ proxy[m.id] = NoSession
          /\ (m.info # NoSession => m.info = sid[m.id])
      BY <1>t, <1>3, <2>1, Messages DEF TakeOpened, AnswersWait, Answer
    <2> HIDE DEF m
    <2>3. TakeOpened(m) /\ UNCHANGED <<serving, sid>>
      BY <1>3 DEF m, WorkerReceives
    <2> QED
      BY <1>t, <2>2, <2>3 DEF TypeOK, CallersStand, TakeOpened
  <1>4. ASSUME WorkerReceives, TakeEvent(Head(toWorker)) PROVE CallersStand'
    BY <1>t, <1>4 DEF CallersStand, WorkerReceives, TakeEvent
  <1>5. ASSUME DaemonReceives PROVE CallersStand'
    <2> DEFINE m == Head(toDaemon)
    <2>1. m \in ToDaemonMsg /\ 1 \in DOMAIN toDaemon /\ m = toDaemon[1]
      BY <1>t, <1>5, QueueShrinks DEF TypeOK, DaemonReceives
    <2>2. m.kind = "open" => m.id \in Requests /\ serving[m.id] = "idle" /\ caller[m.id] # "idle"
      BY <1>t, <2>1, Messages DEF RequestsWait
    <2>3. \/ m.kind = "open" /\ serving' = [serving EXCEPT ![m.id] = "opening"]
          \/ UNCHANGED serving
      BY <1>5 DEF DaemonReceives
    <2>4. UNCHANGED <<caller, proxy, pendingOpens, sid>>
      BY <1>5 DEF DaemonReceives
    <2> HIDE DEF m
    <2> QED
      BY <1>t, <2>2, <2>3, <2>4 DEF TypeOK, CallersStand
  <1>6. ASSUME NEW r \in Requests, SessionRefused(r) \/ SessionStarts(r) \/ StartFails(r) PROVE CallersStand'
    BY <1>t, <1>6 DEF TypeOK, CallersStand, SessionRefused, SessionStarts, StartFails
  <1>7. ASSUME NEW r \in Requests, SessionOpens(r) PROVE CallersStand'
    <2>1. nextSessionId \in Sessions
      BY <1>t, <1>7, IdsSuffice DEF SessionOpens
    <2> QED
      BY <1>t, <1>s, <1>7, <2>1 DEF TypeOK, CallersStand, SessionOpens
  <1>8. ASSUME \/ \E s \in Sessions : Emit(s)
               \/ ShutdownRuntime \/ WorkerDies \/ WorkerExitSeen \/ UNCHANGED vars
        PROVE  CallersStand'
    BY <1>t, <1>8 DEF CallersStand, Emit, ShutdownRuntime, WorkerDies, WorkerExitSeen, vars
  <1> QED
    BY <1>1, <1>2, <1>3, <1>4, <1>5, <1>6, <1>7, <1>8 DEF Next, WorkerReceives

LEMMA SessionsStayDistinct ==
    ASSUME RelayInv, [Next]_vars
    PROVE  SessionsAreDistinct'
  <1> USE DEF workerVars, bridgeVars, processVars
  <1>t. TypeOK /\ CallersStand /\ SessionsAreDistinct
    BY DEF RelayInv
  <1>1. ASSUME NEW r \in Requests, SessionOpens(r) PROVE SessionsAreDistinct'
    <2>1. nextSessionId \in Sessions /\ r \notin Drawn /\ nextSessionId \in Nat
      BY <1>t, <1>1, IdsSuffice, Messages DEF SessionOpens, Sessions
    <2>2. /\ sid' = [sid EXCEPT ![r] = nextSessionId] /\ nextSessionId' = nextSessionId + 1
          /\ sid \in [Requests -> Ids] /\ \A q \in Requests : sid[q] \in Nat
      BY <1>t, <1>1, Messages DEF TypeOK, SessionOpens, Ids
    <2>3. Drawn' = Drawn \cup {r}
      BY <2>1, <2>2, Messages DEF Drawn
    <2>4. IsFiniteSet(Drawn) /\ Cardinality(Drawn) \in Nat
      BY RelayConstants, FS_Subset, FS_CardinalityType DEF Drawn
    <2>5. Cardinality(Drawn') = Cardinality(Drawn) + 1
      BY <2>1, <2>3, <2>4, FS_AddElement
    <2>6. \A q \in Requests : sid[q] < nextSessionId
      BY <1>t DEF SessionsAreDistinct
    <2>7. Cardinality(Drawn)' = nextSessionId' - 1
      BY <1>t, <2>1, <2>2, <2>4, <2>5 DEF SessionsAreDistinct
    <2>8. \A q \in Requests : sid'[q] < nextSessionId'
      BY <2>1, <2>2, <2>6
    <2>9. ASSUME NEW p \in Drawn', NEW q \in Drawn', sid'[p] = sid'[q] PROVE p = q
      BY <1>t, <2>1, <2>2, <2>3, <2>6, <2>9 DEF SessionsAreDistinct, Drawn
    <2> QED
      BY <2>7, <2>8, <2>9 DEF SessionsAreDistinct
  <1>2. ASSUME UNCHANGED <<sid, nextSessionId>> PROVE SessionsAreDistinct'
    BY <1>t, <1>2 DEF SessionsAreDistinct, Drawn
  <1>3. UNCHANGED <<sid, nextSessionId>> \/ \E r \in Requests : SessionOpens(r)
    BY DEF Next, Open, OpenTimesOut, Start, SendAudio, Stop, WorkerReceives, DaemonReceives, SessionRefused,
           SessionStarts, StartFails, Emit, ShutdownRuntime, WorkerDies, WorkerExitSeen, vars
  <1> QED
    BY <1>1, <1>2, <1>3

(* A session has one proxy, and one answer names it.                       *)
LEMMA OneOwner ==
    ASSUME TypeOK, CallersStand, SessionsAreDistinct
    PROVE  /\ \A q, r \in Requests : proxy[q] # NoSession /\ proxy[q] = proxy[r] => q = r
           /\ \A q, r \in Requests : proxy[q] # NoSession /\ proxy[q] = sid[r] => q = r
           /\ \A q, r \in Requests : sid[q] # NoSession /\ sid[q] = sid[r] => q = r
           /\ \A r \in Requests : caller[r] \in {"ready", "streaming", "stopped"} =>
                 proxy[r] \in Sessions /\ proxy[r] = sid[r] /\ serving[r] = "done"
  <1>1. \A q, r \in Requests : sid[q] # NoSession /\ sid[q] = sid[r] => q = r
    BY DEF SessionsAreDistinct, Drawn
  <1> QED
    BY <1>1, Messages DEF TypeOK, CallersStand

LEMMA RelayStillFollows ==
    ASSUME RelayInv, [Next]_vars
    PROVE  RelayFollows'
  <1> USE DEF workerVars, bridgeVars, processVars
  <1>t. TypeOK /\ CallersStand /\ SessionsAreDistinct /\ RelayFollows /\ AnswersWait
    BY DEF RelayInv
  <1>o. /\ \A q, r \in Requests : proxy[q] # NoSession /\ proxy[q] = proxy[r] => q = r
        /\ \A q, r \in Requests : proxy[q] # NoSession /\ proxy[q] = sid[r] => q = r
        /\ \A r \in Requests : caller[r] \in {"ready", "streaming", "stopped"} => proxy[r] \in Sessions
        /\ NoSession \notin Sessions
    BY <1>t, OneOwner, Messages
  <1>1. ASSUME NEW r \in Requests, Open(r) \/ OpenTimesOut(r) \/ SendAudio(r) PROVE RelayFollows'
    BY <1>t, <1>1 DEF TypeOK, RelayFollows, Open, OpenTimesOut, SendAudio
  <1>2. ASSUME NEW r \in Requests, Start(r) \/ Stop(r) PROVE RelayFollows'
    <2>1. /\ \A q \in Requests : caller'[q] = "ready" => relay'[proxy[q]] = "buffering"
          /\ \A q \in Requests : caller'[q] = "streaming" => relay'[proxy[q]] = "streaming"
          /\ \A q \in Requests : caller'[q] = "stopped" => relay'[proxy[q]] = "none"
      <3>1. ASSUME NEW q \in Requests, q # r
            PROVE  /\ caller'[q] = caller[q]
                   /\ caller[q] \in {"ready", "streaming", "stopped"} => relay'[proxy[q]] = relay[proxy[q]]
        <4>1. caller[r] \in {"ready", "streaming"}
          BY <1>2 DEF Start, Stop
        <4>2. caller[q] \in {"ready", "streaming", "stopped"} => proxy[q] \in Sessions /\ proxy[q] # proxy[r]
          BY <1>o, <3>1, <4>1
        <4> QED
          BY <1>t, <1>2, <3>1, <4>2 DEF TypeOK, Start, Stop
      <3>2. proxy[r] \in Sessions
        BY <1>o, <1>2 DEF Start, Stop
      <3>3. \/ caller'[r] = "streaming" /\ relay'[proxy[r]] = "streaming"
            \/ caller'[r] = "stopped" /\ relay'[proxy[r]] = "none"
        BY <1>t, <1>2, <3>2 DEF TypeOK, Start, Stop
      <3> QED
        BY <1>t, <3>1, <3>3 DEF RelayFollows
    <2>2. \A s \in Sessions : s # proxy[r] =>
             relay'[s] = relay[s] /\ buffer'[s] = buffer[s] /\ delivered'[s] = delivered[s]
      BY <1>t, <1>2 DEF TypeOK, Start, Stop
    <2>3. UNCHANGED <<proxy, overflowed>>
      BY <1>2 DEF Start, Stop
    <2>4. \A s \in Sessions : (\A q \in Requests : proxy'[q] # s) =>
            relay'[s] = "none" /\ buffer'[s] = <<>> /\ delivered'[s] = <<>> /\ s \notin overflowed'
      BY <1>t, <2>2, <2>3 DEF RelayFollows
    <2> QED
      BY <2>1, <2>3, <2>4 DEF RelayFollows
  <1>3. ASSUME WorkerReceives, TakeOpened(Head(toWorker)) PROVE RelayFollows'
    <2> DEFINE m == Head(toWorker)
    <2>1. m \in ToWorkerMsg /\ 1 \in DOMAIN toWorker /\ m = toWorker[1]
      BY <1>t, <1>3, QueueShrinks DEF TypeOK, WorkerReceives
    <2>2. m.id \in Requests /\ proxy[m.id] = NoSession /\ m.info \in Ids
          /\ (m.info # NoSession => m.info = sid[m.id] /\ m.info \in Sessions)
      BY <1>t, <1>3, <2>1, Messages DEF TakeOpened, AnswersWait, Answer
    <2>3. TakeOpened(m)
      BY <1>3
    <2> HIDE DEF m
    <2>4. CASE UNCHANGED <<proxy, relay>>
      <3>1. UNCHANGED <<buffer, delivered, overflowed>> /\ \A q \in Requests : caller'[q] \in {caller[q], "refused"}
        BY <1>t, <2>2, <2>3, <2>4 DEF TypeOK, TakeOpened
      <3> QED
        BY <1>t, <2>4, <3>1 DEF RelayFollows
    <2>5. CASE /\ m.info # NoSession
               /\ caller' = [caller EXCEPT ![m.id] = "ready"]
               /\ proxy' = [proxy EXCEPT ![m.id] = m.info]
               /\ relay' = [relay EXCEPT ![m.info] = "buffering"]
               /\ UNCHANGED <<buffer, delivered, overflowed>>
      <3>1. \A q \in Requests : q # m.id => caller'[q] = caller[q] /\ proxy'[q] = proxy[q]
        BY <1>t, <2>2, <2>5 DEF TypeOK
      <3>2. caller'[m.id] = "ready" /\ proxy'[m.id] = m.info /\ relay'[m.info] = "buffering"
        BY <1>t, <2>2, <2>5 DEF TypeOK
      <3>3. \A q \in Requests : q # m.id /\ proxy[q] # NoSession => proxy[q] # m.info
        BY <1>o, <2>2, <2>5
      <3>4. \A s \in Sessions : s # m.info => relay'[s] = relay[s]
        BY <1>t, <2>2, <2>5 DEF TypeOK
      <3>5. \A q \in Requests : caller'[q] \in {"ready", "streaming", "stopped"} /\ q # m.id =>
               relay'[proxy'[q]] = relay[proxy[q]]
        BY <1>o, <3>1, <3>3, <3>4
      <3>6. /\ \A q \in Requests : caller'[q] = "ready" => relay'[proxy'[q]] = "buffering"
            /\ \A q \in Requests : caller'[q] = "streaming" => relay'[proxy'[q]] = "streaming"
            /\ \A q \in Requests : caller'[q] = "stopped" => relay'[proxy'[q]] = "none"
        BY <1>t, <3>1, <3>2, <3>5 DEF RelayFollows
      <3>7. ASSUME NEW s \in Sessions, \A q \in Requests : proxy'[q] # s
            PROVE  relay'[s] = "none" /\ buffer'[s] = <<>> /\ delivered'[s] = <<>> /\ s \notin overflowed'
        <4>1. s # m.info /\ \A q \in Requests : proxy[q] # s
          BY <1>o, <2>2, <3>1, <3>2, <3>7
        <4> QED
          BY <1>t, <2>5, <3>4, <4>1 DEF RelayFollows
      <3> QED
        BY <3>6, <3>7 DEF RelayFollows
    <2> QED
      BY <2>3, <2>4, <2>5 DEF TakeOpened
  <1>4. ASSUME WorkerReceives, TakeEvent(Head(toWorker)) PROVE RelayFollows'
    <2> DEFINE m == Head(toWorker)
    <2>0. m \in ToWorkerMsg
      BY <1>t, <1>4, QueueShrinks DEF TypeOK, WorkerReceives
    <2>1. TakeEvent(m) /\ m.id \in Sessions
      BY <1>4, <2>0, Messages DEF TakeEvent
    <2> HIDE DEF m
    <2>2. UNCHANGED <<caller, proxy, relay>>
      BY <2>1 DEF TakeEvent
    <2>3. \A s \in Sessions : relay[s] = "none" =>
             buffer'[s] = buffer[s] /\ delivered'[s] = delivered[s] /\ (s \notin overflowed => s \notin overflowed')
      <3>1. ASSUME relay[m.id] = "streaming", NEW s \in Sessions, s # m.id
            PROVE  buffer'[s] = buffer[s] /\ delivered'[s] = delivered[s] /\ overflowed' = overflowed
        BY <1>t, <2>1, <3>1 DEF TypeOK, TakeEvent
      <3>2. ASSUME relay[m.id] = "buffering", NEW s \in Sessions, s # m.id
            PROVE  /\ buffer'[s] = buffer[s] /\ delivered'[s] = delivered[s]
                   /\ overflowed' \subseteq overflowed \cup {m.id}
        BY <1>t, <2>1, <3>2 DEF TypeOK, TakeEvent
      <3>3. ASSUME relay[m.id] = "none" PROVE UNCHANGED <<buffer, delivered, overflowed>>
        BY <2>1, <3>3 DEF TakeEvent
      <3>4. relay[m.id] \in {"none", "buffering", "streaming"}
        BY <1>t, <2>1 DEF TypeOK
      <3> QED
        BY <3>1, <3>2, <3>3, <3>4
    <2>4. \A r \in Requests :
             /\ caller'[r] = "ready" => relay'[proxy'[r]] = "buffering"
             /\ caller'[r] = "streaming" => relay'[proxy'[r]] = "streaming"
             /\ caller'[r] = "stopped" => relay'[proxy'[r]] = "none"
      BY <1>t, <2>2 DEF RelayFollows
    <2>5. \A s \in Sessions : (\A q \in Requests : proxy'[q] # s) =>
            relay'[s] = "none" /\ buffer'[s] = <<>> /\ delivered'[s] = <<>> /\ s \notin overflowed'
      BY <1>t, <2>2, <2>3 DEF RelayFollows
    <2> QED
      BY <2>4, <2>5 DEF RelayFollows
  <1>5. ASSUME UNCHANGED workerVars PROVE RelayFollows'
    BY <1>t, <1>5 DEF RelayFollows
  <1>6. \/ \E r \in Requests : Open(r) \/ OpenTimesOut(r) \/ SendAudio(r) \/ Start(r) \/ Stop(r)
        \/ WorkerReceives /\ (TakeOpened(Head(toWorker)) \/ TakeEvent(Head(toWorker)))
        \/ UNCHANGED workerVars
    BY DEF Next, WorkerReceives, DaemonReceives, SessionRefused, SessionOpens, SessionStarts, StartFails, Emit,
           ShutdownRuntime, WorkerDies, WorkerExitSeen, vars
  <1> QED
    BY <1>1, <1>2, <1>3, <1>4, <1>5, <1>6


LEMMA RequestsStillWait ==
    ASSUME RelayInv, [Next]_vars
    PROVE  RequestsWait'
  <1> USE DEF workerVars, bridgeVars, processVars
  <1>t. TypeOK /\ CallersStand /\ RequestsWait /\ toDaemon \in Seq(ToDaemonMsg)
    BY DEF RelayInv, TypeOK
  <1>1. ASSUME NEW r \in Requests, Open(r) PROVE RequestsWait'
    <2> DEFINE m == Msg("open", r, 0)
    <2>1. toDaemon' = Append(toDaemon, m) /\ caller[r] = "idle" /\ UNCHANGED serving
          /\ caller' = [caller EXCEPT ![r] = "opening"]
      BY <1>1 DEF Open, SendToDaemon
    <2>2. m \in ToDaemonMsg /\ m.kind = "open" /\ m.id = r /\ serving[r] = "idle"
      BY <1>t, <2>1, Messages DEF Msg, CallersStand
    <2>3. \A n \in DOMAIN toDaemon : toDaemon[n] # m
      BY <1>t, <2>1, <2>2 DEF RequestsWait
    <2>4. \A q \in Requests : caller[q] # "idle" => caller'[q] # "idle"
      BY <1>t, <2>1 DEF TypeOK
    <2>5. caller'[r] # "idle"
      BY <1>t, <2>1 DEF TypeOK
    <2>6. \A n \in DOMAIN toDaemon : toDaemon[n].kind = "open" => toDaemon[n].id \in Requests
      BY <1>t, ElementOfSeq, LenProperties, Messages
    <2> HIDE DEF m
    <2>7. /\ \A n \in DOMAIN toDaemon : toDaemon'[n] = toDaemon[n]
          /\ toDaemon'[Len(toDaemon) + 1] = m
          /\ \A n \in DOMAIN toDaemon' : n = Len(toDaemon) + 1 \/ n \in DOMAIN toDaemon
      BY <1>t, <2>1, <2>2, QueueGrows
    <2>8. \A n \in DOMAIN toDaemon' : toDaemon'[n].kind = "open" =>
             serving'[toDaemon'[n].id] = "idle" /\ caller'[toDaemon'[n].id] # "idle"
      BY <1>t, <2>1, <2>2, <2>4, <2>5, <2>6, <2>7 DEF RequestsWait
    <2>9. \A i, n \in DOMAIN toDaemon' : toDaemon'[i].kind = "open" /\ toDaemon'[n] = toDaemon'[i] => i = n
      BY <1>t, <2>3, <2>7 DEF RequestsWait
    <2> QED
      BY <2>8, <2>9 DEF RequestsWait
  <1>2. ASSUME NEW r \in Requests, SendAudio(r) \/ Stop(r) PROVE RequestsWait'
    <2>1. PICK m \in ToDaemonMsg : toDaemon' = Append(toDaemon, m) /\ m.kind # "open"
      <3>1. proxy[r] \in Sessions
        BY <1>t, <1>2, Messages DEF TypeOK, CallersStand, SendAudio, Stop
      <3>2. \/ toDaemon' = Append(toDaemon, Msg("audio", proxy[r], 0))
            \/ toDaemon' = Append(toDaemon, Msg("stop", proxy[r], 0))
        BY <1>2 DEF SendAudio, Stop, SendToDaemon
      <3> QED
        BY <3>1, <3>2, Messages DEF Msg
    <2>2. /\ \A n \in DOMAIN toDaemon : toDaemon'[n] = toDaemon[n]
          /\ toDaemon'[Len(toDaemon) + 1] = m
          /\ \A n \in DOMAIN toDaemon' : n = Len(toDaemon) + 1 \/ n \in DOMAIN toDaemon
      BY <1>t, <2>1, QueueGrows
    <2>3. UNCHANGED serving /\ \A q \in Requests : caller[q] # "idle" => caller'[q] # "idle"
      BY <1>t, <1>2 DEF TypeOK, SendAudio, Stop
    <2>4. \A n \in DOMAIN toDaemon : toDaemon[n].kind = "open" => toDaemon[n].id \in Requests
      BY <1>t, ElementOfSeq, LenProperties, Messages
    <2>5. \A n \in DOMAIN toDaemon' : toDaemon'[n].kind = "open" =>
             serving'[toDaemon'[n].id] = "idle" /\ caller'[toDaemon'[n].id] # "idle"
      BY <1>t, <2>1, <2>2, <2>3, <2>4 DEF RequestsWait
    <2>6. \A i, n \in DOMAIN toDaemon' : toDaemon'[i].kind = "open" /\ toDaemon'[n] = toDaemon'[i] => i = n
      BY <1>t, <2>1, <2>2 DEF RequestsWait
    <2> QED
      BY <2>5, <2>6 DEF RequestsWait
  <1>3. ASSUME DaemonReceives PROVE RequestsWait'
    <2> DEFINE m == Head(toDaemon)
    <2>1. /\ m \in ToDaemonMsg /\ 1 \in DOMAIN toDaemon /\ m = toDaemon[1]
          /\ \A n \in DOMAIN toDaemon' : n \in Nat /\ n > 0 /\ n + 1 \in DOMAIN toDaemon /\ toDaemon'[n] = toDaemon[n + 1]
      BY <1>t, <1>3, QueueShrinks DEF DaemonReceives
    <2>2. \/ m.kind = "open" /\ serving' = [serving EXCEPT ![m.id] = "opening"]
          \/ m.kind # "open" /\ UNCHANGED serving
      BY <1>3 DEF DaemonReceives
    <2>3. UNCHANGED caller
      BY <1>3 DEF DaemonReceives
    <2> HIDE DEF m
    <2>4. ASSUME NEW n \in DOMAIN toDaemon', toDaemon'[n].kind = "open"
          PROVE  serving'[toDaemon'[n].id] = "idle" /\ caller'[toDaemon'[n].id] # "idle"
      <3>1. n + 1 \in DOMAIN toDaemon /\ n + 1 # 1 /\ toDaemon'[n] = toDaemon[n + 1]
        BY <2>1
      <3>2. toDaemon[n + 1] # m
        BY <1>t, <2>1, <2>4, <3>1 DEF RequestsWait
      <3>3. toDaemon[n + 1] \in ToDaemonMsg
        BY <1>t, <3>1, ElementOfSeq, LenProperties
      <3>4. toDaemon[n + 1].id \in Requests /\ (m.kind = "open" => toDaemon[n + 1].id # m.id)
        BY <2>1, <2>4, <3>1, <3>2, <3>3, Messages
      <3> QED
        BY <1>t, <2>2, <2>3, <2>4, <3>1, <3>4 DEF TypeOK, RequestsWait
    <2>5. ASSUME NEW i \in DOMAIN toDaemon', NEW n \in DOMAIN toDaemon',
                 toDaemon'[i].kind = "open", toDaemon'[n] = toDaemon'[i]
          PROVE  i = n
      <3>1. i + 1 = n + 1
        BY <1>t, <2>1, <2>5 DEF RequestsWait
      <3> QED
        BY <2>1, <3>1
    <2> QED
      BY <2>4, <2>5 DEF RequestsWait
  <1>4. ASSUME UNCHANGED toDaemon,
               \A r \in Requests : (serving[r] = "idle" => serving'[r] = "idle") /\ (caller[r] # "idle" => caller'[r] # "idle")
        PROVE  RequestsWait'
    <2>1. \A n \in DOMAIN toDaemon : toDaemon[n].kind = "open" => toDaemon[n].id \in Requests
      BY <1>t, ElementOfSeq, LenProperties, Messages
    <2> QED
      BY <1>t, <1>4, <2>1 DEF RequestsWait
  <1>5. ASSUME NEW r \in Requests,
               OpenTimesOut(r) \/ Start(r) \/ SessionRefused(r) \/ SessionOpens(r) \/ SessionStarts(r) \/ StartFails(r)
        PROVE  RequestsWait'
    BY <1>t, <1>4, <1>5 DEF TypeOK, OpenTimesOut, Start, SessionRefused, SessionOpens, SessionStarts, StartFails
  <1>6. ASSUME WorkerReceives PROVE RequestsWait'
    BY <1>t, <1>4, <1>6 DEF TypeOK, WorkerReceives, TakeOpened, TakeEvent
  <1>7. ASSUME \/ \E s \in Sessions : Emit(s)
               \/ ShutdownRuntime \/ WorkerDies \/ WorkerExitSeen \/ UNCHANGED vars
        PROVE  RequestsWait'
    BY <1>4, <1>7 DEF Emit, ShutdownRuntime, WorkerDies, WorkerExitSeen, vars
  <1> QED
    BY <1>1, <1>2, <1>3, <1>5, <1>6, <1>7 DEF Next

LEMMA AnswersStillWait ==
    ASSUME RelayInv, [Next]_vars
    PROVE  AnswersWait'
  <1> USE DEF workerVars, bridgeVars, processVars
  <1>t. TypeOK /\ CallersStand /\ AnswersWait /\ toWorker \in Seq(ToWorkerMsg)
    BY DEF RelayInv, TypeOK
  <1>m. \A n \in DOMAIN toWorker : toWorker[n] \in ToWorkerMsg /\ (Answer(n) => toWorker[n].id \in Requests)
    BY <1>t, ElementOfSeq, LenProperties, Messages DEF Answer
  <1>1. ASSUME NEW r \in Requests, NEW i \in Ids, serving[r] \in {"opening", "starting"},
               serving' = [serving EXCEPT ![r] = "done"], UNCHANGED <<proxy, sid>>,
               SendToWorker(Msg("opened", r, i)), i # NoSession => i = sid[r]
        PROVE  AnswersWait'
    <2> DEFINE m == Msg("opened", r, i)
    <2>1. m \in ToWorkerMsg /\ m.kind = "opened" /\ m.id = r /\ m.info = i
      BY Messages DEF Msg
    <2>2. proxy[r] = NoSession /\ \A n \in DOMAIN toWorker : Answer(n) => toWorker[n].id # r
      BY <1>t, <1>1 DEF CallersStand, AnswersWait
    <2>3. \A q \in Requests : serving[q] = "done" => serving'[q] = "done"
      BY <1>t, <1>1 DEF TypeOK
    <2>4. serving'[r] = "done"
      BY <1>t, <1>1 DEF TypeOK
    <2> HIDE DEF m
    <2>5. CASE toWorker' = toWorker
      BY <1>t, <1>m, <1>1, <2>3, <2>5 DEF AnswersWait, Answer
    <2>6. CASE toWorker' = Append(toWorker, m)
      <3>1. /\ \A n \in DOMAIN toWorker : toWorker'[n] = toWorker[n]
            /\ toWorker'[Len(toWorker) + 1] = m
            /\ \A n \in DOMAIN toWorker' : n = Len(toWorker) + 1 \/ n \in DOMAIN toWorker
        BY <1>t, <2>1, <2>6, QueueGrows
      <3>2. ASSUME NEW n \in DOMAIN toWorker', toWorker'[n].kind = "opened"
            PROVE  LET q == toWorker'[n].id IN
                   /\ serving'[q] = "done" /\ proxy'[q] = NoSession
                   /\ toWorker'[n].info # NoSession => toWorker'[n].info = sid'[q]
        <4>1. CASE n = Len(toWorker) + 1
          BY <1>1, <2>1, <2>2, <2>4, <3>1, <4>1
        <4>2. CASE n \in DOMAIN toWorker
          BY <1>t, <1>m, <1>1, <2>3, <3>1, <3>2, <4>2 DEF AnswersWait, Answer
        <4> QED
          BY <3>1, <4>1, <4>2
      <3>3. \A k, n \in DOMAIN toWorker' : toWorker'[k].kind = "opened" /\ toWorker'[n].kind = "opened"
                                           /\ toWorker'[k].id = toWorker'[n].id => k = n
        BY <1>t, <2>1, <2>2, <3>1 DEF AnswersWait, Answer
      <3> QED
        BY <3>2, <3>3 DEF AnswersWait, Answer
    <2> QED
      BY <1>1, <2>5, <2>6 DEF SendToWorker, m
  <1>2. ASSUME NEW r \in Requests, SessionRefused(r) \/ SessionStarts(r) \/ StartFails(r) PROVE AnswersWait'
    <2>1. NoSession \in Ids /\ sid[r] \in Ids
      BY <1>t, Messages DEF TypeOK
    <2>2. CASE SessionRefused(r)
      BY <1>1, <2>1, <2>2 DEF SessionRefused
    <2>3. CASE SessionStarts(r)
      BY <1>1, <2>1, <2>3 DEF SessionStarts
    <2>4. CASE StartFails(r)
      BY <1>1, <2>1, <2>4 DEF StartFails
    <2> QED
      BY <1>2, <2>2, <2>3, <2>4
  <1>3. ASSUME WorkerReceives PROVE AnswersWait'
    <2> DEFINE m == Head(toWorker)
    <2>1. /\ m \in ToWorkerMsg /\ 1 \in DOMAIN toWorker /\ m = toWorker[1]
          /\ \A n \in DOMAIN toWorker' : n \in Nat /\ n > 0 /\ n + 1 \in DOMAIN toWorker /\ toWorker'[n] = toWorker[n + 1]
      BY <1>t, <1>3, QueueShrinks DEF WorkerReceives
    <2>2. TakeOpened(m) \/ TakeEvent(m)
      BY <1>3 DEF WorkerReceives
    <2>3. UNCHANGED <<serving, sid>>
      BY <1>3 DEF WorkerReceives
    <2> HIDE DEF m
    <2>4. \A q \in Requests : (m.kind = "opened" /\ m.id = q) \/ proxy'[q] = proxy[q]
      BY <1>t, <2>2 DEF TypeOK, TakeOpened, TakeEvent
    <2>5. ASSUME NEW n \in DOMAIN toWorker', toWorker'[n].kind = "opened"
          PROVE  LET q == toWorker'[n].id IN
                 /\ serving'[q] = "done" /\ proxy'[q] = NoSession
                 /\ toWorker'[n].info # NoSession => toWorker'[n].info = sid'[q]
      <3>1. n + 1 \in DOMAIN toWorker /\ n + 1 # 1 /\ toWorker'[n] = toWorker[n + 1] /\ Answer(n + 1)
        BY <2>1, <2>5 DEF Answer
      <3>2. toWorker[n + 1].id \in Requests /\ ~(m.kind = "opened" /\ m.id = toWorker[n + 1].id)
        BY <1>t, <1>m, <2>1, <3>1 DEF AnswersWait, Answer
      <3> QED
        BY <1>t, <2>3, <2>4, <3>1, <3>2 DEF AnswersWait
    <2>6. ASSUME NEW k \in DOMAIN toWorker', NEW n \in DOMAIN toWorker', toWorker'[k].kind = "opened",
                 toWorker'[n].kind = "opened", toWorker'[k].id = toWorker'[n].id
          PROVE  k = n
      <3>1. k + 1 = n + 1
        BY <1>t, <2>1, <2>6 DEF AnswersWait, Answer
      <3> QED
        BY <2>1, <3>1
    <2> QED
      BY <2>5, <2>6 DEF AnswersWait, Answer
  <1>4. ASSUME NEW r \in Requests, SessionOpens(r) PROVE AnswersWait'
    <2>1. \A q \in Requests : serving[q] = "done" => serving'[q] = "done" /\ sid'[q] = sid[q]
      BY <1>t, <1>4 DEF TypeOK, SessionOpens
    <2>2. UNCHANGED <<toWorker, proxy>>
      BY <1>4 DEF SessionOpens
    <2> QED
      BY <1>t, <1>m, <2>1, <2>2 DEF AnswersWait, Answer
  <1>5. ASSUME DaemonReceives PROVE AnswersWait'
    <2>1. \A q \in Requests : serving[q] = "done" => serving'[q] = "done"
      <3>1. Head(toDaemon) \in ToDaemonMsg /\ 1 \in DOMAIN toDaemon /\ Head(toDaemon) = toDaemon[1]
        BY <1>t, <1>5, QueueShrinks DEF TypeOK, DaemonReceives
      <3>2. Head(toDaemon).kind = "open" => serving[Head(toDaemon).id] = "idle" /\ Head(toDaemon).id \in Requests
        BY <3>1, Messages DEF RelayInv, RequestsWait
      <3> QED
        BY <1>t, <1>5, <3>2 DEF TypeOK, DaemonReceives
    <2>2. UNCHANGED <<toWorker, proxy, sid>>
      BY <1>5 DEF DaemonReceives
    <2> QED
      BY <1>t, <1>m, <2>1, <2>2 DEF AnswersWait, Answer
  <1>6. ASSUME NEW s \in Sessions, Emit(s) PROVE AnswersWait'
    <2>1. PICK m \in ToWorkerMsg : m.kind = "event" /\ SendToWorker(m)
      <3>1. emitted'[s] \in 1..MaxEvents
        BY <1>t, <1>6, RelayConstants DEF TypeOK, Emit
      <3> QED
        BY <1>6, <3>1, Messages DEF Emit, Msg
    <2>2. UNCHANGED <<serving, proxy, sid>>
      BY <1>6 DEF Emit
    <2>3. CASE toWorker' = Append(toWorker, m)
      <3>1. /\ \A n \in DOMAIN toWorker : toWorker'[n] = toWorker[n]
            /\ toWorker'[Len(toWorker) + 1] = m
            /\ \A n \in DOMAIN toWorker' : n = Len(toWorker) + 1 \/ n \in DOMAIN toWorker
        BY <1>t, <2>1, <2>3, QueueGrows
      <3> QED
        BY <1>t, <2>1, <2>2, <3>1 DEF AnswersWait, Answer
    <2>4. CASE toWorker' = toWorker
      BY <1>t, <2>2, <2>4 DEF AnswersWait, Answer
    <2> QED
      BY <2>1, <2>3, <2>4 DEF SendToWorker
  <1>7. ASSUME WorkerDies PROVE AnswersWait'
    <2>1. DOMAIN toWorker' = {}
      BY <1>7, EmptySeq DEF WorkerDies
    <2> QED
      BY <2>1 DEF AnswersWait
  <1>8. ASSUME UNCHANGED <<serving, proxy, sid, toWorker>> PROVE AnswersWait'
    BY <1>t, <1>8 DEF AnswersWait, Answer
  <1>9. \/ \E r \in Requests : SessionRefused(r) \/ SessionStarts(r) \/ StartFails(r) \/ SessionOpens(r)
        \/ WorkerReceives \/ DaemonReceives \/ \E s \in Sessions : Emit(s)
        \/ WorkerDies \/ UNCHANGED <<serving, proxy, sid, toWorker>>
    BY DEF Next, Open, OpenTimesOut, Start, SendAudio, Stop, ShutdownRuntime, WorkerExitSeen, vars
  <1> QED
    BY <1>2, <1>3, <1>4, <1>5, <1>6, <1>7, <1>8, <1>9

(* A caller that has its session keeps it.                                 *)
LEMMA CallersGoOn ==
    ASSUME TypeOK, CallersStand, [Next]_vars
    PROVE  \A r \in Requests :
              /\ caller[r] = "ready" => caller'[r] \in {"ready", "streaming"}
              /\ caller[r] = "streaming" => caller'[r] \in {"streaming", "stopped"}
              /\ caller[r] = "stopped" => caller'[r] = "stopped"
              /\ proxy[r] # NoSession => proxy'[r] = proxy[r]
  <1> USE DEF workerVars, bridgeVars, processVars
  <1>1. ASSUME NEW q \in Requests, Open(q) \/ OpenTimesOut(q) \/ Start(q) \/ SendAudio(q) \/ Stop(q),
               NEW r \in Requests
        PROVE  /\ caller[r] = "ready" => caller'[r] \in {"ready", "streaming"}
               /\ caller[r] = "streaming" => caller'[r] \in {"streaming", "stopped"}
               /\ caller[r] = "stopped" => caller'[r] = "stopped"
               /\ proxy'[r] = proxy[r]
    <2>1. CASE Open(q) \/ OpenTimesOut(q)
      BY <1>1, <2>1 DEF TypeOK, CallersStand, Open, OpenTimesOut
    <2>2. CASE Start(q) \/ SendAudio(q) \/ Stop(q)
      BY <1>1, <2>2 DEF TypeOK, CallersStand, Start, SendAudio, Stop
    <2> QED
      BY <1>1, <2>1, <2>2
  <1>2. ASSUME TakeOpened(Head(toWorker)), NEW r \in Requests
        PROVE  /\ caller[r] \in {"ready", "streaming", "stopped"} => caller'[r] = caller[r]
               /\ proxy[r] # NoSession => proxy'[r] = proxy[r]
    BY <1>2 DEF TypeOK, CallersStand, TakeOpened
  <1>3. \/ \E q \in Requests : Open(q) \/ OpenTimesOut(q) \/ Start(q) \/ SendAudio(q) \/ Stop(q)
        \/ TakeOpened(Head(toWorker))
        \/ UNCHANGED <<caller, proxy>>
    BY DEF Next, WorkerReceives, TakeEvent, DaemonReceives, SessionRefused, SessionOpens, SessionStarts, StartFails,
           Emit, ShutdownRuntime, WorkerDies, WorkerExitSeen, vars
  <1> QED
    BY <1>1, <1>2, <1>3

LEMMA OwnersStillWrote ==
    ASSUME RelayInv, [Next]_vars
    PROVE  OwnersWrote'
  <1> USE DEF workerVars, bridgeVars, processVars
  <1>t. TypeOK /\ CallersStand /\ OwnersWrote /\ toDaemon \in Seq(ToDaemonMsg)
    BY DEF RelayInv, TypeOK
  <1>o. ASSUME NEW n \in DOMAIN toDaemon
        PROVE  /\ toDaemon[n].kind = "stop" => \E r \in Requests : proxy'[r] = toDaemon[n].id /\ caller'[r] = "stopped"
               /\ toDaemon[n].kind = "audio" =>
                     \E r \in Requests : proxy'[r] = toDaemon[n].id /\ caller'[r] \in {"streaming", "stopped"}
    BY <1>t, CallersGoOn DEF OwnersWrote, Owned, CallersStand
  <1>1. ASSUME NEW m \in ToDaemonMsg, toDaemon' = Append(toDaemon, m),
               m.kind = "stop" => \E r \in Requests : proxy'[r] = m.id /\ caller'[r] = "stopped",
               m.kind = "audio" => \E r \in Requests : proxy'[r] = m.id /\ caller'[r] \in {"streaming", "stopped"}
        PROVE  OwnersWrote'
    <2>1. /\ \A n \in DOMAIN toDaemon : toDaemon'[n] = toDaemon[n]
          /\ toDaemon'[Len(toDaemon) + 1] = m
          /\ \A n \in DOMAIN toDaemon' : n = Len(toDaemon) + 1 \/ n \in DOMAIN toDaemon
      BY <1>t, <1>1, QueueGrows
    <2> QED
      BY <1>o, <1>1, <2>1 DEF OwnersWrote, Owned
  <1>2. ASSUME NEW r \in Requests, Open(r) PROVE OwnersWrote'
    <2>1. Msg("open", r, 0) \in ToDaemonMsg /\ Msg("open", r, 0).kind = "open"
      BY Messages DEF Msg
    <2> QED
      BY <1>1, <1>2, <2>1 DEF Open, SendToDaemon
  <1>3. ASSUME NEW r \in Requests, SendAudio(r) PROVE OwnersWrote'
    <2>1. proxy[r] \in Sessions /\ caller'[r] = "streaming" /\ proxy'[r] = proxy[r]
      BY <1>t, <1>3, Messages DEF TypeOK, CallersStand, SendAudio
    <2>2. LET m == Msg("audio", proxy[r], 0) IN m \in ToDaemonMsg /\ m.kind = "audio" /\ m.id = proxy[r]
      BY <2>1, Messages DEF Msg
    <2> QED
      BY <1>1, <1>3, <2>1, <2>2 DEF SendAudio, SendToDaemon
  <1>4. ASSUME NEW r \in Requests, Stop(r) PROVE OwnersWrote'
    <2>1. proxy[r] \in Sessions /\ caller'[r] = "stopped" /\ proxy'[r] = proxy[r]
      BY <1>t, <1>4, Messages DEF TypeOK, CallersStand, Stop
    <2>2. LET m == Msg("stop", proxy[r], 0) IN m \in ToDaemonMsg /\ m.kind = "stop" /\ m.id = proxy[r]
      BY <2>1, Messages DEF Msg
    <2> QED
      BY <1>1, <1>4, <2>1, <2>2 DEF Stop, SendToDaemon
  <1>5. ASSUME DaemonReceives PROVE OwnersWrote'
    <2>1. \A n \in DOMAIN toDaemon' : n + 1 \in DOMAIN toDaemon /\ toDaemon'[n] = toDaemon[n + 1]
      BY <1>t, <1>5, QueueShrinks DEF DaemonReceives
    <2> QED
      BY <1>o, <2>1 DEF OwnersWrote, Owned
  <1>6. ASSUME UNCHANGED toDaemon PROVE OwnersWrote'
    BY <1>o, <1>6 DEF OwnersWrote, Owned
  <1>7. \/ \E r \in Requests : Open(r) \/ SendAudio(r) \/ Stop(r)
        \/ DaemonReceives \/ UNCHANGED toDaemon
    BY DEF Next, OpenTimesOut, Start, WorkerReceives, SessionRefused, SessionOpens, SessionStarts, StartFails, Emit,
           ShutdownRuntime, WorkerDies, WorkerExitSeen, vars
  <1> QED
    BY <1>2, <1>3, <1>4, <1>5, <1>6, <1>7

LEMMA StopsStillArrive ==
    ASSUME RelayInv, [Next]_vars
    PROVE  StopsArrive'
  <1> USE DEF workerVars, bridgeVars, processVars
  <1>t. TypeOK /\ CallersStand /\ SessionsAreDistinct /\ StopsArrive /\ toDaemon \in Seq(ToDaemonMsg)
    BY DEF RelayInv, TypeOK
  <1>1. ASSUME NEW r \in Requests, caller[r] = "stopped" PROVE sid'[r] = sid[r]
    BY <1>t, <1>1 DEF TypeOK, CallersStand, Next, Open, OpenTimesOut, Start, SendAudio, Stop, WorkerReceives,
           DaemonReceives, SessionRefused, SessionOpens, SessionStarts, StartFails, Emit, ShutdownRuntime,
           WorkerDies, WorkerExitSeen, vars
  <1>2. ASSUME NEW r \in Requests, Stop(r) PROVE StopsArrive'
    <2>1. /\ toDaemon' = Append(toDaemon, Msg("stop", proxy[r], 0)) /\ proxy[r] = sid[r] /\ proxy[r] \in Sessions
          /\ UNCHANGED <<live, sid>> /\ \A q \in Requests : q # r => caller'[q] = caller[q]
      BY <1>t, <1>2, Messages DEF TypeOK, CallersStand, Stop, SendToDaemon
    <2>2. /\ \A n \in DOMAIN toDaemon : n \in DOMAIN toDaemon' /\ toDaemon'[n] = toDaemon[n]
          /\ Len(toDaemon) + 1 \in DOMAIN toDaemon' /\ toDaemon'[Len(toDaemon) + 1] = Msg("stop", proxy[r], 0)
      BY <1>t, <2>1, Messages, QueueGrows
    <2> QED
      BY <1>t, <2>1, <2>2 DEF StopsArrive, Msg
  <1>3. ASSUME NEW r \in Requests, Open(r) \/ SendAudio(r) PROVE StopsArrive'
    <2>1. PICK m \in ToDaemonMsg : toDaemon' = Append(toDaemon, m)
      <3>1. caller[r] = "streaming" => proxy[r] \in Sessions
        BY <1>t, Messages DEF TypeOK, CallersStand
      <3> QED
        BY <1>3, <3>1, Messages DEF Open, SendAudio, SendToDaemon
    <2>2. \A n \in DOMAIN toDaemon : n \in DOMAIN toDaemon' /\ toDaemon'[n] = toDaemon[n]
      BY <1>t, <2>1, QueueGrows
    <2>3. UNCHANGED <<live, sid>> /\ \A q \in Requests : caller'[q] = "stopped" => caller[q] = "stopped"
      BY <1>t, <1>3 DEF TypeOK, Open, SendAudio
    <2> QED
      BY <1>t, <2>2, <2>3 DEF StopsArrive, Msg
  <1>4. ASSUME DaemonReceives PROVE StopsArrive'
    <2> DEFINE m == Head(toDaemon)
    <2>1. /\ m \in ToDaemonMsg /\ m = toDaemon[1]
          /\ \A n \in DOMAIN toDaemon : n # 1 => n - 1 \in DOMAIN toDaemon' /\ toDaemon'[n - 1] = toDaemon[n]
      BY <1>t, <1>4, QueueShrinks DEF DaemonReceives
    <2>2. UNCHANGED <<caller, sid>> /\ (IF m.kind = "stop" THEN live' = live \ {m.id} ELSE live' = live)
      BY <1>4 DEF DaemonReceives
    <2> HIDE DEF m
    <2>3. ASSUME NEW r \in Requests, caller'[r] = "stopped", sid'[r] \in live'
          PROVE  \E n \in DOMAIN toDaemon' : toDaemon'[n] = Msg("stop", sid'[r], 0)
      <3>1. PICK n \in DOMAIN toDaemon : toDaemon[n] = Msg("stop", sid[r], 0)
        BY <1>t, <2>2, <2>3 DEF StopsArrive
      <3>2. n # 1
        BY <2>1, <2>2, <2>3, <3>1 DEF Msg
      <3> QED
        BY <2>1, <2>2, <3>1, <3>2
    <2> QED
      BY <2>3 DEF StopsArrive, Msg
  <1>5. ASSUME NEW q \in Requests, SessionStarts(q) PROVE StopsArrive'
    <2>1. live' = live \cup {sid[q]} /\ serving[q] = "starting" /\ UNCHANGED <<caller, sid, toDaemon>>
      BY <1>5 DEF SessionStarts
    <2>2. \A r \in Requests : caller[r] = "stopped" => sid[r] # sid[q]
      <3>1. sid[q] # NoSession
        BY <1>t, <2>1 DEF CallersStand
      <3>2. \A r \in Requests : caller[r] = "stopped" => serving[r] = "done"
        BY <1>t, OneOwner
      <3> QED
        BY <1>t, <2>1, <3>1, <3>2, OneOwner
    <2> QED
      BY <1>t, <2>1, <2>2 DEF StopsArrive
  <1>6. ASSUME UNCHANGED toDaemon, live' \subseteq live, \A q \in Requests : caller'[q] = "stopped" => caller[q] = "stopped"
        PROVE  StopsArrive'
    BY <1>t, <1>1, <1>6 DEF StopsArrive
  <1>7. ASSUME NEW r \in Requests,
               OpenTimesOut(r) \/ Start(r) \/ SessionRefused(r) \/ SessionOpens(r) \/ StartFails(r)
        PROVE  StopsArrive'
    BY <1>t, <1>6, <1>7 DEF TypeOK, OpenTimesOut, Start, SessionRefused, SessionOpens, StartFails
  <1>8. ASSUME WorkerReceives PROVE StopsArrive'
    BY <1>t, <1>6, <1>8 DEF TypeOK, WorkerReceives, TakeOpened, TakeEvent
  <1>9. ASSUME \/ \E s \in Sessions : Emit(s)
               \/ ShutdownRuntime \/ WorkerDies \/ WorkerExitSeen \/ UNCHANGED vars
        PROVE  StopsArrive'
    BY <1>6, <1>9 DEF Emit, ShutdownRuntime, WorkerDies, WorkerExitSeen, StopAll, vars
  <1> QED
    BY <1>2, <1>3, <1>4, <1>5, <1>7, <1>8, <1>9 DEF Next

LEMMA DaemonStillKnows ==
    ASSUME RelayInv, [Next]_vars
    PROVE  DaemonKnows'
  <1> USE DEF workerVars, bridgeVars, processVars
  <1>1. SUFFICES ASSUME ~StopAllRan'
                 PROVE  /\ \A n \in DOMAIN toWorker' :
                              toWorker'[n].kind = "opened" /\ toWorker'[n].info # NoSession => toWorker'[n].info \in live'
                        /\ \A r \in Requests : caller'[r] \in {"ready", "streaming"} => proxy'[r] \in live'
                        /\ \A n \in DOMAIN toDaemon' : toDaemon'[n].kind = "audio" =>
                              /\ toDaemon'[n].id \in live'
                              /\ \A m \in DOMAIN toDaemon' : m < n => toDaemon'[m] # Msg("stop", toDaemon'[n].id, 0)
    BY DEF DaemonKnows, Answer, Msg
  <1> DEFINE AnswersKnown(live1) == \A n \in DOMAIN toWorker :
                 Answer(n) /\ toWorker[n].info # NoSession => toWorker[n].info \in live1
             OwnersKnown(live1) == \A r \in Requests : caller[r] \in {"ready", "streaming"} => proxy[r] \in live1
             AudioKnown(live1) == \A n \in DOMAIN toDaemon : toDaemon[n].kind = "audio" =>
                 /\ toDaemon[n].id \in live1
                 /\ \A m \in DOMAIN toDaemon : m < n => toDaemon[m] # Msg("stop", toDaemon[n].id, 0)
             Goal1 == \A n \in DOMAIN toWorker' :
                 toWorker'[n].kind = "opened" /\ toWorker'[n].info # NoSession => toWorker'[n].info \in live'
             Goal2 == \A r \in Requests : caller'[r] \in {"ready", "streaming"} => proxy'[r] \in live'
             Goal3 == \A n \in DOMAIN toDaemon' : toDaemon'[n].kind = "audio" =>
                 /\ toDaemon'[n].id \in live'
                 /\ \A m \in DOMAIN toDaemon' : m < n => toDaemon'[m] # Msg("stop", toDaemon'[n].id, 0)
  <1>t. /\ TypeOK /\ CallersStand /\ SessionsAreDistinct /\ AnswersWait /\ OwnersWrote
        /\ toDaemon \in Seq(ToDaemonMsg) /\ toWorker \in Seq(ToWorkerMsg)
    BY DEF RelayInv, TypeOK
  <1>k. AnswersKnown(live) /\ OwnersKnown(live) /\ AudioKnown(live)
    <2>1. ~StopAllRan
      BY <1>1 DEF StopAllRan, Next, Open, OpenTimesOut, Start, SendAudio, Stop, WorkerReceives, DaemonReceives,
             SessionRefused, SessionOpens, SessionStarts, StartFails, Emit, ShutdownRuntime, WorkerDies,
             WorkerExitSeen, vars
    <2> QED
      BY <2>1 DEF RelayInv, DaemonKnows
  <1>g1. ASSUME UNCHANGED toWorker, AnswersKnown(live') PROVE Goal1
    BY <1>g1 DEF Answer
  <1>g2. ASSUME UNCHANGED <<caller, proxy>>, OwnersKnown(live') PROVE Goal2
    BY <1>g2
  <1>g3. ASSUME UNCHANGED toDaemon, AudioKnown(live') PROVE Goal3
    BY <1>g3
  <1> HIDE DEF Goal1, Goal2, Goal3, AnswersKnown, OwnersKnown, AudioKnown
  <1>2. ASSUME NEW r \in Requests, Open(r) PROVE Goal1 /\ Goal2 /\ Goal3
    <2>1. UNCHANGED <<toWorker, live, proxy>> /\ toDaemon' = Append(toDaemon, Msg("open", r, 0))
          /\ caller' = [caller EXCEPT ![r] = "opening"]
      BY <1>2 DEF Open, SendToDaemon
    <2>2. LET m == Msg("open", r, 0) IN m \in ToDaemonMsg /\ m.kind = "open"
      BY Messages DEF Msg
    <2>3. /\ \A n \in DOMAIN toDaemon : n \in Nat /\ toDaemon'[n] = toDaemon[n]
          /\ toDaemon'[Len(toDaemon) + 1] = Msg("open", r, 0)
          /\ \A n \in DOMAIN toDaemon' : n = Len(toDaemon) + 1 \/ n \in DOMAIN toDaemon
      BY <1>t, <2>1, <2>2, QueueGrows
    <2>4. Goal2
      BY <1>t, <1>k, <2>1 DEF Goal2, OwnersKnown, TypeOK
    <2>5. Goal3
      BY <1>k, <2>1, <2>2, <2>3 DEF Goal3, AudioKnown, Msg
    <2> QED
      BY <1>k, <1>g1, <2>1, <2>4, <2>5
  <1>3. ASSUME NEW r \in Requests, SendAudio(r) PROVE Goal1 /\ Goal2 /\ Goal3
    <2> DEFINE s == proxy[r]
    <2>1. /\ UNCHANGED <<toWorker, live, proxy, caller>> /\ toDaemon' = Append(toDaemon, Msg("audio", s, 0))
          /\ caller[r] = "streaming"
      BY <1>3 DEF SendAudio, SendToDaemon
    <2>2. s \in live /\ s \in Sessions
      BY <1>k, <1>t, <2>1 DEF OwnersKnown, TypeOK
    <2>3. LET m == Msg("audio", s, 0) IN m \in ToDaemonMsg /\ m.kind = "audio" /\ m.id = s
      BY <2>2, Messages DEF Msg
    <2>4. \A n \in DOMAIN toDaemon : toDaemon[n] # Msg("stop", s, 0)
      <3>1. ASSUME NEW n \in DOMAIN toDaemon, toDaemon[n].kind = "stop", toDaemon[n].id = s PROVE FALSE
        <4>1. PICK q \in Requests : proxy[q] = s /\ caller[q] = "stopped"
          BY <1>t, <3>1 DEF OwnersWrote, Owned
        <4> QED
          BY <1>t, <2>1, <2>2, <4>1, OneOwner, Messages
      <3> QED
        BY <3>1 DEF Msg
    <2>5. /\ \A n \in DOMAIN toDaemon : n \in Nat /\ n < Len(toDaemon) + 1 /\ toDaemon'[n] = toDaemon[n]
          /\ toDaemon'[Len(toDaemon) + 1] = Msg("audio", s, 0) /\ Len(toDaemon) \in Nat
          /\ \A n \in DOMAIN toDaemon' : n = Len(toDaemon) + 1 \/ n \in DOMAIN toDaemon
      BY <1>t, <2>1, <2>3, QueueGrows, LenProperties
    <2> HIDE DEF s
    <2>6. ASSUME NEW n \in DOMAIN toDaemon', toDaemon'[n].kind = "audio"
          PROVE  /\ toDaemon'[n].id \in live'
                 /\ \A m \in DOMAIN toDaemon' : m < n => toDaemon'[m] # Msg("stop", toDaemon'[n].id, 0)
      <3>1. CASE n = Len(toDaemon) + 1
        <4>1. toDaemon'[n] = Msg("audio", s, 0) /\ toDaemon'[n].id = s
          BY <2>3, <2>5, <3>1
        <4>2. ASSUME NEW m \in DOMAIN toDaemon', m < n PROVE m \in DOMAIN toDaemon
          BY <2>5, <3>1, <4>2
        <4> QED
          BY <2>1, <2>2, <2>4, <2>5, <4>1, <4>2
      <3>2. CASE n \in DOMAIN toDaemon
        <4>2. ASSUME NEW m \in DOMAIN toDaemon', m < n PROVE m \in DOMAIN toDaemon
          BY <2>5, <3>2, <4>2
        <4> QED
          BY <1>k, <2>1, <2>5, <2>6, <3>2, <4>2 DEF AudioKnown
      <3> QED
        BY <2>5, <3>1, <3>2
    <2> QED
      BY <1>k, <1>g1, <1>g2, <2>1, <2>6 DEF Goal3
  <1>4. ASSUME NEW r \in Requests, Stop(r) PROVE Goal1 /\ Goal2 /\ Goal3
    <2>1. /\ UNCHANGED <<toWorker, live, proxy>> /\ toDaemon' = Append(toDaemon, Msg("stop", proxy[r], 0))
          /\ caller' = [caller EXCEPT ![r] = "stopped"] /\ caller[r] = "streaming"
      BY <1>4 DEF Stop, SendToDaemon
    <2>2. LET m == Msg("stop", proxy[r], 0) IN m \in ToDaemonMsg /\ m.kind = "stop"
      BY <1>t, <2>1, OneOwner, Messages DEF Msg
    <2>3. /\ \A n \in DOMAIN toDaemon : n \in Nat /\ n < Len(toDaemon) + 1 /\ toDaemon'[n] = toDaemon[n]
          /\ toDaemon'[Len(toDaemon) + 1] = Msg("stop", proxy[r], 0) /\ Len(toDaemon) \in Nat
          /\ \A n \in DOMAIN toDaemon' : n = Len(toDaemon) + 1 \/ n \in DOMAIN toDaemon
      BY <1>t, <2>1, <2>2, QueueGrows, LenProperties
    <2>4. Goal2
      BY <1>t, <1>k, <2>1 DEF Goal2, OwnersKnown, TypeOK
    <2>6. ASSUME NEW n \in DOMAIN toDaemon', toDaemon'[n].kind = "audio"
          PROVE  /\ toDaemon'[n].id \in live'
                 /\ \A m \in DOMAIN toDaemon' : m < n => toDaemon'[m] # Msg("stop", toDaemon'[n].id, 0)
      <3>1. n \in DOMAIN toDaemon
        BY <2>2, <2>3, <2>6
      <3>2. ASSUME NEW m \in DOMAIN toDaemon', m < n PROVE m \in DOMAIN toDaemon
        BY <2>3, <3>1, <3>2
      <3> QED
        BY <1>k, <2>1, <2>3, <2>6, <3>1, <3>2 DEF AudioKnown
    <2> QED
      BY <1>k, <1>g1, <2>1, <2>4, <2>6 DEF Goal3
  <1>5. ASSUME WorkerReceives PROVE Goal1 /\ Goal2 /\ Goal3
    <2> DEFINE m == Head(toWorker)
    <2>1. /\ m \in ToWorkerMsg /\ 1 \in DOMAIN toWorker /\ m = toWorker[1]
          /\ \A n \in DOMAIN toWorker' : n + 1 \in DOMAIN toWorker /\ toWorker'[n] = toWorker[n + 1]
      BY <1>t, <1>5, QueueShrinks DEF WorkerReceives
    <2>2. UNCHANGED <<toDaemon, live>> /\ (TakeOpened(m) \/ TakeEvent(m))
      BY <1>5 DEF WorkerReceives
    <2> HIDE DEF m
    <2>3. Goal1
      BY <1>k, <2>1, <2>2 DEF Goal1, AnswersKnown, Answer
    <2>4. Goal2
      <3>1. m.kind = "opened" => (m.info # NoSession => m.info \in live)
        BY <1>k, <2>1 DEF AnswersKnown, Answer
      <3> QED
        BY <1>k, <1>t, <2>2, <3>1 DEF Goal2, OwnersKnown, TypeOK, TakeOpened, TakeEvent
    <2> QED
      BY <1>k, <1>g3, <2>2, <2>3, <2>4
  <1>6. ASSUME DaemonReceives PROVE Goal1 /\ Goal2 /\ Goal3
    <2> DEFINE m == Head(toDaemon)
    <2>1. /\ m \in ToDaemonMsg /\ 1 \in DOMAIN toDaemon /\ m = toDaemon[1]
          /\ \A n \in DOMAIN toDaemon' : n \in Nat /\ n > 0 /\ n + 1 \in DOMAIN toDaemon /\ toDaemon'[n] = toDaemon[n + 1]
      BY <1>t, <1>6, QueueShrinks DEF DaemonReceives
    <2>2. /\ UNCHANGED <<toWorker, caller, proxy>>
          /\ IF m.kind = "stop" THEN live' = live \ {m.id} ELSE live' = live
      BY <1>6 DEF DaemonReceives
    <2> HIDE DEF m
    <2>3. m.kind = "stop" => m = Msg("stop", m.id, 0) /\ m.id \in Sessions
                             /\ \E q \in Requests : proxy[q] = m.id /\ caller[q] = "stopped"
      BY <1>t, <2>1, Messages DEF OwnersWrote, Owned
    <2>4. Goal1
      <3>1. ASSUME NEW n \in DOMAIN toWorker, Answer(n), toWorker[n].info # NoSession, m.kind = "stop"
            PROVE  toWorker[n].info # m.id
        <4>1. /\ toWorker[n].id \in Requests /\ proxy[toWorker[n].id] = NoSession
              /\ toWorker[n].info = sid[toWorker[n].id]
          <5>1. toWorker[n] \in ToWorkerMsg
            BY <1>t, ElementOfSeq, LenProperties
          <5> QED
            BY <1>t, <3>1, <5>1, Messages DEF AnswersWait, Answer
        <4> QED
          BY <1>t, <2>3, <3>1, <4>1, OneOwner, Messages
      <3> QED
        BY <1>k, <2>2, <3>1 DEF Goal1, AnswersKnown, Answer
    <2>5. Goal2
      <3>1. ASSUME NEW r \in Requests, caller[r] \in {"ready", "streaming"}, m.kind = "stop" PROVE proxy[r] # m.id
        BY <1>t, <2>3, <3>1, OneOwner, Messages
      <3> QED
        BY <1>k, <2>2, <3>1 DEF Goal2, OwnersKnown
    <2>6. ASSUME NEW n \in DOMAIN toDaemon', toDaemon'[n].kind = "audio"
          PROVE  /\ toDaemon'[n].id \in live'
                 /\ \A k \in DOMAIN toDaemon' : k < n => toDaemon'[k] # Msg("stop", toDaemon'[n].id, 0)
      <3>1. n \in Nat /\ n > 0 /\ n + 1 \in DOMAIN toDaemon /\ toDaemon'[n] = toDaemon[n + 1] /\ toDaemon[n + 1].kind = "audio"
        BY <2>1, <2>6
      <3>2. toDaemon[n + 1].id \in live /\ m # Msg("stop", toDaemon[n + 1].id, 0)
        BY <1>k, <2>1, <3>1 DEF AudioKnown
      <3>3. ASSUME NEW k \in DOMAIN toDaemon', k < n PROVE toDaemon'[k] # Msg("stop", toDaemon[n + 1].id, 0)
        <4>1. k \in Nat /\ k + 1 \in DOMAIN toDaemon /\ toDaemon'[k] = toDaemon[k + 1] /\ k + 1 < n + 1
          BY <2>1, <3>1, <3>3
        <4> QED
          BY <1>k, <3>1, <4>1 DEF AudioKnown
      <3>4. toDaemon[n + 1].id \in live'
        BY <2>2, <2>3, <3>2
      <3> QED
        BY <3>1, <3>3, <3>4
    <2> QED
      BY <2>4, <2>5, <2>6 DEF Goal3
  <1>7. ASSUME NEW r \in Requests, SessionStarts(r) PROVE Goal1 /\ Goal2 /\ Goal3
    <2>1. /\ UNCHANGED <<toDaemon, caller, proxy>> /\ live' = live \cup {sid[r]}
          /\ SendToWorker(Msg("opened", r, sid[r])) /\ sid[r] \in Ids
      BY <1>t, <1>7 DEF SessionStarts, TypeOK
    <2>2. AnswersKnown(live') /\ OwnersKnown(live') /\ AudioKnown(live')
      BY <1>k, <2>1 DEF AnswersKnown, OwnersKnown, AudioKnown
    <2>3. CASE toWorker' = Append(toWorker, Msg("opened", r, sid[r]))
      <3>1. LET m == Msg("opened", r, sid[r]) IN m \in ToWorkerMsg /\ m.info = sid[r]
        BY <2>1, Messages DEF Msg
      <3>2. /\ \A n \in DOMAIN toWorker : toWorker'[n] = toWorker[n]
            /\ toWorker'[Len(toWorker) + 1] = Msg("opened", r, sid[r])
            /\ \A n \in DOMAIN toWorker' : n = Len(toWorker) + 1 \/ n \in DOMAIN toWorker
        BY <1>t, <2>3, <3>1, QueueGrows
      <3>3. Goal1
        BY <2>1, <2>2, <3>1, <3>2 DEF Goal1, AnswersKnown, Answer
      <3> QED
        BY <1>g2, <1>g3, <2>1, <2>2, <3>3
    <2>4. CASE toWorker' = toWorker
      BY <1>g1, <1>g2, <1>g3, <2>1, <2>2, <2>4
    <2> QED
      BY <2>1, <2>3, <2>4 DEF SendToWorker
  <1>8. ASSUME NEW m \in ToWorkerMsg, SendToWorker(m), m.kind = "opened" => m.info = NoSession,
               UNCHANGED <<toDaemon, caller, proxy, live>>
        PROVE  Goal1 /\ Goal2 /\ Goal3
    <2>1. CASE toWorker' = Append(toWorker, m)
      <3>1. /\ \A n \in DOMAIN toWorker : toWorker'[n] = toWorker[n]
            /\ toWorker'[Len(toWorker) + 1] = m
            /\ \A n \in DOMAIN toWorker' : n = Len(toWorker) + 1 \/ n \in DOMAIN toWorker
        BY <1>t, <2>1, QueueGrows
      <3>2. Goal1
        BY <1>k, <1>8, <3>1 DEF Goal1, AnswersKnown, Answer
      <3> QED
        BY <1>k, <1>g2, <1>g3, <1>8, <3>2
    <2>2. CASE toWorker' = toWorker
      BY <1>k, <1>g1, <1>g2, <1>g3, <1>8, <2>2
    <2> QED
      BY <1>8, <2>1, <2>2 DEF SendToWorker
  <1>9. ASSUME NEW r \in Requests, SessionRefused(r) \/ StartFails(r) PROVE Goal1 /\ Goal2 /\ Goal3
    <2>1. LET m == Msg("opened", r, NoSession) IN m \in ToWorkerMsg /\ m.info = NoSession
      BY Messages DEF Msg
    <2> QED
      BY <1>8, <1>9, <2>1 DEF SessionRefused, StartFails
  <1>10. ASSUME NEW s \in Sessions, Emit(s) PROVE Goal1 /\ Goal2 /\ Goal3
    <2>1. emitted'[s] \in 1..MaxEvents
      BY <1>t, <1>10, RelayConstants DEF TypeOK, Emit
    <2>2. LET m == Msg("event", s, emitted'[s]) IN m \in ToWorkerMsg /\ m.kind = "event"
      BY <2>1, Messages DEF Msg
    <2> QED
      BY <1>8, <1>10, <2>2 DEF Emit
  <1>11. ASSUME WorkerDies PROVE Goal1 /\ Goal2 /\ Goal3
    <2>1. DOMAIN toWorker' = {} /\ UNCHANGED <<toDaemon, caller, proxy, live>>
      BY <1>11, EmptySeq DEF WorkerDies
    <2> QED
      BY <1>k, <1>g2, <1>g3, <2>1 DEF Goal1
  <1>12. ASSUME UNCHANGED <<toDaemon, toWorker, proxy, live>>, OwnersKnown(live),
                \A r \in Requests : caller'[r] \in {"ready", "streaming"} => caller[r] \in {"ready", "streaming"}
         PROVE  Goal1 /\ Goal2 /\ Goal3
    <2>1. Goal2
      BY <1>12 DEF Goal2, OwnersKnown
    <2> QED
      BY <1>k, <1>g1, <1>g3, <1>12, <2>1
  <1>13. ASSUME NEW r \in Requests, OpenTimesOut(r) \/ Start(r) \/ SessionOpens(r) PROVE Goal1 /\ Goal2 /\ Goal3
    BY <1>t, <1>k, <1>12, <1>13 DEF TypeOK, OpenTimesOut, Start, SessionOpens
  <1>14. ASSUME UNCHANGED vars PROVE Goal1 /\ Goal2 /\ Goal3
    BY <1>k, <1>12, <1>14 DEF vars
  <1>15. ~ShutdownRuntime /\ ~WorkerExitSeen
    BY <1>1 DEF StopAllRan, ShutdownRuntime, WorkerExitSeen
  <1>16. Goal1 /\ Goal2 /\ Goal3
    BY <1>2, <1>3, <1>4, <1>5, <1>6, <1>7, <1>9, <1>10, <1>11, <1>13, <1>14, <1>15 DEF Next
  <1> QED
    BY <1>16 DEF Goal1, Goal2, Goal3

-----------------------------------------------------------------------------
(* The pipe to the worker.                                                 *)

LEMMA ToWorkerSteps ==
    ASSUME TypeOK, CallersStand, OpenPipeTakesAll, [Next]_vars
    PROVE  \/ UNCHANGED <<toWorker, written, firstEvent, workerUp>>
           \/ /\ WorkerReceives /\ toWorker # <<>> /\ toWorker' = Tail(toWorker)
              /\ UNCHANGED <<written, firstEvent, workerUp>>
           \/ \E r \in Requests, i \in Ids :
                 /\ SendToWorker(Msg("opened", r, i)) /\ UNCHANGED <<written, workerUp>>
                 /\ Msg("opened", r, i) \in ToWorkerMsg
                 /\ serving[r] # "done" /\ UNCHANGED <<caller, proxy, delivered, buffer, overflowed>>
                 /\ i # NoSession =>
                       i = sid[r] /\ i \in Sessions /\ firstEvent' = [firstEvent EXCEPT ![i] = written[i]]
                 /\ i = NoSession => UNCHANGED firstEvent
           \/ \E s \in Sessions :
                 /\ workerUp /\ toWorker' = Append(toWorker, Msg("event", s, written[s] + 1))
                 /\ UNCHANGED <<firstEvent, workerUp>>
                 /\ Msg("event", s, written[s] + 1) \in ToWorkerMsg
                 /\ written' = [written EXCEPT ![s] = written[s] + 1]
                 /\ UNCHANGED <<caller, proxy, delivered, buffer, overflowed>>
           \/ toWorker' = <<>> /\ workerUp' = FALSE /\ UNCHANGED <<written, firstEvent>>
  <1> USE DEF workerVars, bridgeVars, processVars
  <1>1. ASSUME NEW r \in Requests, SessionRefused(r) \/ StartFails(r)
        PROVE  \E q \in Requests, i \in Ids :
                 /\ SendToWorker(Msg("opened", q, i)) /\ UNCHANGED <<written, workerUp>>
                 /\ Msg("opened", q, i) \in ToWorkerMsg
                 /\ serving[q] # "done" /\ UNCHANGED <<caller, proxy, delivered, buffer, overflowed>>
                 /\ i # NoSession =>
                       i = sid[q] /\ i \in Sessions /\ firstEvent' = [firstEvent EXCEPT ![i] = written[i]]
                 /\ i = NoSession => UNCHANGED firstEvent
    <2>1. NoSession \in Ids /\ Msg("opened", r, NoSession) \in ToWorkerMsg
      BY Messages
    <2>2. /\ SendToWorker(Msg("opened", r, NoSession)) /\ UNCHANGED <<written, workerUp, firstEvent>>
          /\ serving[r] # "done" /\ UNCHANGED <<caller, proxy, delivered, buffer, overflowed>>
      BY <1>1 DEF SessionRefused, StartFails
    <2> QED
      BY <2>1, <2>2
  <1>2. ASSUME NEW r \in Requests, SessionStarts(r)
        PROVE  \E q \in Requests, i \in Ids :
                 /\ SendToWorker(Msg("opened", q, i)) /\ UNCHANGED <<written, workerUp>>
                 /\ Msg("opened", q, i) \in ToWorkerMsg
                 /\ serving[q] # "done" /\ UNCHANGED <<caller, proxy, delivered, buffer, overflowed>>
                 /\ i # NoSession =>
                       i = sid[q] /\ i \in Sessions /\ firstEvent' = [firstEvent EXCEPT ![i] = written[i]]
                 /\ i = NoSession => UNCHANGED firstEvent
    <2>1. sid[r] \in Ids /\ sid[r] # NoSession /\ sid[r] \in Sessions /\ Msg("opened", r, sid[r]) \in ToWorkerMsg
      BY <1>2, Messages DEF TypeOK, CallersStand, SessionStarts
    <2>2. /\ SendToWorker(Msg("opened", r, sid[r])) /\ UNCHANGED <<written, workerUp>>
          /\ firstEvent' = [firstEvent EXCEPT ![sid[r]] = written[sid[r]]]
          /\ serving[r] # "done" /\ UNCHANGED <<caller, proxy, delivered, buffer, overflowed>>
      BY <1>2 DEF SessionStarts
    <2> QED
      BY <2>1, <2>2
  <1>3. ASSUME NEW s \in Sessions, Emit(s), PipeOpen
        PROVE  /\ workerUp /\ toWorker' = Append(toWorker, Msg("event", s, written[s] + 1))
               /\ UNCHANGED <<firstEvent, workerUp>>
               /\ Msg("event", s, written[s] + 1) \in ToWorkerMsg
               /\ written' = [written EXCEPT ![s] = written[s] + 1]
               /\ UNCHANGED <<caller, proxy, delivered, buffer, overflowed>>
    <2>1. /\ emitted'[s] = written[s] + 1 /\ written' = [written EXCEPT ![s] = emitted'[s]]
          /\ written[s] + 1 \in 1..MaxEvents
      BY <1>3, RelayConstants DEF TypeOK, OpenPipeTakesAll, Emit
    <2>2. workerUp /\ toWorker' = Append(toWorker, Msg("event", s, emitted'[s]))
      BY <1>3 DEF Emit, SendToWorker, PipeOpen
    <2> QED
      BY <1>3, <2>1, <2>2, Messages DEF Emit
  <1>4. ASSUME WorkerReceives
        PROVE  toWorker # <<>> /\ toWorker' = Tail(toWorker) /\ UNCHANGED <<written, firstEvent, workerUp>>
    BY <1>4 DEF WorkerReceives
  <1>5. ASSUME WorkerDies PROVE toWorker' = <<>> /\ workerUp' = FALSE /\ UNCHANGED <<written, firstEvent>>
    BY <1>5 DEF WorkerDies
  <1>6. ASSUME NEW s \in Sessions, Emit(s), ~PipeOpen PROVE UNCHANGED <<toWorker, written, firstEvent, workerUp>>
    BY <1>6 DEF Emit, SendToWorker
  <1>7. \/ \E r \in Requests : SessionRefused(r) \/ StartFails(r) \/ SessionStarts(r)
        \/ \E s \in Sessions : Emit(s)
        \/ WorkerReceives \/ WorkerDies \/ UNCHANGED <<toWorker, written, firstEvent, workerUp>>
    BY DEF Next, Open, OpenTimesOut, Start, SendAudio, Stop, DaemonReceives, SessionOpens, ShutdownRuntime,
           WorkerExitSeen, vars
  <1> QED
    BY <1>1, <1>2, <1>3, <1>4, <1>5, <1>6, <1>7

(* An answer is not an event; an event has the number after the last.      *)
LEMMA PendingGrows ==
    ASSUME TypeOK, NEW m \in ToWorkerMsg, toWorker' = Append(toWorker, m),
           NEW s \in Sessions, NEW from \in Nat, NEW p \in 0..Len(toWorker), Pending(s, from, p),
           \/ ~(m.kind = "event" /\ m.id = s) /\ written'[s] = written[s]
           \/ m = Msg("event", s, written[s] + 1) /\ written'[s] = written[s] + 1
    PROVE  Pending(s, from, p)'
  <1>1. /\ toWorker \in Seq(ToWorkerMsg) /\ written[s] \in Nat /\ Len(toWorker) \in Nat
        /\ from <= written[s] /\ written[s] <= written'[s] /\ written'[s] \in Nat
    BY LenProperties DEF TypeOK, Pending
  <1>2. /\ \A n \in DOMAIN toWorker : n \in DOMAIN toWorker' /\ toWorker'[n] = toWorker[n]
        /\ Len(toWorker) + 1 \in DOMAIN toWorker' /\ toWorker'[Len(toWorker) + 1] = m
        /\ \A n \in DOMAIN toWorker' : n = Len(toWorker) + 1 \/ n \in DOMAIN toWorker
    BY <1>1, QueueGrows
  <1>3. ASSUME NEW k \in from + 1 .. written'[s]
        PROVE  \E n \in DOMAIN toWorker' : n > p /\ toWorker'[n] = Msg("event", s, k)
    <2>1. CASE k \in from + 1 .. written[s]
      BY <1>2, <2>1 DEF Pending
    <2>2. CASE k \notin from + 1 .. written[s]
      <3>1. k = written[s] + 1 /\ m = Msg("event", s, k)
        <4>1. k > written[s] /\ k <= written'[s] /\ k \in Int
          BY <1>1, <1>3, <2>2
        <4> QED
          BY <1>1, <4>1
      <3>2. Len(toWorker) + 1 > p
        BY <1>1
      <3> QED
        BY <1>2, <3>1, <3>2
    <2> QED
      BY <2>1, <2>2
  <1>4. ASSUME NEW n \in DOMAIN toWorker', n > p, toWorker'[n].kind = "event", toWorker'[n].id = s
        PROVE  toWorker'[n].info > from
    <2>1. CASE n \in DOMAIN toWorker
      BY <1>2, <1>4, <2>1 DEF Pending, Event
    <2>2. CASE n = Len(toWorker) + 1
      <3>1. m = Msg("event", s, written[s] + 1)
        BY <1>2, <1>4, <2>2
      <3>2. toWorker'[n].info = written[s] + 1
        BY <1>2, <2>2, <3>1 DEF Msg
      <3> QED
        BY <1>1, <3>2
    <2> QED
      BY <1>2, <2>1, <2>2
  <1>5. from <= written'[s]
    BY <1>1
  <1> QED
    BY <1>3, <1>4, <1>5 DEF Pending, Event, Msg

LEMMA PendingShrinks ==
    ASSUME TypeOK, toWorker # <<>>, toWorker' = Tail(toWorker), UNCHANGED written,
           NEW s \in Sessions, NEW from \in Nat, NEW p \in Nat, NEW p1 \in Nat, Pending(s, from, p),
           \/ p = p1 + 1
           \/ p = 0 /\ p1 = 0 /\ ~Event(1, s)
    PROVE  Pending(s, from, p1)'
  <1>1. toWorker \in Seq(ToWorkerMsg)
    BY DEF TypeOK
  <1>2. /\ \A n \in DOMAIN toWorker' : n \in Nat /\ n > 0 /\ n + 1 \in DOMAIN toWorker /\ toWorker'[n] = toWorker[n + 1]
        /\ \A n \in DOMAIN toWorker : n \in Nat /\ n > 0 /\ (n # 1 => n - 1 \in DOMAIN toWorker' /\ toWorker'[n - 1] = toWorker[n])
    BY <1>1, QueueShrinks
  <1>3. ASSUME NEW k \in from + 1 .. written[s]
        PROVE  \E n \in DOMAIN toWorker' : n > p1 /\ toWorker'[n] = Msg("event", s, k)
    <2>1. PICK n \in DOMAIN toWorker : n > p /\ toWorker[n] = Msg("event", s, k)
      BY <1>3 DEF Pending
    <2>2. n \in Nat /\ n # 1
      BY <1>2, <2>1 DEF Event, Msg
    <2>3. n - 1 > p1
      BY <2>1, <2>2, <1>2
    <2> QED
      BY <1>2, <2>1, <2>2, <2>3
  <1>4. ASSUME NEW n \in DOMAIN toWorker', n > p1, toWorker'[n].kind = "event", toWorker'[n].id = s
        PROVE  toWorker'[n].info > from
    <2>1. n + 1 \in DOMAIN toWorker /\ toWorker'[n] = toWorker[n + 1] /\ n + 1 > p
      BY <1>2, <1>4
    <2> QED
      BY <1>4, <2>1 DEF Pending, Event
  <1> QED
    BY <1>3, <1>4 DEF Pending, Event, Msg

(* The worker reads the events of a session one by one.                    *)
LEMMA NextEvent ==
    ASSUME TypeOK, PipeIsInOrder, toWorker # <<>>, toWorker' = Tail(toWorker), UNCHANGED written,
           NEW s \in Sessions, NEW from \in Nat, Pending(s, from, 0), Event(1, s)
    PROVE  toWorker[1].info = from + 1 /\ Pending(s, from + 1, 0)'
  <1>1. toWorker \in Seq(ToWorkerMsg) /\ written[s] \in Nat
    BY DEF TypeOK
  <1>2. /\ \A n \in DOMAIN toWorker' : n \in Nat /\ n > 0 /\ n + 1 \in DOMAIN toWorker /\ toWorker'[n] = toWorker[n + 1]
        /\ \A n \in DOMAIN toWorker : n \in Nat /\ n > 0 /\ (n # 1 => n - 1 \in DOMAIN toWorker' /\ toWorker'[n - 1] = toWorker[n])
        /\ 1 \in DOMAIN toWorker /\ toWorker[1] \in ToWorkerMsg
    BY <1>1, QueueShrinks
  <1>3. toWorker[1].info > from /\ toWorker[1].info <= written[s] /\ toWorker[1].info \in Nat
    BY <1>2, Messages DEF PipeIsInOrder, Pending, Event
  <1>4. from + 1 \in from + 1 .. written[s]
    BY <1>1, <1>3
  <1>5. PICK n \in DOMAIN toWorker : n > 0 /\ toWorker[n] = Msg("event", s, from + 1)
    BY <1>4 DEF Pending
  <1>6. n = 1
    <2>1. SUFFICES ASSUME n # 1 PROVE FALSE
      OBVIOUS
    <2>2. 1 < n /\ Event(n, s) /\ toWorker[n].info = from + 1
      BY <1>2, <1>5, <2>1 DEF Event, Msg
    <2>3. toWorker[1].info < from + 1
      BY <1>2, <2>2 DEF PipeIsInOrder, InOrder
    <2> QED
      BY <1>3, <2>3
  <1>7. toWorker[1].info = from + 1
    BY <1>5, <1>6 DEF Msg
  <1>8. ASSUME NEW k \in from + 1 + 1 .. written[s]
        PROVE  \E j \in DOMAIN toWorker' : j > 0 /\ toWorker'[j] = Msg("event", s, k)
    <2>1. k \in from + 1 .. written[s] /\ k # from + 1
      BY <1>1
    <2>2. PICK j \in DOMAIN toWorker : j > 0 /\ toWorker[j] = Msg("event", s, k)
      BY <2>1 DEF Pending
    <2>3. j # 1
      BY <1>7, <2>1, <2>2 DEF Msg
    <2>4. j - 1 \in DOMAIN toWorker' /\ toWorker'[j - 1] = toWorker[j]
      BY <1>2, <2>3
    <2> QED
      BY <1>2, <2>2, <2>4
  <1>9. ASSUME NEW j \in DOMAIN toWorker', toWorker'[j].kind = "event", toWorker'[j].id = s
        PROVE  toWorker'[j].info > from + 1
    <2>1. j + 1 \in DOMAIN toWorker /\ toWorker'[j] = toWorker[j + 1] /\ 1 < j + 1
      BY <1>2
    <2> QED
      BY <1>2, <1>7, <1>9, <2>1 DEF PipeIsInOrder, InOrder, Event
  <1>10. from + 1 <= written[s]
    BY <1>3, <1>7
  <1> QED
    BY <1>7, <1>8, <1>9, <1>10 DEF Pending, Event, Msg

LEMMA PipeStaysInOrder ==
    ASSUME RelayInv, [Next]_vars
    PROVE  PipeIsInOrder'
  <1>t. TypeOK /\ CallersStand /\ OpenPipeTakesAll /\ PipeIsInOrder /\ toWorker \in Seq(ToWorkerMsg)
    BY DEF RelayInv, TypeOK
  <1>e. \A s \in Sessions : written[s] \in Nat
    BY <1>t DEF TypeOK
  <1>m. \A n \in DOMAIN toWorker : n \in Nat /\ n < Len(toWorker) + 1 /\ Len(toWorker) \in Nat
                                   /\ toWorker[n] \in ToWorkerMsg /\ toWorker[n].info \in Nat
    <2>1. \A m \in ToWorkerMsg : m.info \in Nat
      BY Messages DEF Sessions, NoSession
    <2> QED
      BY <1>t, <2>1, ElementOfSeq, LenProperties
  <1>1. ASSUME NEW m \in ToWorkerMsg, workerUp, UNCHANGED workerUp, toWorker' = Append(toWorker, m),
               \A s \in Sessions : \/ ~(m.kind = "event" /\ m.id = s) /\ written'[s] = written[s]
                                   \/ m = Msg("event", s, written[s] + 1) /\ written'[s] = written[s] + 1
        PROVE  PipeIsInOrder'
    <2>1. /\ \A n \in DOMAIN toWorker : n \in DOMAIN toWorker' /\ toWorker'[n] = toWorker[n]
          /\ Len(toWorker) + 1 \in DOMAIN toWorker' /\ toWorker'[Len(toWorker) + 1] = m
          /\ \A n \in DOMAIN toWorker' : n = Len(toWorker) + 1 \/ n \in DOMAIN toWorker
      BY <1>t, <1>1, QueueGrows
    <2>2. ASSUME NEW s \in Sessions, m.kind = "event", m.id = s
          PROVE  m.info = written[s] + 1 /\ written'[s] = written[s] + 1
      BY <1>1, <2>2 DEF Msg
    <2>3. \A s \in Sessions : written[s] <= written'[s] /\ written'[s] \in Nat
      BY <1>1, <1>e
    <2>4. ASSUME NEW n \in DOMAIN toWorker', NEW s \in Sessions, toWorker'[n].kind = "event", toWorker'[n].id = s
          PROVE  toWorker'[n].info <= written'[s]
      <3>1. CASE n \in DOMAIN toWorker
        <4>1. toWorker[n].info <= written[s] /\ toWorker'[n] = toWorker[n]
          BY <1>t, <2>1, <2>4, <3>1 DEF PipeIsInOrder, Event
        <4> QED
          BY <1>e, <1>m, <2>3, <3>1, <4>1
      <3>2. CASE n = Len(toWorker) + 1
        BY <1>e, <2>1, <2>2, <2>4, <3>2
      <3> QED
        BY <2>1, <3>1, <3>2
    <2>5. ASSUME NEW s \in Sessions, NEW k \in DOMAIN toWorker', NEW n \in DOMAIN toWorker', k < n,
                 toWorker'[k].kind = "event", toWorker'[k].id = s, toWorker'[n].kind = "event", toWorker'[n].id = s
          PROVE  toWorker'[k].info < toWorker'[n].info
      <3>1. k \in DOMAIN toWorker
        <4>1. SUFFICES ASSUME k = Len(toWorker) + 1 PROVE FALSE
          BY <2>1
        <4>2. Len(toWorker) \in Nat
          BY <1>t, LenProperties
        <4> QED
          BY <1>m, <2>1, <2>5, <4>1, <4>2
      <3>2. CASE n \in DOMAIN toWorker
        BY <1>t, <2>1, <2>5, <3>1, <3>2 DEF PipeIsInOrder, InOrder, Event
      <3>3. CASE n = Len(toWorker) + 1
        <4>1. toWorker[k].info <= written[s] /\ toWorker'[k] = toWorker[k]
          BY <1>t, <2>1, <2>5, <3>1 DEF PipeIsInOrder, Event
        <4>2. toWorker'[n].info = written[s] + 1
          BY <2>1, <2>2, <2>5, <3>3
        <4> QED
          BY <1>e, <1>m, <3>1, <4>1, <4>2
      <3> QED
        BY <2>1, <3>2, <3>3
    <2> QED
      BY <1>1, <2>4, <2>5 DEF PipeIsInOrder, InOrder, Event
  <1>2. ASSUME UNCHANGED <<toWorker, workerUp>>, \A s \in Sessions : written[s] <= written'[s] /\ written'[s] \in Nat
        PROVE  PipeIsInOrder'
    <2>1. ASSUME NEW n \in DOMAIN toWorker, NEW s \in Sessions, Event(n, s) PROVE toWorker[n].info <= written'[s]
      <3>1. toWorker[n].info <= written[s]
        BY <1>t, <2>1 DEF PipeIsInOrder
      <3> QED
        BY <1>e, <1>m, <1>2, <3>1
    <2> QED
      BY <1>t, <1>2, <2>1 DEF PipeIsInOrder, InOrder, Event
  <1>3. ASSUME toWorker # <<>>, toWorker' = Tail(toWorker), UNCHANGED <<written, workerUp>>
        PROVE  PipeIsInOrder'
    <2>1. \A n \in DOMAIN toWorker' : n \in Nat /\ n + 1 \in DOMAIN toWorker /\ toWorker'[n] = toWorker[n + 1]
      BY <1>t, <1>3, QueueShrinks
    <2>2. workerUp'
      BY <1>t, <1>3 DEF PipeIsInOrder
    <2>3. ASSUME NEW n \in DOMAIN toWorker', NEW s \in Sessions, toWorker'[n].kind = "event", toWorker'[n].id = s
          PROVE  toWorker'[n].info <= written'[s]
      BY <1>t, <1>3, <2>1, <2>3 DEF PipeIsInOrder, Event
    <2>4. ASSUME NEW s \in Sessions, NEW k \in DOMAIN toWorker', NEW n \in DOMAIN toWorker', k < n,
                 toWorker'[k].kind = "event", toWorker'[k].id = s, toWorker'[n].kind = "event", toWorker'[n].id = s
          PROVE  toWorker'[k].info < toWorker'[n].info
      <3>1. k + 1 < n + 1
        BY <2>1, <2>4
      <3> QED
        BY <1>t, <2>1, <2>4, <3>1 DEF PipeIsInOrder, InOrder, Event
    <2> QED
      BY <2>2, <2>3, <2>4 DEF PipeIsInOrder, InOrder, Event
  <1>4. ASSUME NEW m \in ToWorkerMsg, SendToWorker(m), UNCHANGED workerUp,
               \A s \in Sessions : \/ ~(m.kind = "event" /\ m.id = s) /\ written'[s] = written[s]
                                   \/ m = Msg("event", s, written[s] + 1) /\ written'[s] = written[s] + 1
        PROVE  PipeIsInOrder'
    <2>1. \A s \in Sessions : written[s] <= written'[s] /\ written'[s] \in Nat
      BY <1>4, <1>e
    <2>2. CASE PipeOpen
      BY <1>1, <1>4, <2>2 DEF SendToWorker, PipeOpen
    <2>3. CASE ~PipeOpen
      BY <1>2, <1>4, <2>1, <2>3 DEF SendToWorker
    <2> QED
      BY <2>2, <2>3
  <1>5. ASSUME NEW r \in Requests, NEW i \in Ids, SendToWorker(Msg("opened", r, i)), UNCHANGED <<written, workerUp>>,
               Msg("opened", r, i) \in ToWorkerMsg
        PROVE  PipeIsInOrder'
    <2>1. Msg("opened", r, i).kind = "opened"
      BY DEF Msg
    <2> QED
      BY <1>4, <1>5, <2>1
  <1>6. ASSUME NEW s \in Sessions, workerUp, toWorker' = Append(toWorker, Msg("event", s, written[s] + 1)), UNCHANGED workerUp,
               Msg("event", s, written[s] + 1) \in ToWorkerMsg, written' = [written EXCEPT ![s] = written[s] + 1]
        PROVE  PipeIsInOrder'
    <2>1. \A q \in Sessions : \/ Msg("event", s, written[s] + 1).id # q /\ written'[q] = written[q]
                              \/ q = s /\ written'[q] = written[q] + 1
      BY <1>t, <1>6 DEF TypeOK, Msg
    <2> QED
      BY <1>1, <1>6, <2>1
  <1>7. ASSUME toWorker' = <<>>, workerUp' = FALSE PROVE PipeIsInOrder'
    <2>1. DOMAIN toWorker' = {}
      BY <1>7, EmptySeq
    <2> QED
      BY <1>7, <2>1 DEF PipeIsInOrder, InOrder
  <1>8. ASSUME UNCHANGED <<toWorker, written, workerUp>> PROVE PipeIsInOrder'
    <2>1. \A s \in Sessions : written[s] <= written'[s] /\ written'[s] \in Nat
      BY <1>e, <1>8
    <2> QED
      BY <1>2, <1>8, <2>1
  <1> QED
    BY <1>t, <1>3, <1>5, <1>6, <1>7, <1>8, ToWorkerSteps

LEMMA OpenPipeStillTakesAll ==
    ASSUME RelayInv, [Next]_vars
    PROVE  OpenPipeTakesAll'
  <1> USE DEF workerVars, bridgeVars, processVars
  <1>t. TypeOK /\ OpenPipeTakesAll
    BY DEF RelayInv
  <1>1. ASSUME NEW s \in Sessions, Emit(s) PROVE OpenPipeTakesAll'
    <2>1. UNCHANGED <<workerUp, shutdownAsked>>
      BY <1>1 DEF Emit
    <2>2. PipeOpen => written' = emitted'
      BY <1>t, <1>1 DEF TypeOK, OpenPipeTakesAll, Emit
    <2> QED
      BY <2>1, <2>2 DEF OpenPipeTakesAll, PipeOpen
  <1>2. ASSUME UNCHANGED <<written, emitted>>, PipeOpen' => PipeOpen PROVE OpenPipeTakesAll'
    BY <1>t, <1>2 DEF OpenPipeTakesAll
  <1>3. (\E s \in Sessions : Emit(s)) \/ (UNCHANGED <<written, emitted>> /\ (PipeOpen' => PipeOpen))
    BY DEF Next, Open, OpenTimesOut, Start, SendAudio, Stop, WorkerReceives, DaemonReceives, SessionRefused,
           SessionOpens, SessionStarts, StartFails, ShutdownRuntime, WorkerDies, WorkerExitSeen, PipeOpen, vars
  <1> QED
    BY <1>1, <1>2, <1>3

LEMMA AnswersStillLead ==
    ASSUME RelayInv, [Next]_vars
    PROVE  AnswersLead'
  <1>t. /\ TypeOK /\ CallersStand /\ SessionsAreDistinct /\ AnswersWait /\ AnswersLead /\ toWorker \in Seq(ToWorkerMsg)
        /\ OpenPipeTakesAll
    BY DEF RelayInv, TypeOK
  <1>i. \A m \in ToWorkerMsg : m.kind = "opened" /\ m.info # NoSession => m.info \in Sessions /\ m.id \in Requests
    BY Messages
  <1>m. \A n \in DOMAIN toWorker : n \in Nat /\ n > 0 /\ n \in 0..Len(toWorker) /\ toWorker[n] \in ToWorkerMsg
    BY <1>t, ElementOfSeq, LenProperties
  <1>f. \A s \in Sessions : firstEvent[s] \in Nat /\ written[s] \in Nat
    BY <1>t DEF TypeOK
  <1>1. ASSUME NEW m \in ToWorkerMsg, toWorker' = Append(toWorker, m),
               \A s \in Sessions : \/ ~(m.kind = "event" /\ m.id = s) /\ written'[s] = written[s]
                                   \/ m = Msg("event", s, written[s] + 1) /\ written'[s] = written[s] + 1,
               \A n \in DOMAIN toWorker : Answer(n) /\ toWorker[n].info # NoSession =>
                   firstEvent'[toWorker[n].info] = firstEvent[toWorker[n].info],
               m.kind = "opened" /\ m.info # NoSession => firstEvent'[m.info] = written[m.info]
        PROVE  AnswersLead'
    <2>1. /\ \A n \in DOMAIN toWorker : n \in DOMAIN toWorker' /\ toWorker'[n] = toWorker[n]
          /\ Len(toWorker) + 1 \in DOMAIN toWorker' /\ toWorker'[Len(toWorker) + 1] = m
          /\ \A n \in DOMAIN toWorker' : n = Len(toWorker) + 1 \/ n \in DOMAIN toWorker
      BY <1>t, <1>1, QueueGrows
    <2>2. ASSUME NEW n \in DOMAIN toWorker, Answer(n), toWorker[n].info # NoSession
          PROVE  Pending(toWorker[n].info, firstEvent[toWorker[n].info], n)'
      <3>1. PICK s \in Sessions : s = toWorker[n].info
        BY <1>i, <1>m, <2>2 DEF Answer
      <3>2. PICK from \in Nat : from = firstEvent[s]
        BY <1>f
      <3>3. Pending(s, from, n)
        BY <1>t, <2>2, <3>1, <3>2 DEF AnswersLead
      <3>4. Pending(s, from, n)'
        BY <1>t, <1>m, <1>1, <3>3, PendingGrows
      <3>5. toWorker'[n].info = s /\ firstEvent'[s] = from
        BY <1>1, <2>1, <2>2, <3>1, <3>2
      <3> QED
        BY <3>4, <3>5
    <2>3. ASSUME NEW n \in Nat, n = Len(toWorker) + 1, m.kind = "opened", m.info # NoSession
          PROVE  Pending(toWorker[n].info, firstEvent[toWorker[n].info], n)'
      <3>1. PICK s \in Sessions : s = m.info
        BY <1>i, <2>3
      <3>2. toWorker'[n].info = s /\ firstEvent'[s] = written[s] /\ written'[s] = written[s] /\ written[s] \in Nat
        BY <1>f, <1>1, <2>1, <2>3, <3>1 DEF Msg
      <3>3. \A j \in DOMAIN toWorker' : ~(j > n)
        BY <1>m, <2>1, <2>3
      <3>4. written[s] + 1 .. written[s] = {} /\ written[s] <= written[s]
        BY <3>2
      <3> QED
        BY <3>2, <3>3, <3>4 DEF Pending
    <2>4. Len(toWorker) + 1 \in Nat
      BY <1>t, LenProperties
    <2>5. ASSUME NEW n \in DOMAIN toWorker', toWorker'[n].kind = "opened", toWorker'[n].info # NoSession
          PROVE  Pending(toWorker[n].info, firstEvent[toWorker[n].info], n)'
      <3>1. CASE n \in DOMAIN toWorker
        BY <2>1, <2>2, <2>5, <3>1 DEF Answer
      <3>2. CASE n = Len(toWorker) + 1
        BY <2>1, <2>3, <2>4, <2>5, <3>2
      <3> QED
        BY <2>1, <3>1, <3>2
    <2> QED
      BY <2>5 DEF AnswersLead, Answer
  <1>2. ASSUME UNCHANGED <<toWorker, written, firstEvent>> PROVE AnswersLead'
    BY <1>t, <1>2 DEF AnswersLead, Answer, Pending, Event
  <1>3. ASSUME toWorker # <<>>, toWorker' = Tail(toWorker), UNCHANGED <<written, firstEvent>> PROVE AnswersLead'
    <2>1. \A n \in DOMAIN toWorker' : n \in Nat /\ n + 1 \in DOMAIN toWorker /\ toWorker'[n] = toWorker[n + 1]
      BY <1>t, <1>3, QueueShrinks
    <2>2. ASSUME NEW n \in DOMAIN toWorker', toWorker'[n].kind = "opened", toWorker'[n].info # NoSession
          PROVE  Pending(toWorker[n].info, firstEvent[toWorker[n].info], n)'
      <3>1. n \in Nat /\ n + 1 \in Nat /\ n + 1 \in DOMAIN toWorker /\ toWorker'[n] = toWorker[n + 1] /\ Answer(n + 1)
        BY <2>1, <2>2 DEF Answer
      <3>2. PICK s \in Sessions : s = toWorker[n + 1].info
        BY <1>i, <1>m, <2>2, <3>1 DEF Answer
      <3>3. PICK from \in Nat : from = firstEvent[s]
        BY <1>f
      <3>4. Pending(s, from, n + 1)
        BY <1>t, <2>2, <3>1, <3>2, <3>3 DEF AnswersLead
      <3>5. Pending(s, from, n)'
        BY <1>t, <1>3, <3>1, <3>4, PendingShrinks
      <3>6. toWorker'[n].info = s /\ firstEvent'[s] = from
        BY <1>3, <3>1, <3>2, <3>3
      <3> QED
        BY <3>5, <3>6
    <2> QED
      BY <2>2 DEF AnswersLead, Answer
  <1>4. ASSUME NEW r \in Requests, NEW i \in Ids, SendToWorker(Msg("opened", r, i)), UNCHANGED <<written, workerUp>>,
               Msg("opened", r, i) \in ToWorkerMsg, serving[r] # "done",
               i # NoSession => i = sid[r] /\ i \in Sessions /\ firstEvent' = [firstEvent EXCEPT ![i] = written[i]],
               i = NoSession => UNCHANGED firstEvent
        PROVE  AnswersLead'
    <2>1. ASSUME NEW n \in DOMAIN toWorker, Answer(n), toWorker[n].info # NoSession
          PROVE  firstEvent'[toWorker[n].info] = firstEvent[toWorker[n].info]
      <3>1. /\ toWorker[n].id \in Requests /\ serving[toWorker[n].id] = "done"
            /\ toWorker[n].info = sid[toWorker[n].id] /\ toWorker[n].info \in Sessions
        BY <1>t, <1>i, <1>m, <2>1 DEF AnswersWait, Answer
      <3>2. toWorker[n].info # i
        BY <1>t, <1>4, <2>1, <3>1, OneOwner
      <3> QED
        BY <1>t, <1>4, <3>1, <3>2 DEF TypeOK
    <2>2. CASE PipeOpen
      <3>1. toWorker' = Append(toWorker, Msg("opened", r, i))
        BY <1>4, <2>2 DEF SendToWorker
      <3>2. Msg("opened", r, i).kind = "opened" /\ Msg("opened", r, i).info = i
        BY DEF Msg
      <3>3. i # NoSession => firstEvent'[i] = written[i]
        BY <1>t, <1>4 DEF TypeOK
      <3> QED
        BY <1>1, <1>4, <2>1, <3>1, <3>2, <3>3
    <2>3. CASE ~PipeOpen
      <3>1. UNCHANGED <<toWorker, written>>
        BY <1>4, <2>3 DEF SendToWorker
      <3>2. ASSUME NEW n \in DOMAIN toWorker, Answer(n), toWorker[n].info # NoSession
            PROVE  Pending(toWorker[n].info, firstEvent[toWorker[n].info], n)'
        <4>1. PICK s \in Sessions : s = toWorker[n].info
          BY <1>i, <1>m, <3>2 DEF Answer
        <4>2. PICK from \in Nat : from = firstEvent[s]
          BY <1>f
        <4>3. Pending(s, from, n)
          BY <1>t, <3>2, <4>1, <4>2 DEF AnswersLead
        <4>4. Pending(s, from, n)'
          BY <3>1, <4>3 DEF Pending, Event
        <4>5. toWorker'[n].info = s /\ firstEvent'[s] = from
          BY <2>1, <3>1, <3>2, <4>1, <4>2
        <4> QED
          BY <4>4, <4>5
      <3> QED
        BY <3>1, <3>2 DEF AnswersLead, Answer
    <2> QED
      BY <2>2, <2>3
  <1>5. ASSUME NEW s \in Sessions, toWorker' = Append(toWorker, Msg("event", s, written[s] + 1)), UNCHANGED firstEvent,
               Msg("event", s, written[s] + 1) \in ToWorkerMsg, written' = [written EXCEPT ![s] = written[s] + 1]
        PROVE  AnswersLead'
    <2>1. \A q \in Sessions : \/ Msg("event", s, written[s] + 1).id # q /\ written'[q] = written[q]
                              \/ q = s /\ written'[q] = written[q] + 1
      BY <1>t, <1>5 DEF TypeOK, Msg
    <2>2. Msg("event", s, written[s] + 1).kind # "opened"
      BY DEF Msg
    <2> QED
      BY <1>1, <1>5, <2>1, <2>2
  <1>6. ASSUME toWorker' = <<>> PROVE AnswersLead'
    <2>1. DOMAIN toWorker' = {}
      BY <1>6, EmptySeq
    <2> QED
      BY <2>1 DEF AnswersLead
  <1> QED
    BY <1>t, <1>2, <1>3, <1>4, <1>5, <1>6, ToWorkerSteps

LEMMA ProxiesStillKeepUp ==
    ASSUME RelayInv, [Next]_vars
    PROVE  ProxiesKeepUp'
  <1> USE DEF workerVars, bridgeVars, processVars
  <1>t. /\ TypeOK /\ CallersStand /\ SessionsAreDistinct /\ RelayFollows /\ AnswersWait /\ AnswersLead
        /\ PipeIsInOrder /\ OpenPipeTakesAll /\ ProxiesKeepUp /\ toWorker \in Seq(ToWorkerMsg)
    BY DEF RelayInv, TypeOK
  <1>s. SUFFICES ASSUME workerUp', NEW r \in Requests, caller'[r] \in {"ready", "streaming"}, proxy'[r] \notin overflowed'
                 PROVE  Kept(proxy[r], caller[r])'
    BY DEF ProxiesKeepUp
  <1>u. workerUp
    BY <1>s DEF Next, Open, OpenTimesOut, Start, SendAudio, Stop, WorkerReceives, DaemonReceives, SessionRefused,
           SessionOpens, SessionStarts, StartFails, Emit, ShutdownRuntime, WorkerDies, WorkerExitSeen, vars
  <1>n. \A s \in Sessions : /\ firstEvent[s] \in Nat /\ written[s] \in Nat /\ Had(s) \in Nat
                            /\ delivered[s] \in Seq(1..MaxEvents) /\ buffer[s] \in Seq(1..MaxEvents)
    BY <1>t, LenProperties DEF TypeOK, Had
  <1>o. \A q \in Requests : caller[q] \in {"ready", "streaming"} => proxy[q] \in Sessions /\ serving[q] = "done"
    BY <1>t, OneOwner
  <1>1. ASSUME NEW s \in Sessions, NEW pc, Kept(s, pc), proxy'[r] = s, caller'[r] = pc,
               delivered'[s] = delivered[s], buffer'[s] = buffer[s], firstEvent'[s] = firstEvent[s],
               \A from \in Nat : Pending(s, from, 0) => Pending(s, from, 0)'
        PROVE  Kept(proxy[r], caller[r])'
    <2>1. PICK from \in Nat : from = Had(s)
      BY <1>n
    <2>2. Pending(s, from, 0)' /\ Had(s)' = from
      BY <1>1, <2>1 DEF Kept, Had
    <2>3. Pending(proxy[r], Had(proxy[r]), 0)'
      BY <1>1, <2>2
    <2>4. Had(proxy[r])' = Had(s)
      BY <1>1, <2>1, <2>2
    <2> QED
      BY <1>1, <2>3 DEF Kept, Run
  <1>2. ASSUME UNCHANGED <<caller, proxy, overflowed>>
        PROVE  proxy[r] \in Sessions /\ serving[r] = "done" /\ Kept(proxy[r], caller[r])
    BY <1>t, <1>s, <1>u, <1>o, <1>2 DEF ProxiesKeepUp
  <1>3. ASSUME NEW q \in Requests, Start(q) PROVE Kept(proxy[r], caller[r])'
    <2>1. UNCHANGED <<proxy, overflowed, toWorker, written, firstEvent>>
      BY <1>3 DEF Start
    <2>2. \A s \in Sessions, from \in Nat : Pending(s, from, 0) => Pending(s, from, 0)'
      BY <2>1 DEF Pending, Event
    <2>3. PICK s \in Sessions : s = proxy[r]
      <3>1. caller[r] \in {"ready", "streaming"}
        BY <1>t, <1>s, <1>3 DEF TypeOK, Start
      <3> QED
        BY <1>o, <3>1
    <2>4. CASE q = r
      <3>1. /\ caller[r] = "ready" /\ caller'[r] = "streaming" /\ proxy'[r] = s
            /\ delivered'[s] = delivered[s] \o buffer[s] /\ buffer'[s] = <<>>
        BY <1>t, <1>3, <2>3, <2>4 DEF TypeOK, Start
      <3>2. Kept(s, "ready")
        BY <1>t, <1>s, <1>u, <2>1, <2>3, <3>1 DEF ProxiesKeepUp
      <3>3. delivered[s] = <<>> /\ delivered'[s] = buffer[s] /\ Len(delivered[s]) = 0 /\ Len(buffer'[s]) = 0
        BY <1>n, <3>1, <3>2, EmptySeq, ConcatEmptySeq DEF Kept
      <3>4. PICK from \in Nat : from = Had(s)
        BY <1>n
      <3>5. Had(s)' = from
        <4>1. firstEvent[s] \in Nat /\ Len(buffer[s]) \in Nat
          BY <1>n, LenProperties
        <4> QED
          BY <2>1, <3>3, <3>4, <4>1 DEF Had
      <3>6. Pending(s, from, 0)'
        BY <2>2, <3>2, <3>4 DEF Kept
      <3>7. Run(delivered[s], firstEvent[s])' /\ Run(buffer[s], firstEvent[s])'
        <4>1. DOMAIN buffer'[s] = {}
          BY <3>1, EmptySeq
        <4> QED
          BY <2>1, <3>2, <3>3, <4>1 DEF Kept, Run
      <3>8. Pending(proxy[r], Had(proxy[r]), 0)'
        BY <3>1, <3>5, <3>6
      <3> QED
        BY <3>1, <3>7, <3>8 DEF Kept, Run
    <2>5. CASE q # r
      <3>1. PICK s1 \in Sessions : s1 = proxy[q] /\ s1 # s
        <4>1. caller[q] = "ready"
          BY <1>3 DEF Start
        <4> QED
          BY <1>t, <1>o, <2>3, <2>5, <4>1, OneOwner, Messages
      <3>2. caller'[r] = caller[r] /\ delivered'[s] = delivered[s] /\ buffer'[s] = buffer[s]
        BY <1>t, <1>3, <2>5, <3>1 DEF TypeOK, Start
      <3>3. Kept(s, caller[r])
        BY <1>t, <1>s, <1>u, <2>1, <2>3, <3>2 DEF ProxiesKeepUp
      <3> QED
        BY <1>1, <2>1, <2>2, <2>3, <3>2, <3>3
    <2> QED
      BY <2>4, <2>5
  <1>4. ASSUME WorkerReceives, TakeOpened(Head(toWorker)) PROVE Kept(proxy[r], caller[r])'
    <2> DEFINE m == Head(toWorker)
    <2>1. m \in ToWorkerMsg /\ 1 \in DOMAIN toWorker /\ m = toWorker[1]
      BY <1>t, <1>4, QueueShrinks DEF WorkerReceives
    <2>2. /\ toWorker # <<>> /\ toWorker' = Tail(toWorker)
          /\ UNCHANGED <<written, firstEvent, delivered, buffer, overflowed>>
      BY <1>4 DEF WorkerReceives, TakeOpened
    <2>3. TakeOpened(m) /\ m.kind = "opened"
      BY <1>4 DEF TakeOpened
    <2> HIDE DEF m
    <2>4. ASSUME NEW s \in Sessions, NEW from \in Nat, Pending(s, from, 0) PROVE Pending(s, from, 0)'
      BY <1>t, <2>1, <2>2, <2>3, <2>4, PendingShrinks DEF Event
    <2>5. \/ caller'[r] = caller[r] /\ proxy'[r] = proxy[r]
          \/ m.id = r /\ m.info # NoSession /\ caller'[r] = "ready" /\ proxy'[r] = m.info
      BY <1>t, <1>s, <2>3 DEF TypeOK, TakeOpened
    <2>6. CASE caller'[r] = caller[r] /\ proxy'[r] = proxy[r]
      <3>1. PICK s \in Sessions : s = proxy[r]
        BY <1>s, <1>o, <2>6
      <3>2. Kept(s, caller[r])
        BY <1>t, <1>s, <1>u, <2>2, <2>6, <3>1 DEF ProxiesKeepUp
      <3> QED
        BY <1>1, <2>2, <2>4, <2>6, <3>1, <3>2
    <2>7. CASE m.id = r /\ m.info # NoSession /\ caller'[r] = "ready" /\ proxy'[r] = m.info
      <3>1. PICK s \in Sessions : s = m.info
        BY <2>1, <2>3, <2>7, Messages
      <3>2. PICK from \in Nat : from = firstEvent[s]
        BY <1>n
      <3>3. Pending(s, from, 1)
        BY <1>t, <2>1, <2>3, <2>7, <3>1, <3>2 DEF AnswersLead, Answer
      <3>4. Pending(s, from, 0)'
        BY <1>t, <2>2, <3>3, PendingShrinks
      <3>5. \A q \in Requests : proxy[q] # s
        <4>1. proxy[r] = NoSession /\ s = sid[r] /\ s # NoSession
          BY <1>t, <2>1, <2>3, <2>7, <3>1 DEF AnswersWait, Answer
        <4> QED
          BY <1>t, <4>1, OneOwner
      <3>6. delivered'[s] = <<>> /\ buffer'[s] = <<>> /\ firstEvent'[s] = from
        BY <1>t, <2>2, <3>2, <3>5 DEF RelayFollows
      <3>7. Had(s)' = from
        <4>1. Len(delivered'[s]) = 0 /\ Len(buffer'[s]) = 0
          BY <3>6, EmptySeq
        <4> QED
          BY <3>6, <4>1 DEF Had
      <3>8. DOMAIN delivered'[s] = {} /\ DOMAIN buffer'[s] = {}
        BY <3>6, EmptySeq
      <3>9. Pending(proxy[r], Had(proxy[r]), 0)'
        BY <2>7, <3>1, <3>4, <3>7
      <3> QED
        BY <2>7, <3>1, <3>6, <3>8, <3>9 DEF Kept, Run
    <2> QED
      BY <2>5, <2>6, <2>7

  <1>5. ASSUME WorkerReceives, TakeEvent(Head(toWorker)) PROVE Kept(proxy[r], caller[r])'
    <2> DEFINE m == Head(toWorker)
    <2>1. m \in ToWorkerMsg /\ 1 \in DOMAIN toWorker /\ m = toWorker[1]
      BY <1>t, <1>5, QueueShrinks DEF WorkerReceives
    <2>2. toWorker # <<>> /\ toWorker' = Tail(toWorker) /\ UNCHANGED <<written, firstEvent, caller, proxy>>
      BY <1>5 DEF WorkerReceives, TakeEvent
    <2>3. TakeEvent(m) /\ m.kind = "event" /\ overflowed \subseteq overflowed'
      BY <1>5 DEF TakeEvent
    <2>4. m.id \in Sessions /\ m.info \in 1..MaxEvents
      BY <2>1, <2>3, Messages
    <2> HIDE DEF m
    <2>5. PICK s \in Sessions : s = proxy[r]
      BY <1>s, <1>o, <2>2
    <2>6. Kept(s, caller[r]) /\ s \notin overflowed'
      BY <1>t, <1>s, <1>u, <2>2, <2>3, <2>5 DEF ProxiesKeepUp
    <2>7. CASE m.id # s
      <3>1. ASSUME NEW from \in Nat, Pending(s, from, 0) PROVE Pending(s, from, 0)'
        BY <1>t, <2>1, <2>2, <2>7, <3>1, PendingShrinks DEF Event
      <3>2. delivered'[s] = delivered[s] /\ buffer'[s] = buffer[s]
        BY <1>t, <2>3, <2>4, <2>7 DEF TypeOK, TakeEvent
      <3> QED
        BY <1>1, <2>2, <2>5, <2>6, <3>1, <3>2
    <2>8. CASE m.id = s
      <3>1. PICK from \in Nat : from = Had(s)
        BY <1>n
      <3>2. m.info = from + 1 /\ Pending(s, from + 1, 0)'
        BY <1>t, <2>1, <2>2, <2>3, <2>6, <2>8, <3>1, NextEvent DEF Kept, Event
      <3>3. /\ firstEvent[s] \in Nat /\ Len(delivered[s]) \in Nat /\ Len(buffer[s]) \in Nat
            /\ from = firstEvent[s] + Len(delivered[s]) + Len(buffer[s])
        BY <1>n, <3>1, LenProperties DEF Had
      <3>4. ASSUME NEW q \in Seq(1..MaxEvents), NEW p, p = Append(q, m.info), Run(q, firstEvent[s]),
                   m.info = firstEvent[s] + (Len(q) + 1)
            PROVE  Run(p, firstEvent[s]) /\ Len(p) = Len(q) + 1
        <4>1. /\ p[Len(q) + 1] = m.info /\ \A n \in DOMAIN q : p[n] = q[n]
              /\ \A n \in DOMAIN p : n = Len(q) + 1 \/ n \in DOMAIN q
          BY <2>4, <3>4, QueueGrows
        <4>2. Len(p) = Len(q) + 1
          BY <2>4, <3>4, AppendProperties
        <4> QED
          BY <3>4, <4>1, <4>2 DEF Run
      <3>5. ASSUME caller[r] = "streaming" PROVE Kept(proxy[r], caller[r])'
        <4>1. relay[s] = "streaming" /\ buffer[s] = <<>> /\ Len(buffer[s]) = 0
          BY <1>t, <2>5, <2>6, <3>5, EmptySeq DEF RelayFollows, Kept
        <4>2. delivered'[s] = Append(delivered[s], m.info) /\ buffer'[s] = buffer[s]
          BY <1>t, <2>3, <2>4, <2>8, <4>1 DEF TypeOK, TakeEvent
        <4>3. m.info = firstEvent[s] + (Len(delivered[s]) + 1)
          BY <3>2, <3>3, <4>1
        <4>4. Run(delivered'[s], firstEvent[s]) /\ Len(delivered'[s]) = Len(delivered[s]) + 1
          BY <1>n, <2>6, <3>4, <4>2, <4>3 DEF Kept
        <4>5. Had(s)' = from + 1
          BY <2>2, <3>3, <4>1, <4>2, <4>4 DEF Had
        <4>6. Pending(proxy[r], Had(proxy[r]), 0)'
          BY <2>2, <2>5, <3>2, <4>5
        <4> QED
          BY <2>2, <2>5, <2>6, <3>5, <4>1, <4>2, <4>4, <4>6 DEF Kept, Run
      <3>6. ASSUME caller[r] = "ready" PROVE Kept(proxy[r], caller[r])'
        <4>1. relay[s] = "buffering" /\ delivered[s] = <<>> /\ Len(delivered[s]) = 0
          BY <1>t, <2>5, <2>6, <3>6, EmptySeq DEF RelayFollows, Kept
        <4>2. delivered'[s] = delivered[s] /\ buffer'[s] = Append(buffer[s], m.info)
          BY <1>t, <2>3, <2>4, <2>6, <2>8, <4>1 DEF TypeOK, TakeEvent
        <4>3. m.info = firstEvent[s] + (Len(buffer[s]) + 1)
          BY <3>2, <3>3, <4>1
        <4>4. Run(buffer'[s], firstEvent[s]) /\ Len(buffer'[s]) = Len(buffer[s]) + 1
          BY <1>n, <2>6, <3>4, <4>2, <4>3 DEF Kept
        <4>5. Had(s)' = from + 1
          BY <2>2, <3>3, <4>1, <4>2, <4>4 DEF Had
        <4>6. Pending(proxy[r], Had(proxy[r]), 0)'
          BY <2>2, <2>5, <3>2, <4>5
        <4> QED
          BY <2>2, <2>5, <2>6, <3>6, <4>1, <4>2, <4>4, <4>6 DEF Kept, Run
      <3> QED
        BY <1>s, <2>2, <3>5, <3>6
    <2> QED
      BY <2>7, <2>8
  <1>6. ASSUME NEW q \in Requests, NEW i \in Ids, SendToWorker(Msg("opened", q, i)), UNCHANGED written,
               Msg("opened", q, i) \in ToWorkerMsg, serving[q] # "done",
               UNCHANGED <<caller, proxy, delivered, buffer, overflowed>>,
               i # NoSession => i = sid[q] /\ i \in Sessions /\ firstEvent' = [firstEvent EXCEPT ![i] = written[i]],
               i = NoSession => UNCHANGED firstEvent
        PROVE  Kept(proxy[r], caller[r])'
    <2>1. PICK s \in Sessions : s = proxy[r]
      BY <1>2, <1>6
    <2>2. s # i
      <3>1. s # NoSession
        BY Messages
      <3> QED
        BY <1>t, <1>2, <1>6, <2>1, <3>1, OneOwner
    <2>3. firstEvent'[s] = firstEvent[s]
      BY <1>t, <1>6, <2>2 DEF TypeOK
    <2>4. Msg("opened", q, i).kind # "event" /\ 0 \in 0..Len(toWorker)
      BY <1>t, LenProperties DEF Msg
    <2>5. ASSUME NEW from \in Nat, Pending(s, from, 0) PROVE Pending(s, from, 0)'
      <3>1. CASE PipeOpen
        BY <1>t, <1>6, <2>4, <2>5, <3>1, PendingGrows DEF SendToWorker
      <3>2. CASE ~PipeOpen
        BY <1>6, <2>5, <3>2 DEF SendToWorker, Pending, Event
      <3> QED
        BY <3>1, <3>2
    <2> QED
      BY <1>1, <1>2, <1>6, <2>1, <2>3, <2>5
  <1>7. ASSUME NEW q \in Sessions, toWorker' = Append(toWorker, Msg("event", q, written[q] + 1)), UNCHANGED firstEvent,
               Msg("event", q, written[q] + 1) \in ToWorkerMsg, written' = [written EXCEPT ![q] = written[q] + 1],
               UNCHANGED <<caller, proxy, delivered, buffer, overflowed>>
        PROVE  Kept(proxy[r], caller[r])'
    <2>1. PICK s \in Sessions : s = proxy[r]
      BY <1>2, <1>7
    <2>2. 0 \in 0..Len(toWorker)
      BY <1>t, LenProperties
    <2>3. \/ Msg("event", q, written[q] + 1).id # s /\ written'[s] = written[s]
          \/ q = s /\ written'[s] = written[s] + 1
      BY <1>t, <1>7 DEF TypeOK, Msg
    <2>4. ASSUME NEW from \in Nat, Pending(s, from, 0) PROVE Pending(s, from, 0)'
      BY <1>t, <1>7, <2>2, <2>3, <2>4, PendingGrows
    <2> QED
      BY <1>1, <1>2, <1>7, <2>1, <2>4
  <1>8. ASSUME UNCHANGED <<toWorker, written, firstEvent, delivered, buffer, overflowed>>,
               caller'[r] = caller[r], proxy'[r] = proxy[r]
        PROVE  Kept(proxy[r], caller[r])'
    <2>1. PICK s \in Sessions : s = proxy[r]
      BY <1>s, <1>o, <1>8
    <2>2. Kept(s, caller[r])
      BY <1>t, <1>s, <1>u, <1>8, <2>1 DEF ProxiesKeepUp
    <2>3. ASSUME NEW from \in Nat, Pending(s, from, 0) PROVE Pending(s, from, 0)'
      BY <1>8, <2>3 DEF Pending, Event
    <2> QED
      BY <1>1, <1>8, <2>1, <2>2, <2>3
  <1>9. ASSUME NEW q \in Requests, Open(q) \/ OpenTimesOut(q) \/ SendAudio(q) \/ Stop(q)
        PROVE  Kept(proxy[r], caller[r])'
    <2>1. caller'[r] = caller[r] /\ UNCHANGED <<proxy, toWorker, written, firstEvent, delivered, buffer, overflowed>>
      BY <1>t, <1>s, <1>9 DEF TypeOK, Open, OpenTimesOut, SendAudio, Stop
    <2> QED
      BY <1>8, <2>1
  <1>10. ASSUME UNCHANGED <<toWorker, written, firstEvent, workerVars>> PROVE Kept(proxy[r], caller[r])'
    BY <1>8, <1>10
  <1>11. \/ \E q \in Requests : Open(q) \/ OpenTimesOut(q) \/ SendAudio(q) \/ Stop(q) \/ Start(q)
         \/ WorkerReceives \/ UNCHANGED workerVars
    BY DEF Next, DaemonReceives, SessionRefused, SessionOpens, SessionStarts, StartFails, Emit, ShutdownRuntime,
           WorkerDies, WorkerExitSeen, vars
  <1>12. WorkerReceives => TakeOpened(Head(toWorker)) \/ TakeEvent(Head(toWorker))
    BY DEF WorkerReceives
  <1>13. ~(workerUp' = FALSE)
    BY <1>s
  <1>14. CASE \E q \in Requests : Open(q) \/ OpenTimesOut(q) \/ SendAudio(q) \/ Stop(q) \/ Start(q)
    BY <1>3, <1>9, <1>14
  <1>15. CASE WorkerReceives
    BY <1>4, <1>5, <1>12, <1>15
  <1>16. CASE UNCHANGED workerVars /\ ~WorkerReceives
    BY <1>t, <1>6, <1>7, <1>10, <1>13, <1>16, ToWorkerSteps
  <1> QED
    BY <1>11, <1>14, <1>15, <1>16

-----------------------------------------------------------------------------
LEMMA RelayStartsWell == Init => RelayInv
  <1> SUFFICES ASSUME Init PROVE RelayInv
    OBVIOUS
  <1>1. Cardinality(Requests) \in Nat
    BY Messages
  <1>2. DOMAIN toDaemon = {} /\ DOMAIN toWorker = {}
    BY EmptySeq DEF Init
  <1>3. TypeOK
    <2>1. <<>> \in Seq(1..MaxEvents) /\ <<>> \in Seq(ToDaemonMsg) /\ <<>> \in Seq(ToWorkerMsg)
      OBVIOUS
    <2>2. NoSession \in Ids /\ 1 \in 1..(Cardinality(Requests) + 1) /\ 0 \in 0..MaxEvents /\ 0 \in 0..MaxAudio
      BY <1>1, Messages, RelayConstants
    <2> QED
      BY <2>1, <2>2 DEF Init, TypeOK
  <1>4. CallersStand /\ RelayFollows
    BY DEF Init, CallersStand, RelayFollows
  <1>5. SessionsAreDistinct
    <2>1. Drawn = {}
      BY DEF Init, Drawn
    <2>2. Cardinality({}) = 0
      BY FS_EmptySet
    <2> QED
      BY <2>1, <2>2 DEF Init, SessionsAreDistinct, NoSession
  <1>6. RequestsWait /\ AnswersWait /\ OwnersWrote /\ DaemonKnows /\ PipeIsInOrder /\ AnswersLead
       /\ OpenPipeTakesAll
    BY <1>2 DEF Init, OpenPipeTakesAll, RequestsWait, AnswersWait, OwnersWrote, DaemonKnows, PipeIsInOrder, InOrder, AnswersLead
  <1>7. StopsArrive /\ ProxiesKeepUp
    BY DEF Init, StopsArrive, ProxiesKeepUp
  <1> QED
    BY <1>3, <1>4, <1>5, <1>6, <1>7 DEF RelayInv

LEMMA RelayInduction == RelayInv /\ [Next]_vars => RelayInv'
  <1> SUFFICES ASSUME RelayInv, [Next]_vars PROVE RelayInv'
    OBVIOUS
  <1> QED
    BY TypesStand, CallersStandStill, SessionsStayDistinct, RelayStillFollows, RequestsStillWait, AnswersStillWait,
       OwnersStillWrote, StopsStillArrive, DaemonStillKnows, OpenPipeStillTakesAll, PipeStaysInOrder,
       AnswersStillLead, ProxiesStillKeepUp
    DEF RelayInv

LEMMA RelayInvAgrees == RelayInv => SessionsAgree
  <1> SUFFICES ASSUME RelayInv PROVE SessionsAgree
    OBVIOUS
  <1>t. /\ TypeOK /\ CallersStand /\ SessionsAreDistinct /\ StopsArrive /\ DaemonKnows /\ PipeIsInOrder /\ ProxiesKeepUp
        /\ OpenPipeTakesAll /\ toWorker \in Seq(ToWorkerMsg)
    BY DEF RelayInv, TypeOK
  <1>1. AudioFindsSession
    BY <1>t DEF DaemonKnows, StopAllRan, AudioFindsSession
  <1>2. ASSUME NEW r \in Requests, workerUp, caller[r] = "streaming", proxy[r] \notin overflowed
        PROVE  /\ \A i \in DOMAIN delivered[proxy[r]] : delivered[proxy[r]][i] = firstEvent[proxy[r]] + i
               /\ InTransit(proxy[r]) = firstEvent[proxy[r]] + Len(delivered[proxy[r]]) + 1 .. written[proxy[r]]
               /\ shutdownAsked \/ written[proxy[r]] = emitted[proxy[r]]
               /\ InOrder(proxy[r])
    <2>8. shutdownAsked \/ written = emitted
      BY <1>t, <1>2 DEF OpenPipeTakesAll, PipeOpen
    <2> DEFINE s == proxy[r]
               from == firstEvent[s] + Len(delivered[s])
    <2>1. s \in Sessions /\ Kept(s, "streaming") /\ firstEvent[s] \in Nat /\ delivered[s] \in Seq(1..MaxEvents)
          /\ written[s] \in Nat
      BY <1>t, <1>2, OneOwner DEF ProxiesKeepUp, TypeOK
    <2>2. Len(delivered[s]) \in Nat /\ Len(buffer[s]) = 0 /\ from \in Nat /\ Had(s) = from
      BY <2>1, LenProperties, EmptySeq DEF Kept, Had
    <2>3. Pending(s, from, 0)
      BY <2>1, <2>2 DEF Kept
    <2>4. \A i \in DOMAIN delivered[s] : delivered[s][i] = firstEvent[s] + i
      BY <2>1 DEF Kept, Run
    <2> HIDE DEF s, from
    <2>5. InTransit(s) \subseteq from + 1 .. written[s]
      <3>1. ASSUME NEW n \in DOMAIN toWorker, Event(n, s) PROVE toWorker[n].info \in from + 1 .. written[s]
        <4>1. n > 0 /\ toWorker[n] \in ToWorkerMsg
          BY <1>t, ElementOfSeq, LenProperties
        <4>2. toWorker[n].info \in Nat
          BY <3>1, <4>1, Messages DEF Event
        <4>3. toWorker[n].info > from /\ toWorker[n].info <= written[s]
          BY <1>t, <2>1, <2>3, <3>1, <4>1 DEF Pending, PipeIsInOrder
        <4> QED
          BY <2>1, <2>2, <4>2, <4>3
      <3> QED
        BY <3>1 DEF InTransit
    <2>6. from + 1 .. written[s] \subseteq InTransit(s)
      <3>1. ASSUME NEW k \in from + 1 .. written[s] PROVE k \in InTransit(s)
        <4>1. PICK n \in DOMAIN toWorker : toWorker[n] = Msg("event", s, k)
          BY <2>3, <3>1 DEF Pending
        <4>2. Event(n, s) /\ toWorker[n].info = k
          BY <4>1 DEF Event, Msg
        <4> QED
          BY <4>2 DEF InTransit
      <3> QED
        BY <3>1
    <2>7. InTransit(s) = from + 1 .. written[s] /\ InOrder(s)
      BY <1>t, <2>1, <2>5, <2>6 DEF PipeIsInOrder
    <2> QED
      BY <2>4, <2>7, <2>8 DEF s, from
  <1>3. NothingLostInGap
    BY <1>2 DEF NothingLostInGap
  <1>4. OnlyLateAnswersOrphan
    <2>1. SUFFICES ASSUME NEW r \in Requests, sid[r] \in live
                   PROVE  \/ caller[r] \in {"refused", "opening", "ready", "streaming"}
                          \/ \E i \in DOMAIN toDaemon : toDaemon[i] = Msg("stop", sid[r], 0)
      BY DEF OnlyLateAnswersOrphan
    <2>2. caller[r] # "idle"
      BY <1>t, <2>1, Messages DEF TypeOK, CallersStand
    <2>3. caller[r] \in {"idle", "opening", "ready", "streaming", "refused", "stopped"}
      BY <1>t DEF TypeOK
    <2> QED
      BY <1>t, <2>1, <2>2, <2>3 DEF StopsArrive
  <1> QED
    BY <1>t, <1>1, <1>3, <1>4 DEF SessionsAgree, SessionIsConnected

(* stt-relay.ts and stt-bridge.ts, for any number of requests and any      *)
(* limit: audio in the pipe finds its session, no event after the answer   *)
(* is lost or out of order unless the buffer overflowed or the runtime's   *)
(* shutdown had ended the worker's stdin, and no session is left behind    *)
(* but by a late answer.                                                   *)
THEOREM SessionsStayAgreed == Spec => []SessionsAgree
  <1> QED
    BY RelayStartsWell, RelayInduction, RelayInvAgrees, PTL DEF Spec

-----------------------------------------------------------------------------
(* Where the join, the ingest, the relay's caller, the bot and the         *)
(* connections stand to each other.                                        *)
WhileItLives ==
    /\ launch = "idle" => ingest = "off" /\ caller[Opening] = "idle" /\ bot = "none"
    /\ launch = "audio" =>
          /\ bot = "none"
          /\ \/ ingest = "creating" /\ caller[Opening] \in {"opening", "ready", "refused"}
             \/ ingest = "binding" /\ caller[Opening] = "streaming"
    /\ launch \in {"run", "wait", "live", "leaving"} => ingest = "up" /\ caller[Opening] = "streaming"
    /\ launch = "closing" => ingest = "closing" /\ caller[Opening] = "stopped"
    /\ launch = "over" => ingest \in {"failed", "stopped"} /\ caller[Opening] \in {"refused", "stopped"}
Removed  == launch \in {"leaving", "closing", "over"} /\ bot = "up" => stray
Silenced == ingest \notin {"up", "closing"} => \A p \in Peers : conn[p] \in {"none", "destroyed"}
Admitted == conn["bot"] = "accepted" => ready = "resolved"
Budget   == capture \in {"off", "attempt", "backoff"} => failures <= MaxReconnects
AudioInv ==
    /\ PathTypeOK /\ (workerUp <=> launch # "lost")
    /\ WhileItLives /\ Removed /\ Silenced /\ Admitted /\ Budget

-----------------------------------------------------------------------------
(* Every step of the whole path is a step of the relay, or leaves it alone. *)
LEMMA StepsOfRelay == [MeetAudioNext]_allVars => [Next]_vars
  <1>o. Opening \in Requests
    BY MeetAudioConstants
  <1>1. ASSUME \/ JoinOpens \/ JoinRefused \/ JoinStartsTranscriber \/ JoinCannotBind \/ JoinBinds
               \/ BotStarts \/ RunReturns \/ RunFails \/ RunWithoutPort \/ JoinIsLive \/ GivesUpWaiting
               \/ Leaves \/ StopsAudio \/ AudioClosed
        PROVE  [Next]_vars
    BY <1>o, <1>1 DEF JoinOpens, JoinRefused, JoinStartsTranscriber, JoinCannotBind, JoinBinds, BotStarts, RunReturns,
       RunFails, RunWithoutPort, JoinIsLive, GivesUpWaiting, Leaves, StopsAudio, AudioClosed, StopsIngest, IdleRelay, Next
  <1>2. ASSUME IngestSteps PROVE [Next]_vars
    BY <1>o, <1>2 DEF IngestSteps, PassesAudio, IdleRelay, Next
  <1>3. ASSUME CaptureAttempts \/ CaptureWrites \/ CaptureLosesParec \/ CaptureLosesSocket \/ BotEnds PROVE [Next]_vars
    BY <1>o, <1>3 DEF CaptureAttempts, CaptureWrites, CaptureLosesParec, CaptureLosesSocket, BotEnds, PassesAudio,
       IdleRelay, Next
  <1>4. ASSUME RelaySteps \/ WorkerIsLost PROVE [Next]_vars
    BY <1>o, <1>4 DEF RelaySteps, WorkerIsLost, Next
  <1>5. ASSUME UNCHANGED allVars PROVE UNCHANGED vars
    BY <1>5 DEF allVars
  <1> QED
    BY <1>1, <1>2, <1>3, <1>4, <1>5 DEF MeetAudioNext

(* What the relay does meanwhile to the join's call and to its process.    *)
LEMMA RelayMeanwhile ==
    ASSUME RelayInv, RelaySteps \/ IdleRelay
    PROVE  /\ UNCHANGED workerUp
           /\ \/ caller'[Opening] = caller[Opening]
              \/ caller[Opening] = "opening" /\ caller'[Opening] \in {"ready", "refused"}
  <1> USE DEF workerVars, bridgeVars, processVars
  <1>t. TypeOK /\ CallersStand /\ Opening \in Requests
    BY MeetAudioConstants DEF RelayInv
  <1>1. ASSUME TakeOpened(Head(toWorker))
        PROVE  \/ caller'[Opening] = caller[Opening]
               \/ caller[Opening] = "opening" /\ caller'[Opening] \in {"ready", "refused"}
    BY <1>t, <1>1 DEF TypeOK, CallersStand, TakeOpened
  <1>2. ASSUME WorkerReceives
        PROVE  /\ UNCHANGED workerUp
               /\ \/ caller'[Opening] = caller[Opening]
                  \/ caller[Opening] = "opening" /\ caller'[Opening] \in {"ready", "refused"}
    BY <1>1, <1>2 DEF WorkerReceives, TakeEvent
  <1>3. ASSUME OpenTimesOut(Opening)
        PROVE  /\ UNCHANGED workerUp
               /\ caller[Opening] = "opening" /\ caller'[Opening] \in {"ready", "refused"}
    BY <1>t, <1>3 DEF TypeOK, CallersStand, OpenTimesOut
  <1>4. ASSUME \/ DaemonReceives \/ SessionRefused(Opening) \/ SessionOpens(Opening) \/ SessionStarts(Opening)
               \/ StartFails(Opening) \/ ShutdownRuntime \/ WorkerExitSeen \/ IdleRelay
               \/ \E s \in Sessions : Emit(s)
        PROVE  UNCHANGED <<workerUp, caller>>
    BY <1>4 DEF DaemonReceives, SessionRefused, SessionOpens, SessionStarts, StartFails, Emit, ShutdownRuntime,
       WorkerExitSeen, IdleRelay, vars
  <1> QED
    BY <1>2, <1>3, <1>4 DEF RelaySteps

LEMMA CallerMoves ==
    ASSUME RelayInv
    PROVE  /\ Open(Opening) => caller'[Opening] = "opening" /\ workerUp' /\ workerUp /\ caller[Opening] = "idle"
           /\ Start(Opening) => caller'[Opening] = "streaming" /\ workerUp' /\ workerUp /\ caller[Opening] = "ready"
           /\ Stop(Opening) => caller'[Opening] = "stopped" /\ workerUp' /\ workerUp /\ caller[Opening] = "streaming"
           /\ SendAudio(Opening) => UNCHANGED <<caller, workerUp>>
           /\ IdleRelay => UNCHANGED <<caller, workerUp>>
  BY MeetAudioConstants DEF RelayInv, TypeOK, Open, Start, Stop, SendAudio, IdleRelay, vars, workerVars, processVars

-----------------------------------------------------------------------------
(* The invariant of the path, by the parts of the path that step.          *)

LEMMA JoinKeepsInv ==
    ASSUME RelayInv, AudioInv,
           \/ JoinOpens \/ JoinRefused \/ JoinStartsTranscriber \/ JoinCannotBind \/ JoinBinds
    PROVE  AudioInv'
  <1> USE DEF AudioInv, PathTypeOK, IngestTypeOK, CaptureTypeOK, ingestVars, captureVars, LaunchGoes, IngestGoes,
          WhileItLives, Removed, Silenced, Admitted, Budget
  <1>1. CASE JoinOpens
    BY <1>1, CallerMoves DEF JoinOpens, CreateTranscriber, IdleBot
  <1>2. CASE JoinRefused
    BY <1>2, CallerMoves DEF JoinRefused, CreateFails, IdleBot
  <1>3. CASE JoinStartsTranscriber
    BY <1>3, CallerMoves DEF JoinStartsTranscriber, TranscriberRuns, IdleBot
  <1>4. CASE JoinCannotBind
    BY <1>4, CallerMoves DEF JoinCannotBind, BindFails, IdleBot
  <1>5. CASE JoinBinds
    BY <1>5, CallerMoves DEF JoinBinds, Binds, IdleBot, Peers
  <1> QED
    BY <1>1, <1>2, <1>3, <1>4, <1>5

LEMMA RunKeepsInv ==
    ASSUME RelayInv, AudioInv,
           \/ BotStarts \/ RunReturns \/ RunFails \/ RunWithoutPort \/ JoinIsLive \/ GivesUpWaiting
           \/ Leaves \/ StopsAudio \/ AudioClosed
    PROVE  AudioInv'
  <1> USE DEF AudioInv, PathTypeOK, IngestTypeOK, CaptureTypeOK, ingestVars, captureVars, LaunchGoes,
          WhileItLives, Removed, Silenced, Admitted, Budget
  <1>s. ASSUME StopsIngest
        PROVE  /\ ingest = "up" /\ ingest' = "closing" /\ UNCHANGED ready
               /\ conn' \in [Peers -> {"none", "authenticating", "accepted", "destroyed"}]
               /\ conn'["bot"] # "accepted"
               /\ workerUp /\ workerUp' /\ caller'[Opening] = "stopped"
    BY <1>s, CallerMoves DEF StopsIngest, StopsListening, Peers
  <1>r. ASSUME NEW removed \in BOOLEAN, RemovesBot(removed)
        PROVE  /\ UNCHANGED <<ingest, ready, failures>> /\ bot' \in {bot, "gone"} /\ stray' \in BOOLEAN
               /\ capture' \in {capture, "stopped"} /\ wrote' \in 0..Stable
               /\ conn' \in [Peers -> {"none", "authenticating", "accepted", "destroyed"}]
               /\ \/ conn' = conn
                  \/ conn'["bot"] = "none" /\ \A p \in Peers : p # "bot" => conn'[p] = conn[p]
               /\ bot' = "up" => stray'
    <2>1. 0 \in 0..Stable
      BY MeetAudioConstants
    <2>2. CASE removed = TRUE
      BY <1>r, <2>1, <2>2 DEF RemovesBot, CaptureStops, Peers
    <2>3. CASE removed = FALSE
      BY <1>r, <2>3 DEF RemovesBot
    <2> QED
      BY <2>2, <2>3
  <1>1. CASE BotStarts
    BY <1>1, CallerMoves DEF BotStarts
  <1>2. CASE RunReturns
    BY <1>2, CallerMoves DEF RunReturns, IdleBot
  <1>3. CASE RunFails
    BY <1>3, <1>s DEF RunFails
  <1>4. CASE RunWithoutPort \/ GivesUpWaiting \/ Leaves
    <2>1. /\ launch \in {"run", "wait", "live"} /\ launch' = "leaving" /\ IdleRelay
          /\ \E removed \in BOOLEAN : RemovesBot(removed)
      BY <1>4 DEF RunWithoutPort, GivesUpWaiting, Leaves
    <2> QED
      BY <1>r, <2>1, CallerMoves
  <1>5. CASE JoinIsLive
    BY <1>5, CallerMoves DEF JoinIsLive, IdleBot
  <1>6. CASE StopsAudio
    BY <1>6, <1>s DEF StopsAudio, IdleBot
  <1>7. CASE AudioClosed
    BY <1>7, CallerMoves DEF AudioClosed, ServerCloses, IdleBot
  <1> QED
    BY <1>1, <1>2, <1>3, <1>4, <1>5, <1>6, <1>7

LEMMA IngestKeepsInv ==
    ASSUME RelayInv, AudioInv, IngestSteps
    PROVE  AudioInv'
  <1> USE DEF AudioInv, PathTypeOK, IngestTypeOK, CaptureTypeOK, captureVars, meetVars, Peers,
          WhileItLives, Removed, Silenced, Admitted, Budget
  <1>1. UNCHANGED <<caller, workerUp, captureVars, meetVars>>
    BY CallerMoves DEF IngestSteps, PassesAudio
  <1>2. CASE ConnectTimesOut
    BY <1>1, <1>2 DEF ConnectTimesOut
  <1>3. CASE Connects("stranger")
    BY <1>1, <1>3 DEF Connects, Destroyed
  <1>4. CASE Rejects("stranger") \/ Rejects("bot")
    BY <1>1, <1>4 DEF Rejects, Destroyed
  <1>5. CASE Accepts
    BY <1>1, <1>5 DEF Accepts
  <1>6. CASE ConnectionDrops
    BY <1>1, <1>6 DEF ConnectionDrops
  <1> QED
    BY <1>2, <1>3, <1>4, <1>5, <1>6 DEF IngestSteps

LEMMA BotKeepsInv ==
    ASSUME RelayInv, AudioInv, CaptureAttempts \/ CaptureWrites \/ CaptureLosesParec \/ CaptureLosesSocket \/ BotEnds
    PROVE  AudioInv'
  <1> USE DEF AudioInv, PathTypeOK, IngestTypeOK, CaptureTypeOK, ingestVars, meetVars, Peers,
          WhileItLives, Removed, Silenced, Admitted, Budget
  <1>1. UNCHANGED <<caller, workerUp>> /\ UNCHANGED <<launch, stray>>
    BY CallerMoves DEF CaptureAttempts, CaptureWrites, CaptureLosesParec, CaptureLosesSocket, BotEnds, BotSteps, PassesAudio
  <1>c. MaxReconnects \in Nat /\ Stable \in Nat /\ Stable # 0 /\ 0 \in 0..Stable
    BY MeetAudioConstants
  <1>f. ASSUME NEW frames \in 0..Stable, AttemptFails(frames), capture \in {"off", "attempt", "backoff"}
        PROVE  CaptureTypeOK' /\ Budget'
    <2>1. failures <= MaxReconnects /\ failures \in Nat
      BY <1>c, <1>f
    <2>2. Spent(frames) \in Nat /\ Spent(frames) <= MaxReconnects + 1
      BY <1>c, <2>1 DEF Spent
    <2> QED
      BY <1>c, <1>f, <2>2 DEF AttemptFails
  <1>2. CASE CaptureAttempts
    <2>1. capture \in {"off", "backoff"} /\ UNCHANGED <<bot, stray, launch>>
      BY <1>2 DEF CaptureAttempts, BotSteps, AttemptBegins
    <2>2. CASE AttemptFails(0) /\ UNCHANGED ingestVars
      BY <1>1, <1>c, <1>f, <2>1, <2>2
    <2>3. CASE Connects("bot") /\ capture' = "attempt" /\ wrote' = 0 /\ UNCHANGED failures
      BY <1>1, <1>c, <2>1, <2>3 DEF Connects, Destroyed
    <2> QED
      BY <1>2, <2>2, <2>3 DEF CaptureAttempts, BotSteps, AttemptBegins
  <1>3. CASE CaptureWrites
    <2>1. wrote' \in 0..Stable
      BY <1>c, <1>3 DEF CaptureWrites, BotSteps, WritesFrame
    <2> QED
      BY <1>1, <1>3, <2>1 DEF CaptureWrites, BotSteps, WritesFrame
  <1>4. CASE CaptureLosesParec \/ CaptureLosesSocket
    <2>1. /\ capture = "attempt" /\ AttemptFails(wrote) /\ conn' = [conn EXCEPT !["bot"] = "none"]
          /\ UNCHANGED <<ingest, ready, bot>>
      BY <1>4 DEF CaptureLosesParec, CaptureLosesSocket, SocketDies, ParecExits, BotSteps
    <2> QED
      BY <1>1, <1>f, <2>1
  <1>5. CASE BotEnds
    BY <1>1, <1>c, <1>5 DEF BotEnds, CaptureStops
  <1> QED
    BY <1>2, <1>3, <1>4, <1>5

LEMMA LossKeepsInv ==
    ASSUME RelayInv, AudioInv, RelaySteps \/ WorkerIsLost
    PROVE  AudioInv'
  <1> USE DEF AudioInv, PathTypeOK, IngestTypeOK, CaptureTypeOK, audioVars, ingestVars, captureVars, meetVars,
          WhileItLives, Removed, Silenced, Admitted, Budget
  <1>1. CASE RelaySteps
    BY <1>1, RelayMeanwhile DEF RelaySteps
  <1>2. CASE WorkerIsLost
    <2>1. workerUp' = FALSE /\ launch' = "lost" /\ UNCHANGED <<captureVars, bot, stray>>
      BY <1>2 DEF WorkerIsLost, WorkerDies
    <2>2. /\ ingest' \in {"off", "stopped"} /\ ready' = "none"
          /\ conn' \in [Peers -> {"none", "destroyed"}]
      BY <1>2 DEF WorkerIsLost, IngestDies, Destroyed, Peers
    <2> QED
      BY <2>1, <2>2 DEF Peers
  <1> QED
    BY <1>1, <1>2

LEMMA AudioInduction == RelayInv /\ AudioInv /\ [MeetAudioNext]_allVars => AudioInv'
  <1> SUFFICES ASSUME RelayInv, AudioInv, [MeetAudioNext]_allVars PROVE AudioInv'
    OBVIOUS
  <1>1. CASE MeetAudioNext
    BY <1>1, JoinKeepsInv, RunKeepsInv, IngestKeepsInv, BotKeepsInv, LossKeepsInv DEF MeetAudioNext
  <1>2. CASE UNCHANGED allVars
    BY <1>2 DEF allVars, vars, workerVars, processVars, audioVars, ingestVars, captureVars, meetVars, AudioInv,
       PathTypeOK, IngestTypeOK, CaptureTypeOK, WhileItLives, Removed, Silenced, Admitted, Budget
  <1> QED
    BY <1>1, <1>2

LEMMA AudioStartsWell == MeetAudioInit => RelayInv /\ AudioInv
  <1> SUFFICES ASSUME MeetAudioInit PROVE RelayInv /\ AudioInv
    OBVIOUS
  <1>1. RelayInv
    BY RelayStartsWell DEF MeetAudioInit
  <1>2. caller[Opening] = "idle" /\ workerUp
    BY MeetAudioConstants DEF MeetAudioInit, Init
  <1>c. MaxReconnects \in Nat /\ 0 \in 0..Stable /\ 0 \in 0..(MaxReconnects + 1)
    BY MeetAudioConstants
  <1>3. AudioInv
    <2>1. /\ ingest = "off" /\ ready = "none" /\ conn = [p \in Peers |-> "none"]
          /\ capture = "off" /\ failures = 0 /\ wrote = 0 /\ launch = "idle" /\ bot = "none" /\ stray = FALSE
      BY DEF MeetAudioInit, IngestInit, CaptureInit
    <2>2. PathTypeOK
      BY <1>c, <2>1 DEF PathTypeOK, IngestTypeOK, CaptureTypeOK
    <2>3. WhileItLives /\ Removed /\ Silenced /\ Admitted /\ Budget
      BY <1>2, <1>c, <2>1 DEF WhileItLives, Removed, Silenced, Admitted, Budget, Peers
    <2> QED
      BY <1>2, <2>1, <2>2, <2>3 DEF AudioInv
  <1> QED
    BY <1>1, <1>3

LEMMA AudioInvHolds == RelayInv /\ AudioInv => EndedJoinHoldsNothing
  <1> SUFFICES ASSUME RelayInv, AudioInv PROVE EndedJoinHoldsNothing
    OBVIOUS
  <1>1. Hears => ready = "resolved"
    BY DEF AudioInv, Admitted, Hears
  <1>2. ASSUME launch = "over"
        PROVE  /\ ingest \in {"failed", "stopped"} /\ \A p \in Peers : conn[p] # "accepted"
               /\ caller[Opening] \in {"refused", "stopped"} /\ (bot = "up" => stray)
    BY <1>2 DEF AudioInv, WhileItLives, Removed, Silenced
  <1> QED
    BY <1>1, <1>2 DEF AudioInv, EndedJoinHoldsNothing

(* session-manager.ts and audio-ingest.ts, for any number of reconnects    *)
(* and chunks: when the rollback or the leave is through, server, sockets  *)
(* and transcriber are closed, and audio passes only to the accepted bot.  *)
THEOREM EndedJoinsHoldNothing == MeetAudioSpec => []EndedJoinHoldsNothing
  <1>1. RelayInv /\ AudioInv /\ [MeetAudioNext]_allVars => (RelayInv /\ AudioInv)'
    BY StepsOfRelay, RelayInduction, AudioInduction
  <1> QED
    BY <1>1, AudioStartsWell, AudioInvHolds, PTL DEF MeetAudioSpec

(* The path drives the relay as its specification allows.                  *)
THEOREM PathKeepsSessionsAgreed == MeetAudioSpec => []SessionsAgree
  <1>1. MeetAudioInit => Init
    BY DEF MeetAudioInit
  <1>2. MeetAudioSpec => Spec
    BY <1>1, StepsOfRelay, PTL DEF MeetAudioSpec, Spec
  <1> QED
    BY <1>2, SessionsStayAgreed, PTL
=============================================================================
