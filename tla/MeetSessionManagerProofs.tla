---------------------- MODULE MeetSessionManagerProofs ----------------------
(***************************************************************************)
(* Proofs about MeetSessionManager, for any numbers of joins, meetings and *)
(* callers and any set of faulty engine calls.                             *)
(***************************************************************************)
EXTENDS MeetSessionManager, TLAPS

(* The members of each kind of teardown. *)
LEMMA TaskKinds ==
    /\ \A c \in Callers : <<"leave", c>> \in Tasks
    /\ \A j \in Joins : <<"exit", j>> \in Tasks
    /\ \A t \in ForceTasks : t \in Tasks /\ t[2] \in Joins
    /\ \A S \in SUBSET Joins : \A t \in {"shutdown", "force"} \X S : t \in Tasks /\ t[2] \in S
  BY DEF Tasks, LeaveTasks, ShutdownTasks, ExitTasks, ForceTasks

(* A rollback step leads to another one or to the end of the join. *)
LEMMA UndoStays == \A p \in UndoPc : AfterUndo[p] \in UndoPc \cup {"failed"}
  BY DEF UndoPc, AfterUndo

(* What the engine answers is a state of a container. *)
LEMMA EngineStates ==
    ASSUME NEW s \in {"none", "running", "exited", "removed"}
    PROVE  /\ AfterStop(s) \subseteq {"none", "running", "exited", "removed"}
           /\ AfterRemove(s) \subseteq {"none", "running", "exited", "removed"}
  BY DEF AfterStop, AfterRemove

-----------------------------------------------------------------------------
(* Every step of a join keeps the type invariant. *)
LEMMA JoinStepType ==
    ASSUME TypeOK, NEW j \in Joins, JoinStep(j)
    PROVE  TypeOK'
  <1> USE SessionConstants DEF SetJpc, ForgetToken, Unregister, OfMeeting, JoinPc, UndoPc,
          JoinOver, joinVars, taskVars, stopVars, histVars, wiring, resources
  <1> DEFINE m == MeetingOf[j]
  <1>0. m \in Meetings
    OBVIOUS
  <1>1. CASE JoinStart(j)
    BY <1>1, <1>0 DEF JoinStart, TypeOK
  <1>2. CASE JoinPrepare(j)
    BY <1>2, <1>0, SMTT(60) DEF JoinPrepare, TypeOK
  <1>3. CASE JoinRegister(j)
    BY <1>3, <1>0 DEF JoinRegister, TypeOK
  <1>4. CASE JoinIngest(j)
    BY <1>4, <1>0 DEF JoinIngest, TypeOK
  <1>5. CASE JoinSpawn(j)
    <2>1. container' \in [Joins -> {"none", "running", "exited", "removed"}]
      BY <1>5, EngineStates DEF JoinSpawn, SetContainer, TypeOK
    <2>. QED
      BY <1>5, <2>1 DEF JoinSpawn, TypeOK
  <1>10. CASE JoinInspect(j)
    BY <1>10, <1>0 DEF JoinInspect, TypeOK
  <1>6. CASE JoinActivate(j)
    BY <1>6, <1>0 DEF JoinActivate, TypeOK
  <1>7. CASE JoinSubscribeFails(j)
    BY <1>7, <1>0 DEF JoinSubscribeFails, TypeOK
  <1>8. CASE JoinNotReady(j)
    BY <1>8, <1>0 DEF JoinNotReady, TypeOK
  <1>9. CASE JoinUndo(j)
    <2>1. jpc' \in [Joins -> JoinPc]
      BY <1>9, UndoStays DEF JoinUndo, TypeOK
    <2>2. container' \in [Joins -> {"none", "running", "exited", "removed"}]
      BY <1>9, EngineStates DEF JoinUndo, SetContainer, TypeOK
    <2>3. ingest' \in [Joins -> {"none", "listening", "stopped"}]
      BY <1>9 DEF JoinUndo, SetContainer, TypeOK
    <2>4. /\ pendingBotTokens' \in [Meetings -> Joins \cup {NoJoin}]
          /\ registered' \subseteq Meetings /\ subscribed' \subseteq Joins
      BY <1>9, <1>0 DEF JoinUndo, TypeOK
    <2>. QED
      BY <1>9, <2>1, <2>2, <2>3, <2>4 DEF JoinUndo, TypeOK
  <1>. QED
    BY <1>1, <1>2, <1>3, <1>4, <1>5, <1>6, <1>7, <1>8, <1>9, <1>10 DEF JoinStep

(* So does every step of the bot, its container and the exit watcher. *)
LEMMA BotStepType ==
    ASSUME TypeOK, NEW j \in Joins,
           BotReportsJoined(j) \/ ContainerExits(j) \/ ExitObserved(j) \/ ExitUnobserved(j)
    PROVE  TypeOK'
  <1> USE SessionConstants, TaskKinds DEF OfMeeting, joinVars, taskVars, stopVars, histVars,
          wiring, resources
  <1>1. CASE BotReportsJoined(j)
    BY <1>1 DEF BotReportsJoined, TypeOK
  <1>2. CASE ContainerExits(j)
    BY <1>2 DEF ContainerExits, TypeOK
  <1>3. CASE ExitObserved(j)
    BY <1>3 DEF ExitObserved, Claim, Skip, TaskPc, TypeOK
  <1>4. CASE ExitUnobserved(j)
    BY <1>4 DEF ExitUnobserved, Skip, TaskPc, TypeOK
  <1>. QED
    BY <1>1, <1>2, <1>3, <1>4

(* So does a call of leave(), by a caller or by the timer. *)
LEMMA LeaveStepType ==
    ASSUME TypeOK, NEW c \in Callers,
           (\E m \in Meetings : LeaveCalled(c, m)) \/ (\E j \in Joins : TimeoutFires(c, j))
    PROVE  TypeOK'
  <1> USE SessionConstants, TaskKinds DEF joinVars, stopVars, histVars, resources, BeginLeave,
          Claim, Skip, TaskPc
  <1>1. CASE \E m \in Meetings : LeaveCalled(c, m)
    BY <1>1 DEF LeaveCalled, TypeOK
  <1>2. CASE \E j \in Joins : TimeoutFires(c, j)
    BY <1>2, SMTT(60) DEF TimeoutFires, TypeOK
  <1>. QED
    BY <1>1, <1>2

-----------------------------------------------------------------------------
(* A teardown that is under way has a session to tear down. *)
TargetsKnown == \A t \in Tasks : pc[t] \notin {"idle", "done"} => target[t] \in Joins

(* The steps of a teardown keep the type invariant. *)
LEMMA TaskStepType ==
    ASSUME TypeOK, TargetsKnown, NEW t \in Tasks, TaskStep(t)
    PROVE  TypeOK'
  <1> USE SessionConstants DEF OfMeeting, ForgetToken, Unregister, joinVars, taskVars, stopVars,
          histVars, wiring, resources, TaskPc
  <1>1. CASE DropSession(t)
    BY <1>1 DEF DropSession, DispatchLeft, TypeOK
  <1>2. CASE BotLeave(t)
    BY <1>2 DEF BotLeave, TypeOK
  <1>3. CASE StopContainer(t)
    <2>1. container' \in [Joins -> {"none", "running", "exited", "removed"}]
      BY <1>3, EngineStates DEF StopContainer, SetContainer, TypeOK, TargetsKnown
    <2>. QED
      BY <1>3, <2>1 DEF StopContainer, TypeOK
  <1>4. CASE RemoveContainer(t)
    <2>1. container' \in [Joins -> {"none", "running", "exited", "removed"}]
      BY <1>4, EngineStates DEF RemoveContainer, SetContainer, TypeOK, TargetsKnown
    <2>. QED
      BY <1>4, <2>1 DEF RemoveContainer, TypeOK
  <1>5. CASE StopIngest(t)
    BY <1>5 DEF StopIngest, TypeOK
  <1>6. CASE ForceUnwind(t)
    <2>1. t[2] \in Joins
      BY <1>6, TaskKinds DEF ForceUnwind
    <2>. QED
      BY <1>6, <2>1 DEF ForceUnwind, TypeOK
  <1>. QED
    BY <1>1, <1>2, <1>3, <1>4, <1>5, <1>6 DEF TaskStep

(* So do the steps of shutdownAll. *)
LEMMA ShutdownStepType ==
    ASSUME TypeOK, ShutdownAll \/ ShutdownStep
    PROVE  TypeOK'
  <1> USE SessionConstants DEF joinVars, taskVars, histVars, wiring, resources, TaskPc
  <1>1. CASE ShutdownAll
    BY <1>1 DEF ShutdownAll, TypeOK
  <1>2. CASE ShutdownCompletes
    BY <1>2 DEF ShutdownCompletes, TypeOK
  <1>3. CASE ShutdownDeadline
    <2>1. \A j \in Joins : sessions[MeetingOf[j]] \in Joins \cup {NoJoin}
      BY DEF TypeOK
    <2>2. Stragglers \subseteq Joins
      BY DEF Stragglers, TypeOK
    <2>3. \A t \in {"force"} \X Stragglers : t[2] \in Joins
      BY <2>2
    <2>4. pc' \in [Tasks -> TaskPc] /\ target' \in [Tasks -> Joins \cup {NoJoin}]
      BY <1>3, <2>1, <2>3 DEF ShutdownDeadline, TypeOK
    <2>. QED
      BY <1>3, <2>4 DEF ShutdownDeadline, TypeOK
  <1>4. CASE ShutdownForced
    BY <1>4 DEF ShutdownForced, TypeOK
  <1>. QED
    BY <1>1, <1>2, <1>3, <1>4 DEF ShutdownStep

(* Every step keeps TargetsKnown: a teardown leaves idle only with a       *)
(* session it found in the map, in the snapshot, or was started for.       *)
LEMMA TargetsStep ==
    ASSUME TypeOK, TargetsKnown, Next
    PROVE  TargetsKnown'
  <1> USE SessionConstants DEF TargetsKnown
  <1>1. ASSUME NEW j \in Joins, JoinStep(j) \/ BotReportsJoined(j) \/ ContainerExits(j)
        PROVE  TargetsKnown'
    <2>1. UNCHANGED taskVars
      BY <1>1 DEF JoinStep, JoinStart, JoinPrepare, JoinRegister, JoinIngest, JoinSpawn, JoinInspect,
            JoinActivate, JoinSubscribeFails, JoinNotReady, JoinUndo, BotReportsJoined,
            ContainerExits
    <2>. QED
      BY <2>1 DEF taskVars
  <1>2. ASSUME NEW j \in Joins, ExitObserved(j) \/ ExitUnobserved(j)
        PROVE  TargetsKnown'
    BY <1>2, TaskKinds, SMTT(60) DEF ExitObserved, ExitUnobserved, Claim, Skip, TypeOK
  <1>3. ASSUME NEW c \in Callers, NEW m \in Meetings, LeaveCalled(c, m)
        PROVE  TargetsKnown'
    BY <1>3, TaskKinds, SMTT(60) DEF LeaveCalled, BeginLeave, Claim, Skip, TypeOK
  <1>4. ASSUME NEW c \in Callers, NEW j \in Joins, TimeoutFires(c, j)
        PROVE  TargetsKnown'
    BY <1>4, TaskKinds, SMTT(60) DEF TimeoutFires, BeginLeave, Claim, Skip, TypeOK
  <1>5. ASSUME NEW t \in Tasks, TaskStep(t)
        PROVE  TargetsKnown'
    <2>1. t \in ForceTasks => t[2] \in Joins
      BY TaskKinds
    <2>. QED
      BY <1>5, <2>1 DEF TaskStep, DropSession, BotLeave, StopContainer, RemoveContainer,
            StopIngest, ForceUnwind, TypeOK
  <1>6. CASE ShutdownAll
    <2>1. \A t \in {"shutdown"} \X snapshot' : t[2] \in Joins
      BY <1>6 DEF ShutdownAll
    <2>. QED
      BY <1>6, <2>1 DEF ShutdownAll, TypeOK
  <1>7. CASE ShutdownDeadline
    <2>1. Stragglers \subseteq Joins
      BY DEF Stragglers, TypeOK
    <2>2. \A t \in {"force"} \X Stragglers : t[2] \in Joins
      BY <2>1
    <2>. QED
      BY <1>7, <2>2 DEF ShutdownDeadline, TypeOK
  <1>8. CASE ShutdownCompletes \/ ShutdownForced
    BY <1>8 DEF ShutdownCompletes, ShutdownForced, taskVars
  <1>. QED
    BY <1>1, <1>2, <1>3, <1>4, <1>5, <1>6, <1>7, <1>8 DEF Next, ShutdownStep

(* Type correctness, for any number of joins, meetings and callers. *)
THEOREM TypeCorrect == Spec => [](TypeOK /\ TargetsKnown)
  <1>1. Init => TypeOK /\ TargetsKnown
    <2> SUFFICES ASSUME Init PROVE TypeOK /\ TargetsKnown
      OBVIOUS
    <2>1. TypeOK
      BY SessionConstants DEF Init, TypeOK, JoinPc, TaskPc
    <2>2. TargetsKnown
      BY DEF Init, TargetsKnown
    <2>. QED
      BY <2>1, <2>2
  <1>2. TypeOK /\ TargetsKnown /\ [Next]_vars => TypeOK' /\ TargetsKnown'
    <2> SUFFICES ASSUME TypeOK, TargetsKnown, [Next]_vars
                 PROVE  TypeOK' /\ TargetsKnown'
      OBVIOUS
    <2>1. CASE Next
      <3>1. TypeOK'
        BY <2>1, JoinStepType, BotStepType, LeaveStepType, TaskStepType, ShutdownStepType
           DEF Next
      <3>. QED
        BY <2>1, <3>1, TargetsStep
    <2>2. CASE UNCHANGED vars
      BY <2>2 DEF vars, joinVars, taskVars, stopVars, histVars, wiring, resources, TypeOK,
            TargetsKnown
    <2>. QED
      BY <2>1, <2>2
  <1>. QED
    BY <1>1, <1>2, PTL DEF Spec

-----------------------------------------------------------------------------
(* Why the bot is always authenticated.  Each join has a meeting id of its *)
(* own (worker.ts mints one per join); then a token is pre-registered all  *)
(* through its join, a record in the map belongs to a completed join of    *)
(* that meeting, and only a claimed session may be missing from the map.   *)
DistinctIds == \A j, k \in Joins : MeetingOf[j] = MeetingOf[k] => j = k

TokenHeld ==
    \A j \in Joins : jpc[j] \in {"key", "ingest", "run", "inspect", "ready"}
                        => pendingBotTokens[MeetingOf[j]] = j
RecordsMatch ==
    \A m \in Meetings : sessions[m] # NoJoin
                        => MeetingOf[sessions[m]] = m /\ jpc[sessions[m]] = "joined"
InMapUntilClaimed ==
    \A j \in Joins : jpc[j] = "joined" /\ j \notin leaving => sessions[MeetingOf[j]] = j
LeavingJoined  == \A j \in leaving : jpc[j] = "joined"
TargetsClaimed ==
    /\ \A t \in Tasks : target[t] # NoJoin => target[t] \in leaving
    /\ snapshot \subseteq leaving

ForcedInSnapshot ==
    /\ \A t \in ForceTasks : pc[t] # "idle" => t[2] \in snapshot
    /\ ~shuttingDown => snapshot = {}

Typed == TypeOK /\ TargetsKnown
Handover == TokenHeld /\ RecordsMatch /\ InMapUntilClaimed /\ LeavingJoined
            /\ TargetsClaimed /\ ForcedInSnapshot

LEMMA HandoverInit == Init => Handover
  BY SessionConstants DEF Init, Tasks, ForceTasks, Handover, TokenHeld, RecordsMatch, InMapUntilClaimed, LeavingJoined,
         TargetsClaimed, ForcedInSnapshot

(* A step of a join keeps the handover: it moves only its own token and    *)
(* its own record, and no teardown has claimed it yet.                     *)
LEMMA HandoverJoin ==
    ASSUME Typed, Handover, DistinctIds, NEW j \in Joins, JoinStep(j)
    PROVE  Handover'
  <1> USE SessionConstants DEF Typed, Handover, SetJpc, ForgetToken, joinVars, taskVars,
          stopVars, wiring
  <1>m. MeetingOf[j] \in Meetings
    OBVIOUS
  <1>u. \A p \in UndoPc : AfterUndo[p] \in UndoPc \cup {"failed"}
    BY UndoStays
  <1>1. jpc[j] # "joined" /\ j \notin leaving /\ \A k \in Joins \ {j} : jpc'[k] = jpc[k]
    BY DEF JoinStep, JoinStart, JoinPrepare, JoinRegister, JoinIngest, JoinSpawn, JoinInspect, JoinActivate,
           JoinSubscribeFails, JoinNotReady, JoinUndo, LeavingJoined, UndoPc, TypeOK
  <1>2. UNCHANGED <<leaving, target, pc, snapshot, shuttingDown>>
    BY DEF JoinStep, JoinStart, JoinPrepare, JoinRegister, JoinIngest, JoinSpawn, JoinInspect, JoinActivate,
           JoinSubscribeFails, JoinNotReady, JoinUndo
  <1>3. LeavingJoined' /\ TargetsClaimed' /\ ForcedInSnapshot'
    BY <1>1, <1>2 DEF LeavingJoined, TargetsClaimed, ForcedInSnapshot, TypeOK
  <1>4. /\ sessions' = sessions \/ sessions' = [sessions EXCEPT ![MeetingOf[j]] = NoJoin]
           \/ (sessions' = [sessions EXCEPT ![MeetingOf[j]] = j] /\ jpc'[j] = "joined")
        /\ jpc'[j] = "joined" => sessions'[MeetingOf[j]] = j
    <2>1. CASE JoinActivate(j)
      BY <2>1, <1>m DEF JoinActivate, TypeOK
    <2>2. CASE ~JoinActivate(j)
      BY <2>2, <1>u DEF JoinStep, JoinStart, JoinPrepare, JoinRegister, JoinIngest, JoinSpawn, JoinInspect,
           JoinSubscribeFails, JoinNotReady, JoinUndo, UndoPc, TypeOK
    <2>. QED
      BY <2>1, <2>2
  <1>5. RecordsMatch'
    BY <1>1, <1>4, <1>m DEF RecordsMatch, TypeOK, DistinctIds
  <1>6. InMapUntilClaimed'
    BY <1>1, <1>2, <1>4, <1>m DEF InMapUntilClaimed, TypeOK, DistinctIds
  <1>7. /\ \A k \in Joins \ {j} :
               pendingBotTokens'[MeetingOf[k]] = pendingBotTokens[MeetingOf[k]]
        /\ jpc'[j] \in {"key", "ingest", "run", "inspect", "ready"} => pendingBotTokens'[MeetingOf[j]] = j
    <2> USE <1>m, <1>u DEF TypeOK, DistinctIds, TokenHeld
    <2>1. CASE JoinStart(j) \/ JoinPrepare(j) \/ JoinRegister(j)
      BY <2>1 DEF JoinStart, JoinPrepare, JoinRegister
    <2>2. CASE JoinIngest(j) \/ JoinSpawn(j) \/ JoinInspect(j) \/ JoinActivate(j)
      BY <2>2 DEF JoinIngest, JoinSpawn, JoinInspect, JoinActivate
    <2>3. CASE JoinSubscribeFails(j) \/ JoinNotReady(j) \/ JoinUndo(j)
      BY <2>3 DEF JoinSubscribeFails, JoinNotReady, JoinUndo, UndoPc
    <2>. QED
      BY <2>1, <2>2, <2>3 DEF JoinStep
  <1>8. TokenHeld'
    BY <1>1, <1>7 DEF TokenHeld
  <1>. QED
    BY <1>3, <1>5, <1>6, <1>8

(* A teardown claims before it forgets: what it takes out of the map, or   *)
(* forgets the token of, is claimed already.                               *)
LEMMA HandoverTask ==
    ASSUME Typed, Handover, DistinctIds, NEW t \in Tasks, TaskStep(t)
    PROVE  Handover'
  <1> USE SessionConstants DEF Typed, Handover, ForgetToken, joinVars, taskVars, stopVars, wiring
  <1>1. /\ UNCHANGED <<jpc, leaving, snapshot, shuttingDown>>
        /\ pc[t] # "idle" /\ \A u \in Tasks \ {t} : pc'[u] = pc[u]
    BY DEF TaskStep, DropSession, BotLeave, StopContainer, RemoveContainer, StopIngest,
           ForceUnwind, TypeOK
  <1>5. ForcedInSnapshot'
    BY <1>1 DEF ForcedInSnapshot, ForceTasks, Tasks
  <1>2. CASE DropSession(t)
    <2>1. target[t] \in leaving /\ target[t] \in Joins /\ jpc[target[t]] = "joined"
      BY <1>2 DEF DropSession, TargetsKnown, TargetsClaimed, LeavingJoined
    <2>2. /\ sessions' = [sessions EXCEPT ![MeetingOf[target[t]]] = NoJoin]
          /\ target' = target
          /\ \/ pendingBotTokens' = pendingBotTokens
             \/ pendingBotTokens' = [pendingBotTokens EXCEPT ![MeetingOf[target[t]]] = NoJoin]
      BY <1>2 DEF DropSession
    <2>. QED
      BY <1>1, <1>5, <2>1, <2>2 DEF TokenHeld, RecordsMatch, InMapUntilClaimed, LeavingJoined,
           TargetsClaimed, TypeOK, DistinctIds
  <1>3. CASE ForceUnwind(t)
    <2>1. target[t] \in leaving /\ target[t] \in Joins
      BY <1>3 DEF ForceUnwind, TargetsKnown, TargetsClaimed
    <2>2. t[2] \in leaving
      BY <1>3 DEF ForceUnwind, ForcedInSnapshot, TargetsClaimed
    <2>. QED
      BY <1>1, <1>3, <1>5, <2>1, <2>2 DEF ForceUnwind, TokenHeld, RecordsMatch, InMapUntilClaimed,
           LeavingJoined, TargetsClaimed, TypeOK, DistinctIds
  <1>4. CASE BotLeave(t) \/ StopContainer(t) \/ RemoveContainer(t) \/ StopIngest(t)
    <2>1. UNCHANGED <<jpc, sessions, pendingBotTokens, leaving, target, snapshot>>
      BY <1>4 DEF BotLeave, StopContainer, RemoveContainer, StopIngest
    <2>. QED
      BY <1>5, <2>1 DEF TokenHeld, RecordsMatch, InMapUntilClaimed, LeavingJoined, TargetsClaimed
  <1>. QED
    BY <1>2, <1>3, <1>4 DEF TaskStep

(* Every other step claims, or only observes. *)
LEMMA HandoverOther ==
    ASSUME Typed, Handover, DistinctIds, Next,
           ~\E j \in Joins : JoinStep(j), ~\E t \in Tasks : TaskStep(t)
    PROVE  Handover'
  <1> USE SessionConstants DEF Typed, Handover, joinVars, taskVars, stopVars, wiring
  <1>1. ASSUME NEW j \in Joins, BotReportsJoined(j) \/ ContainerExits(j)
        PROVE  Handover'
    <2>1. UNCHANGED <<joinVars, taskVars, stopVars, wiring>>
      BY <1>1 DEF BotReportsJoined, ContainerExits
    <2>. QED
      BY <2>1 DEF TokenHeld, RecordsMatch, InMapUntilClaimed, LeavingJoined, TargetsClaimed,
           ForcedInSnapshot
  <1>2. ASSUME NEW j \in Joins, jpc[j] = "joined", NEW t \in LeaveTasks \cup ExitTasks,
               Claim(t, j) \/ Skip(t),
               UNCHANGED <<sessions, joinVars, stopVars>>
        PROVE  Handover'
    <2>1. t \in Tasks /\ t \notin ForceTasks /\ ForceTasks \subseteq Tasks
      BY DEF Tasks, LeaveTasks, ExitTasks, ForceTasks
    <2>2. leaving \subseteq leaving' /\ leaving' \subseteq leaving \cup {j}
      BY <1>2 DEF Claim, Skip
    <2>3. TokenHeld' /\ RecordsMatch' /\ InMapUntilClaimed' /\ LeavingJoined'
      BY <1>2, <2>2 DEF TokenHeld, RecordsMatch, InMapUntilClaimed, LeavingJoined
    <2>4. ForcedInSnapshot'
      BY <1>2, <2>1 DEF ForcedInSnapshot, Claim, Skip, TypeOK
    <2>5. TargetsClaimed'
      BY <1>2, <2>1, <2>2 DEF TargetsClaimed, Claim, Skip, TypeOK
    <2>. QED
      BY <2>3, <2>4, <2>5
  <1>3. ASSUME NEW t \in LeaveTasks, NEW m \in Meetings, BeginLeave(t, m),
               UNCHANGED <<sessions, joinVars, stopVars>>
        PROVE  Handover'
    <2>1. CASE sessions[m] = NoJoin
      <3>1. t \in Tasks /\ t \notin ForceTasks /\ ForceTasks \subseteq Tasks
        BY DEF Tasks, LeaveTasks, ForceTasks
      <3>2. UNCHANGED <<leaving, target>> /\ pc' = [pc EXCEPT ![t] = "done"]
        BY <1>3, <2>1 DEF BeginLeave, Skip
      <3>. QED
        BY <1>3, <3>1, <3>2 DEF TypeOK, TokenHeld, RecordsMatch, InMapUntilClaimed,
             LeavingJoined, TargetsClaimed, ForcedInSnapshot
    <2>2. CASE sessions[m] # NoJoin
      <3>1. sessions[m] \in Joins /\ jpc[sessions[m]] = "joined" /\ Claim(t, sessions[m])
        BY <1>3, <2>2 DEF TypeOK, RecordsMatch, BeginLeave
      <3>. QED
        BY <1>2, <1>3, <3>1
    <2>. QED
      BY <2>1, <2>2
  <1>4. ASSUME NEW c \in Callers, NEW m \in Meetings, LeaveCalled(c, m)
        PROVE  Handover'
    <2>1. <<"leave", c>> \in LeaveTasks
      BY DEF LeaveTasks
    <2>. QED
      BY <1>3, <1>4, <2>1 DEF LeaveCalled
  <1>5. ASSUME NEW c \in Callers, NEW j \in Joins, TimeoutFires(c, j)
        PROVE  Handover'
    <2>1. <<"leave", c>> \in LeaveTasks /\ MeetingOf[j] \in Meetings
      BY DEF LeaveTasks
    <2>. QED
      BY <1>3, <1>5, <2>1 DEF TimeoutFires
  <1>6. ASSUME NEW j \in Joins, ExitObserved(j) \/ ExitUnobserved(j)
        PROVE  Handover'
    <2>1. <<"exit", j>> \in ExitTasks
      BY DEF ExitTasks
    <2>. QED
      BY <1>2, <1>6, <2>1 DEF ExitObserved, ExitUnobserved
  <1>7. CASE ShutdownAll
    <2>1. snapshot' \subseteq Joins /\ \A j \in snapshot' : jpc[j] = "joined"
      BY <1>7 DEF ShutdownAll, RecordsMatch, TypeOK
    <2>2. leaving' = leaving \cup snapshot' /\ UNCHANGED <<sessions, jpc, pendingBotTokens>>
      BY <1>7 DEF ShutdownAll
    <2>3. TokenHeld' /\ RecordsMatch' /\ InMapUntilClaimed' /\ LeavingJoined'
      BY <2>1, <2>2 DEF TokenHeld, RecordsMatch, InMapUntilClaimed, LeavingJoined
    <2>4. \A t \in ForceTasks : pc[t] = "idle"
      BY <1>7 DEF ShutdownAll, ForcedInSnapshot
    <2>5. ForcedInSnapshot'
      BY <1>7, <2>4 DEF ShutdownAll, ForcedInSnapshot, ForceTasks, Tasks
    <2>6. TargetsClaimed'
      BY <1>7, <2>2 DEF ShutdownAll, TargetsClaimed
    <2>. QED
      BY <2>3, <2>5, <2>6
  <1>8. CASE ShutdownDeadline
    <2>1. UNCHANGED <<sessions, jpc, pendingBotTokens, leaving, snapshot, shuttingDown>>
      BY <1>8 DEF ShutdownDeadline
    <2>2. TokenHeld' /\ RecordsMatch' /\ InMapUntilClaimed' /\ LeavingJoined'
      BY <2>1 DEF TokenHeld, RecordsMatch, InMapUntilClaimed, LeavingJoined
    <2>3. Stragglers \subseteq snapshot /\ snapshot \subseteq Joins
      BY DEF Stragglers, TypeOK
    <2>4. ForcedInSnapshot'
      BY <1>8, <2>1, <2>3 DEF ShutdownDeadline, ForcedInSnapshot, ForceTasks, Tasks
    <2>5. \A j \in Joins : sessions[MeetingOf[j]] # NoJoin => sessions[MeetingOf[j]] = j
      BY DEF RecordsMatch, TypeOK, DistinctIds
    <2>6. TargetsClaimed'
      BY <1>8, <2>1, <2>3, <2>5 DEF ShutdownDeadline, TargetsClaimed
    <2>. QED
      BY <2>2, <2>4, <2>6
  <1>9. CASE ShutdownCompletes \/ ShutdownForced
    BY <1>9 DEF ShutdownCompletes, ShutdownForced, TokenHeld, RecordsMatch, InMapUntilClaimed,
         LeavingJoined, TargetsClaimed, ForcedInSnapshot
  <1>. QED
    BY <1>1, <1>4, <1>5, <1>6, <1>7, <1>8, <1>9 DEF Next, ShutdownStep

(* Every reachable state satisfies the handover invariant. *)
LEMMA HandoverAlways ==
    ASSUME DistinctIds
    PROVE  Spec => [](Typed /\ Handover)
  <1>1. Typed /\ Handover /\ [Next]_vars => Handover'
    <2> SUFFICES ASSUME Typed, Handover, [Next]_vars PROVE Handover'
      OBVIOUS
    <2>1. CASE Next
      BY <2>1, HandoverJoin, HandoverTask, HandoverOther
    <2>2. CASE UNCHANGED vars
      BY <2>2 DEF vars, joinVars, taskVars, stopVars, wiring, Handover, TokenHeld, RecordsMatch,
            InMapUntilClaimed, LeavingJoined, TargetsClaimed, ForcedInSnapshot
    <2>. QED
      BY <2>1, <2>2
  <1>2. Init => Handover
    BY HandoverInit
  <1>3. Spec => []Typed
    BY TypeCorrect DEF Typed
  <1>. QED
    BY <1>1, <1>2, <1>3, PTL DEF Spec

(* The ingress route accepts the token of a running bot from before its    *)
(* container starts until a teardown claims its session: pre-registration  *)
(* (join) and the session record (resolveBotApiToken) leave no gap.        *)
THEOREM BotAlwaysAuthenticated ==
    ASSUME DistinctIds
    PROVE  Spec => []BotIsAuthenticated
  <1>1. Typed /\ Handover => BotIsAuthenticated
    <2> SUFFICES ASSUME Typed, Handover, NEW j \in Joins,
                        jpc[j] \in {"run", "inspect", "ready"} \/ (jpc[j] = "joined" /\ j \notin leaving)
                 PROVE  ResolveToken(MeetingOf[j]) = j
      BY DEF BotIsAuthenticated
    <2>1. CASE jpc[j] = "joined"
      BY <2>1, SessionConstants DEF Handover, InMapUntilClaimed, ResolveToken
    <2>2. CASE jpc[j] \in {"run", "inspect", "ready"}
      <3>1. sessions[MeetingOf[j]] = NoJoin
        BY <2>2, SessionConstants DEF Typed, Handover, RecordsMatch, TypeOK, DistinctIds
      <3>. QED
        BY <2>2, <3>1 DEF Handover, TokenHeld, ResolveToken
    <2>. QED
      BY <2>1, <2>2
  <1>. QED
    BY <1>1, HandoverAlways, PTL

(* The exit of a container under a leave() is never reported as unexpected *)
(* (leaveInitiatedByDaemon): what a teardown acts on has been claimed, a   *)
(* claim is never withdrawn, and the exit of a claimed session is silent.  *)
THEOREM ExitsReportedHonestly ==
    ASSUME DistinctIds
    PROVE  Spec => ExitNotReportedWhileLeaving
  <1> DEFINE Honest == \A j \in exitReported' \ exitReported :
                         \A t \in LeaveTasks \cup ShutdownTasks : target[t] # j
  <1>1. Typed /\ Handover /\ [Next]_vars => [Honest]_vars
    <2> SUFFICES ASSUME Typed, Handover, Next, NEW j \in exitReported' \ exitReported,
                        NEW t \in LeaveTasks \cup ShutdownTasks
                 PROVE  target[t] # j
      OBVIOUS
    <2>1. t \in Tasks
      BY DEF Tasks
    <2>2. j \in Joins /\ j \notin leaving
      <3>1. ASSUME NEW i \in Joins, ExitObserved(i)
            PROVE  j = i /\ i \notin leaving
        BY <3>1 DEF ExitObserved
      <3>2. \E i \in Joins : ExitObserved(i)
        BY DEF Next, JoinStep, JoinStart, JoinPrepare, JoinRegister, JoinIngest, JoinSpawn, JoinInspect,
             JoinActivate, JoinSubscribeFails, JoinNotReady, JoinUndo, BotReportsJoined,
             ContainerExits, ExitUnobserved, LeaveCalled, TimeoutFires, TaskStep, DropSession,
             BotLeave, StopContainer, RemoveContainer, StopIngest, ForceUnwind, ShutdownAll,
             ShutdownStep, ShutdownCompletes, ShutdownDeadline, ShutdownForced, histVars
      <3>. QED
        BY <3>1, <3>2
    <2>. QED
      BY <2>1, <2>2, SessionConstants DEF Handover, TargetsClaimed
  <1>. QED
    BY <1>1, HandoverAlways, PTL DEF Spec, ExitNotReportedWhileLeaving

-----------------------------------------------------------------------------
(* How the sessions end, as long as the engine removes what it is told to: *)
(* the manager implements the lease, an ended join or session holds        *)
(* nothing, and the shutdown leaves none of its snapshot behind.           *)

(* Where a join stands decides the phase of its lease.                     *)
LEMMA PhaseOf ==
    ASSUME NEW j \in Joins
    PROVE  /\ jpc[j] \in {"idle", "refused"} => LeasePhase[j] = "absent"
           /\ jpc[j] \in {"publishing", "key", "ingest", "run", "inspect", "ready"} => LeasePhase[j] = "starting"
           /\ jpc[j] \in UndoPc => LeasePhase[j] = "closing"
           /\ jpc[j] = "failed" => LeasePhase[j] = "closed"
           /\ jpc[j] = "joined" =>
                 LeasePhase[j] = IF sessions[MeetingOf[j]] = j THEN "serving"
                                 ELSE IF Pending(j) # {} THEN "closing" ELSE "closed"
  BY DEF LeasePhase, UndoPc

(* The same of the next state.                                             *)
LEMMA PhaseOfNext ==
    ASSUME NEW j \in Joins
    PROVE  /\ jpc'[j] \in {"idle", "refused"} => LeasePhase'[j] = "absent"
           /\ jpc'[j] \in {"publishing", "key", "ingest", "run", "inspect", "ready"} => LeasePhase'[j] = "starting"
           /\ jpc'[j] \in UndoPc => LeasePhase'[j] = "closing"
           /\ jpc'[j] = "failed" => LeasePhase'[j] = "closed"
           /\ jpc'[j] = "joined" =>
                 LeasePhase'[j] = IF sessions'[MeetingOf[j]] = j THEN "serving"
                                  ELSE IF Pending(j)' # {} THEN "closing" ELSE "closed"
  BY DEF LeasePhase, UndoPc

(* What a step leaves alone of a join it leaves alone of its lease.        *)
LEMMA LeaseFrame ==
    ASSUME TypeOK, NEW j \in Joins, jpc'[j] = jpc[j],
           sessions'[MeetingOf[j]] = j <=> sessions[MeetingOf[j]] = j,
           Pending(j)' = {} <=> Pending(j) = {}
    PROVE  LeasePhase'[j] = LeasePhase[j]
  <1>1. jpc[j] \in {"idle", "refused", "publishing", "key", "ingest", "run", "inspect", "ready", "failed", "joined"}
           \cup UndoPc
    BY DEF TypeOK, JoinPc, JoinOver
  <1>. QED
    BY <1>1, PhaseOf, PhaseOfNext

-----------------------------------------------------------------------------
(* Where the bots are, as far as the lease depends on it.  A join that has *)
(* spawned none has none, a rollback that can name it removes it before    *)
(* its last awaits, and so does every teardown.                            *)
RemoveWorks == "remove" \notin FaultyCalls

BotsOfJoins ==
    \A j \in Joins :
        /\ jpc[j] \in {"idle", "refused", "publishing", "key", "ingest", "run"} => container[j] = "none"
        /\ jpc[j] \in {"idle", "refused", "publishing", "key", "ingest", "run", "inspect"} => j \notin named
        /\ jpc[j] \in {"ready", "undoStop", "undoRemove"} => j \in named
        /\ jpc[j] \in {"undoIngest", "failed"} =>
               \/ container[j] \in {"none", "removed"}
               \/ "inspect" \in FaultyCalls /\ j \notin named
BotsOfTasks ==
    \A t \in Tasks : /\ pc[t] \in {"ingest", "done"} /\ target[t] # NoJoin => container[target[t]] = "removed"
                     /\ pc[t] = "idle" => target[t] = NoJoin
ForceTargets == \A t \in ForceTasks : pc[t] # "idle" => target[t] = t[2]
ShutdownTargets ==
    /\ shutdownPc = "waiting" => shuttingDown /\ \A t \in ForceTasks : pc[t] = "idle"
    /\ ~shuttingDown => \A t \in ShutdownTasks \cup ForceTasks : pc[t] = "idle"
SnapshotTargets ==
    \A j \in snapshot : target[<<"shutdown", j>>] = j /\ pc[<<"shutdown", j>>] # "idle"
Bots == BotsOfJoins /\ BotsOfTasks /\ ForceTargets /\ ShutdownTargets /\ SnapshotTargets

Sound == Typed /\ Handover

(* At first no join has a bot and no teardown a target.                    *)
LEMMA BotsInit == Init => Bots
  BY DEF Init, Bots, BotsOfJoins, BotsOfTasks, ForceTargets, ShutdownTargets, SnapshotTargets, Tasks, ForceTasks,
         ShutdownTasks

(* A step of join() keeps the bots where they are known to be: the last    *)
(* two awaits of a rollback follow the removal.                            *)
LEMMA BotsJoin ==
    ASSUME Sound, Bots, RemoveWorks, DistinctIds, NEW j \in Joins, JoinStep(j)
    PROVE  Bots'
  <1> USE DEF Sound, Typed, Handover, Bots, TypeOK
  <1>1. UNCHANGED <<taskVars, stopVars>>
    BY DEF JoinStep, JoinStart, JoinPrepare, JoinRegister, JoinIngest, JoinSpawn, JoinInspect, JoinActivate,
           JoinSubscribeFails, JoinNotReady, JoinUndo
  <1>2. ForceTargets' /\ ShutdownTargets' /\ SnapshotTargets'
    BY <1>1 DEF taskVars, stopVars, ForceTargets, ShutdownTargets, SnapshotTargets
  <1>3. jpc[j] # "joined" /\ \A k \in Joins \ {j} : /\ jpc'[k] = jpc[k] /\ container'[k] = container[k]
                                                    /\ k \in named' <=> k \in named
    BY DEF JoinStep, JoinStart, JoinPrepare, JoinRegister, JoinIngest, JoinSpawn, JoinInspect, JoinActivate,
           JoinSubscribeFails, JoinNotReady, JoinUndo, SetJpc, SetContainer, resources, UndoPc
  <1>4. BotsOfTasks'
    <2>1. \A t \in Tasks : target[t] # NoJoin => target[t] \in Joins \ {j}
      BY <1>3 DEF TargetsClaimed, LeavingJoined
    <2>. QED
      BY <1>1, <1>3, <2>1 DEF BotsOfTasks, taskVars
  <1>5. /\ jpc'[j] \in {"idle", "refused", "publishing", "key", "ingest", "run"} => container'[j] = "none"
        /\ jpc'[j] \in {"idle", "refused", "publishing", "key", "ingest", "run", "inspect"} => j \notin named'
        /\ jpc'[j] \in {"ready", "undoStop", "undoRemove"} => j \in named'
        /\ jpc'[j] \in {"undoIngest", "failed"} =>
               \/ container'[j] \in {"none", "removed"}
               \/ "inspect" \in FaultyCalls /\ j \notin named'
    <2> USE DEF BotsOfJoins, SetJpc, resources
    <2>1. CASE JoinStart(j) \/ JoinPrepare(j) \/ JoinRegister(j) \/ JoinIngest(j)
      BY <2>1 DEF JoinStart, JoinPrepare, JoinRegister, JoinIngest
    <2>2. CASE JoinSpawn(j) \/ JoinInspect(j)
      BY <2>2 DEF JoinSpawn, JoinInspect, SetContainer, AfterRemove, RemoveWorks
    <2>3. CASE JoinActivate(j) \/ JoinSubscribeFails(j) \/ JoinNotReady(j)
      BY <2>3 DEF JoinActivate, JoinSubscribeFails, JoinNotReady
    <2>4. CASE JoinUndo(j)
      BY <2>4 DEF JoinUndo, SetContainer, AfterUndo, AfterRemove, RemoveWorks, UndoPc
    <2>. QED
      BY <2>1, <2>2, <2>3, <2>4 DEF JoinStep
  <1>6. BotsOfJoins'
    BY <1>3, <1>5 DEF BotsOfJoins
  <1>. QED
    BY <1>2, <1>4, <1>6

(* So does a step of a teardown: what it removes belongs to its target.    *)
LEMMA BotsTask ==
    ASSUME Sound, Bots, RemoveWorks, DistinctIds, NEW t \in Tasks, TaskStep(t)
    PROVE  Bots'
  <1> USE DEF Sound, Typed, Handover, Bots, TypeOK
  <1>1. UNCHANGED <<jpc, named, shuttingDown, shutdownPc, snapshot>> /\ pc[t] \notin {"idle", "done"}
        /\ \A u \in Tasks \ {t} : pc'[u] = pc[u] /\ target'[u] = target[u]
    BY DEF TaskStep, DropSession, BotLeave, StopContainer, RemoveContainer, StopIngest, ForceUnwind,
           joinVars, stopVars
  <1>2. target[t] \in Joins /\ jpc[target[t]] = "joined"
    BY <1>1, SessionConstants DEF TargetsKnown, TargetsClaimed, LeavingJoined
  <1>3. /\ t \in ForceTasks => target[t] = t[2]
        /\ target'[t] = target[t] /\ pc'[t] # "idle"
    BY <1>1 DEF TaskStep, DropSession, BotLeave, StopContainer, RemoveContainer, StopIngest,
           ForceUnwind, ForceTargets
  <1>4. ForceTargets' /\ ShutdownTargets' /\ SnapshotTargets'
    BY <1>1, <1>3 DEF ForceTargets, ShutdownTargets, SnapshotTargets, ForceTasks, ShutdownTasks, Tasks
  <1>5. /\ \A k \in Joins \ {target[t]} : container'[k] = container[k]
        /\ container[target[t]] = "removed" => container'[target[t]] = "removed"
        /\ pc'[t] \in {"ingest", "done"} => container'[target[t]] = "removed"
    <2>1. CASE StopContainer(t)
      BY <2>1, <1>1, <1>2 DEF StopContainer, SetContainer, AfterStop
    <2>2. CASE RemoveContainer(t)
      BY <2>2, <1>1, <1>2 DEF RemoveContainer, SetContainer, AfterRemove, RemoveWorks
    <2>3. CASE DropSession(t) \/ BotLeave(t) \/ ForceUnwind(t)
      BY <2>3, <1>1 DEF DropSession, BotLeave, ForceUnwind, resources
    <2>4. CASE StopIngest(t)
      BY <2>4, <1>1, SessionConstants DEF StopIngest, BotsOfTasks, TargetsKnown
    <2>. QED
      BY <2>1, <2>2, <2>3, <2>4 DEF TaskStep
  <1>6. BotsOfJoins'
    BY <1>1, <1>2, <1>5 DEF BotsOfJoins
  <1>7. BotsOfTasks'
    <2> SUFFICES ASSUME NEW u \in Tasks
                 PROVE  /\ pc'[u] \in {"ingest", "done"} /\ target'[u] # NoJoin
                              => container'[target'[u]] = "removed"
                        /\ pc'[u] = "idle" => target'[u] = NoJoin
      BY DEF BotsOfTasks
    <2>1. CASE u = t
      BY <2>1, <1>3, <1>5
    <2>2. CASE u # t
      BY <2>2, <1>1, <1>5 DEF BotsOfTasks
    <2>. QED
      BY <2>1, <2>2
  <1>. QED
    BY <1>4, <1>6, <1>7

(* So does every other step of the manager, the shutdown's included.       *)
LEMMA BotsOther ==
    ASSUME Sound, Bots, DistinctIds, Next, ~\E j \in Joins : JoinStep(j), ~\E t \in Tasks : TaskStep(t)
    PROVE  Bots'
  <1> USE SessionConstants DEF Sound, Typed, Handover, Bots, TypeOK
  <1>1. ASSUME NEW j \in Joins, BotReportsJoined(j)
        PROVE  Bots'
    BY <1>1 DEF BotReportsJoined, joinVars, taskVars, stopVars, resources, BotsOfJoins, BotsOfTasks,
         ForceTargets, ShutdownTargets, SnapshotTargets
  <1>2. ASSUME NEW j \in Joins, ContainerExits(j)
        PROVE  Bots'
    <2>1. container' = [container EXCEPT ![j] = "exited"] /\ container[j] = "running"
          /\ UNCHANGED <<jpc, named, pc, target, shuttingDown, shutdownPc, snapshot>>
      BY <1>2 DEF ContainerExits, joinVars, taskVars, stopVars
    <2>. QED
      BY <2>1 DEF BotsOfJoins, BotsOfTasks, ForceTargets, ShutdownTargets, SnapshotTargets
  <1>3. ASSUME NEW t \in LeaveTasks \cup ExitTasks, pc[t] = "idle", NEW j \in Joins,
               Claim(t, j) \/ Skip(t), UNCHANGED <<joinVars, stopVars, resources>>
        PROVE  Bots'
    <2>1. t \in Tasks /\ t \notin ForceTasks \cup ShutdownTasks
      BY DEF Tasks, LeaveTasks, ExitTasks, ForceTasks, ShutdownTasks
    <2>2. \A u \in Tasks \ {t} : pc'[u] = pc[u] /\ target'[u] = target[u]
      BY <1>3 DEF Claim, Skip
    <2>3. \/ pc'[t] = "cancel"
          \/ pc'[t] = "done" /\ target'[t] = NoJoin
      BY <1>3, <2>1 DEF Claim, Skip, BotsOfTasks
    <2>. QED
      BY <1>3, <2>1, <2>2, <2>3 DEF joinVars, stopVars, resources, BotsOfJoins, BotsOfTasks, ForceTargets,
           ShutdownTargets, SnapshotTargets, ForceTasks, ShutdownTasks, Tasks
  <1>4. ASSUME NEW t \in LeaveTasks, pc[t] = "idle", NEW m \in Meetings, BeginLeave(t, m), Joins # {},
               UNCHANGED <<joinVars, stopVars, resources>>
        PROVE  Bots'
    BY <1>3, <1>4 DEF BeginLeave
  <1>5. ASSUME NEW c \in Callers, NEW m \in Meetings, LeaveCalled(c, m)
        PROVE  Bots'
    <2>1. <<"leave", c>> \in LeaveTasks
      BY DEF LeaveTasks
    <2>2. CASE Joins # {}
      BY <1>4, <1>5, <2>1, <2>2 DEF LeaveCalled
    <2>3. CASE Joins = {}
      BY <1>5, <2>1, <2>3, TaskKinds DEF LeaveCalled, BeginLeave, Skip, joinVars, stopVars, resources, BotsOfJoins,
           BotsOfTasks, ForceTargets, ShutdownTargets, SnapshotTargets, ForceTasks, ShutdownTasks
    <2>. QED
      BY <2>2, <2>3
  <1>6. ASSUME NEW c \in Callers, NEW j \in Joins, TimeoutFires(c, j)
        PROVE  Bots'
    <2>1. <<"leave", c>> \in LeaveTasks /\ MeetingOf[j] \in Meetings
      BY DEF LeaveTasks
    <2>. QED
      BY <1>4, <1>6, <2>1 DEF TimeoutFires
  <1>7. ASSUME NEW j \in Joins, ExitObserved(j) \/ ExitUnobserved(j)
        PROVE  Bots'
    <2>1. <<"exit", j>> \in ExitTasks
      BY DEF ExitTasks
    <2>. QED
      BY <1>3, <1>7, <2>1 DEF ExitObserved, ExitUnobserved
  <1>8. CASE ShutdownAll
    <2>1. \A t \in Tasks : \/ pc'[t] = "cancel"
                           \/ pc'[t] = pc[t] /\ target'[t] = target[t]
      BY <1>8 DEF ShutdownAll
    <2>2. \A t \in ForceTasks : t \in Tasks /\ t \notin {"shutdown"} \X snapshot'
      BY DEF ForceTasks, Tasks
    <2>3. \A t \in ForceTasks : pc'[t] = "idle"
      BY <1>8, <2>2 DEF ShutdownAll, ShutdownTargets
    <2>4. UNCHANGED <<jpc, named, container>> /\ shuttingDown'
      BY <1>8 DEF ShutdownAll, joinVars, resources
    <2>5. SnapshotTargets'
      BY <1>8 DEF ShutdownAll, SnapshotTargets, ShutdownTasks, Tasks
    <2>. QED
      BY <2>1, <2>3, <2>4, <2>5 DEF BotsOfJoins, BotsOfTasks, ForceTargets, ShutdownTargets, SnapshotTargets
  <1>9. CASE ShutdownDeadline
    <2>1. \A j \in Joins : sessions[MeetingOf[j]] # NoJoin => sessions[MeetingOf[j]] = j
      BY DEF RecordsMatch, DistinctIds
    <2>2. Stragglers \subseteq Joins
      BY DEF Stragglers
    <2>3. \A t \in Tasks : \/ t \in ForceTasks /\ pc'[t] \in {"cancel", "stop"} /\ target'[t] = t[2]
                           \/ pc'[t] = pc[t] /\ target'[t] = target[t]
      BY <1>9, <2>1, <2>2 DEF ShutdownDeadline, ForceTasks
    <2>4. UNCHANGED <<jpc, named, container, shuttingDown, snapshot>> /\ shutdownPc' = "forcing" /\ shuttingDown
      BY <1>9 DEF ShutdownDeadline, joinVars, resources, ShutdownTargets
    <2>5. ForceTasks \subseteq Tasks /\ ShutdownTasks \subseteq Tasks /\ ShutdownTasks \cap ForceTasks = {}
      BY DEF Tasks, ShutdownTasks, ForceTasks
    <2>6. \A j \in snapshot : <<"shutdown", j>> \in ShutdownTasks
      BY DEF ShutdownTasks
    <2>. QED
      BY <2>3, <2>4, <2>5, <2>6 DEF BotsOfJoins, BotsOfTasks, ForceTargets, ShutdownTargets, SnapshotTargets
  <1>10. CASE ShutdownCompletes \/ ShutdownForced
    BY <1>10 DEF ShutdownCompletes, ShutdownForced, joinVars, taskVars, resources, BotsOfJoins,
         BotsOfTasks, ForceTargets, ShutdownTargets, SnapshotTargets
  <1>. QED
    BY <1>1, <1>2, <1>5, <1>6, <1>7, <1>8, <1>9, <1>10 DEF Next, ShutdownStep

(* The bots are where Bots says they are in every reachable state.         *)
LEMMA BotsAlways ==
    ASSUME DistinctIds, RemoveWorks
    PROVE  Spec => [](Sound /\ Bots)
  <1>1. Sound /\ Bots /\ [Next]_vars => Bots'
    <2> SUFFICES ASSUME Sound, Bots, [Next]_vars PROVE Bots'
      OBVIOUS
    <2>1. CASE Next
      BY <2>1, BotsJoin, BotsTask, BotsOther
    <2>2. CASE UNCHANGED vars
      BY <2>2 DEF vars, joinVars, taskVars, stopVars, resources, Bots, BotsOfJoins, BotsOfTasks,
           ForceTargets, ShutdownTargets, SnapshotTargets
    <2>. QED
      BY <2>1, <2>2
  <1>2. Init => Bots
    BY BotsInit
  <1>3. Spec => []Sound
    BY HandoverAlways DEF Sound
  <1>. QED
    BY <1>1, <1>2, <1>3, PTL DEF Spec

-----------------------------------------------------------------------------
(* What a step may do to the lease of one join.                            *)
LeaseMoves(j) ==
    \/ /\ j \in Orphans' <=> j \in Orphans
       /\ \/ LeasePhase'[j] = LeasePhase[j] /\ BotRuns[j] /\ ~BotRuns'[j]
          \/ /\ BotRuns'[j] = BotRuns[j]
             /\ \/ LeasePhase[j] = "absent" /\ LeasePhase'[j] = "starting"
                \/ LeasePhase[j] = "starting" /\ LeasePhase'[j] = "serving"
                \/ LeasePhase[j] \in {"starting", "serving"} /\ LeasePhase'[j] = "closing"
          \/ LeasePhase[j] = "starting" /\ LeasePhase'[j] = "starting" /\ ~BotRuns[j] /\ BotRuns'[j]
          \/ /\ LeasePhase[j] \in {"starting", "closing"} /\ LeasePhase'[j] = "closed"
             /\ BotRuns'[j] = (BotRuns[j] /\ j \in Orphans)
    \/ /\ LeasePhase[j] = "starting" /\ LeasePhase'[j] = "closing"
       /\ BotRuns'[j] = BotRuns[j] /\ j \in Orphans'
LeaseStays(j) == /\ LeasePhase'[j] = LeasePhase[j] /\ BotRuns'[j] = BotRuns[j]
                 /\ j \in Orphans' <=> j \in Orphans

(* If no lease moves, the step is a stutter of MeetingLease.               *)
LEMMA NothingMoves ==
    ASSUME \A j \in Joins : LeaseStays(j)
    PROVE  UNCHANGED Lease!vars
  <1>1. LeasePhase' = LeasePhase /\ BotRuns' = BotRuns
    BY DEF LeaseStays, LeasePhase, BotRuns
  <1>2. Orphans' = Orphans
    BY DEF LeaseStays, Orphans
  <1>. QED
    BY <1>1, <1>2 DEF Lease!vars

(* If one lease moves by one of its transitions and no other moves, the    *)
(* step is a step of MeetingLease.                                         *)
LEMMA OneMoves ==
    ASSUME NEW j \in Joins, LeaseMoves(j), \A k \in Joins \ {j} : LeaseStays(k)
    PROVE  Lease!Next
  <1>1. /\ LeasePhase' = [LeasePhase EXCEPT ![j] = LeasePhase'[j]]
        /\ LeasePhase'[j] = LeasePhase[j] => LeasePhase' = LeasePhase
    <2>1. LeasePhase = [k \in Joins |-> LeasePhase[k]] /\ LeasePhase' = [k \in Joins |-> LeasePhase'[k]]
      BY Zenon DEF LeasePhase
    <2>2. \A k \in Joins \ {j} : LeasePhase'[k] = LeasePhase[k]
      BY DEF LeaseStays
    <2>. QED
      BY <2>1, <2>2
  <1>2. /\ BotRuns' = [BotRuns EXCEPT ![j] = BotRuns'[j]]
        /\ BotRuns'[j] = BotRuns[j] => BotRuns' = BotRuns
        /\ BotRuns[j] \in BOOLEAN /\ BotRuns'[j] \in BOOLEAN
    BY DEF LeaseStays, BotRuns
  <1>3. /\ (j \in Orphans' <=> j \in Orphans) => Orphans' = Orphans
        /\ j \in Orphans' => Orphans' = Orphans \cup {j}
    BY DEF LeaseStays, Orphans
  <1> DEFINE Same == j \in Orphans' <=> j \in Orphans
  <1>4. CASE Same /\ LeasePhase'[j] = LeasePhase[j] /\ BotRuns[j] /\ ~BotRuns'[j]
    BY <1>1, <1>2, <1>3, <1>4 DEF Lease!Next, Lease!Die
  <1>5. CASE Same /\ BotRuns'[j] = BotRuns[j] /\ LeasePhase[j] = "absent" /\ LeasePhase'[j] = "starting"
    BY <1>1, <1>2, <1>3, <1>5 DEF Lease!Next, Lease!Start, Lease!Move
  <1>6. CASE Same /\ BotRuns'[j] = BotRuns[j] /\ LeasePhase[j] = "starting" /\ LeasePhase'[j] = "serving"
    BY <1>1, <1>2, <1>3, <1>6 DEF Lease!Next, Lease!Serve, Lease!Move
  <1>7. CASE /\ Same /\ BotRuns'[j] = BotRuns[j]
             /\ LeasePhase[j] \in {"starting", "serving"} /\ LeasePhase'[j] = "closing"
    BY <1>1, <1>2, <1>3, <1>7 DEF Lease!Next, Lease!Close, Lease!Move
  <1>8. CASE Same /\ LeasePhase[j] = "starting" /\ LeasePhase'[j] = "starting" /\ ~BotRuns[j] /\ BotRuns'[j]
    BY <1>1, <1>2, <1>3, <1>8 DEF Lease!Next, Lease!Spawn
  <1>9. CASE /\ Same /\ LeasePhase[j] \in {"starting", "closing"} /\ LeasePhase'[j] = "closed"
             /\ BotRuns'[j] = (BotRuns[j] /\ j \in Orphans)
    BY <1>1, <1>2, <1>3, <1>9 DEF Lease!Next, Lease!End, Lease!Move
  <1>10. CASE /\ LeasePhase[j] = "starting" /\ LeasePhase'[j] = "closing"
              /\ BotRuns'[j] = BotRuns[j] /\ j \in Orphans'
    BY <1>1, <1>2, <1>3, <1>10 DEF Lease!Next, Lease!Lose, Lease!Move
  <1>. QED
    BY <1>4, <1>5, <1>6, <1>7, <1>8, <1>9, <1>10 DEF LeaseMoves

(* A step of a join moves its own lease.                                   *)
LEMMA JoinMoves ==
    ASSUME Sound, Bots, RemoveWorks, DistinctIds, NEW j \in Joins, JoinStep(j)
    PROVE  [Lease!Next]_(Lease!vars)
  <1> USE SessionConstants DEF Sound, Typed, Handover, Bots, TypeOK
  <1>1. jpc[j] # "joined" /\ \A k \in Joins \ {j} : /\ jpc'[k] = jpc[k] /\ container'[k] = container[k]
                                                    /\ k \in named' <=> k \in named
    BY DEF JoinStep, JoinStart, JoinPrepare, JoinRegister, JoinIngest, JoinSpawn, JoinInspect, JoinActivate,
           JoinSubscribeFails, JoinNotReady, JoinUndo, SetJpc, SetContainer, resources, UndoPc
  <1>2. \A k \in Joins \ {j} : sessions'[MeetingOf[k]] = sessions[MeetingOf[k]]
    BY DEF JoinStep, JoinStart, JoinPrepare, JoinRegister, JoinIngest, JoinSpawn, JoinInspect, JoinActivate,
           JoinSubscribeFails, JoinNotReady, JoinUndo, wiring, DistinctIds
  <1>3. UNCHANGED <<pc, target>>
    BY DEF JoinStep, JoinStart, JoinPrepare, JoinRegister, JoinIngest, JoinSpawn, JoinInspect, JoinActivate,
           JoinSubscribeFails, JoinNotReady, JoinUndo, taskVars
  <1>4. \A k \in Joins \ {j} : LeaseStays(k)
    <2> SUFFICES ASSUME NEW k \in Joins \ {j} PROVE LeaseStays(k)
      OBVIOUS
    <2>1. Pending(k)' = {} <=> Pending(k) = {}
      BY <1>3 DEF Pending
    <2>2. LeasePhase'[k] = LeasePhase[k]
      BY <1>1, <1>2, <2>1, LeaseFrame
    <2>. QED
      BY <1>1, <2>2 DEF LeaseStays, BotRuns, Orphans
  <1>5. LeaseMoves(j) \/ LeaseStays(j)
    <2> USE PhaseOf, PhaseOfNext DEF LeaseMoves, LeaseStays, BotRuns, Orphans, SetJpc, resources, BotsOfJoins
    <2>1. CASE JoinStart(j) \/ JoinPrepare(j) \/ JoinRegister(j) \/ JoinIngest(j)
      <3>1. CASE JoinStart(j)
        BY <3>1 DEF JoinStart
      <3>2. CASE JoinPrepare(j)
        BY <3>2 DEF JoinPrepare
      <3>3. CASE JoinRegister(j)
        BY <3>3 DEF JoinRegister
      <3>4. CASE JoinIngest(j)
        BY <3>4 DEF JoinIngest
      <3>. QED
        BY <2>1, <3>1, <3>2, <3>3, <3>4
    <2>2. CASE JoinSpawn(j)
      <3>1. /\ jpc[j] = "run" /\ container[j] = "none"
            /\ \/ jpc'[j] = "inspect" /\ container'[j] = "running"
               \/ jpc'[j] = "undoIngest" /\ container'[j] \in {"none", "removed"}
        BY <2>2 DEF JoinSpawn, SetContainer, AfterRemove, RemoveWorks
      <3>2. LeasePhase[j] = "starting" /\ (jpc'[j] = "inspect" => LeasePhase'[j] = "starting")
            /\ (jpc'[j] = "undoIngest" => LeasePhase'[j] = "closing")
        BY <3>1, PhaseOf, PhaseOfNext DEF UndoPc
      <3>. QED
        BY <3>1, <3>2
    <2>6. CASE JoinInspect(j)
      <3>1. /\ jpc[j] = "inspect" /\ j \notin Orphans /\ container'[j] = container[j]
            /\ \/ jpc'[j] \in {"ready", "undoRemove"}
               \/ jpc'[j] = "undoIngest"
        BY <2>6 DEF JoinInspect
      <3>2. LeasePhase[j] = "starting" /\ (jpc'[j] = "ready" => LeasePhase'[j] = "starting")
            /\ (jpc'[j] # "ready" => LeasePhase'[j] = "closing")
        BY <3>1, PhaseOf, PhaseOfNext DEF UndoPc
      <3>3. jpc'[j] # "undoIngest" => j \notin Orphans'
        BY <3>1
      <3>4. BotRuns'[j] = BotRuns[j]
        BY <3>1
      <3>. QED
        BY <3>1, <3>2, <3>3, <3>4 DEF LeaseMoves, LeaseStays
    <2>3. CASE JoinActivate(j)
      BY <2>3 DEF JoinActivate
    <2>4. CASE JoinSubscribeFails(j) \/ JoinNotReady(j)
      BY <2>4 DEF JoinSubscribeFails, JoinNotReady, UndoPc
    <2>5. CASE JoinUndo(j)
      <3>1. jpc[j] \in UndoPc /\ jpc'[j] \in UndoPc \cup {"failed"}
        BY <2>5, UndoStays DEF JoinUndo
      <3>2. container'[j] = "running" => container[j] = "running"
        BY <2>5 DEF JoinUndo, SetContainer, AfterStop, AfterRemove
      <3>3. j \in Orphans' <=> j \in Orphans
        BY <2>5 DEF JoinUndo, SetContainer, AfterUndo, AfterStop, AfterRemove, RemoveWorks, UndoPc
      <3>6. jpc'[j] = "failed" =>
               \/ jpc[j] = "undoIngest" /\ container'[j] = container[j]
               \/ jpc[j] = "dropRemove" /\ container'[j] = "removed"
        BY <2>5 DEF JoinUndo, SetContainer, AfterUndo, AfterRemove, RemoveWorks, UndoPc
      <3>4. jpc'[j] = "failed" => BotRuns'[j] = (BotRuns[j] /\ j \in Orphans)
        <4>1. CASE jpc'[j] = "failed" /\ jpc[j] = "undoIngest" /\ container'[j] = container[j]
          BY <4>1
        <4>2. CASE jpc'[j] = "failed" /\ jpc[j] = "dropRemove" /\ container'[j] = "removed"
          BY <4>2
        <4>. QED
          BY <3>6, <4>1, <4>2
      <3>5. LeasePhase[j] = "closing" /\ LeasePhase'[j] = IF jpc'[j] = "failed" THEN "closed" ELSE "closing"
        BY <3>1, PhaseOf, PhaseOfNext DEF UndoPc
      <3>. QED
        BY <3>1, <3>2, <3>3, <3>4, <3>5 DEF LeaseMoves, LeaseStays, BotRuns
    <2>. QED
      BY <2>1, <2>2, <2>3, <2>4, <2>5, <2>6 DEF JoinStep
  <1>6. CASE LeaseMoves(j)
    BY <1>4, <1>6, OneMoves
  <1>7. CASE LeaseStays(j)
    <2>1. \A k \in Joins : LeaseStays(k)
      BY <1>4, <1>7
    <2>. QED
      BY <2>1, NothingMoves
  <1>. QED
    BY <1>5, <1>6, <1>7

(* A step of a teardown moves the lease of the session it has claimed.     *)
LEMMA TaskMoves ==
    ASSUME Sound, Bots, RemoveWorks, DistinctIds, NEW t \in Tasks, TaskStep(t)
    PROVE  [Lease!Next]_(Lease!vars)
  <1> USE SessionConstants DEF Sound, Typed, Handover, Bots, TypeOK
  <1> DEFINE j == target[t]
  <1>1. UNCHANGED <<jpc, named>> /\ pc[t] \notin {"idle", "done"}
        /\ \A u \in Tasks \ {t} : pc'[u] = pc[u] /\ target'[u] = target[u]
    BY DEF TaskStep, DropSession, BotLeave, StopContainer, RemoveContainer, StopIngest, ForceUnwind,
           joinVars
  <1>2. j \in Joins /\ jpc[j] = "joined"
    BY <1>1 DEF TargetsKnown, TargetsClaimed, LeavingJoined
  <1>3. target'[t] = target[t]
    BY <1>1 DEF TaskStep, DropSession, BotLeave, StopContainer, RemoveContainer, StopIngest,
           ForceUnwind, ForceTargets
  <1>4. \A k \in Joins \ {j} : container'[k] = container[k] /\ sessions'[MeetingOf[k]] = sessions[MeetingOf[k]]
    BY <1>2 DEF TaskStep, DropSession, BotLeave, StopContainer, RemoveContainer, StopIngest, ForceUnwind,
           SetContainer, resources, wiring, DistinctIds
  <1>5. \A k \in Joins \ {j} : LeaseStays(k)
    <2> SUFFICES ASSUME NEW k \in Joins \ {j} PROVE LeaseStays(k)
      OBVIOUS
    <2>1. Pending(k)' = {} <=> Pending(k) = {}
      BY <1>1, <1>3 DEF Pending
    <2>2. LeasePhase'[k] = LeasePhase[k]
      BY <1>1, <1>4, <2>1, LeaseFrame
    <2>. QED
      BY <1>1, <1>4, <2>2 DEF LeaseStays, BotRuns, Orphans
  <1>10. j \notin Orphans /\ j \notin Orphans'
    BY <1>1, <1>2 DEF Orphans
  <1>6. Pending(j) # {}
    BY <1>1 DEF Pending
  <1>7. LeaseMoves(j) \/ LeaseStays(j)
    <2> USE PhaseOf, PhaseOfNext, <1>1, <1>2, <1>3, <1>6, <1>10 DEF LeaseMoves, LeaseStays, BotRuns, resources
    <2>1. CASE DropSession(t) \/ ForceUnwind(t)
      <3>1. sessions'[MeetingOf[j]] = NoJoin /\ container' = container /\ pc'[t] # "done"
        BY <2>1 DEF DropSession, ForceUnwind
      <3>2. Pending(j)' # {}
        BY <3>1 DEF Pending
      <3>. QED
        BY <3>1, <3>2
    <2>2. CASE BotLeave(t) \/ StopContainer(t) \/ RemoveContainer(t)
      <3>1. /\ sessions' = sessions /\ pc'[t] # "done"
            /\ container'[j] = "running" => container[j] = "running"
        BY <2>2 DEF BotLeave, StopContainer, RemoveContainer, SetContainer, AfterStop, AfterRemove, wiring
      <3>2. Pending(j)' # {}
        BY <3>1 DEF Pending
      <3>3. LeasePhase'[j] = LeasePhase[j]
        BY <1>1, <1>2, <1>6, <3>1, <3>2, LeaseFrame
      <3>. QED
        BY <1>2, <3>1, <3>3
    <2>3. CASE StopIngest(t)
      <3>1. sessions' = sessions /\ container' = container /\ container[j] = "removed"
        BY <2>3 DEF StopIngest, wiring, BotsOfTasks
      <3>2. CASE sessions[MeetingOf[j]] = j
        <4>1. LeasePhase[j] = "serving" /\ LeasePhase'[j] = "serving"
          BY <1>1, <1>2, <3>1, <3>2, PhaseOf, PhaseOfNext
        <4>. QED
          BY <3>1, <4>1
      <3>3. CASE sessions[MeetingOf[j]] # j
        <4>1. LeasePhase[j] = "closing" /\ LeasePhase'[j] \in {"closing", "closed"}
          BY <1>1, <1>2, <1>6, <3>1, <3>3, PhaseOf, PhaseOfNext
        <4>2. ~BotRuns[j] /\ ~BotRuns'[j]
          BY <1>2, <3>1
        <4>. QED
          BY <4>1, <4>2
      <3>. QED
        BY <3>2, <3>3
    <2>. QED
      BY <2>1, <2>2, <2>3 DEF TaskStep
  <1>8. CASE LeaseMoves(j)
    BY <1>2, <1>5, <1>8, OneMoves
  <1>9. CASE LeaseStays(j)
    <2>1. \A k \in Joins : LeaseStays(k)
      BY <1>5, <1>9
    <2>. QED
      BY <2>1, NothingMoves
  <1>. QED
    BY <1>7, <1>8, <1>9

(* The other steps: a container that exits stops its bot.                  *)
LEMMA ExitMoves ==
    ASSUME Sound, NEW j \in Joins, ContainerExits(j)
    PROVE  Lease!Next
  <1> USE DEF Sound, Typed, TypeOK
  <1>1. UNCHANGED <<jpc, named, pc, target, sessions>> /\ container[j] = "running"
        /\ container' = [container EXCEPT ![j] = "exited"]
    BY DEF ContainerExits, joinVars, taskVars, wiring
  <1>2. \A k \in Joins : LeasePhase'[k] = LeasePhase[k]
    <2> SUFFICES ASSUME NEW k \in Joins PROVE LeasePhase'[k] = LeasePhase[k]
      OBVIOUS
    <2>1. Pending(k)' = {} <=> Pending(k) = {}
      BY <1>1 DEF Pending
    <2>. QED
      BY <1>1, <2>1, LeaseFrame
  <1>5. Orphans' = Orphans
    BY <1>1 DEF Orphans
  <1>3. LeaseMoves(j)
    BY <1>1, <1>2, <1>5 DEF LeaseMoves, BotRuns
  <1>4. \A k \in Joins \ {j} : LeaseStays(k)
    BY <1>1, <1>2, <1>5 DEF LeaseStays, BotRuns
  <1>. QED
    BY <1>3, <1>4, OneMoves

(* A teardown that begins, finds nothing to do, or does not move: the      *)
(* session it claims still is in the map or has a teardown already.        *)
Begins(t) ==
    \/ pc'[t] = pc[t] /\ target'[t] = target[t]
    \/ pc[t] = "idle" /\ target'[t] = NoJoin
    \/ /\ pc[t] = "idle" /\ target'[t] \in Joins
       /\ \/ sessions[MeetingOf[target'[t]]] = target'[t]
          \/ Pending(target'[t]) # {} /\ pc'[t] # "done"
OnlyBeginnings == UNCHANGED <<jpc, named, sessions, container>> /\ \A t \in Tasks : Begins(t)

(* That changes no lease.                                                  *)
LEMMA TeardownMovesNothing ==
    ASSUME Sound, Bots, OnlyBeginnings
    PROVE  UNCHANGED Lease!vars
  <1> USE SessionConstants DEF Sound, Typed, Bots, TypeOK, OnlyBeginnings, Begins
  <1> SUFFICES ASSUME NEW j \in Joins PROVE LeaseStays(j)
    BY NothingMoves
  <1>1. \A t \in Tasks : pc[t] = "idle" => target[t] # j
    BY DEF BotsOfTasks
  <1>2. BotRuns'[j] = BotRuns[j] /\ (j \in Orphans' <=> j \in Orphans)
    BY DEF BotRuns, Orphans
  <1>3. CASE jpc[j] = "joined" /\ sessions[MeetingOf[j]] # j
    <2>1. Pending(j) \subseteq Pending(j)'
      BY <1>1, <1>3 DEF Pending
    <2>2. Pending(j) = {} => Pending(j)' = {}
      BY <1>1, <1>3 DEF Pending
    <2>3. Pending(j)' = {} <=> Pending(j) = {}
      BY <2>1, <2>2
    <2>4. LeasePhase'[j] = LeasePhase[j]
      BY <1>3, <2>3, LeaseFrame
    <2>. QED
      BY <1>2, <2>4 DEF LeaseStays
  <1>4. CASE jpc[j] = "joined" /\ sessions[MeetingOf[j]] = j
    <2>1. LeasePhase'[j] = "serving" /\ LeasePhase[j] = "serving"
      BY <1>4, PhaseOf, PhaseOfNext
    <2>. QED
      BY <1>2, <2>1 DEF LeaseStays
  <1>5. CASE jpc[j] # "joined"
    <2>1. jpc[j] \in {"idle", "refused", "publishing", "key", "ingest", "run", "inspect", "ready", "failed"} \cup UndoPc
      BY <1>5 DEF JoinPc, JoinOver
    <2>2. LeasePhase'[j] = LeasePhase[j]
      BY <2>1, PhaseOf, PhaseOfNext
    <2>. QED
      BY <1>2, <2>2 DEF LeaseStays
  <1>. QED
    BY <1>3, <1>4, <1>5

(* The remaining steps of the manager are of these two kinds.              *)
LEMMA OtherMoves ==
    ASSUME Sound, Bots, DistinctIds, Next, ~\E j \in Joins : JoinStep(j), ~\E t \in Tasks : TaskStep(t)
    PROVE  [Lease!Next]_(Lease!vars)
  <1> USE SessionConstants DEF Sound, Typed, Handover, TypeOK
  <1>2. \A m \in Meetings : sessions[m] # NoJoin => sessions[m] \in Joins /\ sessions[MeetingOf[sessions[m]]] = sessions[m]
    BY DEF RecordsMatch
  <1>3. ASSUME NEW t \in LeaveTasks \cup ExitTasks, pc[t] = "idle", NEW m \in Meetings,
               \/ sessions[m] # NoJoin /\ Claim(t, sessions[m])
               \/ Skip(t),
               UNCHANGED <<jpc, named, sessions, container>>
        PROVE  UNCHANGED Lease!vars
    <2>1. t \in Tasks /\ target[t] = NoJoin
      BY <1>3 DEF Tasks, Bots, BotsOfTasks
    <2>2. \A u \in Tasks : Begins(u)
      BY <1>2, <1>3, <2>1 DEF Claim, Skip, Begins
    <2>. QED
      BY <1>3, <2>2, TeardownMovesNothing DEF OnlyBeginnings
  <1>4. ASSUME NEW c \in Callers, NEW m \in Meetings, LeaveCalled(c, m)
        PROVE  UNCHANGED Lease!vars
    <2>1. <<"leave", c>> \in LeaveTasks
      BY DEF LeaveTasks
    <2>. QED
      BY <1>3, <1>4, <2>1 DEF LeaveCalled, BeginLeave, joinVars, resources
  <1>5. ASSUME NEW c \in Callers, NEW j \in Joins, TimeoutFires(c, j)
        PROVE  UNCHANGED Lease!vars
    <2>1. <<"leave", c>> \in LeaveTasks /\ MeetingOf[j] \in Meetings
      BY DEF LeaveTasks
    <2>. QED
      BY <1>3, <1>5, <2>1 DEF TimeoutFires, BeginLeave, joinVars, resources
  <1>6. ASSUME NEW j \in Joins, ExitObserved(j) \/ ExitUnobserved(j)
        PROVE  UNCHANGED Lease!vars
    <2>1. <<"exit", j>> \in ExitTasks /\ MeetingOf[j] \in Meetings
      BY DEF ExitTasks
    <2>. QED
      BY <1>3, <1>6, <2>1 DEF ExitObserved, ExitUnobserved, joinVars, resources
  <1>7. CASE ShutdownAll
    <2>1. \A t \in Tasks : pc[t] = "idle" => target[t] = NoJoin
      BY DEF Bots, BotsOfTasks
    <2>2. \A j \in snapshot' : sessions[MeetingOf[j]] = j /\ j \in Joins
      BY <1>7 DEF ShutdownAll
    <2>3. \A j \in snapshot' : <<"shutdown", j>> \in ShutdownTasks
      BY <2>2 DEF ShutdownTasks
    <2>4. \A t \in Tasks \cap ({"shutdown"} \X snapshot') : pc[t] = "idle" /\ target'[t] = t[2] /\ t[2] \in snapshot'
      BY <1>7, <2>3 DEF ShutdownAll, Bots, ShutdownTargets
    <2>5. \A t \in Tasks \ ({"shutdown"} \X snapshot') : pc'[t] = pc[t] /\ target'[t] = target[t]
      BY <1>7 DEF ShutdownAll
    <2>6. \A t \in Tasks : Begins(t)
      BY <2>2, <2>4, <2>5 DEF Begins
    <2>. QED
      BY <1>7, <2>6, TeardownMovesNothing DEF OnlyBeginnings, ShutdownAll, joinVars, resources
  <1>8. CASE ShutdownDeadline
    <2>1. \A j \in Joins : sessions[MeetingOf[j]] # NoJoin => sessions[MeetingOf[j]] = j
      BY DEF RecordsMatch, DistinctIds
    <2>2. \A t \in ForceTasks : pc[t] = "idle"
      BY <1>8 DEF ShutdownDeadline, Bots, ShutdownTargets
    <2>3. \A j \in Stragglers : j \in Joins /\ Pending(j) # {} /\ <<"force", j>> \in ForceTasks
      BY DEF Stragglers, Pending, Bots, SnapshotTargets, Tasks, ShutdownTasks, ForceTasks
    <2>4. \A t \in Tasks \cap ({"force"} \X Stragglers) :
              pc[t] = "idle" /\ pc'[t] # "done" /\ target'[t] = t[2] /\ t[2] \in Stragglers
      BY <1>8, <2>1, <2>2, <2>3 DEF ShutdownDeadline
    <2>5. \A t \in Tasks \ ({"force"} \X Stragglers) : pc'[t] = pc[t] /\ target'[t] = target[t]
      BY <1>8 DEF ShutdownDeadline
    <2>6. \A t \in Tasks : Begins(t)
      BY <2>3, <2>4, <2>5 DEF Begins
    <2>. QED
      BY <1>8, <2>6, TeardownMovesNothing DEF OnlyBeginnings, ShutdownDeadline, joinVars, resources
  <1>9. ASSUME ShutdownCompletes \/ ShutdownForced \/ \E j \in Joins : BotReportsJoined(j)
        PROVE  UNCHANGED Lease!vars
    <2>1. OnlyBeginnings
      BY <1>9 DEF ShutdownCompletes, ShutdownForced, BotReportsJoined, joinVars, taskVars, wiring, resources,
           OnlyBeginnings, Begins
    <2>. QED
      BY <2>1, TeardownMovesNothing
  <1>10. ASSUME NEW j \in Joins, ContainerExits(j)
         PROVE  Lease!Next
    BY <1>10, ExitMoves
  <1>. QED
    BY <1>4, <1>5, <1>6, <1>7, <1>8, <1>9, <1>10 DEF Next, ShutdownStep

(* The manager starts with every lease absent.                             *)
LEMMA LeaseInit == Init => Lease!Init
  <1> SUFFICES ASSUME Init PROVE Lease!Init
    OBVIOUS
  <1>1. \A j \in Joins : LeasePhase[j] = "absent" /\ BotRuns[j] = FALSE
    BY PhaseOf DEF Init, BotRuns
  <1>2. LeasePhase = [j \in Joins |-> LeasePhase[j]] /\ BotRuns = [j \in Joins |-> BotRuns[j]]
    BY Zenon DEF LeasePhase, BotRuns
  <1>3. Orphans = {}
    BY DEF Init, Orphans
  <1>. QED
    BY <1>1, <1>2, <1>3 DEF Lease!Init

(* Every behaviour of the session manager is a behaviour of the lease, for *)
(* any joins, meetings and callers, whatever calls of the engine fail but  *)
(* the removal of a container (session-manager.ts join, leave,             *)
(* handleContainerExit, shutdownAll; docker-runner.ts run): no bot runs    *)
(* before its join starts, none that has served or that a rollback could   *)
(* name runs after its lease is closed, and a closed lease never reopens.  *)
THEOREM ManagerImplementsLease ==
    ASSUME DistinctIds, RemoveWorks
    PROVE  Spec => ImplementsLease
  <1>1. Sound /\ Bots /\ [Next]_vars => [Lease!Next]_(Lease!vars)
    <2> SUFFICES ASSUME Sound, Bots, [Next]_vars PROVE [Lease!Next]_(Lease!vars)
      OBVIOUS
    <2>1. CASE Next
      BY <2>1, JoinMoves, TaskMoves, OtherMoves
    <2>2. CASE UNCHANGED vars
      <3>1. OnlyBeginnings
        BY <2>2 DEF vars, joinVars, taskVars, wiring, resources, OnlyBeginnings, Begins
      <3>. QED
        BY <3>1, TeardownMovesNothing
    <2>. QED
      BY <2>1, <2>2
  <1>2. Spec => [](Sound /\ Bots)
    BY BotsAlways
  <1>. QED
    BY <1>1, <1>2, LeaseInit, PTL DEF Spec, ImplementsLease, Lease!Spec

(* The lease keeps its promise.                                            *)
LEMMA LeaseKept ==
    ASSUME DistinctIds, RemoveWorks
    PROVE  Spec => []Lease!NoBotOutsideLease
  <1>1. Lease!Init => Lease!NoBotOutsideLease
    BY DEF Lease!Init, Lease!NoBotOutsideLease
  <1>2. Lease!NoBotOutsideLease /\ [Lease!Next]_(Lease!vars) => Lease!NoBotOutsideLease'
    <2> SUFFICES ASSUME Lease!NoBotOutsideLease, [Lease!Next]_(Lease!vars),
                        NEW k \in Joins \ Orphans', BotRuns'[k]
                 PROVE  LeasePhase'[k] \notin {"absent", "closed"}
      BY DEF Lease!NoBotOutsideLease
    <2>1. LeasePhase = [j \in Joins |-> LeasePhase[j]] /\ BotRuns = [j \in Joins |-> BotRuns[j]]
      BY Zenon DEF LeasePhase, BotRuns
    <2>2. k \notin Orphans /\ BotRuns[k] => LeasePhase[k] \notin {"absent", "closed"}
      BY DEF Lease!NoBotOutsideLease
    <2>3. CASE UNCHANGED Lease!vars
      BY <2>2, <2>3 DEF Lease!vars
    <2>4. ASSUME NEW j \in Joins, \/ Lease!Start(j) \/ Lease!Spawn(j) \/ Lease!Serve(j) \/ Lease!Close(j)
                                  \/ Lease!Lose(j) \/ Lease!Die(j) \/ Lease!End(j)
          PROVE  LeasePhase'[k] \notin {"absent", "closed"}
      BY <2>1, <2>2, <2>4 DEF Lease!Start, Lease!Spawn, Lease!Serve, Lease!Close, Lease!Lose, Lease!Die,
           Lease!End, Lease!Move
    <2>. QED
      BY <2>3, <2>4 DEF Lease!Next
  <1>. QED
    BY <1>1, <1>2, ManagerImplementsLease, PTL DEF ImplementsLease, Lease!Spec

-----------------------------------------------------------------------------
(* What else a join holds, and until when.  Its meeting has a route from   *)
(* the registration to the end of the rollback or of the session; the      *)
(* subscribers, the monitors and the timer live within the session record; *)
(* a teardown that is past its first await has taken the record out, and   *)
(* one that is over has stopped the ingest.                                *)
Listed(j) == sessions[MeetingOf[j]] = j
RoutedPc  == {"ingest", "run", "inspect", "ready", "undoStop", "undoRemove", "undoIngest"}

JoinWired(j) ==
    /\ MeetingOf[j] \in registered <=> jpc[j] \in RoutedPc \/ Listed(j)
    /\ j \in subscribed <=> Listed(j)
    /\ j \in timers \cup monitors => Listed(j)
    /\ pendingBotTokens[MeetingOf[j]] = j => jpc[j] \in {"key"} \cup RoutedPc
    /\ jpc[j] \in {"dropStop", "dropRemove", "failed"} => ingest[j] # "listening"
    /\ jpc[j] \in {"idle", "refused", "publishing", "key", "ingest"} => ingest[j] = "none"
TaskWired(t) ==
    target[t] # NoJoin => /\ target[t] \notin monitors
                          /\ pc[t] # "cancel" => ~Listed(target[t])
                          /\ pc[t] = "done" => ingest[target[t]] = "stopped"
Unwound(j) ==
    jpc[j] = "joined" /\ ~Listed(j) => /\ \E t \in Tasks : target[t] = j
                                       /\ j \in metaWritten \/ \E f \in ForceTasks : pc[f] # "idle"
Wired == /\ \A j \in Joins : JoinWired(j) /\ Unwound(j)
         /\ \A t \in Tasks : TaskWired(t)

(* What a step leaves alone of the state of a join.                        *)
Aside(k) ==
    /\ jpc'[k] = jpc[k] /\ ingest'[k] = ingest[k]
    /\ sessions'[MeetingOf[k]] = sessions[MeetingOf[k]]
    /\ pendingBotTokens'[MeetingOf[k]] = pendingBotTokens[MeetingOf[k]]
    /\ MeetingOf[k] \in registered' <=> MeetingOf[k] \in registered
    /\ k \in subscribed' <=> k \in subscribed
    /\ k \in timers' <=> k \in timers
    /\ k \in monitors' <=> k \in monitors

(* Such a join stays wired.                                                *)
LEMMA AsideWired ==
    ASSUME NEW k \in Joins, JoinWired(k), Aside(k)
    PROVE  JoinWired(k)' /\ Listed(k)' = Listed(k)
  BY DEF Aside, JoinWired, Listed

(* A router entry is taken out with the subscribers of one meeting.        *)
LEMMA UnregisterOne ==
    ASSUME DistinctIds, NEW j \in Joins, Unregister(MeetingOf[j]), subscribed \subseteq Joins
    PROVE  registered' = registered \ {MeetingOf[j]} /\ subscribed' = subscribed \ {j}
  BY DEF Unregister, OfMeeting, DistinctIds

(* At first nothing is wired.                                              *)
LEMMA WiredInit == Init => Wired
  BY SessionConstants DEF Init, Wired, JoinWired, TaskWired, Unwound, Listed, RoutedPc, Tasks

(* A step of a join wires or unwires that join, and no other.              *)
LEMMA WiredJoin ==
    ASSUME Sound, Wired, DistinctIds, NEW j \in Joins, JoinStep(j)
    PROVE  Wired'
  <1> USE SessionConstants DEF Sound, Typed, TypeOK
  <1>1. UNCHANGED <<pc, target, metaWritten>> /\ jpc[j] # "joined" /\ ~Listed(j)
    BY DEF JoinStep, JoinStart, JoinPrepare, JoinRegister, JoinIngest, JoinSpawn, JoinInspect, JoinActivate,
           JoinSubscribeFails, JoinNotReady, JoinUndo, UndoPc, taskVars, histVars, Handover, RecordsMatch, Listed
  <1>2. \A k \in Joins \ {j} : Aside(k)
    <2> USE UnregisterOne DEF Aside, SetJpc, ForgetToken, wiring, resources, joinVars, DistinctIds
    <2>1. CASE JoinStart(j) \/ JoinPrepare(j) \/ JoinRegister(j) \/ JoinSpawn(j) \/ JoinInspect(j) \/ JoinNotReady(j)
      BY <2>1 DEF JoinStart, JoinPrepare, JoinRegister, JoinSpawn, JoinInspect, JoinNotReady
    <2>2. CASE JoinIngest(j) \/ JoinActivate(j) \/ JoinSubscribeFails(j)
      BY <2>2 DEF JoinIngest, JoinActivate, JoinSubscribeFails
    <2>3. CASE JoinUndo(j)
      BY <2>3 DEF JoinUndo
    <2>. QED
      BY <2>1, <2>2, <2>3 DEF JoinStep
  <1>3. JoinWired(j)' /\ (jpc'[j] = "joined" => Listed(j)')
    <2> USE UnregisterOne DEF Wired, JoinWired, Listed, RoutedPc, SetJpc, ForgetToken, wiring, resources
    <2>1. CASE JoinStart(j) \/ JoinPrepare(j) \/ JoinRegister(j)
      BY <1>1, <2>1 DEF JoinStart, JoinPrepare, JoinRegister
    <2>2. CASE JoinIngest(j)
      BY <1>1, <2>2 DEF JoinIngest
    <2>3. CASE JoinSpawn(j) \/ JoinInspect(j) \/ JoinNotReady(j)
      BY <1>1, <2>3 DEF JoinSpawn, JoinInspect, JoinNotReady
    <2>4. CASE JoinActivate(j)
      BY <1>1, <2>4 DEF JoinActivate
    <2>5. CASE JoinSubscribeFails(j)
      BY <1>1, <2>5 DEF JoinSubscribeFails
    <2>6. CASE JoinUndo(j)
      BY <1>1, <2>6 DEF JoinUndo, AfterUndo, UndoPc
    <2>. QED
      BY <2>1, <2>2, <2>3, <2>4, <2>5, <2>6 DEF JoinStep
  <1>4. \A k \in Joins \ {j} : JoinWired(k)' /\ Listed(k)' = Listed(k)
    BY <1>2, AsideWired DEF Wired
  <1>5. \A k \in Joins : Unwound(k)'
    <2> SUFFICES ASSUME NEW k \in Joins PROVE Unwound(k)'
      OBVIOUS
    <2>1. CASE k = j
      BY <1>3, <2>1 DEF Unwound
    <2>2. CASE k # j
      BY <1>1, <1>2, <1>4, <2>2 DEF Unwound, Aside, Wired
    <2>. QED
      BY <2>1, <2>2
  <1>6. \A t \in Tasks : TaskWired(t)'
    <2> SUFFICES ASSUME NEW t \in Tasks, target[t] # NoJoin PROVE TaskWired(t)'
      BY <1>1 DEF TaskWired
    <2>1. target[t] \in Joins \ {j}
      BY <1>1 DEF Handover, TargetsClaimed, LeavingJoined
    <2>. QED
      BY <1>1, <1>2, <1>4, <2>1 DEF TaskWired, Aside, Wired
  <1>. QED
    BY <1>3, <1>4, <1>5, <1>6 DEF Wired

(* A step of a teardown unwires the session it has claimed, and no other.  *)
LEMMA WiredTask ==
    ASSUME Sound, Bots, Wired, DistinctIds, NEW t \in Tasks, TaskStep(t)
    PROVE  Wired'
  <1> USE SessionConstants DEF Sound, Typed, TypeOK
  <1>1. /\ pc[t] \notin {"idle", "done"} /\ pc'[t] # "idle"
        /\ \A u \in Tasks \ {t} : pc'[u] = pc[u] /\ target'[u] = target[u]
        /\ UNCHANGED jpc
    BY DEF TaskStep, DropSession, BotLeave, StopContainer, RemoveContainer, StopIngest, ForceUnwind, joinVars
  <1>j. PICK j \in Joins : target[t] = j
    BY <1>1 DEF TargetsKnown
  <1>2. jpc[j] = "joined" /\ j \notin monitors /\ TaskWired(t)
    BY <1>1, <1>j DEF Handover, TargetsClaimed, LeavingJoined, Wired, TaskWired
  <1>3. target'[t] = j
    BY <1>1, <1>j DEF TaskStep, DropSession, BotLeave, StopContainer, RemoveContainer, StopIngest,
           ForceUnwind, Bots, ForceTargets
  <1>4. CASE DropSession(t) \/ ForceUnwind(t)
    <2>1. /\ sessions' = [sessions EXCEPT ![MeetingOf[j]] = NoJoin]
          /\ registered' = registered \ {MeetingOf[j]} /\ subscribed' = subscribed \ {j}
          /\ timers' = timers \ {j} /\ UNCHANGED <<monitors, ingest>>
          /\ \/ pendingBotTokens' = pendingBotTokens
             \/ pendingBotTokens' = [pendingBotTokens EXCEPT ![MeetingOf[j]] = NoJoin]
      BY <1>2, <1>j, <1>4, UnregisterOne DEF DropSession, ForceUnwind, ForgetToken, joinVars, resources
    <2>2. \A k \in Joins \ {j} : Aside(k)
      BY <1>1, <1>2, <1>j, <2>1 DEF Aside, DistinctIds
    <2>3. \A k \in Joins \ {j} : JoinWired(k)' /\ Listed(k)' = Listed(k)
      BY <2>2, AsideWired DEF Wired
    <2>9. ~Listed(j)'
      BY <2>1 DEF Listed
    <2>4. JoinWired(j)' /\ ~Listed(j)'
      BY <1>1, <1>2, <2>1, <2>9 DEF Wired, JoinWired, RoutedPc
    <2>5. metaWritten \subseteq metaWritten' /\ (j \in metaWritten' \/ \E f \in ForceTasks : pc'[f] # "idle")
      <3>1. CASE DropSession(t)
        <4>1. metaWritten' = metaWritten \cup (subscribed \cap OfMeeting(MeetingOf[j])) /\ t \notin ForceTasks
          BY <1>j, <3>1 DEF DropSession, DispatchLeft
        <4>2. \A f \in ForceTasks : f \in Tasks /\ f # t
          BY <4>1 DEF Tasks
        <4>3. CASE Listed(j)
          BY <1>2, <1>j, <4>1, <4>3 DEF Wired, JoinWired, OfMeeting
        <4>4. CASE ~Listed(j)
          BY <1>1, <1>2, <1>j, <4>1, <4>2, <4>4 DEF Wired, Unwound
        <4>. QED
          BY <4>1, <4>3, <4>4
      <3>2. CASE ForceUnwind(t)
        BY <1>1, <3>2 DEF ForceUnwind, histVars
      <3>. QED
        BY <1>4, <3>1, <3>2
    <2>6. \A k \in Joins : Unwound(k)'
      <3> SUFFICES ASSUME NEW k \in Joins PROVE Unwound(k)'
        OBVIOUS
      <3>1. CASE k = j
        BY <1>j, <1>3, <2>5, <3>1 DEF Unwound
      <3>2. CASE k # j
        <4>1. jpc[k] = "joined" /\ ~Listed(k) => /\ \E u \in Tasks : target'[u] = k
                                                 /\ k \in metaWritten' \/ \E f \in ForceTasks : pc'[f] # "idle"
          BY <1>1, <1>j, <1>3, <2>5, <3>2 DEF Wired, Unwound, Tasks
        <4>. QED
          BY <1>1, <2>3, <3>2, <4>1 DEF Unwound
      <3>. QED
        BY <3>1, <3>2
    <2>7. \A u \in Tasks : TaskWired(u)'
      <3> SUFFICES ASSUME NEW u \in Tasks, target'[u] # NoJoin PROVE TaskWired(u)'
        BY DEF TaskWired
      <3>1. target'[u] = target[u] /\ TaskWired(u) /\ target[u] \in Joins
        BY <1>1, <1>j, <1>3 DEF Wired
      <3>2. CASE u = t
        BY <1>2, <1>j, <1>3, <1>4, <2>1, <2>4, <3>1, <3>2 DEF TaskWired, DropSession, ForceUnwind
      <3>3. CASE u # t
        BY <1>1, <1>j, <2>1, <2>3, <2>4, <3>1, <3>3 DEF TaskWired
      <3>. QED
        BY <3>2, <3>3
    <2>. QED
      BY <2>3, <2>4, <2>6, <2>7 DEF Wired
  <1>5. CASE BotLeave(t) \/ StopContainer(t) \/ RemoveContainer(t) \/ StopIngest(t)
    <2>1. /\ UNCHANGED <<wiring, metaWritten, pendingBotTokens>> /\ pc[t] # "cancel" /\ pc'[t] # "cancel"
          /\ \/ ingest' = ingest /\ pc'[t] # "done"
             \/ ingest' = [ingest EXCEPT ![j] = "stopped"] /\ pc'[t] = "done"
      BY <1>5, <1>j DEF BotLeave, StopContainer, RemoveContainer, StopIngest, joinVars, histVars, resources
    <2>2. \A k \in Joins : JoinWired(k)' /\ Listed(k)' = Listed(k)
      BY <1>1, <1>2, <1>j, <2>1 DEF Wired, JoinWired, Listed, wiring
    <2>3. \A k \in Joins : Unwound(k)'
      <3> SUFFICES ASSUME NEW k \in Joins PROVE Unwound(k)'
        OBVIOUS
      <3>1. \A u \in Tasks : target'[u] = target[u] /\ (pc[u] # "idle" => pc'[u] # "idle")
        BY <1>1, <1>j, <1>3
      <3>. QED
        BY <1>1, <2>1, <2>2, <3>1 DEF Wired, Unwound, Tasks
    <2>4. \A u \in Tasks : TaskWired(u)'
      <3> SUFFICES ASSUME NEW u \in Tasks PROVE TaskWired(u)'
        OBVIOUS
      <3>1. target'[u] = target[u] /\ TaskWired(u) /\ (target[u] # NoJoin => target[u] \in Joins)
        BY <1>1, <1>j, <1>3 DEF Wired
      <3>. QED
        BY <1>1, <1>2, <1>j, <2>1, <2>2, <3>1 DEF TaskWired, wiring
    <2>. QED
      BY <2>2, <2>3, <2>4 DEF Wired
  <1>. QED
    BY <1>4, <1>5 DEF TaskStep

(* The other steps only claim: a session that is listed, or, past the      *)
(* shutdown's deadline, one that is being torn down already.               *)
LEMMA WiredOther ==
    ASSUME Sound, Bots, Wired, DistinctIds, Next, ~\E j \in Joins : JoinStep(j), ~\E t \in Tasks : TaskStep(t)
    PROVE  Wired'
  <1> USE SessionConstants DEF Sound, Typed, TypeOK
  <1>1. ASSUME UNCHANGED <<jpc, ingest, sessions, pendingBotTokens, registered, subscribed, metaWritten>>,
               timers' \subseteq timers, monitors' \subseteq monitors,
               \A t \in Tasks :
                  \/ pc'[t] = pc[t] /\ target'[t] = target[t]
                  \/ pc[t] = "idle" /\ pc'[t] # "idle" /\ target'[t] = NoJoin
                  \/ /\ pc[t] = "idle" /\ pc'[t] \in {"cancel", "stop"} /\ target'[t] \in Joins \ monitors'
                     /\ pc'[t] = "stop" => ~Listed(target'[t])
        PROVE  Wired'
    <2>1. \A k \in Joins : JoinWired(k)' /\ Listed(k)' = Listed(k)
      BY <1>1 DEF Wired, JoinWired, Listed
    <2>2. \A t \in Tasks : /\ pc[t] # "idle" => pc'[t] # "idle"
                          /\ target[t] # NoJoin => target'[t] = target[t]
      BY <1>1 DEF Bots, BotsOfTasks
    <2>3. \A k \in Joins : Unwound(k)'
      <3> SUFFICES ASSUME NEW k \in Joins PROVE Unwound(k)'
        OBVIOUS
      <3>. QED
        BY <1>1, <2>1, <2>2 DEF Wired, Unwound, Tasks
    <2>4. \A t \in Tasks : TaskWired(t)'
      <3> SUFFICES ASSUME NEW t \in Tasks, target'[t] # NoJoin PROVE TaskWired(t)'
        BY DEF TaskWired
      <3>1. PICK k \in Joins : target'[t] = k
        BY <1>1
      <3>2. k \notin monitors' /\ (pc'[t] # "cancel" => ~Listed(k)) /\ (pc'[t] = "done" => ingest[k] = "stopped")
        BY <1>1, <3>1 DEF Wired, TaskWired
      <3>. QED
        BY <1>1, <2>1, <3>1, <3>2 DEF TaskWired
    <2>. QED
      BY <2>1, <2>3, <2>4 DEF Wired
  <1>2. \A m \in Meetings : sessions[m] # NoJoin => sessions[m] \in Joins
    OBVIOUS
  <1>3. \A j \in Joins : j \in monitors => Listed(j)
    BY DEF Wired, JoinWired
  <1>4. ASSUME NEW t \in LeaveTasks \cup ExitTasks, pc[t] = "idle", NEW m \in Meetings,
               \/ sessions[m] # NoJoin /\ Claim(t, sessions[m])
               \/ Skip(t),
               UNCHANGED <<jpc, ingest, sessions, pendingBotTokens, registered, subscribed, metaWritten>>,
               timers' \subseteq timers
        PROVE  Wired'
    <2>1. t \in Tasks /\ target[t] = NoJoin
      BY <1>4 DEF Tasks, Bots, BotsOfTasks
    <2>. QED
      BY <1>1, <1>2, <1>4, <2>1 DEF Claim, Skip
  <1>5. ASSUME NEW j \in Joins, BotReportsJoined(j) \/ ContainerExits(j)
        PROVE  Wired'
    BY <1>1, <1>5 DEF BotReportsJoined, ContainerExits, joinVars, taskVars, wiring, resources, histVars
  <1>6. ASSUME NEW c \in Callers, NEW m \in Meetings, LeaveCalled(c, m)
        PROVE  Wired'
    <2>1. <<"leave", c>> \in LeaveTasks
      BY DEF LeaveTasks
    <2>. QED
      BY <1>4, <1>6, <2>1 DEF LeaveCalled, BeginLeave, joinVars, resources, histVars
  <1>7. ASSUME NEW c \in Callers, NEW j \in Joins, TimeoutFires(c, j)
        PROVE  Wired'
    <2>1. <<"leave", c>> \in LeaveTasks /\ MeetingOf[j] \in Meetings
      BY DEF LeaveTasks
    <2>. QED
      BY <1>4, <1>7, <2>1 DEF TimeoutFires, BeginLeave, joinVars, resources, histVars
  <1>8. ASSUME NEW j \in Joins, ExitObserved(j) \/ ExitUnobserved(j)
        PROVE  Wired'
    <2>1. <<"exit", j>> \in ExitTasks /\ MeetingOf[j] \in Meetings
      BY DEF ExitTasks
    <2>. QED
      BY <1>4, <1>8, <2>1 DEF ExitObserved, ExitUnobserved, joinVars, resources, histVars
  <1>9. CASE ShutdownAll
    <2>1. \A t \in ShutdownTasks : pc[t] = "idle"
      BY <1>9 DEF ShutdownAll, Bots, ShutdownTargets
    <2>2. snapshot' \subseteq Joins /\ monitors' = monitors \ snapshot'
      BY <1>9 DEF ShutdownAll
    <2>3. \A t \in Tasks \cap ({"shutdown"} \X snapshot') :
              pc[t] = "idle" /\ pc'[t] = "cancel" /\ target'[t] = t[2] /\ t[2] \in snapshot'
      BY <1>9, <2>1, <2>2 DEF ShutdownAll, ShutdownTasks
    <2>4. \A t \in Tasks \ ({"shutdown"} \X snapshot') : pc'[t] = pc[t] /\ target'[t] = target[t]
      BY <1>9 DEF ShutdownAll
    <2>. QED
      BY <1>1, <1>9, <2>2, <2>3, <2>4 DEF ShutdownAll, joinVars, resources, histVars
  <1>10. CASE ShutdownDeadline
    <2>1. \A j \in Joins : sessions[MeetingOf[j]] # NoJoin => sessions[MeetingOf[j]] = j
      BY DEF Handover, RecordsMatch, DistinctIds
    <2>2. \A t \in ForceTasks : pc[t] = "idle"
      BY <1>10 DEF ShutdownDeadline, Bots, ShutdownTargets
    <2>3. Stragglers \subseteq Joins
      BY DEF Stragglers
    <2>4. \A t \in Tasks \cap ({"force"} \X Stragglers) :
              /\ pc[t] = "idle" /\ pc'[t] \in {"cancel", "stop"} /\ target'[t] = t[2]
              /\ t[2] \in Joins \ monitors'
              /\ pc'[t] = "stop" => ~Listed(t[2])
      <3> SUFFICES ASSUME NEW t \in Tasks \cap ({"force"} \X Stragglers)
                   PROVE  /\ pc[t] = "idle" /\ pc'[t] \in {"cancel", "stop"} /\ target'[t] = t[2]
                          /\ t[2] \in Joins \ monitors'
                          /\ pc'[t] = "stop" => ~Listed(t[2])
        OBVIOUS
      <3>1. t \in ForceTasks /\ t[2] \in Stragglers
        BY <2>3 DEF ForceTasks
      <3>2. CASE sessions[MeetingOf[t[2]]] = NoJoin
        BY <1>3, <1>10, <2>2, <2>3, <3>1, <3>2 DEF ShutdownDeadline, Listed
      <3>3. CASE sessions[MeetingOf[t[2]]] # NoJoin
        BY <1>10, <2>1, <2>2, <2>3, <3>1, <3>3 DEF ShutdownDeadline
      <3>. QED
        BY <3>2, <3>3
    <2>5. \A t \in Tasks \ ({"force"} \X Stragglers) : pc'[t] = pc[t] /\ target'[t] = target[t]
      BY <1>10 DEF ShutdownDeadline
    <2>6. monitors' \subseteq monitors
      BY <1>10 DEF ShutdownDeadline
    <2>. QED
      BY <1>1, <1>10, <2>4, <2>5, <2>6 DEF ShutdownDeadline, joinVars, resources, histVars
  <1>11. CASE ShutdownCompletes \/ ShutdownForced
    BY <1>1, <1>11 DEF ShutdownCompletes, ShutdownForced, joinVars, taskVars, wiring, resources, histVars
  <1>. QED
    BY <1>5, <1>6, <1>7, <1>8, <1>9, <1>10, <1>11 DEF Next, ShutdownStep

-----------------------------------------------------------------------------
(* Where the shutdown is: past the deadline each session of the snapshot   *)
(* has left by its own leave() or is being forced, and at the end one of   *)
(* the two is over.                                                        *)
Over(kind, j) == pc[<<kind, j>>] = "done"
Reaped ==
    /\ shutdownPc = "forcing" => \A j \in snapshot : Over("shutdown", j) \/ pc[<<"force", j>>] # "idle"
    /\ shutdownPc = "done" => \A j \in snapshot : Over("shutdown", j) \/ Over("force", j)

(* No step goes back on that.                                              *)
LEMMA ReapedStep ==
    ASSUME Sound, Bots, Reaped, Next
    PROVE  Reaped'
  <1> USE SessionConstants DEF Sound, Typed, TypeOK
  <1>1. \A j \in snapshot : /\ <<"shutdown", j>> \in ShutdownTasks /\ <<"force", j>> \in ForceTasks
                           /\ <<"shutdown", j>> \in Tasks /\ <<"force", j>> \in Tasks
                           /\ <<"shutdown", j>> \notin LeaveTasks \cup ExitTasks
                           /\ <<"force", j>> \notin LeaveTasks \cup ExitTasks
    BY DEF Tasks, LeaveTasks, ExitTasks, ShutdownTasks, ForceTasks
  <1>2. ASSUME UNCHANGED stopVars,
               \A t \in ShutdownTasks \cup ForceTasks :
                   /\ pc[t] # "idle" => pc'[t] # "idle"
                   /\ pc[t] = "done" => pc'[t] = "done"
        PROVE  Reaped'
    BY <1>1, <1>2 DEF Reaped, Over, stopVars
  <1>3. ASSUME NEW j \in Joins, JoinStep(j) \/ BotReportsJoined(j) \/ ContainerExits(j)
        PROVE  Reaped'
    <2>1. UNCHANGED <<pc, stopVars>>
      BY <1>3 DEF JoinStep, JoinStart, JoinPrepare, JoinRegister, JoinIngest, JoinSpawn, JoinInspect, JoinActivate,
             JoinSubscribeFails, JoinNotReady, JoinUndo, BotReportsJoined, ContainerExits, taskVars
    <2>. QED
      BY <1>2, <2>1
  <1>4. ASSUME NEW t \in Tasks, TaskStep(t)
        PROVE  Reaped'
    <2>1. UNCHANGED stopVars /\ pc[t] # "done" /\ pc'[t] # "idle" /\ \A u \in Tasks \ {t} : pc'[u] = pc[u]
      BY <1>4 DEF TaskStep, DropSession, BotLeave, StopContainer, RemoveContainer, StopIngest, ForceUnwind
    <2>. QED
      BY <1>2, <2>1 DEF Tasks
  <1>5. ASSUME NEW t \in LeaveTasks \cup ExitTasks, UNCHANGED stopVars,
               \A u \in Tasks \ {t} : pc'[u] = pc[u]
        PROVE  Reaped'
    <2>1. \A u \in ShutdownTasks \cup ForceTasks : u \in Tasks \ {t}
      BY <1>5 DEF Tasks, LeaveTasks, ExitTasks, ShutdownTasks, ForceTasks
    <2>. QED
      BY <1>2, <1>5, <2>1
  <1>6. ASSUME NEW c \in Callers,
               (\E m \in Meetings : LeaveCalled(c, m)) \/ \E j \in Joins : TimeoutFires(c, j)
        PROVE  Reaped'
    <2>1. <<"leave", c>> \in LeaveTasks
      BY DEF LeaveTasks
    <2>2. UNCHANGED stopVars /\ \A u \in Tasks \ {<<"leave", c>>} : pc'[u] = pc[u]
      BY <1>6 DEF LeaveCalled, TimeoutFires, BeginLeave, Claim, Skip
    <2>. QED
      BY <1>5, <2>1, <2>2
  <1>7. ASSUME NEW j \in Joins, ExitObserved(j) \/ ExitUnobserved(j)
        PROVE  Reaped'
    <2>1. <<"exit", j>> \in ExitTasks
      BY DEF ExitTasks
    <2>2. UNCHANGED stopVars /\ \A u \in Tasks \ {<<"exit", j>>} : pc'[u] = pc[u]
      BY <1>7 DEF ExitObserved, ExitUnobserved, Claim, Skip
    <2>. QED
      BY <1>5, <2>1, <2>2
  <1>8. CASE ShutdownAll
    BY <1>8 DEF ShutdownAll, Reaped
  <1>9. CASE ShutdownDeadline
    <2>1. UNCHANGED snapshot /\ shutdownPc' = "forcing"
      BY <1>9 DEF ShutdownDeadline
    <2>2. \A j \in snapshot \ Stragglers : Over("shutdown", j)'
      BY <1>1, <1>9 DEF ShutdownDeadline, Stragglers, Over
    <2>3. \A j \in Stragglers : pc'[<<"force", j>>] # "idle"
      BY <1>1, <1>9 DEF ShutdownDeadline, Stragglers
    <2>. QED
      BY <2>1, <2>2, <2>3 DEF Reaped
  <1>10. CASE ShutdownCompletes \/ ShutdownForced
    BY <1>1, <1>10 DEF ShutdownCompletes, ShutdownForced, Stragglers, Reaped, Over, taskVars
  <1>. QED
    BY <1>3, <1>4, <1>6, <1>7, <1>8, <1>9, <1>10 DEF Next, ShutdownStep

(* Every reachable state is wired and on its way to being reaped.          *)
LEMMA WiredAlways ==
    ASSUME DistinctIds, RemoveWorks
    PROVE  Spec => [](Sound /\ Bots /\ Wired /\ Reaped)
  <1>1. Sound /\ Bots /\ Wired /\ Reaped /\ [Next]_vars => Wired' /\ Reaped'
    <2> SUFFICES ASSUME Sound, Bots, Wired, Reaped, [Next]_vars PROVE Wired' /\ Reaped'
      OBVIOUS
    <2>1. CASE Next
      BY <2>1, WiredJoin, WiredTask, WiredOther, ReapedStep
    <2>2. CASE UNCHANGED vars
      BY <2>2 DEF vars, joinVars, taskVars, stopVars, histVars, wiring, resources, Wired, JoinWired, TaskWired,
            Unwound, Listed, Reaped, Over
    <2>. QED
      BY <2>1, <2>2
  <1>2. Init => Wired /\ Reaped
    BY WiredInit DEF Init, Reaped
  <1>3. Spec => [](Sound /\ Bots)
    BY BotsAlways
  <1>. QED
    BY <1>1, <1>2, <1>3, PTL DEF Spec

(* Whatever way joins and sessions end and overlap, with distinct meeting  *)
(* ids and an engine that removes what it is told to, a join that failed   *)
(* or whose teardowns are over holds nothing, the container whose id a     *)
(* failed inspection hid excepted, and its record was written              *)
(* (session-manager.ts join's rollbacks, leave, handleContainerExit).      *)
THEOREM NothingIsLeftBehind ==
    ASSUME DistinctIds, RemoveWorks
    PROVE  Spec => []TeardownsAreComplete
  <1>1. Sound /\ Bots /\ Wired => TeardownsAreComplete
    <2> SUFFICES ASSUME Sound, Bots, Wired PROVE TeardownsAreComplete
      OBVIOUS
    <2> USE DEF Sound, Typed, TypeOK
    <2>1. NothingLeaks
      <3> SUFFICES ASSUME NEW j \in Joins, jpc[j] \in {"failed", "joined"}, ~Listed(j), Pending(j) = {}
                   PROVE  /\ container[j] \in {"none", "removed"} \/ ("inspect" \in FaultyCalls /\ j \in Orphans)
                          /\ ingest[j] # "listening"
                          /\ j \notin timers \cup monitors \cup subscribed
                          /\ MeetingOf[j] \notin registered /\ pendingBotTokens[MeetingOf[j]] # j
        BY DEF NothingLeaks, Listed
      <3>1. /\ j \notin timers \cup monitors \cup subscribed
            /\ MeetingOf[j] \notin registered /\ pendingBotTokens[MeetingOf[j]] # j
        BY DEF Wired, JoinWired, RoutedPc
      <3>2. CASE jpc[j] = "failed"
        BY <3>1, <3>2 DEF Wired, JoinWired, Bots, BotsOfJoins, Orphans
      <3>3. CASE jpc[j] = "joined"
        <4>1. PICK t \in Tasks : target[t] = j
          BY <3>3 DEF Wired, Unwound
        <4>2. pc[t] = "done"
          BY <4>1 DEF Pending
        <4>3. container[j] = "removed" /\ ingest[j] = "stopped"
          BY <4>1, <4>2, SessionConstants DEF Bots, BotsOfTasks, Wired, TaskWired
        <4>. QED
          BY <3>1, <4>3
      <3>. QED
        BY <3>2, <3>3
    <2>2. MetaIsWritten
      <3> SUFFICES ASSUME NEW t \in Tasks \ ForceTasks, target[t] # NoJoin,
                          pc[t] \in {"bot", "stop", "remove", "ingest", "done"}
                   PROVE  target[t] \in metaWritten \/ \E f \in ForceTasks : pc[f] # "idle"
        BY DEF MetaIsWritten
      <3>1. target[t] \in Joins /\ jpc[target[t]] = "joined" /\ ~Listed(target[t])
        BY DEF Handover, TargetsClaimed, LeavingJoined, Wired, TaskWired
      <3>. QED
        BY <3>1 DEF Wired, Unwound
    <2>. QED
      BY <2>1, <2>2 DEF TeardownsAreComplete
  <1>. QED
    BY <1>1, WiredAlways, PTL

(* A bot that runs outside its lease is one that a failed inspection hid.  *)
BotsHaveLeases ==
    \A j \in Joins :
        container[j] = "running" /\ LeasePhase[j] \in {"absent", "closed"}
            => /\ "inspect" \in FaultyCalls /\ jpc[j] = "failed" /\ j \notin named
               /\ ResolveToken(MeetingOf[j]) # j /\ ingest[j] # "listening"

(* What a client relies on, of the manager itself: no bot runs for a join  *)
(* that has not begun, was refused, or is over; the one bot that can is    *)
(* that of a join whose inspection failed, and it is cut off: the ingress  *)
(* route refuses its token and no ingest listens to it (docker-runner.ts   *)
(* run, session-manager.ts join, leave, handleContainerExit, shutdownAll). *)
THEOREM NoBotWithoutLease ==
    ASSUME DistinctIds, RemoveWorks
    PROVE  Spec => []BotsHaveLeases
  <1>1. /\ Sound /\ Bots /\ Wired
        /\ Lease!NoBotOutsideLease
        => BotsHaveLeases
    <2> SUFFICES ASSUME Sound, Bots, Wired, Lease!NoBotOutsideLease, NEW j \in Joins,
                        container[j] = "running", LeasePhase[j] \in {"absent", "closed"}
                 PROVE  /\ "inspect" \in FaultyCalls /\ jpc[j] = "failed" /\ j \notin named
                        /\ ResolveToken(MeetingOf[j]) # j /\ ingest[j] # "listening"
      BY DEF BotsHaveLeases
    <2> USE DEF Sound, Typed, TypeOK
    <2>1. j \in Orphans
      BY DEF Lease!NoBotOutsideLease, BotRuns
    <2>2. jpc[j] = "failed" /\ j \notin named
      BY <2>1, PhaseOf DEF Orphans, UndoPc
    <2>3. "inspect" \in FaultyCalls
      BY <2>2 DEF Bots, BotsOfJoins
    <2>4. sessions[MeetingOf[j]] # j
      BY <2>2, SessionConstants DEF Handover, RecordsMatch
    <2>5. pendingBotTokens[MeetingOf[j]] # j /\ ingest[j] # "listening"
      BY <2>2 DEF Wired, JoinWired, RoutedPc
    <2>. QED
      BY <2>2, <2>3, <2>4, <2>5 DEF ResolveToken
  <1>. QED
    BY <1>1, WiredAlways, LeaseKept, PTL

(* While meetings come, go and are shut down together, a meeting that can  *)
(* produce transcripts has its route and its subscribers, and when         *)
(* shutdownAll returns, in time or by force, no bot of its snapshot runs   *)
(* and no ingest of it listens (session-manager.ts shutdownAll).           *)
THEOREM ShutdownStaysOrderly ==
    ASSUME DistinctIds, RemoveWorks
    PROVE  Spec => []ShutdownIsOrderly
  <1>1. Sound /\ Bots /\ Wired /\ Reaped => ShutdownIsOrderly
    <2> SUFFICES ASSUME Sound, Bots, Wired, Reaped PROVE ShutdownIsOrderly
      OBVIOUS
    <2> USE DEF Sound, Typed, TypeOK
    <2>1. TranscriptsAreRouted
      BY DEF TranscriptsAreRouted, Wired, JoinWired, RoutedPc, Listed
    <2>2. ShutdownReapsSnapshot
      <3> SUFFICES ASSUME shutdownPc = "done", NEW j \in snapshot
                   PROVE  container[j] # "running" /\ ingest[j] = "stopped"
        BY DEF ShutdownReapsSnapshot
      <3>1. j \in Joins /\ <<"shutdown", j>> \in Tasks /\ <<"force", j>> \in ForceTasks /\ <<"force", j>> \in Tasks
        BY DEF Tasks, ShutdownTasks, ForceTasks
      <3>2. PICK t \in Tasks : pc[t] = "done" /\ target[t] = j
        BY <3>1 DEF Reaped, Over, Bots, SnapshotTargets, ForceTargets
      <3>. QED
        BY <3>1, <3>2, SessionConstants DEF Bots, BotsOfTasks, Wired, TaskWired
    <2>. QED
      BY <2>1, <2>2 DEF ShutdownIsOrderly
  <1>. QED
    BY <1>1, WiredAlways, PTL

=============================================================================
