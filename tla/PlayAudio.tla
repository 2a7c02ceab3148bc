------------------------------ MODULE PlayAudio ------------------------------
(***************************************************************************)
(* The bot's speaker: POST and DELETE /play_audio of control/http-server.ts *)
(* and the shared pacat process of media/audio-playback.ts.                 *)
(*                                                                         *)
(* Every POST streams PCM into one pacat stdin.  A POST aborts the streams *)
(* that are registered when it arrives, appends itself to a promise chain, *)
(* and touches pacat only when everything before it on the chain has       *)
(* released.  One action is one stretch of handler code between two        *)
(* awaits.  `chain' is the promise chain: its head owns pacat, the others  *)
(* wait.  A POST with the wrong content type is answered 400 before it     *)
(* reaches any of this state and is left out; a request without a body is *)
(* one whose body ends at once.                                            *)
(***************************************************************************)
EXTENDS Naturals, Sequences, FiniteSets

CONSTANTS Posts,        \* the POST /play_audio requests
          StreamIds,    \* values of ?stream_id=
          None,
          MaxChunks,    \* bound: chunks in one request body
          MaxPacats     \* bound: pacat processes spawned in a run

ASSUME PostsFinite == IsFiniteSet(Posts)
ASSUME NoneIsNoPost == None \notin Posts
ASSUME BoundsAreNat == MaxChunks \in Nat /\ MaxPacats \in Nat

VARIABLES
  pc,        \* where each handler is suspended
  sid,       \* the stream id of each request
  chain,     \* playbackChain: requests that have not released it, in order
  active,    \* activeStreams: stream id -> the registered request
  aborted,   \* requests whose AbortController has fired
  handle,    \* the pacat process a request writes into
  pacat,     \* the module-level singleton (0: none)
  alive,     \* pacat processes still running
  spawned,   \* pacat processes spawned so far
  clock,     \* effectivePlaybackMs of each process, in chunks of audio
  subs,      \* requests subscribed to the playback timestamps
  sent,      \* chunks of its own each request has handed over
  verdict,   \* how the read loop ended
  answer,    \* the HTTP status
  \* history, read by the properties only
  sink,      \* who wrote what to pacat, in order
  preempted  \* requests that were registered when a later POST arrived

playVars == <<pc, sid, chain, active, aborted, handle, pacat, alive, spawned,
          clock, subs, sent, verdict, answer, sink, preempted>>

Gens == 1..MaxPacats
Kinds == {"audio", "silence"}

PlayInit ==
  /\ pc = [r \in Posts |-> "idle"]
  /\ sid = [r \in Posts |-> None]
  /\ chain = <<>>
  /\ active = [s \in StreamIds |-> None]
  /\ aborted = {}
  /\ handle = [r \in Posts |-> 0]
  /\ pacat = 0
  /\ alive = {}
  /\ spawned = 0
  /\ clock = [g \in Gens |-> 0]
  /\ subs = {}
  /\ sent = [r \in Posts |-> 0]
  /\ verdict = [r \in Posts |-> "none"]
  /\ answer = [r \in Posts |-> "none"]
  /\ sink = <<>>
  /\ preempted = {}

Registered == {active[s] : s \in StreamIds} \ {None}

MyTurnUnchained(r) == pc[r] = "queued"   \* mutant: does not await the chain

MyTurn(r) == pc[r] = "queued" /\ Head(chain) = r

\* The microtasks have drained: a request whose turn has come has taken it.
\* Requests, child exits and I/O are handled only then.
Settled == \A r \in Posts : ~MyTurn(r)

-----------------------------------------------------------------------------
\* A POST arrives: abort what is registered, splice into the chain.
Arrive(r, s) ==
  /\ Settled
  /\ pc[r] = "idle"
  /\ pc' = [pc EXCEPT ![r] = "queued"]
  /\ sid' = [sid EXCEPT ![r] = s]
  /\ aborted' = aborted \cup Registered
  /\ preempted' = preempted \cup Registered
  /\ chain' = Append(chain, r)
  /\ UNCHANGED <<active, handle, pacat, alive, spawned, clock, subs, sent,
                 verdict, answer, sink>>

\* playbackFactory throws: no process, answer 500, release the chain.
StartFails(r) ==
  /\ MyTurn(r)
  /\ pacat = 0
  /\ pc' = [pc EXCEPT ![r] = "done"]
  /\ answer' = [answer EXCEPT ![r] = "500"]
  /\ chain' = Tail(chain)
  /\ UNCHANGED <<sid, active, aborted, handle, pacat, alive, spawned, clock,
                 subs, sent, verdict, sink, preempted>>

\* startAudioPlayback: the running process, or a new one.
Playback(g) ==
  IF pacat # 0
  THEN g = pacat /\ UNCHANGED <<pacat, alive, spawned>>
  ELSE /\ spawned < MaxPacats
       /\ g = spawned + 1
       /\ pacat' = g
       /\ alive' = alive \cup {g}
       /\ spawned' = g

\* Take pacat: reset its clock, register, subscribe.
Start(r) ==
  /\ MyTurn(r)
  /\ \E g \in Gens :
       /\ Playback(g)
       /\ handle' = [handle EXCEPT ![r] = g]
       /\ clock' = [clock EXCEPT ![g] = 0]
  /\ subs' = subs \cup {r}
  /\ pc' = [pc EXCEPT ![r] = "reading"]
  /\ active' = [active EXCEPT ![sid[r]] = r]
  /\ UNCHANGED <<sid, chain, aborted, sent, verdict, answer, sink, preempted>>

-----------------------------------------------------------------------------
LeaveLoopRegistered(r, how) ==   \* mutant: the entry outlives the loop
  /\ pc' = [pc EXCEPT ![r] = "silencing"]
  /\ verdict' = [verdict EXCEPT ![r] = how]
  /\ UNCHANGED active
  /\ sink' = IF handle[r] \in alive
             THEN Append(sink, [by |-> r, what |-> "silence"]) ELSE sink

\* The loop is left: unregister (only our own entry), then flush silence,
\* which is nothing on a dead handle and one write otherwise.
LeaveLoop(r, how) ==
  /\ pc' = [pc EXCEPT ![r] = "silencing"]
  /\ verdict' = [verdict EXCEPT ![r] = how]
  /\ active' = IF active[sid[r]] = r
               THEN [active EXCEPT ![sid[r]] = None] ELSE active
  /\ sink' = IF handle[r] \in alive
             THEN Append(sink, [by |-> r, what |-> "silence"]) ELSE sink

ReadChunkUnraced(r) ==   \* mutant: the read does not race the abort
  /\ pc[r] = "reading"
  /\ sent[r] < MaxChunks
  /\ handle[r] \in alive
  /\ sink' = Append(sink, [by |-> r, what |-> "audio"])
  /\ pc' = [pc EXCEPT ![r] = "writing"]
  /\ UNCHANGED <<sid, chain, active, aborted, handle, pacat, alive, spawned,
                 clock, subs, sent, verdict, answer, preempted>>

\* A chunk arrives and is written; the handler awaits the write.
ReadChunk(r) ==
  /\ pc[r] = "reading"
  /\ r \notin aborted
  /\ sent[r] < MaxChunks
  /\ handle[r] \in alive
  /\ sink' = Append(sink, [by |-> r, what |-> "audio"])
  /\ pc' = [pc EXCEPT ![r] = "writing"]
  /\ UNCHANGED <<sid, chain, active, aborted, handle, pacat, alive, spawned,
                 clock, subs, sent, verdict, answer, preempted>>

\* A chunk arrives but the process has exited: write throws.
WriteToDead(r) ==
  /\ pc[r] = "reading"
  /\ r \notin aborted
  /\ sent[r] < MaxChunks
  /\ handle[r] \notin alive
  /\ LeaveLoop(r, "error")
  /\ UNCHANGED <<sid, chain, aborted, handle, pacat, alive, spawned, clock,
                 subs, sent, answer, preempted>>

WriteDone(r) ==
  /\ pc[r] = "writing"
  /\ pc' = [pc EXCEPT ![r] = "reading"]
  /\ sent' = [sent EXCEPT ![r] = @ + 1]
  /\ clock' = [clock EXCEPT ![handle[r]] = @ + 1]
  /\ UNCHANGED <<sid, chain, active, aborted, handle, pacat, alive, spawned,
                 subs, verdict, answer, sink, preempted>>

\* The pipe breaks under a write.
WriteFails(r) ==
  /\ pc[r] = "writing"
  /\ handle[r] \notin alive
  /\ LeaveLoop(r, "error")
  /\ UNCHANGED <<sid, chain, aborted, handle, pacat, alive, spawned, clock,
                 subs, sent, answer, preempted>>

\* The body ends; or the peer goes away and the read rejects; or the abort
\* promise wins the race.
BodyEnds(r) ==
  /\ pc[r] = "reading"
  /\ r \notin aborted
  /\ \E how \in {"ok", "dropped"} : LeaveLoop(r, how)
  /\ UNCHANGED <<sid, chain, aborted, handle, pacat, alive, spawned, clock,
                 subs, sent, answer, preempted>>

SeeAbort(r) ==
  /\ pc[r] = "reading"
  /\ r \in aborted
  /\ LeaveLoop(r, "cancelled")
  /\ UNCHANGED <<sid, chain, aborted, handle, pacat, alive, spawned, clock,
                 subs, sent, answer, preempted>>

Status(how) == IF how = "ok" THEN "200" ELSE IF how = "cancelled" THEN "499" ELSE "500"

FinishKeepsChain(r) ==   \* mutant: a cancelled request never releases the chain
  /\ pc[r] = "silencing"
  /\ pc' = [pc EXCEPT ![r] = "done"]
  /\ subs' = subs \ {r}
  /\ answer' = [answer EXCEPT ![r] = Status(verdict[r])]
  /\ chain' = IF verdict[r] = "cancelled" THEN chain ELSE Tail(chain)
  /\ clock' = IF handle[r] \in alive
              THEN [clock EXCEPT ![handle[r]] = @ + 1] ELSE clock
  /\ UNCHANGED <<sid, active, aborted, handle, pacat, alive, spawned, sent,
                 verdict, sink, preempted>>

\* The silence has landed: unsubscribe, answer, release the chain.
Finish(r) ==
  /\ pc[r] = "silencing"
  /\ pc' = [pc EXCEPT ![r] = "done"]
  /\ subs' = subs \ {r}
  /\ answer' = [answer EXCEPT ![r] = Status(verdict[r])]
  /\ chain' = Tail(chain)
  /\ clock' = IF handle[r] \in alive
              THEN [clock EXCEPT ![handle[r]] = @ + 1] ELSE clock
  /\ UNCHANGED <<sid, active, aborted, handle, pacat, alive, spawned, sent,
                 verdict, sink, preempted>>

-----------------------------------------------------------------------------
\* DELETE /play_audio/:streamId.  An id that is not registered is a 404 and
\* changes nothing.
Delete(s) ==
  /\ Settled
  /\ active[s] # None
  /\ active[s] \notin aborted
  /\ aborted' = aborted \cup {active[s]}
  /\ UNCHANGED <<pc, sid, chain, active, handle, pacat, alive, spawned, clock,
                 subs, sent, verdict, answer, sink, preempted>>

\* pacat exits on its own; the next start spawns another.
PacatExits ==
  /\ Settled
  /\ pacat # 0
  /\ spawned < MaxPacats
  /\ alive' = alive \ {pacat}
  /\ pacat' = 0
  /\ UNCHANGED <<pc, sid, chain, active, aborted, handle, spawned, clock,
                 subs, sent, verdict, answer, sink, preempted>>

-----------------------------------------------------------------------------
PlayTypeOK ==
  /\ pc \in [Posts -> {"idle", "queued", "reading", "writing",
                       "silencing", "done"}]
  /\ sid \in [Posts -> StreamIds \cup {None}]
  /\ chain \in Seq(Posts)
  /\ active \in [StreamIds -> Posts \cup {None}]
  /\ aborted \subseteq Posts
  /\ handle \in [Posts -> 0..MaxPacats]
  /\ pacat \in 0..MaxPacats
  /\ alive \subseteq Gens
  /\ spawned \in 0..MaxPacats
  /\ clock \in [Gens -> Nat]
  /\ subs \subseteq Posts
  /\ sent \in [Posts -> 0..MaxChunks]
  /\ verdict \in [Posts -> {"none", "ok", "error", "dropped", "cancelled"}]
  /\ answer \in [Posts -> {"none", "200", "499", "500"}]
  /\ sink \in Seq([by : Posts, what : Kinds])
  /\ preempted \subseteq Posts

\* Two requests never interleave their bytes on pacat's stdin, the trailing
\* silence included: what one request wrote is one contiguous stretch
\* (http-server.ts, "two concurrent POSTs with different streamIds would race
\* on handle.write() and produce interleaved PCM").
NoInterleaving ==
  \A i, j, k \in 1..Len(sink) :
    i < j /\ j < k /\ sink[i].by = sink[k].by => sink[j].by = sink[i].by

\* A 200 is only given to a request whose whole body was played: one that was
\* cancelled by a DELETE or by a later POST answers 499, also when the cancel
\* comes with the last chunk.
SuccessMeansNotCancelled ==
  \A r \in Posts : answer[r] = "200" => r \notin aborted

\* Both, over well-typed states: what the pipe carries and what the callers
\* are told agree.
UtterancesAreKeptApart == PlayTypeOK /\ NoInterleaving /\ SuccessMeansNotCancelled

\* A stream that was playing when a later POST arrived hands no further chunk
\* to pacat ("a fresh POST pre-empts whatever is playing").
PreemptedFallsSilent ==
  [][\A r \in preempted :
       Len(sink') > Len(sink) =>
         sink'[Len(sink')] # [by |-> r, what |-> "audio"]]_playVars

\* Every request that is accepted is answered.
PostsAreAnswered ==
  \A r \in Posts : pc[r] = "queued" ~> pc[r] = "done"

=============================================================================
