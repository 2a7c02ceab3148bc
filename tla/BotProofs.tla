------------------------------ MODULE BotProofs ------------------------------
(***************************************************************************)
(* What the bot promises, for any number of requests, shims and faults, in *)
(* three parts.                                                            *)
(*                                                                         *)
(* Its shutdown and its link.  A step of the linked system is a step of    *)
(* the bot's own specification or leaves the bot alone, so the shutdown is *)
(* proved over BotMain; that the server serves the client whose socket is  *)
(* open is proved of the two together.                                     *)
(*                                                                         *)
(* Its voice and its mouth: who owns pacat's pipe, and which utterance the *)
(* visemes that are still buffered belong to.                              *)
(*                                                                         *)
(* Its face: where the call at the head of the avatar chain stands, and    *)
(* which tab the extension will show when it comes to rest.                *)
(***************************************************************************)
EXTENDS BotLink, BotMedia, FiniteSetTheorems, SequenceTheorems, WellFoundedInduction, TLAPS

(* The shutdown and the link. *)

Late == {"ready", "settle", "up"}
OverOrLate == Late \cup {"failed", "abandoned"}
Events == {"joining", "joined"} \cup Terminal
Handles == Resources \cup {"client"}

(* A process that runs has its handle in `subsystems`, but for the Xvfb    *)
(* whose start the boot still awaits.                                      *)
Awaited(b) == IF b = "xvfb" THEN {"xvfb"} ELSE {}
HandlesCoverProcesses ==
    /\ running \subseteq started \cup Awaited(boot)
    /\ boot = "socket" => "socket" \in started

(* Nothing terminal is in the stream before the last flush.                *)
NotYetTerminal ==
    stage \notin {"flush", "exited"} => \A i \in 1..Len(reported) : reported[i] \notin Terminal

(* What the shutdown has passed does not run.                              *)
PassedIsGone ==
    /\ bootAt \in Late => boot \in OverOrLate
    /\ \A i, j \in 1..9 :
         stage = Stages[i] /\ j < i /\ bootAt \in Late => Stages[j] \notin running

(* The bot's inductive invariant.                                          *)
BotIInv ==
    /\ TypeOK /\ TerminalEventIsLast
    /\ HandlesCoverProcesses /\ NotYetTerminal /\ PassedIsGone
    /\ connected => Listening
    /\ ShuttingDown => finalState \in Terminal
    /\ ShuttingDown <=> bootAt # "none"
-----------------------------------------------------------------------------
(* The stages of shutdown(). *)

(* The nine stages and their places in the body of shutdown().             *)
LEMMA StagesInOrder ==
    /\ DOMAIN Stages = 1..9 /\ Len(Stages) = 9
    /\ Stages[1] = "shot" /\ Stages[2] = "http" /\ Stages[3] = "grace"
    /\ Stages[4] = "chrome" /\ Stages[5] = "audio" /\ Stages[6] = "xvfb"
    /\ Stages[7] = "socket" /\ Stages[8] = "flush" /\ Stages[9] = "exited"
BY DEF Stages

(* No stage comes twice, and none is called "none".                        *)
LEMMA StagesDiffer ==
    /\ \A i, j \in 1..9 : Stages[i] = Stages[j] => i = j
    /\ \A i \in 1..9 : Stages[i] # "none" /\ Stages[i] # "client"
BY StagesInOrder

(* From any stage on there is a first one that suspends, if the last does. *)
LEMMA FirstOfNine ==
    ASSUME NEW S, 9 \in S, NEW i \in 1..9
    PROVE  \E k \in i..9 : k \in S /\ \A j \in i..(k - 1) : j \notin S
<1> DEFINE From(n) == \E k \in n..9 : k \in S /\ \A j \in n..(k - 1) : j \notin S
<1>9. From(9)
  OBVIOUS
<1>8. From(8)
  BY <1>9
<1>7. From(7)
  BY <1>8
<1>6. From(6)
  BY <1>7
<1>5. From(5)
  BY <1>6
<1>4. From(4)
  BY <1>5
<1>3. From(3)
  BY <1>4
<1>2. From(2)
  BY <1>3
<1>1. From(1)
  BY <1>2
<1> QED
  <2> HIDE DEF From
  <2>1. i \in {1, 2, 3, 4, 5, 6, 7, 8, 9}
    OBVIOUS
  <2>2. From(i)
    BY <2>1, <1>1, <1>2, <1>3, <1>4, <1>5, <1>6, <1>7, <1>8, <1>9
  <2> QED
    BY <2>2 DEF From

(* A body that runs from the i-th stage suspends in a later one, k; the    *)
(* subsystems of the stages between them are absent, and a client that is  *)
(* connected is not passed by without the grace.                           *)
LEMMA BodyRuns ==
    ASSUME NEW i \in 1..9, NEW state, NEW up, NEW events, NEW b,
           ContinueFrom(i, state, up, events, b)
    PROVE  \E k \in i..9 :
             /\ stage' = Stages[k]
             /\ \A j \in i..(k - 1) : Stages[j] \notin up
             /\ i <= 3 /\ "socket" \in up /\ connected => k <= 3
             /\ connected' = (connected /\ ~(k >= 7 /\ "socket" \in up))
             /\ boot' = IF k >= 7 /\ "socket" \in up /\ b = "ready" THEN "failed" ELSE b
             /\ reported' = IF k >= 8 /\ stage # "flush" /\ "client" \in up
                            THEN Append(events, state) ELSE events
             /\ phase' \in {state, "error", "leaving"}
             /\ timer' \in BOOLEAN
             /\ chats' \in {chats, RejectChats(chats)}
<1> DEFINE S == {n \in 1..9 : Suspends(Stages[n], state, up)}
           Stop9(k) == k \in S /\ \A j \in i..(k - 1) : j \notin S
<1>1. 9 \in S
  BY StagesInOrder DEF Suspends
<1>2. \E k \in i..9 : Stop9(k)
  <2> HIDE DEF S
  <2> QED BY <1>1, FirstOfNine
<1> DEFINE k == CHOOSE n \in i..Len(Stages) :
                  /\ Suspends(Stages[n], state, up)
                  /\ \A j \in i..(n - 1) : ~Suspends(Stages[j], state, up)
<1>3. /\ k \in i..9 /\ Suspends(Stages[k], state, up)
      /\ \A j \in i..(k - 1) : ~Suspends(Stages[j], state, up)
  <2>1. \E n \in i..Len(Stages) :
            /\ Suspends(Stages[n], state, up)
            /\ \A j \in i..(n - 1) : ~Suspends(Stages[j], state, up)
    BY <1>2, StagesInOrder
  <2> QED
    BY <2>1, StagesInOrder
<1> DEFINE s == Stages[k]
           closing == s \in {"socket", "flush", "exited"} /\ "socket" \in up
           ending  == s \in {"flush", "exited"} /\ stage # "flush" /\ "client" \in up
           beyond  == s # "shot" /\ i <= 2
<1>4. /\ stage' = s
      /\ timer' = (timer /\ ~beyond)
      /\ chats' = IF beyond THEN RejectChats(chats) ELSE chats
      /\ connected' = (connected /\ ~closing)
      /\ boot' = IF closing /\ b = "ready" THEN "failed" ELSE b
      /\ reported' = IF ending THEN Append(events, state) ELSE events
      /\ phase' = IF s = "exited" THEN state
                  ELSE IF state = "error" THEN "error" ELSE "leaving"
  BY Zenon DEF ContinueFrom
<1> HIDE DEF k
<1>5. /\ s \in {"socket", "flush", "exited"} <=> k >= 7
      /\ s \in {"flush", "exited"} <=> k >= 8
  <2>1. k \in {1, 2, 3, 4, 5, 6, 7, 8, 9}
    BY <1>3
  <2> QED
    BY <2>1, StagesInOrder
<1>6. \A j \in i..(k - 1) : Stages[j] \notin up
  BY <1>3 DEF Suspends
<1>7. i <= 3 /\ "socket" \in up /\ connected => k <= 3
  BY <1>3, StagesInOrder DEF Suspends
<1>8. phase' \in {state, "error", "leaving"} /\ timer' \in BOOLEAN /\ chats' \in {chats, RejectChats(chats)}
  BY <1>4
<1> HIDE DEF s
<1>9. /\ connected' = (connected /\ ~(k >= 7 /\ "socket" \in up))
      /\ boot' = IF k >= 7 /\ "socket" \in up /\ b = "ready" THEN "failed" ELSE b
      /\ reported' = IF k >= 8 /\ stage # "flush" /\ "client" \in up
                     THEN Append(events, state) ELSE events
  BY <1>4, <1>5
<1> QED
  <2>1. stage' = Stages[k]
    BY <1>4 DEF s
  <2> QED
    BY <1>3, <1>6, <1>7, <1>8, <1>9, <2>1
-----------------------------------------------------------------------------
(* The shutdown's own invariant, step by step. *)

(* Whoever calls shutdown() with a state of the handles and processes that *)
(* is in order leaves it in order.                                         *)
LEMMA ShutdownKeepsOrder ==
    ASSUME BotIInv,
           NEW state \in Terminal, NEW events \in Seq(Events), NEW b \in {boot, "failed"},
           Shutdown(state, started', events, b),
           started \subseteq started', started' \subseteq Handles, running' \subseteq Resources,
           running' \subseteq started' \cup Awaited(b),
           "socket" \in running => "socket" \in running',
           ShuttingDown => running' \subseteq running,
           flapped' \in BOOLEAN, inMeeting' \in BOOLEAN,
           \/ events = reported
           \/ /\ stage \notin {"flush", "exited"}
              /\ \A j \in 1..Len(events) : events[j] \notin Terminal
    PROVE  BotIInv'
<1>1. TypeOK /\ Terminal = {"left", "error"}
  BY DEF BotIInv, Terminal
<1>2. CASE ShuttingDown
  <2>1. /\ boot' = b /\ reported' = events
        /\ UNCHANGED <<stage, finalState, bootAt, timer, phase, chats, connected>>
    BY <1>2 DEF Shutdown, downVars
  <2>2. TypeOK'
    <3>1. boot' \in Booting \cup BootOver
      BY <1>1, <2>1 DEF TypeOK, BootOver
    <3>2. reported' \in Seq({"joining", "joined"} \cup Terminal)
      BY <2>1 DEF Events
    <3> QED
      BY <1>1, <2>1, <3>1, <3>2 DEF TypeOK, Handles
  <2>3. TerminalEventIsLast'
    BY <2>1, <1>1, LenProperties DEF BotIInv, TerminalEventIsLast, NotYetTerminal, TypeOK
  <2>4. HandlesCoverProcesses'
    BY <2>1 DEF BotIInv, HandlesCoverProcesses, Awaited
  <2>5. NotYetTerminal'
    BY <2>1 DEF BotIInv, NotYetTerminal
  <2>6. PassedIsGone'
    BY <2>1, <1>2, StagesInOrder DEF BotIInv, PassedIsGone, OverOrLate
  <2>7. (connected => Listening)'
    BY <2>1 DEF BotIInv, Listening
  <2> QED
    BY <2>1, <2>2, <2>3, <2>4, <2>5, <2>6, <2>7, <1>2 DEF BotIInv, ShuttingDown
<1>3. CASE ~ShuttingDown
  <2>1. /\ stage = "none" /\ bootAt = "none"
        /\ finalState' = state /\ bootAt' = boot
        /\ ContinueFrom(1, state, started', events, b)
    BY <1>3 DEF Shutdown, ShuttingDown, BotIInv
  <2> PICK k \in 1..9 :
             /\ stage' = Stages[k]
             /\ \A j \in 1..(k - 1) : Stages[j] \notin started'
             /\ "socket" \in started' /\ connected => k <= 3
             /\ connected' = (connected /\ ~(k >= 7 /\ "socket" \in started'))
             /\ boot' = IF k >= 7 /\ "socket" \in started' /\ b = "ready" THEN "failed" ELSE b
             /\ reported' = IF k >= 8 /\ stage # "flush" /\ "client" \in started'
                            THEN Append(events, state) ELSE events
             /\ phase' \in {state, "error", "leaving"}
             /\ timer' \in BOOLEAN
             /\ chats' \in {chats, RejectChats(chats)}
    BY <2>1, BodyRuns
  <2>2. TypeOK'
    <3>1. boot' \in Booting \cup BootOver
      BY <1>1 DEF TypeOK, BootOver
    <3>2. reported' \in Seq({"joining", "joined"} \cup Terminal)
      BY DEF Events
    <3>3. chats' \in [Requests -> {"none", "pending", "sent", "failed"}]
      BY <1>1 DEF TypeOK, RejectChats
    <3>4. stage' \in {"none"} \cup {Stages[i] : i \in DOMAIN Stages}
      BY StagesInOrder
    <3>5. bootAt' \in {"none"} \cup Booting \cup BootOver
      BY <1>1, <2>1 DEF TypeOK
    <3>6. connected' \in BOOLEAN
      BY <1>1 DEF TypeOK
    <3>7. phase' \in {"joining", "joined", "leaving"} \cup Terminal
      BY <1>1
    <3> QED
      BY <1>1, <2>1, <3>1, <3>2, <3>3, <3>4, <3>5, <3>6, <3>7 DEF TypeOK, Handles
  <2>3. \A j \in 1..Len(events) : events[j] \notin Terminal
    BY <2>1 DEF BotIInv, NotYetTerminal
  <2>4. TerminalEventIsLast' /\ NotYetTerminal'
    <3>1. CASE reported' = events
      BY <3>1, <2>3, LenProperties DEF TerminalEventIsLast, NotYetTerminal
    <3>2. CASE k >= 8 /\ reported' = Append(events, state)
      <4>1. Len(reported') = Len(events) + 1
        BY <3>2
      <4>2. \A j \in 1..Len(events) : reported'[j] = events[j]
        BY <3>2
      <4>3. reported'[Len(events) + 1] = state
        BY <3>2
      <4>4. stage' \in {"flush", "exited"}
        BY <3>2, StagesInOrder
      <4>5. DOMAIN reported' = 1..(Len(events) + 1)
        BY <3>2, <4>1
      <4> QED
        BY <4>1, <4>2, <4>3, <4>4, <4>5, <2>1, <2>3 DEF TerminalEventIsLast, NotYetTerminal
    <3> QED
      BY <3>1, <3>2
  <2>5. HandlesCoverProcesses'
    <3>1. \/ boot' = b
          \/ b = "ready" /\ boot' = "failed"
      OBVIOUS
    <3>2. Awaited(boot') = Awaited(b)
      BY <3>1 DEF Awaited
    <3>3. boot' = "socket" => "socket" \in started'
      BY <3>1 DEF BotIInv, HandlesCoverProcesses
    <3> QED
      BY <3>2, <3>3 DEF HandlesCoverProcesses
  <2>6. PassedIsGone'
    <3>1. bootAt' \in Late => boot' \in OverOrLate
      BY <2>1 DEF OverOrLate
    <3>2. ASSUME NEW i \in 1..9, NEW j \in 1..9,
                 stage' = Stages[i], j < i, bootAt' \in Late
          PROVE  Stages[j] \notin running'
      <4>1. Stages[i] = Stages[k]
        BY <3>2
      <4>2. i = k
        BY <4>1, StagesDiffer
      <4>3. j \in 1..(k - 1)
        BY <4>2, <3>2
      <4>4. b # "xvfb"
        BY <3>2, <2>1 DEF Late
      <4>5. Awaited(b) = {}
        BY <4>4 DEF Awaited
      <4> QED
        BY <4>3, <4>5
    <3> QED
      BY <3>1, <3>2 DEF PassedIsGone
  <2>7. (connected => Listening)'
    <3> SUFFICES ASSUME connected' PROVE Listening'
      OBVIOUS
    <3>1. connected /\ "socket" \in running /\ "socket" \in running'
      BY DEF BotIInv, Listening
    <3>2. "socket" \in started'
      BY <3>1 DEF BotIInv, HandlesCoverProcesses, Awaited
    <3>3. k \in {1, 2, 3}
      BY <3>1, <3>2
    <3> QED
      BY <3>1, <3>3, StagesInOrder DEF Listening
  <2>8. stage' # "none" /\ boot # "none"
    BY StagesDiffer, <1>1 DEF TypeOK, Booting, BootOver
  <2> QED
    BY <2>1, <2>2, <2>4, <2>5, <2>6, <2>7, <2>8 DEF BotIInv, ShuttingDown
<1> QED
  BY <1>2, <1>3

(* A step of the boot that neither reports nor touches shutdown().         *)
LEMMA QuietKeepsOrder ==
    ASSUME BotIInv, Quiet, bootAt \notin Late,
           boot' \in Booting \cup BootOver,
           started \subseteq started', started' \subseteq Handles,
           running \subseteq running', running' \subseteq Resources,
           running' \subseteq started' \cup Awaited(boot'),
           boot' = "socket" => "socket" \in started'
    PROVE  BotIInv'
<1>1. UNCHANGED <<stage, finalState, bootAt, connected, timer, phase, flapped, chats, reported, inMeeting>>
  BY DEF Quiet, downVars
<1>2. TypeOK'
  BY <1>1 DEF BotIInv, TypeOK, Handles
<1>3. TerminalEventIsLast' /\ NotYetTerminal'
  BY <1>1 DEF BotIInv, TerminalEventIsLast, NotYetTerminal
<1>4. HandlesCoverProcesses' /\ PassedIsGone'
  BY <1>1 DEF HandlesCoverProcesses, PassedIsGone
<1>5. (connected => Listening)'
  BY <1>1 DEF BotIInv, Listening
<1> QED
  BY <1>1, <1>2, <1>3, <1>4, <1>5 DEF BotIInv, ShuttingDown

(* A step that leaves the processes and the shutdown alone, and at most    *)
(* adds events that are not terminal while there may be more.              *)
LEMMA TalkKeepsOrder ==
    ASSUME BotIInv, UNCHANGED <<started, running, downVars>>,
           \/ boot' = boot
           \/ boot = "ready" /\ boot' = "settle",
           connected' \in BOOLEAN, connected' => Listening,
           timer' \in BOOLEAN, flapped' \in BOOLEAN, inMeeting' \in BOOLEAN,
           phase' \in {phase, "joined"},
           chats' \in [Requests -> {"none", "pending", "sent", "failed"}],
           reported' \in Seq(Events),
           \/ reported' = reported
           \/ /\ stage \notin {"flush", "exited"}
              /\ \A j \in 1..Len(reported') : reported'[j] \notin Terminal
    PROVE  BotIInv'
<1>1. UNCHANGED <<started, running, stage, finalState, bootAt>>
  BY DEF downVars
<1>2. TypeOK'
  <2>1. boot' \in Booting \cup BootOver /\ phase' \in {"joining", "joined", "leaving"} \cup Terminal
    BY DEF BotIInv, TypeOK, Booting
  <2> QED
    BY <1>1, <2>1 DEF BotIInv, TypeOK, Events
<1>3. TerminalEventIsLast' /\ NotYetTerminal'
  <2>1. CASE reported' = reported
    BY <1>1, <2>1 DEF BotIInv, TerminalEventIsLast, NotYetTerminal
  <2>2. CASE \A j \in 1..Len(reported') : reported'[j] \notin Terminal
    BY <2>2, LenProperties DEF TerminalEventIsLast, NotYetTerminal
  <2> QED
    BY <2>1, <2>2
<1>4. HandlesCoverProcesses'
  BY <1>1 DEF BotIInv, HandlesCoverProcesses, Awaited
<1>5. PassedIsGone'
  BY <1>1 DEF BotIInv, PassedIsGone, OverOrLate, Late
<1>6. (connected => Listening)'
  BY <1>1 DEF Listening
<1> QED
  BY <1>1, <1>2, <1>3, <1>4, <1>5, <1>6 DEF BotIInv, ShuttingDown

(* `joining` and `joined` join a stream that is not at its end.            *)
LEMMA ReportIsOpen ==
    ASSUME TypeOK, NEW state \in {"joining", "joined"}
    PROVE  /\ Report(state) \in Seq(Events)
           /\ NotYetTerminal /\ stage \notin {"flush", "exited"} =>
                \A j \in 1..Len(Report(state)) : Report(state)[j] \notin Terminal
<1>1. reported \in Seq(Events) /\ state \in Events /\ state \notin Terminal
  BY DEF TypeOK, Events, Terminal
<1>2. CASE Report(state) = reported
  BY <1>1, <1>2 DEF NotYetTerminal
<1>3. CASE Report(state) = Append(reported, state)
  <2>1. Report(state) \in Seq(Events) /\ Len(Report(state)) = Len(reported) + 1
    BY <1>1, <1>3
  <2>2. /\ \A j \in 1..Len(reported) : Report(state)[j] = reported[j]
        /\ Report(state)[Len(reported) + 1] = state
    BY <1>1, <1>3
  <2> QED
    BY <1>1, <2>1, <2>2 DEF NotYetTerminal
<1> QED
  BY <1>2, <1>3 DEF Report

(* The awaits of shutdown(): one settles, and the body goes on.            *)
LEMMA StageDoneKeepsOrder ==
    ASSUME BotIInv, NEW n \in DOMAIN Stages, StageDone(n)
    PROVE  BotIInv'
<1>1. /\ n \in 1..8 /\ stage = Stages[n]
      /\ running' = running \ {stage}
      /\ ContinueFrom(n + 1, finalState, started, reported, boot)
      /\ UNCHANGED <<started, finalState, bootAt, flapped, inMeeting>>
  BY StagesInOrder DEF StageDone
<1>2. ShuttingDown /\ TypeOK /\ finalState \in Terminal /\ bootAt # "none"
  BY <1>1, StagesDiffer DEF ShuttingDown, BotIInv
<1> PICK k \in (n + 1)..9 :
             /\ stage' = Stages[k]
             /\ \A j \in (n + 1)..(k - 1) : Stages[j] \notin started
             /\ n + 1 <= 3 /\ "socket" \in started /\ connected => k <= 3
             /\ connected' = (connected /\ ~(k >= 7 /\ "socket" \in started))
             /\ boot' = IF k >= 7 /\ "socket" \in started /\ boot = "ready" THEN "failed" ELSE boot
             /\ reported' = IF k >= 8 /\ stage # "flush" /\ "client" \in started
                            THEN Append(reported, finalState) ELSE reported
             /\ phase' \in {finalState, "error", "leaving"}
             /\ timer' \in BOOLEAN
             /\ chats' \in {chats, RejectChats(chats)}
  <2>1. n + 1 \in 1..9
    BY <1>1
  <2> QED
    BY <1>1, <2>1, BodyRuns
<1>3. k \in 1..9 /\ n < k /\ n \in 1..9
  BY <1>1
<1>4. TypeOK'
  <2>1. boot' \in Booting \cup BootOver
    BY <1>2 DEF TypeOK, BootOver
  <2>2. reported' \in Seq({"joining", "joined"} \cup Terminal)
    BY <1>2 DEF TypeOK
  <2>3. chats' \in [Requests -> {"none", "pending", "sent", "failed"}]
    BY <1>2 DEF TypeOK, RejectChats
  <2>4. stage' \in {"none"} \cup {Stages[i] : i \in DOMAIN Stages}
    BY <1>3, StagesInOrder
  <2>5. phase' \in {"joining", "joined", "leaving"} \cup Terminal
    BY <1>2 DEF Terminal
  <2> QED
    BY <1>1, <1>2, <2>1, <2>2, <2>3, <2>4, <2>5 DEF TypeOK
<1>5. TerminalEventIsLast' /\ NotYetTerminal'
  <2>1. stage \in {"flush", "exited"} <=> n = 8
    <3>1. n \in {1, 2, 3, 4, 5, 6, 7, 8}
      BY <1>1
    <3> QED
      BY <3>1, <1>1, StagesInOrder
  <2>2. stage' \in {"flush", "exited"} <=> k >= 8
    <3>1. k \in {1, 2, 3, 4, 5, 6, 7, 8, 9}
      BY <1>3
    <3> QED
      BY <3>1, StagesInOrder
  <2>3. CASE reported' = reported
    <3>1. n = 8 => k >= 8
      BY <1>3
    <3> QED
      BY <1>1, <2>1, <2>2, <2>3, <3>1 DEF BotIInv, TerminalEventIsLast, NotYetTerminal
  <2>4. CASE k >= 8 /\ stage # "flush" /\ reported' = Append(reported, finalState)
    <3>1. \A j \in 1..Len(reported) : reported[j] \notin Terminal
      <4>1. n # 8
        BY <2>4, <1>1, StagesInOrder
      <4> QED
        BY <2>1, <4>1 DEF BotIInv, NotYetTerminal
    <3>2. reported \in Seq(Events)
      BY <1>2 DEF TypeOK, Events
    <3>3. Len(reported') = Len(reported) + 1 /\ DOMAIN reported' = 1..(Len(reported) + 1)
      BY <2>4, <3>2
    <3>4. /\ \A j \in 1..Len(reported) : reported'[j] = reported[j]
          /\ reported'[Len(reported) + 1] = finalState
      BY <2>4, <3>2
    <3> QED
      BY <1>1, <2>2, <2>4, <3>1, <3>2, <3>3, <3>4 DEF TerminalEventIsLast, NotYetTerminal
  <2> QED
    BY <2>3, <2>4
<1>6. HandlesCoverProcesses'
  BY <1>1 DEF BotIInv, HandlesCoverProcesses, Awaited
<1>7. PassedIsGone'
  <2>1. bootAt' \in Late => boot' \in OverOrLate
    BY <1>1 DEF BotIInv, PassedIsGone, OverOrLate
  <2>2. ASSUME NEW i \in 1..9, NEW j \in 1..9,
               stage' = Stages[i], j < i, bootAt' \in Late
        PROVE  Stages[j] \notin running'
    <3>1. i = k
      <4>1. Stages[i] = Stages[k]
        BY <2>2
      <4> QED
        BY <4>1, <1>3, StagesDiffer
    <3>2. CASE j < n
      <4>1. Stages[j] \notin running
        BY <3>2, <2>2, <1>1, <1>3 DEF BotIInv, PassedIsGone
      <4> QED
        BY <4>1, <1>1
    <3>3. CASE j = n
      BY <3>3, <1>1
    <3>4. CASE j \in (n + 1)..(k - 1)
      <4>1. boot # "xvfb"
        BY <2>2, <1>1 DEF BotIInv, PassedIsGone, OverOrLate, Late
      <4>2. running \subseteq started
        BY <4>1 DEF BotIInv, HandlesCoverProcesses, Awaited
      <4> QED
        BY <3>4, <4>2, <1>1
    <3>5. j < k
      BY <3>1, <2>2
    <3>6. \/ j < n
          \/ j = n
          \/ j \in (n + 1)..(k - 1)
      BY <3>5, <1>3
    <3> QED
      BY <3>2, <3>3, <3>4, <3>6
  <2> QED
    BY <2>1, <2>2 DEF PassedIsGone
<1>8. (connected => Listening)'
  <2> SUFFICES ASSUME connected' PROVE Listening'
    OBVIOUS
  <2>1. connected /\ "socket" \in running /\ stage # "socket"
    BY DEF BotIInv, Listening
  <2>2. "socket" \in started
    BY <2>1 DEF BotIInv, HandlesCoverProcesses, Awaited
  <2>3. ~(k >= 7 /\ "socket" \in started)
    OBVIOUS
  <2>4. ~(k >= 7)
    BY <2>2, <2>3
  <2>5. k \in {1, 2, 3, 4, 5, 6}
    BY <2>4, <1>3
  <2>6. stage' \notin {"socket", "flush", "exited"}
    BY <2>5, StagesInOrder
  <2> QED
    BY <1>1, <2>1, <2>6 DEF Listening
<1>9. stage' # "none"
  BY <1>3, StagesDiffer
<1> QED
  BY <1>1, <1>2, <1>4, <1>5, <1>6, <1>7, <1>8, <1>9 DEF BotIInv, ShuttingDown

-----------------------------------------------------------------------------
(* Every step of the bot. *)

(* The boot, which may go on while the shutdown is under way.              *)
LEMMA BootKeepsOrder ==
    ASSUME BotIInv, BootStep
    PROVE  BotIInv'
<1> USE DEF Awaited, Handles, Resources, Booting, BootOver
<1>1. TypeOK /\ HandlesCoverProcesses /\ PassedIsGone
  BY DEF BotIInv
<1>2. CASE BootReuseXvfb
  BY <1>1, <1>2, QuietKeepsOrder
     DEF BootReuseXvfb, TypeOK, HandlesCoverProcesses, PassedIsGone, OverOrLate, Late
<1>3. CASE BootSpawnXvfb
  BY <1>1, <1>3, QuietKeepsOrder
     DEF BootSpawnXvfb, TypeOK, HandlesCoverProcesses, PassedIsGone, OverOrLate, Late
<1>4. CASE BootXvfb
  BY <1>1, <1>4, QuietKeepsOrder
     DEF BootXvfb, TypeOK, HandlesCoverProcesses, PassedIsGone, OverOrLate, Late
<1>5. CASE BootManifest
  BY <1>1, <1>5, QuietKeepsOrder
     DEF BootManifest, TypeOK, HandlesCoverProcesses, PassedIsGone, OverOrLate, Late
<1>6. CASE BootSocket
  BY <1>1, <1>6, QuietKeepsOrder
     DEF BootSocket, TypeOK, HandlesCoverProcesses, PassedIsGone, OverOrLate, Late
<1>7. CASE BootChrome
  BY <1>1, <1>7, QuietKeepsOrder
     DEF BootChrome, TypeOK, HandlesCoverProcesses, PassedIsGone, OverOrLate, Late
<1>8. CASE BootFails
  <2>1. /\ running' = IF boot = "xvfb" THEN running \ {"xvfb"} ELSE running
        /\ UNCHANGED <<started, flapped, inMeeting>>
        /\ Shutdown("error", started', reported, "failed")
    BY <1>8 DEF BootFails
  <2>2. /\ started' \subseteq Handles /\ running' \subseteq running
        /\ running' \subseteq started' \cup Awaited("failed")
        /\ "socket" \in running => "socket" \in running'
    BY <1>1, <2>1 DEF TypeOK, HandlesCoverProcesses
  <2>3. reported \in Seq(Events) /\ "error" \in Terminal
    BY <1>1 DEF TypeOK, Events, Terminal
  <2> HIDE DEF Awaited, Handles, Resources, Booting, BootOver
  <2> QED
    BY <1>1, <2>1, <2>2, <2>3, ShutdownKeepsOrder DEF TypeOK
<1>9. CASE BootSettle
  <2>1. boot = "settle" /\ UNCHANGED <<flapped, inMeeting>>
    BY <1>9 DEF BootSettle
  <2>2. CASE /\ boot' \in {"abandoned", "up"}
             /\ \/ UNCHANGED <<started, running>>
                \/ /\ ~ShuttingDown
                   /\ started' = started \cup {"audio", "http"}
                   /\ running' = running \cup {"audio", "http"}
             /\ UNCHANGED <<downVars, connected, timer, phase, chats, reported>>
    <3>1. UNCHANGED <<stage, finalState, bootAt, flapped, inMeeting, connected, timer, phase, chats, reported>>
      BY <2>1, <2>2 DEF downVars
    <3>2. TypeOK'
      <4>1. started' \subseteq Handles /\ running' \subseteq Resources
        BY <1>1, <2>2 DEF TypeOK
      <4>2. boot' \in Booting \cup BootOver
        BY <2>2
      <4> HIDE DEF Booting, BootOver, Resources
      <4> QED
        BY <1>1, <3>1, <4>1, <4>2 DEF TypeOK
    <3>3. TerminalEventIsLast' /\ NotYetTerminal' /\ HandlesCoverProcesses'
      <4>1. TerminalEventIsLast' /\ NotYetTerminal'
        BY <3>1 DEF BotIInv, TerminalEventIsLast, NotYetTerminal
      <4>2. running \subseteq started
        BY <1>1, <2>1 DEF HandlesCoverProcesses
      <4>3. running' \subseteq started'
        BY <2>2, <4>2
      <4> QED
        BY <2>2, <4>1, <4>3 DEF HandlesCoverProcesses
    <3>4. PassedIsGone'
      <4>1. bootAt' \in Late => boot' \in OverOrLate /\ UNCHANGED running
        BY <2>2, <3>1 DEF OverOrLate, Late, BotIInv
      <4> QED
        BY <1>1, <3>1, <4>1 DEF PassedIsGone
    <3>5. (connected => Listening)'
      BY <2>2, <3>1 DEF BotIInv, Listening
    <3> QED
      BY <3>1, <3>2, <3>3, <3>4, <3>5 DEF BotIInv, ShuttingDown
  <2>3. CASE /\ ~ShuttingDown
             /\ \/ UNCHANGED <<started, running>>
                \/ started' = started \cup {"audio"} /\ running' = running \cup {"audio"}
             /\ Shutdown("error", started', reported, "failed")
    <3>1. /\ started \subseteq started' /\ started' \subseteq Handles /\ running' \subseteq Resources
          /\ running' \subseteq started' \cup Awaited("failed")
          /\ "socket" \in running => "socket" \in running'
      BY <1>1, <2>1, <2>3 DEF TypeOK, HandlesCoverProcesses
    <3>2. reported \in Seq(Events) /\ "error" \in Terminal
      BY <1>1 DEF TypeOK, Events, Terminal
    <3> HIDE DEF Awaited, Handles, Resources, Booting, BootOver
    <3> QED
      BY <1>1, <2>1, <2>3, <3>1, <3>2, ShutdownKeepsOrder DEF TypeOK
  <2> QED
    BY <1>9, <2>2, <2>3 DEF BootSettle
<1> QED
  BY <1>2, <1>3, <1>4, <1>5, <1>6, <1>7, <1>8, <1>9 DEF BootStep

(* Those who call shutdown() and bring nothing up.                         *)
LEMMA CallerKeepsOrder ==
    ASSUME BotIInv, NEW state \in Terminal, NEW b \in {boot, "failed"}, NEW events,
           b = boot \/ boot = "ready",
           Shutdown(state, started, events, b), UNCHANGED <<started, inMeeting>>,
           flapped' \in BOOLEAN,
           running' = running \/ running' = running \ {"chrome"} \/ running' = running \ {"audio"},
           \/ events = reported
           \/ connected /\ events = Report("joining")
    PROVE  BotIInv'
<1>1. TypeOK /\ started' = started
  BY DEF BotIInv
<1>2. Shutdown(state, started', events, b)
  BY <1>1
<1>3. /\ started' \subseteq Handles /\ running' \subseteq Resources /\ running' \subseteq running
      /\ "socket" \in running => "socket" \in running'
  BY <1>1 DEF TypeOK, Handles
<1>4. running' \subseteq started' \cup Awaited(b)
  BY <1>1, <1>3 DEF BotIInv, HandlesCoverProcesses, Awaited
<1>5. events \in Seq(Events)
  BY <1>1, ReportIsOpen DEF TypeOK, Events
<1>6. \/ events = reported
      \/ /\ stage \notin {"flush", "exited"}
         /\ \A j \in 1..Len(events) : events[j] \notin Terminal
  BY <1>1, ReportIsOpen DEF BotIInv, Listening
<1>7. inMeeting' \in BOOLEAN
  BY <1>1 DEF TypeOK
<1> QED
  BY <1>1, <1>2, <1>3, <1>4, <1>5, <1>6, <1>7, ShutdownKeepsOrder

(* Every step of the bot keeps its invariant.                              *)
LEMMA BotKeepsOrder == BotIInv /\ [Next]_vars => BotIInv'
<1> SUFFICES ASSUME BotIInv, [Next]_vars PROVE BotIInv'
  OBVIOUS
<1>1. TypeOK /\ reported \in Seq(Events) /\ {"left", "error"} = Terminal
  BY DEF BotIInv, TypeOK, Events, Terminal
<1>2. CASE UNCHANGED vars
  <2>1. UNCHANGED <<boot, started, running, stage, finalState, bootAt, connected, timer, phase,
                    flapped, chats, reported, inMeeting>>
    BY <1>2 DEF vars, procVars, downVars
  <2> QED
    BY <2>1 DEF BotIInv, TypeOK, TerminalEventIsLast, HandlesCoverProcesses, NotYetTerminal,
                PassedIsGone, Listening, ShuttingDown
<1>3. CASE BootStep
  BY <1>3, BootKeepsOrder
<1>4. CASE \E i \in DOMAIN Stages : StageDone(i)
  BY <1>4, StageDoneKeepsOrder
<1>5. CASE JoinDeadline
  <2>1. CASE ShuttingDown
    BY <1>1, <1>5, <2>1, TalkKeepsOrder DEF JoinDeadline, BotIInv, TypeOK
  <2>2. CASE ~ShuttingDown
    BY <1>1, <1>5, <2>2, CallerKeepsOrder DEF JoinDeadline, TypeOK
  <2> QED
    BY <2>1, <2>2
<1>6. CASE Signal \/ ApiLeave
  BY <1>1, <1>6, CallerKeepsOrder DEF Signal, ApiLeave, TypeOK
<1>7. CASE ChromeExits \/ AudioFatal
  BY <1>1, <1>7, CallerKeepsOrder DEF ChromeExits, AudioFatal, TypeOK
<1>8. CASE DaemonError
  <2>1. CASE flapped
    BY <1>1, <1>8, <2>1, CallerKeepsOrder DEF DaemonError, TypeOK
  <2>2. CASE ~flapped
    BY <1>1, <1>8, <2>2, TalkKeepsOrder DEF DaemonError, BotIInv, TypeOK
  <2> QED
    BY <2>1, <2>2
<1>9. CASE DaemonWindowExpires \/ ShimConnects \/ ShimCloses
  <2>1. /\ UNCHANGED <<boot, started, running, downVars, timer, phase, chats, reported, inMeeting>>
        /\ flapped' \in BOOLEAN /\ connected' \in BOOLEAN
        /\ connected' => Listening
    <3>1. CASE DaemonWindowExpires
      <4>1. (connected' <=> connected) /\ connected' \in BOOLEAN
        BY <1>1, <3>1 DEF DaemonWindowExpires, TypeOK
      <4> QED
        BY <3>1, <4>1 DEF DaemonWindowExpires, BotIInv, procVars
    <3>2. CASE ShimConnects
      BY <1>1, <3>2 DEF ShimConnects, TypeOK, procVars
    <3>3. CASE ShimCloses
      BY <1>1, <3>3 DEF ShimCloses, TypeOK, procVars
    <3> QED
      BY <1>9, <3>1, <3>2, <3>3
  <2>2. /\ UNCHANGED <<started, running, downVars>> /\ boot' = boot /\ reported' = reported
        /\ timer' \in BOOLEAN /\ inMeeting' \in BOOLEAN /\ phase' \in {phase, "joined"}
        /\ chats' \in [Requests -> {"none", "pending", "sent", "failed"}]
        /\ reported' \in Seq(Events)
    BY <1>1, <2>1 DEF TypeOK
  <2> QED
    BY <1>1, <2>1, <2>2, TalkKeepsOrder
<1>10. CASE \E r \in Requests : ChatRequested(r) \/ ChatTimesOut(r) \/ ChatAnswered(r)
  <2> PICK r \in Requests, s \in {"pending", "sent", "failed"} : SetChat(r, s)
    BY <1>10 DEF ChatRequested, ChatTimesOut, ChatAnswered
  <2>1. chats' \in [Requests -> {"none", "pending", "sent", "failed"}]
    BY <1>1 DEF SetChat, TypeOK
  <2> QED
    BY <1>1, <2>1, TalkKeepsOrder DEF SetChat, BotIInv, TypeOK, procVars
<1>11. CASE ExtensionReady
  BY <1>1, <1>11, TalkKeepsOrder, ReportIsOpen DEF ExtensionReady, BotIInv, TypeOK, Listening
<1>12. CASE JoinSendFails
  BY <1>1, <1>12, CallerKeepsOrder DEF JoinSendFails, TypeOK
<1>13. CASE \E own \in BOOLEAN : ExtensionReportsJoined(own)
  <2> PICK own \in BOOLEAN : ExtensionReportsJoined(own)
    BY <1>13
  <2>1. /\ connected /\ inMeeting' = (inMeeting \/ own)
        /\ UNCHANGED <<boot, started, running, downVars, connected, flapped, chats>>
        /\ \/ phase' = "joined" /\ timer' = FALSE /\ reported' = Report("joined")
           \/ UNCHANGED <<phase, timer, reported>>
    BY DEF ExtensionReportsJoined, procVars
  <2>2. inMeeting' \in BOOLEAN
    BY <1>1, <2>1 DEF TypeOK
  <2> QED
    BY <1>1, <2>1, <2>2, TalkKeepsOrder, ReportIsOpen DEF BotIInv, TypeOK, Listening
<1>14. CASE \E own \in BOOLEAN, state \in Terminal : ExtensionEnds(own, state)
  BY <1>1, <1>14, CallerKeepsOrder DEF ExtensionEnds, TypeOK
<1> QED
  BY <1>2, <1>3, <1>4, <1>5, <1>6, <1>7, <1>8, <1>9, <1>10, <1>11, <1>12, <1>13, <1>14
     DEF Next, OwnStep, Spoken

(* A bot that boots is in order.                                           *)
LEMMA BotStartsInOrder == Init => BotIInv
<1> SUFFICES ASSUME Init PROVE BotIInv
  OBVIOUS
<1>1. TypeOK
  <2>1. reported \in Seq({"joining", "joined"} \cup Terminal)
    <3>1. <<>> \in Seq({"joining", "joined"} \cup Terminal)
      OBVIOUS
    <3> QED
      BY <3>1 DEF Init
  <2>2. chats \in [Requests -> {"none", "pending", "sent", "failed"}]
    BY DEF Init
  <2> QED
    BY <2>1, <2>2 DEF Init, TypeOK, Booting
<1>2. Len(reported) = 0 /\ DOMAIN reported = {}
  BY DEF Init
<1>3. \A i \in 1..9 : stage # Stages[i]
  BY StagesDiffer DEF Init
<1> QED
  BY <1>1, <1>2, <1>3
     DEF Init, BotIInv, TerminalEventIsLast, HandlesCoverProcesses, NotYetTerminal, PassedIsGone,
         ShuttingDown, Late

(* A bot in order ends clean: at "exited" the shutdown has passed every    *)
(* other stage.                                                            *)
LEMMA OrderIsClean == BotIInv => ShutdownEndsClean
<1> SUFFICES ASSUME BotIInv PROVE ShutdownAfterLaunchIsClean
  BY DEF BotIInv, ShutdownEndsClean
<1> SUFFICES ASSUME stage = "exited", bootAt \in {"ready", "settle", "up"}
             PROVE  running \cap Children = {}
  BY DEF ShutdownAfterLaunchIsClean
<1>1. \A j \in 1..8 : Stages[j] \notin running
  <2>1. stage = Stages[9] /\ 9 \in 1..9 /\ bootAt \in Late
    BY StagesInOrder DEF Late
  <2>2. \A i, j \in 1..9 : stage = Stages[i] /\ j < i => Stages[j] \notin running
    BY <2>1 DEF BotIInv, PassedIsGone
  <2>3. \A j \in 1..9 : j < 9 => Stages[j] \notin running
    BY <2>1, <2>2
  <2> QED
    BY <2>3
<1>2. "chrome" \notin running /\ "audio" \notin running /\ "xvfb" \notin running
  BY <1>1, StagesInOrder
<1> QED
  BY <1>2 DEF Children

(* The bot's shutdown, whatever the extension does: the terminal event is  *)
(* the last of the stream and that of the first call, and a shutdown that  *)
(* begins with Chrome up leaves no child process behind.                   *)
THEOREM ShutdownIsClean == Spec => []ShutdownEndsClean
<1>1. BotIInv /\ [Next]_vars => BotIInv'
  BY BotKeepsOrder
<1> QED
  BY <1>1, BotStartsInOrder, OrderIsClean, PTL DEF Spec
-----------------------------------------------------------------------------
(* The bot behind its link. *)

(* The link's own steps leave the bot as it is or are steps of its own.    *)
LEMMA LinkedStepsAreTheBots == [LinkedNext]_linkedVars => [Next]_vars
<1>1. BotAlone => Next
  BY DEF BotAlone, Next
<1>2. BotHears => Next
  BY DEF BotHears, Next
<1>3. ASSUME NEW s \in Shims
      PROVE  /\ ExtensionStep(s) \/ ShimAlone(s) => UNCHANGED vars
             /\ ClientArrives(s) => Next
             /\ ClientGoes(s) => [Next]_vars
             /\ ReadyHeard(s) => [Next]_vars
  BY DEF ExtensionStep, ShimAlone, ClientArrives, ClientGoes, ReadyHeard, Next
<1>4. UNCHANGED linkedVars => UNCHANGED vars
  BY DEF linkedVars
<1> QED
  BY <1>1, <1>2, <1>3, <1>4 DEF LinkedNext

(* The linked bot is the bot of BotMain: what is proved of that holds here.*)
THEOREM LinkedBotIsABot == LinkedSpec => Spec
<1>1. LinkedInit => Init
  BY DEF LinkedInit
<1> QED
  BY <1>1, LinkedStepsAreTheBots, PTL DEF LinkedSpec, Spec

(* shutdown() begins with stages that keep the extension connected.        *)
LEMMA ShutdownKeepsClient ==
    ASSUME connected \in BOOLEAN, NEW state, NEW up, NEW events, NEW b,
           Shutdown(state, up, events, b)
    PROVE  connected' = connected
<1>1. CASE ShuttingDown
  BY <1>1 DEF Shutdown
<1>2. CASE ~ShuttingDown
  <2>1. ContinueFrom(1, state, up, events, b)
    BY <1>2 DEF Shutdown
  <2> PICK k \in 1..9 :
        /\ "socket" \in up /\ connected => k <= 3
        /\ connected' = (connected /\ ~(k >= 7 /\ "socket" \in up))
    BY <2>1, BodyRuns
  <2>2. "socket" \in up /\ connected => ~(k >= 7)
    OBVIOUS
  <2> QED
    BY <2>2
<1> QED
  BY <1>1, <1>2

(* The bot by itself never gains a client.                                 *)
LEMMA AloneConnectsNobody ==
    ASSUME TypeOK, OwnStep, connected'
    PROVE  connected
<1>1. connected \in BOOLEAN
  BY DEF TypeOK
<1>2. CASE BootStep
  BY <1>1, <1>2, ShutdownKeepsClient
     DEF BootStep, BootReuseXvfb, BootSpawnXvfb, BootXvfb, BootManifest, BootSocket, BootChrome,
         BootFails, BootSettle, Quiet
<1>3. CASE \E i \in DOMAIN Stages : StageDone(i)
  <2> PICK i \in DOMAIN Stages : StageDone(i)
    BY <1>3
  <2>1. i + 1 \in 1..9 /\ ContinueFrom(i + 1, finalState, started, reported, boot)
    BY StagesInOrder DEF StageDone
  <2> PICK k : connected' = (connected /\ ~(k >= 7 /\ "socket" \in started))
    BY <2>1, BodyRuns
  <2> QED
    OBVIOUS
<1>4. CASE JoinDeadline \/ Signal \/ ApiLeave \/ ChromeExits \/ AudioFatal
  BY <1>1, <1>4, ShutdownKeepsClient DEF JoinDeadline, Signal, ApiLeave, ChromeExits, AudioFatal
<1>5. CASE DaemonError \/ DaemonWindowExpires
  BY <1>1, <1>5, ShutdownKeepsClient DEF DaemonError, DaemonWindowExpires
<1>6. CASE \E r \in Requests : ChatRequested(r) \/ ChatTimesOut(r)
  BY <1>6 DEF ChatRequested, ChatTimesOut, SetChat
<1> QED
  BY <1>2, <1>3, <1>4, <1>5, <1>6 DEF OwnStep

(* What the extension says leaves it connected.                            *)
LEMMA SpeakersStay ==
    ASSUME TypeOK, Spoken \/ ExtensionReady \/ JoinSendFails
    PROVE  connected' = connected
<1>1. connected \in BOOLEAN
  BY DEF TypeOK
<1> QED
  BY <1>1, ShutdownKeepsClient
     DEF Spoken, ExtensionReportsJoined, ExtensionEnds, ChatAnswered, SetChat, ExtensionReady,
         JoinSendFails

(* The inductive invariant of the two together.                            *)
IInv == BotIInv /\ ServesTheOpenClient

(* The close of a client that was replaced finds another one in its place, *)
(* and a client that goes by itself is forgotten at both ends.             *)
LEMMA LinkKeepsServing == IInv /\ [LinkedNext]_linkedVars => ServesTheOpenClient'
<1> SUFFICES ASSUME IInv, [LinkedNext]_linkedVars PROVE ServesTheOpenClient'
  OBVIOUS
<1> USE LinkConstants
<1>1. TypeOK /\ connected \in BOOLEAN /\ LinkTypeOK /\ (connected <=> client # NoShim)
      /\ \A s \in Shims : sock[s] = "open" <=> client = s
  BY DEF IInv, BotIInv, ServesTheOpenClient, TypeOK
<1>2. CASE BotAlone
  <2>1. LinkTypeOK'
    BY <1>1, <1>2 DEF BotAlone, Follows, Stop, LinkTypeOK
  <2>2. CASE connected /\ ~connected'
    BY <1>1, <1>2, <2>1, <2>2 DEF BotAlone, Follows, Stop, LinkTypeOK, ServesTheOpenClient
  <2>3. CASE ~(connected /\ ~connected')
    <3>1. connected' <=> connected
      BY <1>1, <1>2, <2>3, AloneConnectsNobody DEF BotAlone
    <3>2. UNCHANGED <<client, sock>>
      BY <1>2, <2>3 DEF BotAlone, Follows
    <3> QED
      BY <1>1, <2>1, <3>1, <3>2 DEF ServesTheOpenClient
  <2> QED
    BY <2>2, <2>3
<1>3. CASE BotHears
  BY <1>1, <1>3, SpeakersStay DEF BotHears, linkVars, LinkTypeOK, ServesTheOpenClient
<1>4. ASSUME NEW s \in Shims, ExtensionStep(s) \/ ShimAlone(s)
      PROVE  ServesTheOpenClient'
  <2>1. UNCHANGED <<connected, client, sock>>
    BY <1>4 DEF ExtensionStep, Connect, PortDisconnects, ProtocolError, ShimAlone, ShimSettles,
                ShimFails, ShimGone, vars
  <2>2. LinkTypeOK'
    <3>1. CASE Connect(s)
      BY <1>1, <3>1 DEF Connect, LinkTypeOK
    <3>2. CASE PortDisconnects(s)
      BY <1>1, <3>2 DEF PortDisconnects, ScheduleReconnect, LinkTypeOK
    <3>3. CASE ProtocolError(s)
      BY <1>1, <3>3 DEF ProtocolError, ScheduleReconnect, LinkTypeOK
    <3>4. CASE ShimSettles(s)
      BY <1>1, <3>4 DEF ShimSettles, ShimGone, LinkTypeOK
    <3>5. CASE ShimFails(s)
      BY <1>1, <3>5 DEF ShimFails, ShimGone, LinkTypeOK
    <3> QED
      BY <1>4, <3>1, <3>2, <3>3, <3>4, <3>5 DEF ExtensionStep, ShimAlone
  <2> QED
    BY <1>1, <2>1, <2>2 DEF ServesTheOpenClient
<1>5. ASSUME NEW s \in Shims, ClientArrives(s)
      PROVE  ServesTheOpenClient'
  <2>1. connected' /\ client' = s
        /\ sock' = [t \in Shims |-> IF t = s THEN "open"
                                    ELSE IF t = client THEN "destroyed" ELSE sock[t]]
        /\ shim' = [shim EXCEPT ![s] = "piping"] /\ UNCHANGED <<port, retry, unread, faults>>
    BY <1>5 DEF ClientArrives, ShimConnects, ShimDials, AcceptClient
  <2>2. LinkTypeOK'
    BY <1>1, <2>1 DEF LinkTypeOK
  <2> QED
    BY <1>1, <2>1, <2>2 DEF ServesTheOpenClient
<1>6. ASSUME NEW s \in Shims, ClientGoes(s)
      PROVE  ServesTheOpenClient'
  <2>1. /\ CloseSeen(s) /\ client' = IF client = s THEN NoShim ELSE client
        /\ IF client # NoShim /\ client' = NoShim THEN ~connected' ELSE connected' = connected
    BY <1>6 DEF ClientGoes, SocketCloses, ShimCloses, vars
  <2>2. LinkTypeOK'
    BY <1>1, <2>1 DEF CloseSeen, LinkTypeOK
  <2>3. sock' = [sock EXCEPT ![s] = "none"]
    BY <2>1 DEF CloseSeen
  <2>4. connected' <=> client' # NoShim
    BY <1>1, <2>1
  <2> QED
    BY <1>1, <2>1, <2>2, <2>3, <2>4 DEF ServesTheOpenClient, LinkTypeOK
<1>7. ASSUME NEW s \in Shims, ReadyHeard(s)
      PROVE  ServesTheOpenClient'
  <2>1. connected' = connected
    BY <1>1, <1>7, SpeakersStay DEF ReadyHeard, vars
  <2>2. LinkTypeOK' /\ UNCHANGED <<client, sock>>
    BY <1>1, <1>7 DEF ReadyHeard, ReadyArrives, LinkTypeOK
  <2> QED
    BY <1>1, <2>1, <2>2 DEF ServesTheOpenClient
<1>8. CASE UNCHANGED linkedVars
  BY <1>1, <1>8 DEF linkedVars, vars, linkVars, LinkTypeOK, ServesTheOpenClient
<1> QED
  BY <1>2, <1>3, <1>4, <1>5, <1>6, <1>7, <1>8 DEF LinkedNext

(* The shutdown ends clean and the server serves exactly the client whose  *)
(* socket is open: BotAndLinkAgree, for any number of shims and faults.    *)
THEOREM BotAndLinkStayAgreed == LinkedSpec => []BotAndLinkAgree
<1>1. LinkedInit => IInv
  <2>1. ASSUME LinkedInit PROVE ServesTheOpenClient
    <3>1. connected = FALSE /\ client = NoShim /\ \A s \in Shims : sock[s] = "none"
      BY <2>1 DEF LinkedInit, Init, LinkInit
    <3>2. LinkTypeOK
      <4>1. /\ shim \in [Shims -> {"gone", "dialing", "piping"}]
            /\ sock \in [Shims -> {"none", "open", "destroyed"}]
        BY <2>1 DEF LinkedInit, LinkInit
      <4>2. faults \in 0..MaxFaults
        BY <2>1, LinkConstants DEF LinkedInit, LinkInit
      <4> QED
        BY <2>1, <4>1, <4>2 DEF LinkedInit, LinkInit, LinkTypeOK
    <3> QED
      BY <3>1, <3>2, LinkConstants DEF ServesTheOpenClient
  <2> QED
    BY <2>1, BotStartsInOrder DEF LinkedInit, IInv
<1>2. IInv /\ [LinkedNext]_linkedVars => IInv'
  BY LinkedStepsAreTheBots, BotKeepsOrder, LinkKeepsServing DEF IInv
<1>3. IInv => BotAndLinkAgree
  BY OrderIsClean DEF IInv, BotAndLinkAgree
<1> QED
  BY <1>1, <1>2, <1>3, PTL DEF LinkedSpec

(* No audio capture and no HTTP surface comes up once a shutdown has       *)
(* begun, wherever the boot then stands: NothingComesUpLate.               *)
THEOREM NothingIsBroughtUpLate == LinkedSpec => NothingComesUpLate
<1>1. ASSUME [Next]_vars, ShuttingDown
      PROVE  (started' \ started) \cap {"audio", "http"} = {}
  <2>1. CASE BootStep
    BY <1>1, <2>1
       DEF BootStep, BootReuseXvfb, BootSpawnXvfb, BootXvfb, BootManifest, BootSocket, BootChrome,
           BootFails, BootSettle
  <2>2. CASE UNCHANGED started
    BY <2>2
  <2>3. Next => BootStep \/ UNCHANGED started
    BY DEF Next, OwnStep, Spoken, StageDone, JoinDeadline, Signal, ApiLeave, ChromeExits,
           AudioFatal, DaemonError, DaemonWindowExpires, ChatRequested, ChatTimesOut, ChatAnswered,
           SetChat, ExtensionReportsJoined, ExtensionEnds, ShimConnects, ShimCloses,
           ExtensionReady, JoinSendFails, procVars
  <2> QED
    BY <1>1, <2>1, <2>2, <2>3 DEF vars, procVars
<1>2. Spec => NothingComesUpLate
  BY <1>1, PTL DEF Spec, NothingComesUpLate
<1> QED
  BY <1>2, LinkedBotIsABot
-----------------------------------------------------------------------------
(* The voice and the mouth. *)

(* A request that has its turn, until its silence has landed.              *)
Owning == {"reading", "writing", "silencing"}
Owns(r) == pc[r] \in Owning

(* The chain holds the requests that are neither idle nor done, each once, *)
(* and all but its head are queued.                                        *)
ChainStands ==
    /\ \A i, j \in 1..Len(chain) : chain[i] = chain[j] => i = j
    /\ \A i \in 1..Len(chain) : pc[chain[i]] \notin {"idle", "done"}
    /\ \A r \in Posts : pc[r] \notin {"idle", "done"} => \E i \in 1..Len(chain) : chain[i] = r
    /\ \A i \in 2..Len(chain) : pc[chain[i]] = "queued"

(* What the owner of pacat has written is the end of what was written.     *)
PipeStands ==
    /\ \A i \in 1..Len(sink) : pc[sink[i].by] \in Owning \cup {"done"}
    /\ \A i, j \in 1..Len(sink) : i < j /\ Owns(sink[i].by) => sink[j].by = sink[i].by

(* Only a request that reads or writes is registered, and one that will    *)
(* answer 200 has not been cancelled.                                      *)
RegisteredStand ==
    \A s \in StreamIds : active[s] # None =>
        pc[active[s]] \in {"reading", "writing"} /\ sid[active[s]] = s
VerdictsStand ==
    /\ \A r \in Posts : verdict[r] = "ok" => r \notin aborted /\ pc[r] \in {"silencing", "done"}
    /\ \A r \in Posts : answer[r] = "200" => verdict[r] = "ok"
    /\ preempted \subseteq aborted

(* What a request has handed over before its turn, and while it writes.    *)
SentStands ==
    \A r \in Posts : /\ pc[r] \in {"idle", "queued"} => sent[r] = 0
                     /\ pc[r] = "writing" => sent[r] < MaxChunks

(* The process it writes into counts what it has handed over.              *)
ClocksStand ==
    \A r \in Posts : Owns(r) => handle[r] \in Gens /\ clock[handle[r]] = sent[r]

PlayInv ==
    /\ PlayTypeOK /\ NoInterleaving /\ SentStands /\ ClocksStand
    /\ ChainStands /\ PipeStands /\ RegisteredStand /\ VerdictsStand

PlayStep(r) ==
    \/ Start(r) \/ WriteDone(r) \/ Finish(r) \/ StartFails(r) \/ ReadChunk(r)
    \/ WriteToDead(r) \/ WriteFails(r) \/ BodyEnds(r) \/ SeeAbort(r)
-----------------------------------------------------------------------------
(* Only the head of the chain owns pacat.                                  *)
LEMMA OwnerIsHead ==
    ASSUME PlayTypeOK, ChainStands, NEW r \in Posts, Owns(r) \/ MyTurn(r)
    PROVE  Len(chain) >= 1 /\ chain[1] = r /\ chain # <<>> /\ Head(chain) = r
<1>1. chain \in Seq(Posts) /\ Len(chain) \in Nat
  BY DEF PlayTypeOK
<1>2. pc[r] \notin {"idle", "done"}
  BY DEF Owns, Owning, MyTurn
<1> PICK i \in 1..Len(chain) : chain[i] = r
  BY <1>2 DEF ChainStands
<1>3. Len(chain) >= 1 /\ chain # <<>> /\ Head(chain) = chain[1]
  BY <1>1
<1>4. CASE Owns(r)
  <2>1. i \in 2..Len(chain) => pc[r] = "queued"
    BY DEF ChainStands
  <2>2. i \notin 2..Len(chain)
    BY <1>4, <2>1 DEF Owns, Owning
  <2> QED BY <1>1, <1>3, <2>2
<1>5. CASE MyTurn(r)
  BY <1>3, <1>5 DEF MyTurn
<1> QED BY <1>4, <1>5

LEMMA OneOwner ==
    ASSUME PlayTypeOK, ChainStands, NEW r \in Posts, NEW q \in Posts,
           Owns(r) \/ MyTurn(r), Owns(q) \/ MyTurn(q)
    PROVE  r = q
BY OwnerIsHead

(* The chain keeps its order when its head is released, and when a request *)
(* goes on that has its turn already.                                      *)
LEMMA ChainMoves ==
    ASSUME PlayTypeOK, ChainStands, NEW r \in Posts, NEW to, Owns(r) \/ MyTurn(r),
           pc' = [pc EXCEPT ![r] = to],
           \/ to \in Owning /\ chain' = chain
           \/ to = "done" /\ chain' = Tail(chain)
    PROVE  ChainStands'
<1> USE OwnerIsHead
<1>1. chain \in Seq(Posts) /\ pc \in [Posts -> {"idle", "queued", "reading", "writing", "silencing", "done"}]
  BY DEF PlayTypeOK
<1>2. Len(chain) \in Nat /\ Len(chain) >= 1 /\ chain[1] = r
  BY <1>1
<1>3. CASE to \in Owning /\ chain' = chain
  <2>1. \A q \in Posts : q # r => pc'[q] = pc[q]
    BY <1>1
  <2>2. pc'[r] = to /\ to \notin {"idle", "done"}
    BY <1>1, <1>3 DEF Owning
  <2>3. \A i \in 2..Len(chain) : chain[i] # r
    BY <1>1, <1>2 DEF ChainStands
  <2>4. \A i \in 1..Len(chain) : chain[i] \in Posts
    BY <1>1
  <2>5. \A i \in 1..Len(chain) : pc'[chain[i]] \notin {"idle", "done"}
    BY <2>1, <2>2, <2>4 DEF ChainStands
  <2>6. \A i \in 2..Len(chain) : pc'[chain[i]] = "queued"
    BY <2>1, <2>3, <2>4, <1>2 DEF ChainStands
  <2>7. \A q \in Posts : pc'[q] \notin {"idle", "done"} => \E i \in 1..Len(chain) : chain[i] = q
    BY <2>1, <1>2 DEF ChainStands
  <2> QED BY <1>3, <2>5, <2>6, <2>7 DEF ChainStands
<1>4. CASE to = "done" /\ chain' = Tail(chain)
  <2>1. Len(chain') = Len(chain) - 1 /\ \A i \in 1..Len(chain') : chain'[i] = chain[i + 1]
    BY <1>1, <1>2, <1>4
  <2>2. \A q \in Posts : q # r => pc'[q] = pc[q]
    BY <1>1
  <2>3. pc'[r] = "done"
    BY <1>1, <1>4
  <2>4. \A i \in 1..Len(chain') : /\ i + 1 \in 2..Len(chain)
                                  /\ chain[i + 1] \in Posts /\ chain[i + 1] # r
    BY <1>1, <1>2, <2>1 DEF ChainStands
  <2>5. \A i \in 1..Len(chain') : pc'[chain'[i]] = "queued"
    BY <2>1, <2>2, <2>4 DEF ChainStands
  <2>6. ASSUME NEW i \in 1..Len(chain'), NEW j \in 1..Len(chain'), chain'[i] = chain'[j]
        PROVE  i = j
    <3>1. i + 1 \in 1..Len(chain) /\ j + 1 \in 1..Len(chain) /\ chain[i + 1] = chain[j + 1]
      BY <1>2, <2>1, <2>6
    <3>2. i + 1 = j + 1
      BY <3>1 DEF ChainStands
    <3> QED BY <3>2
  <2>7. ASSUME NEW q \in Posts, pc'[q] \notin {"idle", "done"}
        PROVE  \E i \in 1..Len(chain') : chain'[i] = q
    <3>1. q # r /\ pc[q] \notin {"idle", "done"}
      BY <2>2, <2>3, <2>7
    <3> PICK i \in 1..Len(chain) : chain[i] = q
      BY <3>1 DEF ChainStands
    <3>2. i # 1
      BY <1>2, <3>1
    <3>3. i - 1 \in 1..Len(chain') /\ (i - 1) + 1 = i
      BY <1>2, <2>1, <3>2
    <3> QED BY <2>1, <3>3
  <2>8. \A i \in 2..Len(chain') : i \in 1..Len(chain')
    BY <1>2, <2>1
  <2> QED BY <2>5, <2>6, <2>7, <2>8 DEF ChainStands
<1> QED BY <1>3, <1>4

(* What the owner appends keeps every utterance in one piece.              *)
LEMMA PipeMoves ==
    ASSUME PlayTypeOK, ChainStands, PipeStands, NoInterleaving,
           NEW r \in Posts, NEW to \in Owning \cup {"done"}, NEW what \in Kinds,
           Owns(r) \/ MyTurn(r),
           pc' = [pc EXCEPT ![r] = to],
           \/ sink' = sink
           \/ Owns(r) /\ to # "done" /\ sink' = Append(sink, [by |-> r, what |-> what])
    PROVE  sink' \in Seq([by : Posts, what : Kinds]) /\ PipeStands' /\ NoInterleaving'
<1>1. sink \in Seq([by : Posts, what : Kinds]) /\ Len(sink) \in Nat
      /\ pc \in [Posts -> {"idle", "queued", "reading", "writing", "silencing", "done"}]
  BY DEF PlayTypeOK
<1>2. \A i \in 1..Len(sink) : sink[i] \in [by : Posts, what : Kinds] /\ sink[i].by \in Posts
  <2> TAKE i \in 1..Len(sink)
  <2>1. sink[i] \in [by : Posts, what : Kinds]
    BY <1>1, ElementOfSeq
  <2> QED BY <2>1
<1>3. \A q \in Posts : q # r => pc'[q] = pc[q]
  BY <1>1
<1>4. pc'[r] = to
  BY <1>1
<1>5. \A i \in 1..Len(sink) : pc'[sink[i].by] \in Owning \cup {"done"}
  BY <1>2, <1>3, <1>4 DEF PipeStands
<1>6. ~Owns(r) => \A i \in 1..Len(sink) : sink[i].by # r
  BY DEF PipeStands, MyTurn, Owns, Owning
<1>7. \A i \in 1..Len(sink) : pc'[sink[i].by] \in Owning => Owns(sink[i].by)
  BY <1>2, <1>3, <1>6 DEF Owns
<1>8. CASE sink' = sink
  <2>1. PipeStands'
    BY <1>5, <1>7, <1>8 DEF PipeStands, Owns
  <2> QED BY <1>1, <1>8, <2>1 DEF NoInterleaving
<1>9. CASE Owns(r) /\ to # "done" /\ sink' = Append(sink, [by |-> r, what |-> what])
  <2> DEFINE n == Len(sink) + 1
  <2>1. sink' \in Seq([by : Posts, what : Kinds]) /\ Len(sink') = n /\ sink'[n] = [by |-> r, what |-> what]
        /\ \A i \in 1..Len(sink) : sink'[i] = sink[i]
    <3>1. [by |-> r, what |-> what] \in [by : Posts, what : Kinds]
      OBVIOUS
    <3> QED BY <1>1, <1>9, <3>1, AppendProperties
  <2>2. sink'[n].by = r
    BY <2>1
  <2>3. \A i \in 1..Len(sink) : Owns(sink[i].by) => sink[i].by = r
    BY <1>2, <1>9, OneOwner
  <2>4. PipeStands'
    <3>1. \A i \in 1..n : pc'[sink'[i].by] \in Owning \cup {"done"}
      BY <1>1, <1>4, <1>5, <2>1, <2>2
    <3>2. ASSUME NEW i \in 1..n, NEW j \in 1..n, i < j, pc'[sink'[i].by] \in Owning
          PROVE  sink'[j].by = sink'[i].by
      <4>1. i \in 1..Len(sink) /\ sink'[i] = sink[i] /\ (j = n \/ (j \in 1..Len(sink) /\ sink'[j] = sink[j]))
        BY <1>1, <2>1, <3>2
      <4>2. Owns(sink[i].by)
        BY <1>7, <3>2, <4>1
      <4>3. sink[i].by = r
        BY <2>3, <4>1, <4>2
      <4> QED BY <2>2, <3>2, <4>1, <4>2, <4>3 DEF PipeStands
    <3> QED BY <2>1, <3>1, <3>2 DEF PipeStands, Owns
  <2>5. NoInterleaving'
    <3>1. ASSUME NEW i \in 1..n, NEW j \in 1..n, NEW k \in 1..n, i < j, j < k, sink'[i].by = sink'[k].by
          PROVE  sink'[j].by = sink'[i].by
      <4>1. i \in 1..Len(sink) /\ j \in 1..Len(sink) /\ sink'[i] = sink[i] /\ sink'[j] = sink[j]
        BY <1>1, <2>1, <3>1
      <4>2. CASE k = n
        <5>1. sink[i].by = r
          BY <2>2, <3>1, <4>1, <4>2
        <5>2. sink[j].by = sink[i].by
          BY <1>9, <3>1, <4>1, <5>1 DEF PipeStands
        <5> QED BY <4>1, <5>2
      <4>3. CASE k # n
        <5>1. k \in 1..Len(sink) /\ sink'[k] = sink[k]
          BY <1>1, <2>1, <4>3
        <5> QED BY <3>1, <4>1, <5>1 DEF NoInterleaving
      <4> QED BY <4>2, <4>3
    <3> QED BY <2>1, <3>1 DEF NoInterleaving
  <2> QED BY <2>1, <2>4, <2>5
<1> QED BY <1>8, <1>9
-----------------------------------------------------------------------------
(* The steps of PlayAudio keep its invariant. *)

(* A step that leaves the read loop.                                       *)
Leaves(r) == WriteToDead(r) \/ WriteFails(r) \/ BodyEnds(r) \/ SeeAbort(r)

LEMMA StepsOfTheOwner ==
    ASSUME PlayTypeOK, ChainStands, NEW r \in Posts, PlayStep(r)
    PROVE  /\ Owns(r) \/ MyTurn(r)
           /\ aborted' = aborted /\ preempted' = preempted /\ sid' = sid
           /\ \E to \in Owning \cup {"done"} :
                /\ pc' = [pc EXCEPT ![r] = to]
                /\ chain' = IF to = "done" THEN Tail(chain) ELSE chain
                /\ to \in {"reading", "writing"} => pc[r] \in {"queued", "reading", "writing"}
                /\ Owns(r) => to # "reading" \/ pc[r] = "writing"
           /\ \E what \in Kinds :
                sink' = sink \/ (Owns(r) /\ pc'[r] # "done" /\ sink' = Append(sink, [by |-> r, what |-> what]))
<1> USE DEF Owns, Owning, Kinds
<1>1. pc \in [Posts -> {"idle", "queued", "reading", "writing", "silencing", "done"}]
  BY DEF PlayTypeOK
<1>2. CASE Start(r)
  BY <1>1, <1>2 DEF Start, MyTurn
<1>3. CASE StartFails(r)
  BY <1>1, <1>3 DEF StartFails, MyTurn
<1>4. CASE ReadChunk(r)
  BY <1>1, <1>4 DEF ReadChunk
<1>5. CASE WriteDone(r)
  BY <1>1, <1>5 DEF WriteDone
<1>6. CASE Leaves(r)
  BY <1>1, <1>6 DEF Leaves, WriteToDead, WriteFails, BodyEnds, SeeAbort, LeaveLoop
<1>7. CASE Finish(r)
  BY <1>1, <1>7 DEF Finish
<1> QED BY <1>2, <1>3, <1>4, <1>5, <1>6, <1>7 DEF PlayStep, Leaves

LEMMA TypesOfPlay ==
    ASSUME PlayTypeOK, SentStands, ChainStands, NEW r \in Posts, PlayStep(r),
           sink' \in Seq([by : Posts, what : Kinds])
    PROVE  PlayTypeOK'
<1> USE DEF PlayTypeOK
<1>1. chain # <<>> /\ Tail(chain) \in Seq(Posts)
  <2>1. chain # <<>>
    BY OwnerIsHead, StepsOfTheOwner
  <2> QED BY <2>1
<1>2. CASE Start(r)
  <2> PICK g \in Gens : Playback(g) /\ handle' = [handle EXCEPT ![r] = g] /\ clock' = [clock EXCEPT ![g] = 0]
    BY <1>2 DEF Start
  <2>1. g \in 0..MaxPacats
    BY BoundsAreNat DEF Gens
  <2>2. pacat' \in 0..MaxPacats /\ alive' \subseteq Gens /\ spawned' \in 0..MaxPacats
    BY <2>1, BoundsAreNat DEF Playback
  <2>3. handle' \in [Posts -> 0..MaxPacats] /\ clock' \in [Gens -> Nat]
    BY <2>1
  <2>4. pc' \in [Posts -> {"idle", "queued", "reading", "writing", "silencing", "done"}]
    BY <1>2 DEF Start
  <2>5. active' \in [StreamIds -> Posts \cup {None}] /\ subs' \subseteq Posts
    BY <1>2 DEF Start
  <2> QED BY <1>2, <2>2, <2>3, <2>4, <2>5 DEF Start
<1>3. CASE StartFails(r)
  BY <1>1, <1>3 DEF StartFails
<1>4. CASE ReadChunk(r)
  BY <1>4 DEF ReadChunk
<1>5. CASE WriteDone(r)
  <2>1. sent' \in [Posts -> 0..MaxChunks]
    BY <1>5, BoundsAreNat DEF WriteDone, SentStands
  <2>2. clock' \in [Gens -> Nat]
    <3>1. clock' = [clock EXCEPT ![handle[r]] = clock[handle[r]] + 1] /\ clock \in [Gens -> Nat]
      BY <1>5 DEF WriteDone
    <3>2. handle[r] \in Gens => clock[handle[r]] + 1 \in Nat
      BY <3>1
    <3> QED BY <3>1, <3>2
  <2>3. pc' \in [Posts -> {"idle", "queued", "reading", "writing", "silencing", "done"}]
    BY <1>5 DEF WriteDone
  <2> QED BY <1>5, <2>1, <2>2, <2>3 DEF WriteDone
<1>6. CASE Leaves(r)
  <2> PICK how \in {"ok", "error", "dropped", "cancelled"} : LeaveLoop(r, how)
    BY <1>6 DEF Leaves, WriteToDead, WriteFails, BodyEnds, SeeAbort
  <2>2. /\ pc' \in [Posts -> {"idle", "queued", "reading", "writing", "silencing", "done"}]
        /\ verdict' \in [Posts -> {"none", "ok", "error", "dropped", "cancelled"}]
        /\ active' \in [StreamIds -> Posts \cup {None}]
    BY DEF LeaveLoop
  <2>3. UNCHANGED <<sid, chain, aborted, handle, pacat, alive, spawned, clock, subs, sent, answer, preempted>>
    BY <1>6 DEF Leaves, WriteToDead, WriteFails, BodyEnds, SeeAbort
  <2> QED BY <2>2, <2>3
<1>7. CASE Finish(r)
  <2>1. clock' \in [Gens -> Nat]
    BY <1>7 DEF Finish
  <2>2. answer' \in [Posts -> {"none", "200", "499", "500"}]
    BY <1>7 DEF Finish, Status
  <2>3. /\ pc' \in [Posts -> {"idle", "queued", "reading", "writing", "silencing", "done"}]
        /\ chain' \in Seq(Posts) /\ subs' \subseteq Posts
    BY <1>1, <1>7 DEF Finish
  <2> QED BY <1>7, <2>1, <2>2, <2>3 DEF Finish
<1> QED BY <1>2, <1>3, <1>4, <1>5, <1>6, <1>7 DEF PlayStep, Leaves

LEMMA RegisteredKept ==
    ASSUME PlayTypeOK, RegisteredStand, ChainStands, NEW r \in Posts, PlayStep(r)
    PROVE  RegisteredStand'
<1> USE DEF PlayTypeOK
<1>1. pc \in [Posts -> {"idle", "queued", "reading", "writing", "silencing", "done"}]
      /\ active \in [StreamIds -> Posts \cup {None}]
  OBVIOUS
<1>2. \A s \in StreamIds : active[s] # None => active[s] \in Posts
  BY <1>1
<1>3. CASE Start(r) \/ ReadChunk(r) \/ WriteDone(r)
  <2>1. pc'[r] \in {"reading", "writing"} /\ (\A q \in Posts : q # r => pc'[q] = pc[q]) /\ sid' = sid
    BY <1>1, <1>3 DEF Start, ReadChunk, WriteDone
  <2>2. \A s \in StreamIds : active'[s] = active[s] \/ (active'[s] = r /\ sid[r] = s)
    <3>1. CASE Start(r)
      BY <1>1, <3>1 DEF Start
    <3>2. CASE ReadChunk(r) \/ WriteDone(r)
      BY <1>1, <3>2 DEF ReadChunk, WriteDone
    <3> QED BY <1>3, <3>1, <3>2
  <2>3. ASSUME NEW s \in StreamIds, active'[s] # None
        PROVE  pc'[active'[s]] \in {"reading", "writing"} /\ sid'[active'[s]] = s
    <3>1. CASE active'[s] = r /\ sid[r] = s
      BY <2>1, <3>1
    <3>2. CASE active'[s] = active[s]
      <4>1. active[s] \in Posts /\ pc[active[s]] \in {"reading", "writing"} /\ sid[active[s]] = s
        BY <1>2, <2>3, <3>2 DEF RegisteredStand
      <4> QED BY <2>1, <3>2, <4>1
    <3> QED BY <2>2, <3>1, <3>2
  <2> QED BY <2>3 DEF RegisteredStand
<1>4. CASE StartFails(r)
  <2>1. (\A q \in Posts : q # r => pc'[q] = pc[q]) /\ pc[r] = "queued" /\ sid' = sid /\ active' = active
    BY <1>1, <1>4 DEF StartFails, MyTurn
  <2> QED BY <1>2, <2>1 DEF RegisteredStand
<1>5. CASE Leaves(r)
  <2>1. \E how \in {"ok", "error", "dropped", "cancelled"} : LeaveLoop(r, how)
    BY <1>5 DEF Leaves, WriteToDead, WriteFails, BodyEnds, SeeAbort
  <2>2. (\A q \in Posts : q # r => pc'[q] = pc[q]) /\ sid' = sid
    BY <1>1, <1>5, <2>1 DEF LeaveLoop, Leaves, WriteToDead, WriteFails, BodyEnds, SeeAbort
  <2>3. active' = IF active[sid[r]] = r THEN [active EXCEPT ![sid[r]] = None] ELSE active
    BY <2>1 DEF LeaveLoop
  <2>4. ASSUME NEW s \in StreamIds, active'[s] # None
        PROVE  active'[s] = active[s] /\ active[s] # r
    BY <1>1, <2>3, <2>4 DEF RegisteredStand
  <2> QED BY <1>2, <2>2, <2>4 DEF RegisteredStand
<1>6. CASE Finish(r)
  <2>1. (\A q \in Posts : q # r => pc'[q] = pc[q]) /\ pc[r] = "silencing" /\ sid' = sid /\ active' = active
    BY <1>1, <1>6 DEF Finish
  <2> QED BY <1>2, <2>1 DEF RegisteredStand
<1> QED BY <1>3, <1>4, <1>5, <1>6 DEF PlayStep, Leaves

LEMMA VerdictsKept ==
    ASSUME PlayTypeOK, VerdictsStand, NEW r \in Posts, PlayStep(r)
    PROVE  VerdictsStand'
<1> USE DEF VerdictsStand
<1>1. /\ pc \in [Posts -> {"idle", "queued", "reading", "writing", "silencing", "done"}]
      /\ verdict \in [Posts -> {"none", "ok", "error", "dropped", "cancelled"}]
      /\ answer \in [Posts -> {"none", "200", "499", "500"}]
  BY DEF PlayTypeOK
<1>2. CASE Start(r)
  BY <1>1, <1>2 DEF Start, MyTurn
<1>3. CASE StartFails(r)
  BY <1>1, <1>3 DEF StartFails, MyTurn
<1>4. CASE ReadChunk(r)
  BY <1>1, <1>4 DEF ReadChunk
<1>5. CASE WriteDone(r)
  BY <1>1, <1>5 DEF WriteDone
<1>6. CASE WriteToDead(r) \/ WriteFails(r) \/ SeeAbort(r)
  BY <1>1, <1>6 DEF WriteToDead, WriteFails, SeeAbort, LeaveLoop
<1>7. CASE BodyEnds(r)
  BY <1>1, <1>7 DEF BodyEnds, LeaveLoop
<1>8. CASE Finish(r)
  BY <1>1, <1>8 DEF Finish, Status
<1> QED BY <1>2, <1>3, <1>4, <1>5, <1>6, <1>7, <1>8 DEF PlayStep

LEMMA SentKept ==
    ASSUME PlayTypeOK, SentStands, NEW r \in Posts, PlayStep(r)
    PROVE  SentStands'
<1> USE DEF SentStands
<1>1. /\ pc \in [Posts -> {"idle", "queued", "reading", "writing", "silencing", "done"}]
      /\ sent \in [Posts -> 0..MaxChunks]
  BY DEF PlayTypeOK
<1>2. CASE Start(r) \/ StartFails(r)
  BY <1>1, <1>2 DEF Start, StartFails
<1>3. CASE ReadChunk(r)
  BY <1>1, <1>3 DEF ReadChunk
<1>4. CASE WriteDone(r)
  BY <1>1, <1>4 DEF WriteDone
<1>5. CASE Leaves(r)
  <2> PICK how \in {"ok", "error", "dropped", "cancelled"} : LeaveLoop(r, how)
    BY <1>5 DEF Leaves, WriteToDead, WriteFails, BodyEnds, SeeAbort
  <2>1. pc' = [pc EXCEPT ![r] = "silencing"] /\ sent' = sent
    BY <1>5 DEF LeaveLoop, Leaves, WriteToDead, WriteFails, BodyEnds, SeeAbort
  <2> QED BY <1>1, <2>1
<1>6. CASE Finish(r)
  BY <1>1, <1>6 DEF Finish
<1> QED BY <1>2, <1>3, <1>4, <1>5, <1>6 DEF PlayStep, Leaves

LEMMA ClocksKept ==
    ASSUME PlayTypeOK, SentStands, ChainStands, ClocksStand, NEW r \in Posts, PlayStep(r)
    PROVE  ClocksStand'
<1>1. /\ pc \in [Posts -> {"idle", "queued", "reading", "writing", "silencing", "done"}]
      /\ sent \in [Posts -> 0..MaxChunks] /\ clock \in [Gens -> Nat]
      /\ handle \in [Posts -> 0..MaxPacats]
  BY DEF PlayTypeOK
<1>2. \A q \in Posts : q # r => ~Owns(q) /\ pc'[q] = pc[q]
  <2>1. Owns(r) \/ MyTurn(r)
    BY StepsOfTheOwner
  <2>2. \A q \in Posts : q # r => pc'[q] = pc[q]
    BY <1>1, StepsOfTheOwner
  <2> QED BY <2>1, <2>2, OneOwner
<1>3. SUFFICES ASSUME pc'[r] \in Owning
               PROVE  handle'[r] \in Gens /\ clock'[handle'[r]] = sent'[r]
  BY <1>2 DEF ClocksStand, Owns
<1>4. CASE Start(r)
  <2> PICK g \in Gens : handle' = [handle EXCEPT ![r] = g] /\ clock' = [clock EXCEPT ![g] = 0]
    BY <1>4 DEF Start
  <2>1. sent'[r] = 0
    BY <1>4 DEF Start, MyTurn, SentStands
  <2> QED BY <1>1, <2>1
<1>5. CASE StartFails(r) \/ Finish(r)
  BY <1>1, <1>3, <1>5 DEF StartFails, Finish, Owning
<1>6. CASE ReadChunk(r)
  BY <1>1, <1>6 DEF ReadChunk, ClocksStand, Owns, Owning
<1>7. CASE WriteDone(r)
  <2>1. Owns(r)
    BY <1>7 DEF WriteDone, Owns, Owning
  <2> QED BY <1>1, <1>7, <2>1 DEF WriteDone, ClocksStand
<1>8. CASE Leaves(r)
  <2>1. Owns(r) /\ UNCHANGED <<handle, clock, sent>>
    BY <1>8 DEF Leaves, WriteToDead, WriteFails, BodyEnds, SeeAbort, Owns, Owning
  <2> QED BY <2>1 DEF ClocksStand
<1> QED BY <1>4, <1>5, <1>6, <1>7, <1>8 DEF PlayStep, Leaves

LEMMA PlayStepKeepsPlay ==
    ASSUME PlayInv, NEW r \in Posts, PlayStep(r)
    PROVE  PlayInv'
<1> USE DEF PlayInv
<1> PICK to \in Owning \cup {"done"}, what \in Kinds :
      /\ Owns(r) \/ MyTurn(r)
      /\ pc' = [pc EXCEPT ![r] = to]
      /\ chain' = IF to = "done" THEN Tail(chain) ELSE chain
      /\ sink' = sink \/ (Owns(r) /\ pc'[r] # "done" /\ sink' = Append(sink, [by |-> r, what |-> what]))
  BY StepsOfTheOwner
<1>1. pc'[r] = to
  BY DEF PlayTypeOK
<1>2. ChainStands'
  BY ChainMoves DEF Owning
<1>3. sink' \in Seq([by : Posts, what : Kinds]) /\ PipeStands' /\ NoInterleaving'
  BY <1>1, PipeMoves
<1>4. PlayTypeOK'
  BY <1>3, TypesOfPlay
<1> QED BY <1>2, <1>3, <1>4, RegisteredKept, VerdictsKept, SentKept, ClocksKept

LEMMA ArriveKeepsPlay ==
    ASSUME PlayInv, NEW r \in Posts, NEW s \in StreamIds, Arrive(r, s)
    PROVE  PlayInv'
<1> USE DEF PlayInv
<1>1. /\ pc \in [Posts -> {"idle", "queued", "reading", "writing", "silencing", "done"}]
      /\ chain \in Seq(Posts) /\ Len(chain) \in Nat
      /\ active \in [StreamIds -> Posts \cup {None}] /\ aborted \subseteq Posts /\ preempted \subseteq Posts
      /\ sink \in Seq([by : Posts, what : Kinds]) /\ Len(sink) \in Nat
  BY DEF PlayTypeOK
<1>2. /\ pc[r] = "idle" /\ pc'[r] = "queued" /\ \A q \in Posts : q # r => pc'[q] = pc[q]
      /\ sid'[r] = s /\ \A q \in Posts : q # r => sid'[q] = sid[q]
      /\ chain' = Append(chain, r) /\ aborted' = aborted \cup Registered
      /\ preempted' = preempted \cup Registered
  BY <1>1 DEF Arrive, PlayTypeOK
<1>3. Registered \subseteq Posts
  BY <1>1 DEF Registered
<1>4. PlayTypeOK'
  <2>1. chain' \in Seq(Posts)
    BY <1>1, <1>2
  <2> QED BY <1>3, <2>1 DEF PlayTypeOK, Arrive
<1>5. ChainStands'
  <2> DEFINE n == Len(chain) + 1
  <2>1. Len(chain') = n /\ chain'[n] = r /\ \A i \in 1..Len(chain) : chain'[i] = chain[i]
    BY <1>1, <1>2
  <2>2. \A i \in 1..Len(chain) : chain[i] \in Posts /\ chain[i] # r
    BY <1>1, <1>2 DEF ChainStands
  <2>3. \A i \in 1..n : i = n \/ i \in 1..Len(chain)
    BY <1>1
  <2>4. \A i, j \in 1..n : chain'[i] = chain'[j] => i = j
    BY <2>1, <2>2, <2>3 DEF ChainStands
  <2>5. \A i \in 1..n : pc'[chain'[i]] \notin {"idle", "done"}
    BY <1>2, <2>1, <2>2, <2>3 DEF ChainStands
  <2>6. \A i \in 2..n : pc'[chain'[i]] = "queued"
    <3> TAKE i \in 2..n
    <3>1. i = n \/ i \in 2..Len(chain)
      BY <1>1
    <3>2. i \in 2..Len(chain) => i \in 1..Len(chain)
      BY <1>1
    <3> QED BY <1>2, <2>1, <2>2, <3>1, <3>2 DEF ChainStands
  <2>7. ASSUME NEW q \in Posts, pc'[q] \notin {"idle", "done"}
        PROVE  \E i \in 1..n : chain'[i] = q
    <3>1. n \in 1..n /\ 1..Len(chain) \subseteq 1..n
      BY <1>1
    <3>2. CASE q = r
      BY <2>1, <3>1, <3>2
    <3>3. CASE q # r
      <4>1. \E i \in 1..Len(chain) : chain[i] = q
        BY <1>2, <2>7, <3>3 DEF ChainStands
      <4> QED BY <2>1, <3>1, <4>1
    <3> QED BY <3>2, <3>3
  <2> QED BY <2>1, <2>4, <2>5, <2>6, <2>7 DEF ChainStands
<1>6. sink' = sink /\ active' = active /\ verdict' = verdict /\ answer' = answer
  BY DEF Arrive
<1>7. \A i \in 1..Len(sink) : sink[i].by \in Posts /\ sink[i].by # r
  <2> TAKE i \in 1..Len(sink)
  <2>1. sink[i] \in [by : Posts, what : Kinds]
    BY <1>1, ElementOfSeq
  <2> QED BY <1>2, <2>1 DEF PipeStands, Owning
<1>8. PipeStands' /\ NoInterleaving'
  <2>1. PipeStands'
    BY <1>2, <1>6, <1>7 DEF PipeStands, Owns, Owning
  <2> QED BY <1>6, <2>1 DEF NoInterleaving
<1>9. RegisteredStand'
  BY <1>1, <1>2, <1>6 DEF RegisteredStand
<1>10. VerdictsStand'
  <2>1. \A q \in Registered : pc[q] \in {"reading", "writing"}
    BY DEF Registered, RegisteredStand
  <2>2. \A q \in Posts : verdict[q] = "ok" => q \notin Registered /\ q # r
    BY <1>2, <2>1 DEF VerdictsStand
  <2> QED BY <1>2, <1>6, <2>2 DEF VerdictsStand
<1>11. SentStands' /\ ClocksStand'
  <2>1. SentStands'
    BY <1>1, <1>2 DEF SentStands, Arrive
  <2>2. UNCHANGED <<handle, clock, sent>>
    BY DEF Arrive
  <2> QED BY <1>2, <2>1, <2>2 DEF ClocksStand, Owns, Owning
<1> QED BY <1>4, <1>5, <1>8, <1>9, <1>10, <1>11

LEMMA OthersKeepPlay ==
    ASSUME PlayInv, PacatExits \/ \E s \in StreamIds : Delete(s)
    PROVE  PlayInv'
<1> USE DEF PlayInv
<1>1. UNCHANGED <<pc, sid, chain, active, handle, spawned, clock, subs, sent, verdict, answer, sink, preempted>>
  BY DEF PacatExits, Delete
<1>2. ChainStands' /\ PipeStands' /\ NoInterleaving' /\ RegisteredStand' /\ SentStands' /\ ClocksStand'
  BY <1>1 DEF ChainStands, PipeStands, Owns, NoInterleaving, RegisteredStand, SentStands, ClocksStand
<1>3. CASE PacatExits
  <2>1. PlayTypeOK'
    BY <1>3, BoundsAreNat DEF PacatExits, PlayTypeOK
  <2>2. VerdictsStand'
    BY <1>3 DEF PacatExits, VerdictsStand
  <2> QED BY <1>2, <2>1, <2>2
<1>4. ASSUME NEW s \in StreamIds, Delete(s)
      PROVE  PlayInv'
  <2>1. active[s] \in Posts /\ pc[active[s]] \in {"reading", "writing"}
    BY <1>4 DEF Delete, PlayTypeOK, RegisteredStand
  <2>2. PlayTypeOK'
    BY <1>4, <2>1 DEF Delete, PlayTypeOK
  <2>3. VerdictsStand'
    BY <1>4, <2>1 DEF Delete, VerdictsStand
  <2> QED BY <1>2, <2>2, <2>3
<1> QED BY <1>3, <1>4

LEMMA PlayStutters ==
    ASSUME PlayInv, UNCHANGED playVars
    PROVE  PlayInv'
<1> USE DEF PlayInv, playVars
<1>1. PlayTypeOK' /\ SentStands' /\ ClocksStand'
  BY DEF PlayTypeOK, SentStands, ClocksStand, Owns
<1>2. ChainStands' /\ PipeStands' /\ NoInterleaving'
  BY DEF NoInterleaving, ChainStands, PipeStands, Owns
<1>3. RegisteredStand' /\ VerdictsStand'
  BY DEF RegisteredStand, VerdictsStand
<1> QED BY <1>1, <1>2, <1>3

LEMMA PlayBegins == PlayInit => PlayInv
<1> SUFFICES ASSUME PlayInit PROVE PlayInv
  OBVIOUS
<1> USE DEF PlayInit
<1>1. PlayTypeOK /\ SentStands /\ ClocksStand
  BY BoundsAreNat DEF PlayTypeOK, SentStands, ClocksStand, Owns, Owning
<1>2. ChainStands /\ PipeStands /\ NoInterleaving
  BY DEF ChainStands, PipeStands, NoInterleaving
<1>3. RegisteredStand /\ VerdictsStand
  BY DEF RegisteredStand, VerdictsStand
<1> QED BY <1>1, <1>2, <1>3 DEF PlayInv
-----------------------------------------------------------------------------
(* The viseme buffer. *)

(* Every set of numbers has a least one.                                   *)
LEMMA LeastNat ==
    ASSUME NEW T \in SUBSET Nat, T # {}
    PROVE  \E x \in T : \A y \in T : x <= y
<1> DEFINE R == {p \in Nat \X Nat : p[1] < p[2]}
<1>1. IsWellFoundedOn(R, Nat)
  BY NatLessThanWellFounded DEF OpToRel
<1>2. \E x \in T : \A y \in T : ~ (<<y, x>> \in R)
  <2> HIDE DEF R
  <2> QED BY <1>1, WFMin
<1> PICK x \in T : \A y \in T : ~ (<<y, x>> \in R)
  BY <1>2
<1>3. ASSUME NEW y \in T PROVE x <= y
  <2>1. x \in Nat /\ y \in Nat /\ ~ (<<y, x>> \in R)
    OBVIOUS
  <2>2. y < x => <<y, x>> \in R
    BY <2>1
  <2> QED BY <2>1, <2>2
<1> QED BY <1>3

(* From 1 on, a stretch of S ends before the first number outside it.      *)
LEMMA StretchEnds ==
    ASSUME NEW n \in Nat, NEW S
    PROVE  \E k \in 0..n : (\A i \in 1..k : i \in S) /\ (k < n => k + 1 \notin S)
<1> DEFINE T == {i \in 1..n : i \notin S}
<1>1. CASE T = {}
  <2>1. \A i \in 1..n : i \in S
    BY <1>1
  <2> WITNESS n \in 0..n
  <2> QED BY <2>1
<1>2. CASE T # {}
  <2> PICK m \in T : \A y \in T : m <= y
    <3>1. T \in SUBSET Nat
      OBVIOUS
    <3> HIDE DEF T
    <3> QED BY <1>2, <3>1, LeastNat
  <2>1. m \in 1..n /\ m \notin S
    OBVIOUS
  <2>2. \A i \in 1..(m - 1) : i \in S
    OBVIOUS
  <2>3. m - 1 \in 0..n /\ (m - 1) + 1 = m
    BY <2>1
  <2> QED BY <2>1, <2>2, <2>3
<1> QED BY <1>1, <1>2

Among(buf) == {buf[i] : i \in 1..Len(buf)}

(* What is due is due: flushBufferedVisemes releases from the head only    *)
(* what the clock has reached.                                             *)
LEMMA DueIsDue ==
    ASSUME NEW buf \in Seq(Visemes), NEW ts \in Int
    PROVE  Due(buf, ts) \in 0..Len(buf) /\ \A i \in 1..Due(buf, ts) : buf[i].ts <= ts
<1> DEFINE S == {i \in 1..Len(buf) : buf[i].ts <= ts}
<1>1. Len(buf) \in Nat
  OBVIOUS
<1>2. \A i \in 1..Len(buf) : buf[i].ts \in Int
  <2> TAKE i \in 1..Len(buf)
  <2>1. buf[i] \in [of : Posts, ts : Stamps]
    BY ElementOfSeq DEF Visemes
  <2>2. buf[i].ts \in Stamps
    BY <2>1
  <2>3. buf[i].ts \in Nat
    BY <2>2, StampsAreNat
  <2> QED BY <2>3
<1> PICK k \in 0..Len(buf) : (\A i \in 1..k : i \in S) /\ (k < Len(buf) => k + 1 \notin S)
  <2> HIDE DEF S
  <2> QED BY <1>1, StretchEnds
<1>3. \A i \in 1..k : buf[i].ts <= ts
  OBVIOUS
<1>4. k < Len(buf) => buf[k + 1].ts > ts
  <2> SUFFICES ASSUME k < Len(buf) PROVE buf[k + 1].ts > ts
    OBVIOUS
  <2>1. k + 1 \in 1..Len(buf) /\ k + 1 \notin S
    BY <1>1
  <2>2. ~(buf[k + 1].ts <= ts) /\ buf[k + 1].ts \in Int
    BY <1>2, <2>1
  <2> QED BY <2>2
<1>5. \E n \in 0..Len(buf) : (\A i \in 1..n : buf[i].ts <= ts) /\ (n < Len(buf) => buf[n + 1].ts > ts)
  BY <1>3, <1>4
<1> HIDE DEF S
<1> QED BY <1>5 DEF Due

(* Releasing leaves an end of the buffer and sends out only what is due.   *)
LEMMA WhatIsReleased ==
    ASSUME NEW buf \in Seq(Visemes), NEW ts \in Int, Release(buf, ts)
    PROVE  /\ visemeBuffer' \in Seq(Visemes) /\ Among(visemeBuffer') \subseteq Among(buf)
           /\ \E out \in SUBSET Among(buf) :
                /\ early' = early \cup {v \in out : v.ts > Reached(v.of)}
                /\ \A v \in out : v.ts <= ts
<1> DEFINE n == Due(buf, ts)
           out == {buf[i] : i \in 1..n}
<1>1. n \in 0..Len(buf) /\ (\A i \in 1..n : buf[i].ts <= ts) /\ Len(buf) \in Nat
  <2>1. Len(buf) \in Nat
    OBVIOUS
  <2> QED BY <2>1, DueIsDue
<1>2. visemeBuffer' = SubSeq(buf, n + 1, Len(buf)) /\ early' = early \cup {v \in out : v.ts > Reached(v.of)}
  BY DEF Release
<1> HIDE DEF n
<1>3. visemeBuffer' \in Seq(Visemes) /\ Len(visemeBuffer') = Len(buf) - n
      /\ \A i \in 1..Len(visemeBuffer') : visemeBuffer'[i] = buf[n + i]
  BY <1>1, <1>2, SubSeqProperties
<1>4. ASSUME NEW i \in 1..Len(visemeBuffer') PROVE visemeBuffer'[i] \in Among(buf)
  <2>1. n + i \in 1..Len(buf)
    BY <1>1, <1>3
  <2> QED BY <1>3, <2>1 DEF Among
<1>5. out \subseteq Among(buf) /\ \A v \in out : v.ts <= ts
  BY <1>1 DEF Among
<1>6. Among(visemeBuffer') \subseteq Among(buf)
  BY <1>4 DEF Among
<1> QED BY <1>2, <1>3, <1>5, <1>6

(* A finite set of numbers has its kth, for each k up to its size.         *)
LEMMA KthOfSet ==
    ASSUME NEW n \in Nat, NEW S \in SUBSET (1..n), NEW k \in 1..Cardinality(S)
    PROVE  \E i \in S : Cardinality({j \in S : j <= i}) = k
<1> DEFINE upTo(i) == {j \in S : j <= i}
           T == {i \in 0..n : k <= Cardinality(upTo(i))}
<1>0. \A j \in S : j \in Int /\ 1 <= j /\ j <= n
  OBVIOUS
<1>1. IsFiniteSet(1..n) /\ IsFiniteSet(S)
  <2>1. IsFiniteSet(1..n)
    BY FS_Interval
  <2> QED BY <2>1, FS_Subset
<1>2. Cardinality(S) \in Nat
  BY <1>1, FS_CardinalityType
<1>3. \A i : IsFiniteSet(upTo(i)) /\ Cardinality(upTo(i)) \in Nat
  <2> TAKE i
  <2>1. upTo(i) \subseteq S
    OBVIOUS
  <2>2. IsFiniteSet(upTo(i))
    <3> HIDE DEF upTo
    <3> QED BY <1>1, <2>1, FS_Subset
  <2> HIDE DEF upTo
  <2> QED BY <2>2, FS_CardinalityType
<1>4. n \in T
  <2>1. upTo(n) = S
    BY <1>0
  <2> HIDE DEF upTo
  <2>2. k <= Cardinality(upTo(n)) /\ n \in 0..n
    BY <1>2, <2>1
  <2> QED BY <2>2
<1> PICK m \in T : \A y \in T : m <= y
  <2>1. T \in SUBSET Nat
    OBVIOUS
  <2> HIDE DEF T
  <2> QED BY <1>4, <2>1, LeastNat
<1>5. m \in 0..n /\ k <= Cardinality(upTo(m))
  OBVIOUS
<1>6. m # 0
  <2> SUFFICES ASSUME m = 0 PROVE FALSE
    OBVIOUS
  <2>0. \A j \in S : ~(j <= m)
    BY <1>0
  <2>1. upTo(m) = {}
    BY <2>0
  <2>2. Cardinality(upTo(m)) = 0
    BY <2>1, FS_EmptySet
  <2> HIDE DEF upTo
  <2> QED BY <1>2, <1>5, <2>2
<1>7. m - 1 \in 0..n /\ m - 1 \notin T
  <2>1. m - 1 \in 0..n /\ ~(m <= m - 1)
    BY <1>5, <1>6
  <2> HIDE DEF T
  <2> QED BY <2>1
<1>8. Cardinality(upTo(m - 1)) < k
  <2>1. ~(k <= Cardinality(upTo(m - 1)))
    BY <1>7
  <2> HIDE DEF upTo
  <2> QED BY <1>2, <1>3, <2>1
<1>9. m \in S
  <2> SUFFICES ASSUME m \notin S PROVE FALSE
    OBVIOUS
  <2>1. \A j \in S : j <= m <=> j <= m - 1
    <3> TAKE j \in S
    <3>1. j \in Int /\ j # m /\ m \in Int
      BY <1>0, <1>5
    <3> QED BY <3>1
  <2>2. upTo(m) = upTo(m - 1)
    BY <2>1
  <2> HIDE DEF upTo
  <2> QED BY <1>2, <1>3, <1>5, <1>8, <2>2
<1>10. Cardinality(upTo(m)) = Cardinality(upTo(m - 1)) + 1
  <2>1. \A j \in S : j <= m <=> j <= m - 1 \/ j = m
    <3> TAKE j \in S
    <3>1. j \in Int /\ m \in Int
      BY <1>0, <1>5
    <3> QED BY <3>1
  <2>2. upTo(m) = upTo(m - 1) \cup {m}
    BY <1>9, <2>1
  <2>3. m \notin upTo(m - 1)
    BY <1>5
  <2> HIDE DEF upTo
  <2> QED BY <1>3, <2>2, <2>3, FS_AddElement
<1>11. Cardinality(upTo(m)) = k
  <2> HIDE DEF upTo
  <2> QED BY <1>2, <1>3, <1>5, <1>8, <1>10
<1> QED BY <1>9, <1>11

(* The reset keeps visemes of the buffer, of the new utterance only.       *)
LEMMA WhatIsKept ==
    ASSUME NEW buf \in Seq(Visemes), NEW r
    PROVE  Kept(buf, r) \in Seq(Visemes) /\ \A v \in Among(Kept(buf, r)) : v \in Among(buf) /\ v.of = r
<1> DEFINE own == {i \in DOMAIN buf : BelongsTo(buf[i], r)}
           nth(k) == CHOOSE i \in own : Cardinality({j \in own : j <= i}) = k
           size == Cardinality(own)
<1>1. Len(buf) \in Nat /\ own \in SUBSET (1..Len(buf))
  OBVIOUS
<1>2. size \in Nat
  <2>1. IsFiniteSet(1..Len(buf))
    BY <1>1, FS_Interval
  <2> HIDE DEF own
  <2>2. IsFiniteSet(own)
    BY <1>1, <2>1, FS_Subset
  <2> QED BY <2>2, FS_CardinalityType
<1>3. \A k \in 1..size : nth(k) \in own
  <2> HIDE DEF own
  <2> TAKE k \in 1..size
  <2>1. \E i \in own : Cardinality({j \in own : j <= i}) = k
    BY <1>1, KthOfSet
  <2> QED BY <2>1
<1>4. Kept(buf, r) = [k \in 1..size |-> buf[nth(k)]]
  BY DEF Kept
<1>5. \A i \in own : i \in 1..Len(buf) /\ buf[i].of = r /\ buf[i] \in Visemes
  <2> TAKE i \in own
  <2>1. i \in 1..Len(buf) /\ buf[i].of = r
    BY DEF BelongsTo
  <2> QED BY <2>1, ElementOfSeq
<1> HIDE DEF own, nth, size
<1>6. Kept(buf, r) \in Seq(Visemes) /\ Len(Kept(buf, r)) = size
  BY <1>2, <1>3, <1>4, <1>5
<1>7. ASSUME NEW k \in 1..size
      PROVE  Kept(buf, r)[k] \in Among(buf) /\ Kept(buf, r)[k].of = r
  BY <1>3, <1>4, <1>5 DEF Among
<1> QED BY <1>6, <1>7 DEF Among
-----------------------------------------------------------------------------
(* The mouth. *)

(* How much of its audio utterance r has handed to pacat, the trailing     *)
(* silence included.                                                       *)
Played(r) == sent[r] + IF pc[r] = "done" THEN 1 ELSE 0

(* A viseme that came while its utterance was playing is still held back   *)
(* only as long as no other utterance has had its turn, and its clock is   *)
(* no further than its audio.                                              *)
InTune(v) ==
    /\ pc[v.of] \in Owning \cup {"done"}
    /\ playbackTs <= Played(v.of)
    /\ \A r \in Posts : Owns(r) => r = v.of

MouthStands ==
    /\ onTime \cup early \subseteq posted
    /\ Among(visemeBuffer) \subseteq posted
    /\ ~HasFace => visemeBuffer = <<>> /\ playbackTs = -1
    /\ \A r \in Posts : Owns(r) => playbackTs <= sent[r]
    /\ \A v \in Among(visemeBuffer) : v \in onTime => InTune(v)

MouthInv == PlayInv /\ NoEarlyMouth /\ MouthStands

LEMMA PlayGoesOn ==
    ASSUME PlayInv, NEW r \in Posts, PlayStep(r)
    PROVE  /\ \A q \in Posts : sent'[q] \in Nat /\ sent[q] \in Nat /\ sent'[q] >= sent[q]
           /\ \A q \in Posts : Played(q) \in Nat /\ Played(q)' \in Nat /\ Played(q)' >= Played(q)
           /\ \A q \in Posts : pc[q] \in Owning \cup {"done"} => pc'[q] \in Owning \cup {"done"}
           /\ \A q \in Posts : pc'[q] \in Owning => q = r
           /\ ~Owns(r) => Start(r) \/ StartFails(r)
<1> USE DEF PlayInv
<1>1. /\ pc \in [Posts -> {"idle", "queued", "reading", "writing", "silencing", "done"}]
      /\ sent \in [Posts -> 0..MaxChunks] /\ sent' \in [Posts -> 0..MaxChunks]
  BY PlayStepKeepsPlay DEF PlayTypeOK
<1>2. \A q \in Posts : sent[q] \in Nat /\ sent'[q] \in Nat
  BY <1>1, BoundsAreNat
<1>3. \A q \in Posts : q # r => ~Owns(q) /\ pc'[q] = pc[q]
  <2>1. Owns(r) \/ MyTurn(r)
    BY StepsOfTheOwner
  <2>2. \A q \in Posts : q # r => pc'[q] = pc[q]
    BY <1>1, StepsOfTheOwner
  <2> QED BY <2>1, <2>2, OneOwner
<1>4. sent' = sent \/ (sent' = [sent EXCEPT ![r] = @ + 1] /\ pc[r] = "writing" /\ pc'[r] = "reading")
  BY <1>1 DEF PlayStep, Start, StartFails, ReadChunk, WriteToDead, WriteDone, WriteFails, BodyEnds, SeeAbort, Finish
<1>5. \A q \in Posts : sent'[q] >= sent[q]
  BY <1>1, <1>2, <1>4
<1>6. pc'[r] \in Owning \cup {"done"} /\ pc[r] # "done" /\ (~Owns(r) => Start(r) \/ StartFails(r))
  BY <1>1 DEF PlayStep, Start, StartFails, ReadChunk, WriteToDead, WriteDone, WriteFails, BodyEnds, SeeAbort,
              Finish, LeaveLoop, MyTurn, Owns, Owning
<1>7. \A q \in Posts : Played(q) \in Nat /\ Played(q)' \in Nat /\ Played(q)' >= Played(q)
  BY <1>2, <1>3, <1>5, <1>6 DEF Played
<1>8. \A q \in Posts : pc[q] \in Owning \cup {"done"} => pc'[q] \in Owning \cup {"done"}
  BY <1>3, <1>6
<1>9. \A q \in Posts : pc'[q] \in Owning => q = r
  BY <1>3 DEF Owns
<1> QED BY <1>2, <1>5, <1>6, <1>7, <1>8, <1>9

(* What is released by a clock that has reached no more than the audio of  *)
(* the visemes that were on time is not early for them.                    *)
LEMMA ReleasesInTime ==
    ASSUME NEW buf \in Seq(Visemes), NEW ts \in Int, Release(buf, ts),
           early \cap onTime' = {}, early \subseteq posted', Among(buf) \subseteq posted',
           \A v \in Among(buf) : v \in onTime' => ts <= Reached(v.of),
           \A q \in Posts : Reached(q) \in Nat
    PROVE  /\ visemeBuffer' \in Seq(Visemes) /\ Among(visemeBuffer') \subseteq Among(buf)
           /\ early' \cap onTime' = {} /\ early' \subseteq posted'
<1> PICK out \in SUBSET Among(buf) :
      /\ early' = early \cup {v \in out : v.ts > Reached(v.of)}
      /\ \A v \in out : v.ts <= ts
  BY WhatIsReleased
<1>1. \A v \in Among(buf) : v \in Visemes
  BY ElementOfSeq DEF Among
<1>2. \A v \in Visemes : v.of \in Posts /\ v.ts \in Nat
  BY StampsAreNat DEF Visemes
<1>3. ASSUME NEW v \in out, v \in onTime' PROVE ~(v.ts > Reached(v.of))
  <2>1. v.ts <= ts /\ ts <= Reached(v.of)
    BY <1>3
  <2>2. v.ts \in Nat /\ Reached(v.of) \in Nat
    BY <1>1, <1>2
  <2> QED BY <2>1, <2>2
<1> QED BY <1>3, WhatIsReleased

(* A step of the playback that the renderer does not hear of.              *)
LEMMA QuietStepKeepsMouth ==
    ASSUME MouthInv, NEW r \in Posts, PlayStep(r), UNCHANGED rendererVars,
           avatarRenderer' = avatarRenderer, Start(r) => ~HasFace
    PROVE  MouthInv'
<1> USE DEF MouthInv
<1>1. PlayInv'
  BY PlayStepKeepsPlay
<1>2. UNCHANGED <<visemeBuffer, playbackTs, posted, onTime, early>>
  BY DEF rendererVars
<1>3. NoEarlyMouth'
  BY <1>1, <1>2 DEF NoEarlyMouth, LipTypeOK, PlayInv
<1>4. playbackTs \in Int
  BY DEF NoEarlyMouth, LipTypeOK
<1>5. \A q \in Posts : pc'[q] \in Owning => playbackTs <= sent'[q]
  <2> SUFFICES ASSUME pc'[r] \in Owning PROVE playbackTs <= sent'[r]
    BY PlayGoesOn
  <2>1. CASE Owns(r)
    <3>1. playbackTs <= sent[r]
      BY <2>1 DEF MouthStands
    <3> QED BY <1>4, <3>1, PlayGoesOn
  <2>2. CASE Start(r)
    BY <2>2, PlayGoesOn DEF MouthStands
  <2>3. CASE StartFails(r)
    BY <2>3 DEF StartFails, Owning, PlayInv, PlayTypeOK
  <2> QED BY <2>1, <2>2, <2>3, PlayGoesOn
<1>6. ASSUME NEW v \in Among(visemeBuffer), v \in onTime PROVE InTune(v)'
  <2>1. InTune(v)
    BY <1>6 DEF MouthStands
  <2>2. v.of \in Posts
    BY <1>6 DEF NoEarlyMouth, LipTypeOK, Visemes
  <2>3. playbackTs' <= Played(v.of)'
    BY <1>2, <1>4, <2>1, <2>2, PlayGoesOn DEF InTune
  <2>4. visemeBuffer # <<>>
    BY <1>6 DEF Among
  <2>5. ~Start(r)
    BY <2>4 DEF MouthStands
  <2>6. pc'[r] \in Owning => Owns(r)
    BY <2>5, PlayGoesOn DEF StartFails, Owning, PlayInv, PlayTypeOK
  <2>7. \A q \in Posts : pc'[q] \in Owning => q = v.of
    BY <2>1, <2>6, PlayGoesOn DEF InTune
  <2>8. pc'[v.of] \in Owning \cup {"done"}
    BY <2>1, <2>2, PlayGoesOn DEF InTune
  <2> QED BY <2>3, <2>7, <2>8 DEF InTune, Owns
<1>7. MouthStands'
  BY <1>2, <1>5, <1>6 DEF MouthStands, Owns, HasFace, Among
<1> QED BY <1>1, <1>3, <1>7

(* A POST that has its turn resets the renderer.                           *)
LEMMA ResetKeepsMouth ==
    ASSUME MouthInv, NEW r \in Posts, Start(r), HasFace, ResetRenderer(r),
           avatarRenderer' = avatarRenderer
    PROVE  MouthInv'
<1> USE DEF MouthInv
<1>0. PlayStep(r)
  BY DEF PlayStep
<1>1. PlayInv'
  BY <1>0, PlayStepKeepsPlay
<1>2. playbackTs' = -1 /\ visemeBuffer' = Kept(visemeBuffer, r) /\ UNCHANGED <<posted, onTime, early>>
  BY DEF ResetRenderer
<1>3. visemeBuffer \in Seq(Visemes)
  BY DEF NoEarlyMouth, LipTypeOK
<1>4. visemeBuffer' \in Seq(Visemes) /\ \A v \in Among(visemeBuffer') : v \in Among(visemeBuffer) /\ v.of = r
  <2>1. Kept(visemeBuffer, r) \in Seq(Visemes)
        /\ \A v \in Among(Kept(visemeBuffer, r)) : v \in Among(visemeBuffer) /\ v.of = r
    BY <1>3, WhatIsKept
  <2> QED BY <1>2, <2>1 DEF Among
<1>5. NoEarlyMouth'
  BY <1>1, <1>2, <1>4, BoundsAreNat DEF NoEarlyMouth, LipTypeOK, PlayInv
<1>6. \A q \in Posts : pc'[q] \in Owning => playbackTs' <= sent'[q]
  BY <1>0, <1>2, PlayGoesOn
<1>7. ASSUME NEW v \in Among(visemeBuffer'), v \in onTime PROVE FALSE
  <2>1. v.of = r /\ InTune(v)
    BY <1>4, <1>7 DEF MouthStands
  <2> QED BY <2>1 DEF InTune, Start, MyTurn, Owning
<1>8. MouthStands'
  <2>1. Among(visemeBuffer)' = Among(visemeBuffer')
    BY DEF Among
  <2>2. Among(visemeBuffer') \subseteq posted'
    BY <1>2, <1>4 DEF MouthStands
  <2> QED BY <1>2, <1>6, <1>7, <2>1, <2>2 DEF MouthStands, Owns, HasFace
<1> QED BY <1>1, <1>5, <1>8

(* A write that has landed tells the renderer how far the audio is.        *)
LEMMA TickKeepsMouth ==
    ASSUME MouthInv, NEW r \in Posts, HasFace, avatarRenderer' = avatarRenderer,
           WriteDone(r) \/ (Finish(r) /\ handle[r] \in alive),
           Notify(clock'[handle[r]])
    PROVE  MouthInv'
<1> USE DEF MouthInv
<1> DEFINE ts == clock'[handle[r]]
<1>0. PlayStep(r) /\ Owns(r) /\ ~Start(r)
  BY DEF PlayStep, WriteDone, Finish, Owns, Owning, Start, MyTurn
<1>1. PlayInv'
  BY <1>0, PlayStepKeepsPlay
<1>2. ts = sent[r] + 1 /\ Played(r)' = ts /\ ts \in Nat /\ ts \in -1..(MaxChunks + 1)
  <2>1. handle[r] \in Gens /\ clock[handle[r]] = sent[r] /\ clock \in [Gens -> Nat]
        /\ sent \in [Posts -> 0..MaxChunks] /\ pc \in [Posts -> {"idle", "queued", "reading", "writing", "silencing", "done"}]
    BY <1>0 DEF PlayInv, ClocksStand, PlayTypeOK
  <2>2. ts = sent[r] + 1
    BY <2>1 DEF WriteDone, Finish
  <2>3. Played(r)' = sent[r] + 1
    BY <2>1, BoundsAreNat DEF WriteDone, Finish, Played
  <2> QED BY <2>1, <2>2, <2>3, BoundsAreNat
<1>3. CASE UNCHANGED rendererVars
  BY <1>0, <1>3, QuietStepKeepsMouth
<1>4. CASE ts > playbackTs /\ playbackTs' = ts /\ Release(visemeBuffer, ts) /\ UNCHANGED <<posted, onTime>>
  <2>1. visemeBuffer \in Seq(Visemes) /\ early \cap onTime = {} /\ posted \subseteq Visemes /\ onTime \subseteq Visemes
    BY DEF NoEarlyMouth, LipTypeOK
  <2>2. \A v \in Among(visemeBuffer) : v \in onTime => v.of = r /\ InTune(v)
    BY <1>0 DEF MouthStands, InTune
  <2>3. \A q \in Posts : Reached(q) \in Nat
    BY <1>0, PlayGoesOn DEF Reached, Played
  <2>4. Reached(r) = ts
    BY <1>2 DEF Reached, Played
  <2>5. /\ visemeBuffer' \in Seq(Visemes) /\ Among(visemeBuffer') \subseteq Among(visemeBuffer)
        /\ early' \cap onTime' = {} /\ early' \subseteq posted'
    <3>1. \A v \in Among(visemeBuffer) : v \in onTime' => ts <= Reached(v.of)
      BY <1>2, <1>4, <2>2, <2>4
    <3>2. early \subseteq posted' /\ Among(visemeBuffer) \subseteq posted' /\ ts \in Int
      BY <1>2, <1>4 DEF MouthStands
    <3> HIDE DEF ts
    <3> QED BY <1>4, <2>1, <2>3, <3>1, <3>2, ReleasesInTime
  <2>6. NoEarlyMouth'
    BY <1>1, <1>2, <1>4, <2>1, <2>5 DEF NoEarlyMouth, LipTypeOK, PlayInv
  <2>7. \A q \in Posts : pc'[q] \in Owning => playbackTs' <= sent'[q]
    <3> SUFFICES ASSUME pc'[r] \in Owning PROVE ts <= sent'[r]
      BY <1>0, <1>4, PlayGoesOn
    <3>1. WriteDone(r)
      BY DEF Finish, Owning, PlayInv, PlayTypeOK
    <3> QED BY <1>2, <3>1 DEF WriteDone, PlayInv, PlayTypeOK
  <2>8. ASSUME NEW v \in Among(visemeBuffer'), v \in onTime' PROVE InTune(v)'
    <3>1. v.of = r /\ InTune(v)
      BY <1>4, <2>2, <2>5, <2>8
    <3>2. pc'[v.of] \in Owning \cup {"done"} /\ \A q \in Posts : pc'[q] \in Owning => q = v.of
      BY <1>0, <3>1, PlayGoesOn DEF InTune
    <3>3. playbackTs' <= Played(v.of)'
      BY <1>2, <1>4, <3>1
    <3> QED BY <3>2, <3>3 DEF InTune, Owns
  <2>9. MouthStands'
    <3>1. Among(visemeBuffer)' = Among(visemeBuffer')
      BY DEF Among
    <3>2. Among(visemeBuffer') \subseteq posted' /\ onTime' \cup early' \subseteq posted'
      BY <1>4, <2>5 DEF MouthStands
    <3> QED BY <2>7, <2>8, <3>1, <3>2 DEF MouthStands, Owns, HasFace
  <2> QED BY <1>1, <2>6, <2>9
<1>5. ts <= playbackTs \/ ts > playbackTs
  BY <1>2 DEF NoEarlyMouth, LipTypeOK
<1> QED BY <1>3, <1>4, <1>5 DEF Notify

LEMMA SpeakKeepsMouth ==
    ASSUME MouthInv, NEW r \in Posts, Speak(r)
    PROVE  MouthInv'
<1>1. avatarRenderer' = avatarRenderer
  BY DEF Speak, avatarVars, headVars
<1>2. CASE Start(r) /\ IF HasFace THEN ResetRenderer(r) ELSE UNCHANGED rendererVars
  BY <1>1, <1>2, ResetKeepsMouth, QuietStepKeepsMouth DEF PlayStep
<1>3. CASE WriteDone(r) /\ IF HasFace THEN Notify(clock'[handle[r]]) ELSE UNCHANGED rendererVars
  BY <1>1, <1>3, TickKeepsMouth, QuietStepKeepsMouth DEF PlayStep
<1>4. CASE Finish(r) /\ IF HasFace /\ handle[r] \in alive THEN Notify(clock'[handle[r]]) ELSE UNCHANGED rendererVars
  <2>1. ~Start(r) /\ PlayStep(r)
    BY <1>4 DEF Finish, Start, MyTurn, PlayStep
  <2> QED BY <1>1, <1>4, <2>1, TickKeepsMouth, QuietStepKeepsMouth
<1>5. CASE /\ \/ StartFails(r) \/ ReadChunk(r) \/ WriteToDead(r) \/ WriteFails(r)
              \/ BodyEnds(r) \/ SeeAbort(r)
           /\ UNCHANGED rendererVars
  <2>1. ~Start(r)
    BY <1>5, NoneIsNoPost DEF StartFails, ReadChunk, WriteToDead, WriteFails, BodyEnds, SeeAbort, LeaveLoop, Start, MyTurn,
       MouthInv, PlayInv, PlayTypeOK
  <2>2. PlayStep(r)
    BY <1>5 DEF PlayStep
  <2> QED BY <1>1, <1>5, <2>1, <2>2, QuietStepKeepsMouth
<1> QED BY <1>2, <1>3, <1>4, <1>5 DEF Speak

(* Steps that leave the owner of pacat and the renderer alone.             *)
LEMMA OthersKeepMouth ==
    ASSUME MouthInv, PlayInv', UNCHANGED <<rendererVars, sent>>, avatarRenderer' = avatarRenderer,
           \A q \in Posts : /\ pc'[q] \in Owning <=> pc[q] \in Owning
                            /\ pc'[q] = "done" <=> pc[q] = "done"
    PROVE  MouthInv'
<1> USE DEF MouthInv
<1>1. UNCHANGED <<visemeBuffer, playbackTs, posted, onTime, early>>
  BY DEF rendererVars
<1>2. NoEarlyMouth'
  BY <1>1 DEF NoEarlyMouth, LipTypeOK, PlayInv
<1>3. ASSUME NEW v \in Among(visemeBuffer), v \in onTime PROVE InTune(v)'
  <2>1. InTune(v) /\ v.of \in Posts
    BY <1>3 DEF MouthStands, NoEarlyMouth, LipTypeOK, Visemes
  <2>2. Played(v.of)' = Played(v.of)
    BY <2>1 DEF Played
  <2>3. pc'[v.of] \in Owning \cup {"done"}
    BY <2>1 DEF InTune
  <2>4. \A q \in Posts : pc'[q] \in Owning => q = v.of
    BY <2>1 DEF InTune, Owns
  <2> QED BY <1>1, <2>1, <2>2, <2>3, <2>4 DEF InTune, Owns
<1>4. MouthStands'
  BY <1>1, <1>3 DEF MouthStands, Owns, HasFace, Among
<1> QED BY <1>2, <1>4

LEMMA ArriveKeepsMouth ==
    ASSUME MouthInv, PostArrives
    PROVE  MouthInv'
<1> PICK r \in Posts, s \in StreamIds : Arrive(r, s)
  BY DEF PostArrives
<1>1. PlayInv'
  BY ArriveKeepsPlay DEF MouthInv
<1>2. pc[r] = "idle" /\ pc' = [pc EXCEPT ![r] = "queued"] /\ sent' = sent
  BY DEF Arrive
<1>3. pc \in [Posts -> {"idle", "queued", "reading", "writing", "silencing", "done"}]
  BY DEF MouthInv, PlayInv, PlayTypeOK
<1>4. \A q \in Posts : (pc'[q] \in Owning <=> pc[q] \in Owning) /\ (pc'[q] = "done" <=> pc[q] = "done")
  BY <1>2, <1>3 DEF Owning
<1>5. UNCHANGED rendererVars /\ avatarRenderer' = avatarRenderer
  BY DEF PostArrives, avatarVars, headVars
<1> QED BY <1>1, <1>2, <1>4, <1>5, OthersKeepMouth

LEMMA CancelKeepsMouth ==
    ASSUME MouthInv, OthersOfAudio
    PROVE  MouthInv'
<1>1. PlayInv'
  BY OthersKeepPlay DEF MouthInv, OthersOfAudio
<1>2. pc' = pc /\ sent' = sent
  BY DEF OthersOfAudio, PacatExits, Delete
<1>3. UNCHANGED rendererVars /\ avatarRenderer' = avatarRenderer
  BY DEF OthersOfAudio, avatarVars, headVars
<1> QED BY <1>1, <1>2, <1>3, OthersKeepMouth

(* A viseme of a registered utterance finds the clock at most where its    *)
(* own audio is, and so does what is released with it.                     *)
LEMMA VisemeKeepsMouth ==
    ASSUME MouthInv, NEW v \in Visemes, VisemePosted(v)
    PROVE  MouthInv'
<1> USE DEF MouthInv
<1>1. avatarRenderer' = avatarRenderer /\ UNCHANGED playVars /\ v \notin posted /\ posted' = posted \cup {v}
      /\ playbackTs' = playbackTs
  BY DEF VisemePosted, VisemeArrives, avatarVars, headVars
<1>2. PlayInv'
  BY <1>1, PlayStutters
<1>3. /\ visemeBuffer \in Seq(Visemes) /\ playbackTs \in Int /\ playbackTs \in -1..(MaxChunks + 1)
      /\ posted \subseteq Visemes /\ onTime \subseteq Visemes /\ early \subseteq Visemes /\ onTime \cap early = {}
  BY DEF NoEarlyMouth, LipTypeOK
<1>4. v.of \in Posts
  BY DEF Visemes
<1>5. UNCHANGED <<pc, sent, active>>
  BY <1>1 DEF playVars
<1>6. /\ \A q \in Posts : Owns(q) => playbackTs <= sent[q]
      /\ \A q \in Posts : Played(q)' = Played(q) /\ Reached(q) = Played(q) /\ Played(q) \in Nat
  <2>1. \A q \in Posts : sent[q] \in Nat
    BY BoundsAreNat DEF PlayInv, PlayTypeOK
  <2> QED BY <1>5, <2>1 DEF MouthStands, Played, Reached
<1>7. CASE ~HasFace
  <2>1. UNCHANGED <<visemeBuffer, onTime, early>>
    BY <1>7 DEF VisemePosted
  <2>2. NoEarlyMouth'
    BY <1>1, <1>2, <1>3, <2>1 DEF NoEarlyMouth, LipTypeOK, PlayInv
  <2>3. \A w : InTune(w)' <=> InTune(w)
    BY <1>1, <1>5 DEF InTune, Owns, Played
  <2>4. MouthStands'
    BY <1>1, <1>5, <2>1, <2>3 DEF MouthStands, Owns, HasFace, Among
  <2> QED BY <1>2, <2>2, <2>4
<1>8. CASE HasFace
  <2> DEFINE buf == Append(visemeBuffer, v)
  <2>1. /\ Release(buf, playbackTs) /\ playbackTs' = playbackTs
        /\ onTime' = IF v.of \in Registered THEN onTime \cup {v} ELSE onTime
    BY <1>8 DEF VisemePosted, VisemeArrives
  <2>2. buf \in Seq(Visemes) /\ Among(buf) = Among(visemeBuffer) \cup {v}
    <3>1. Len(buf) = Len(visemeBuffer) + 1 /\ buf[Len(visemeBuffer) + 1] = v
          /\ \A i \in 1..Len(visemeBuffer) : buf[i] = visemeBuffer[i]
      BY <1>3
    <3>2. Len(visemeBuffer) \in Nat
      BY <1>3
    <3>3. \A i : i \in 1..Len(buf) <=> i \in 1..Len(visemeBuffer) \/ i = Len(visemeBuffer) + 1
      BY <3>1, <3>2
    <3>4. buf \in Seq(Visemes)
      BY <1>3
    <3> HIDE DEF buf
    <3>5. Among(buf) \subseteq Among(visemeBuffer) \cup {v}
      BY <3>1, <3>3 DEF Among
    <3>6. Among(visemeBuffer) \cup {v} \subseteq Among(buf)
      BY <3>1, <3>3 DEF Among
    <3> QED BY <3>4, <3>5, <3>6
  <2>3. v.of \in Registered => InTune(v)
    <3> SUFFICES ASSUME v.of \in Registered PROVE InTune(v)
      OBVIOUS
    <3>1. pc[v.of] \in {"reading", "writing"}
      BY DEF Registered, PlayInv, RegisteredStand
    <3>2. Owns(v.of) /\ Played(v.of) = sent[v.of]
      BY <1>4, <3>1 DEF Owns, Owning, Played, PlayInv, PlayTypeOK
    <3>3. \A q \in Posts : Owns(q) => q = v.of
      BY <1>4, <3>2, OneOwner DEF PlayInv
    <3>4. playbackTs <= Played(v.of)
      BY <1>4, <1>6, <3>2
    <3> QED BY <3>1, <3>3, <3>4 DEF InTune, Owning
  <2>4. \A w \in Among(buf) : w \in onTime' => InTune(w)
    <3> TAKE w \in Among(buf)
    <3>1. w \in Among(visemeBuffer) => w # v
      BY <1>1 DEF MouthStands
    <3>2. v \notin onTime
      BY <1>1 DEF MouthStands
    <3> HIDE DEF buf
    <3> QED BY <2>1, <2>2, <2>3, <3>1, <3>2 DEF MouthStands
  <2>5. \A w \in Among(buf) : w \in onTime' => playbackTs <= Reached(w.of)
    <3> TAKE w \in Among(buf)
    <3> HIDE DEF buf
    <3>0. w \in Visemes
      BY <2>2, ElementOfSeq DEF Among
    <3>1. w.of \in Posts
      BY <3>0 DEF Visemes
    <3> QED BY <1>6, <2>4, <3>1 DEF InTune
  <2>6. early \cap onTime' = {} /\ early \subseteq posted' /\ Among(buf) \subseteq posted' /\ onTime' \subseteq posted'
    <3> HIDE DEF buf
    <3>1. v \notin early
      BY <1>1 DEF MouthStands
    <3> QED BY <1>1, <1>3, <2>1, <2>2, <3>1 DEF MouthStands
  <2> HIDE DEF buf
  <2>7. /\ visemeBuffer' \in Seq(Visemes) /\ Among(visemeBuffer') \subseteq Among(buf)
        /\ early' \cap onTime' = {} /\ early' \subseteq posted'
    BY <1>3, <1>6, <2>1, <2>2, <2>5, <2>6, ReleasesInTime
  <2>8. posted' \subseteq Visemes
    BY <1>1, <1>3
  <2>9. NoEarlyMouth'
    BY <1>1, <1>2, <1>3, <2>6, <2>7, <2>8 DEF NoEarlyMouth, LipTypeOK, PlayInv
  <2>10. \A w \in Among(visemeBuffer') : w \in onTime' => InTune(w)'
    <3> TAKE w \in Among(visemeBuffer')
    <3>1. w \in onTime' => InTune(w)
      BY <2>4, <2>7
    <3> QED BY <1>1, <1>5, <3>1 DEF InTune, Owns, Played
  <2>11. MouthStands'
    <3>1. Among(visemeBuffer)' = Among(visemeBuffer')
      BY DEF Among
    <3>2. Among(visemeBuffer') \subseteq posted' /\ onTime' \cup early' \subseteq posted'
      BY <2>6, <2>7
    <3>3. \A q \in Posts : Owns(q)' => playbackTs' <= sent'[q]
      BY <1>1, <1>5, <1>6 DEF Owns
    <3>4. HasFace'
      BY <1>1, <1>8 DEF HasFace
    <3> QED BY <2>10, <3>1, <3>2, <3>3, <3>4 DEF MouthStands
  <2> QED BY <1>2, <2>9, <2>11
<1> QED BY <1>7, <1>8

(* A renderer that comes or goes has nothing to say yet.                   *)
LEMMA NewFaceKeepsMouth ==
    ASSUME MouthInv, NewFace
    PROVE  MouthInv'
<1> USE DEF MouthInv
<1>1. /\ visemeBuffer' = <<>> /\ playbackTs' = -1 /\ UNCHANGED playVars
      /\ UNCHANGED <<posted, onTime, early>>
  BY DEF NewFace
<1>2. PlayInv'
  BY <1>1, PlayStutters
<1>3. NoEarlyMouth'
  BY <1>1, <1>2, BoundsAreNat DEF NoEarlyMouth, LipTypeOK, PlayInv
<1>4. Among(visemeBuffer)' = {}
  BY <1>1 DEF Among
<1>5. \A q \in Posts : Owns(q)' => playbackTs' <= sent'[q]
  <2>1. \A q \in Posts : sent'[q] \in Nat
    BY <1>2, BoundsAreNat DEF PlayInv, PlayTypeOK
  <2> QED BY <1>1, <2>1
<1>6. MouthStands'
  BY <1>1, <1>4, <1>5 DEF MouthStands
<1> QED BY <1>2, <1>3, <1>6

LEMMA SilentStepKeepsMouth ==
    ASSUME MouthInv, UNCHANGED lipVars, avatarRenderer' = avatarRenderer
    PROVE  MouthInv'
<1>1. PlayInv' /\ UNCHANGED <<pc, sent, rendererVars>>
  BY PlayStutters DEF MouthInv, lipVars, playVars
<1> QED BY <1>1, OthersKeepMouth

LEMMA MediaStepKeepsMouth ==
    ASSUME MouthInv, [MediaNext]_mediaVars
    PROVE  MouthInv'
<1>1. ASSUME NEW c \in Calls, CallArrives(c) \/ FaceChanges(c) \/ (CallStep(c) /\ UNCHANGED lipVars)
      PROVE  MouthInv'
  <2>1. CASE CallArrives(c)
    BY <2>1, SilentStepKeepsMouth DEF CallArrives, CallsAvatar
  <2>2. CASE FaceChanges(c)
    BY <2>2, NewFaceKeepsMouth DEF FaceChanges
  <2>3. CASE CallStep(c) /\ UNCHANGED lipVars
    <3>1. avatarRenderer' = avatarRenderer
      BY <2>3 DEF CallStep, EnableWithout, EnableStarts, EnableRefused, EnableOpens, OpenFails, EnableEnds,
         DisableOfNothing, DisableCloses, DeviceClosed
    <3> QED BY <2>3, <3>1, SilentStepKeepsMouth
  <2> QED BY <1>1, <2>1, <2>2, <2>3
<1>2. ASSUME NEW s \in Starts,
             ((Started(s) \/ AckTimeout(s) \/ TabStep(s)) /\ UNCHANGED lipVars) \/ Frames(s)
      PROVE  MouthInv'
  <2>1. avatarRenderer' = avatarRenderer /\ UNCHANGED lipVars
    BY <1>2 DEF Started, AckTimeout, TabStep, Frames, FrameArrives, FrameDone, headVars
  <2> QED BY <2>1, SilentStepKeepsMouth
<1>3. CASE UNCHANGED mediaVars
  BY <1>3, SilentStepKeepsMouth DEF mediaVars, avatarVars, headVars
<1> QED BY <1>1, <1>2, <1>3, ArriveKeepsMouth, CancelKeepsMouth, SpeakKeepsMouth, VisemeKeepsMouth DEF MediaNext

LEMMA MouthBegins == MediaInit => MouthInv
<1> SUFFICES ASSUME MediaInit PROVE MouthInv
  OBVIOUS
<1>1. PlayInv /\ visemeBuffer = <<>> /\ playbackTs = -1 /\ posted = {} /\ onTime = {} /\ early = {}
  BY PlayBegins DEF MediaInit, LipInit
<1>2. NoEarlyMouth
  BY <1>1, BoundsAreNat DEF NoEarlyMouth, LipTypeOK, PlayInv
<1>3. MouthStands
  <2>1. Among(visemeBuffer) = {}
    BY <1>1 DEF Among
  <2>2. \A r \in Posts : ~Owns(r)
    BY DEF MediaInit, LipInit, PlayInit, Owns, Owning
  <2> QED BY <1>1, <2>1, <2>2 DEF MouthStands
<1> QED BY <1>1, <1>2, <1>3 DEF MouthInv

(* Utterances are kept apart, in the pipe and by the mouth: for any number *)
(* of requests, chunks, visemes and calls, SoundAndMouthAgree.             *)
THEOREM SoundAndMouthStayAgreed == MediaSpec => []SoundAndMouthAgree
<1>1. MouthInv => SoundAndMouthAgree
  <2>1. VerdictsStand => SuccessMeansNotCancelled
    BY DEF VerdictsStand, SuccessMeansNotCancelled
  <2> QED BY <2>1 DEF MouthInv, PlayInv, SoundAndMouthAgree, UtterancesAreKeptApart
<1>2. MouthInv /\ [MediaNext]_mediaVars => MouthInv'
  BY MediaStepKeepsMouth
<1> QED BY <1>1, <1>2, MouthBegins, PTL DEF MediaSpec

(* A preempted stream hands no further chunk to pacat, for any number of   *)
(* requests: PreemptedFallsSilent.                                         *)
THEOREM PreemptedStaySilent == MediaSpec => PreemptedFallsSilent
<1> DEFINE Silent == \A r \in preempted :
                         Len(sink') > Len(sink) => sink'[Len(sink')] # [by |-> r, what |-> "audio"]
<1>1. ASSUME PlayInv, NEW r \in Posts, PlayStep(r) PROVE Silent
  <2>1. sink \in Seq([by : Posts, what : Kinds]) /\ preempted \subseteq aborted
    BY <1>1 DEF PlayInv, PlayTypeOK, VerdictsStand
  <2>2. Len(sink) \in Nat
    BY <2>1
  <2>3. CASE sink' = sink
    BY <2>2, <2>3
  <2>4. ASSUME NEW what \in Kinds, sink' = Append(sink, [by |-> r, what |-> what]),
               what = "audio" => r \notin aborted
        PROVE  Silent
    <3>1. sink'[Len(sink')] = [by |-> r, what |-> what]
      <4>1. [by |-> r, what |-> what] \in [by : Posts, what : Kinds]
        OBVIOUS
      <4> QED BY <2>1, <2>4, <4>1, AppendProperties
    <3> QED BY <2>1, <2>4, <3>1
  <2>5. CASE ReadChunk(r)
    BY <2>4, <2>5 DEF ReadChunk, Kinds
  <2>6. CASE Leaves(r)
    <3> PICK how \in {"ok", "error", "dropped", "cancelled"} : LeaveLoop(r, how)
      BY <2>6 DEF Leaves, WriteToDead, WriteFails, BodyEnds, SeeAbort
    <3>1. sink' = sink \/ sink' = Append(sink, [by |-> r, what |-> "silence"])
      BY DEF LeaveLoop
    <3> QED BY <2>3, <2>4, <3>1 DEF Kinds
  <2>7. CASE Start(r) \/ WriteDone(r) \/ Finish(r) \/ StartFails(r)
    BY <2>3, <2>7 DEF Start, WriteDone, Finish, StartFails
  <2> QED BY <1>1, <2>5, <2>6, <2>7 DEF PlayStep, Leaves
<1>2. ASSUME PlayInv, sink' = sink PROVE Silent
  BY <1>2 DEF PlayInv, PlayTypeOK
<1>3. ASSUME MouthInv, [MediaNext]_mediaVars PROVE Silent
  <2>1. PlayInv
    BY <1>3 DEF MouthInv
  <2>2. ASSUME NEW r \in Posts, Speak(r) PROVE Silent
    BY <1>1, <2>1, <2>2 DEF Speak, PlayStep
  <2>3. CASE PostArrives \/ OthersOfAudio
    BY <1>2, <2>1, <2>3 DEF PostArrives, OthersOfAudio, Arrive, PacatExits, Delete
  <2>4. ASSUME NEW v \in Visemes, VisemePosted(v) PROVE Silent
    BY <1>2, <2>1, <2>4 DEF VisemePosted, VisemeArrives, playVars
  <2>5. CASE UNCHANGED lipVars
    BY <1>2, <2>1, <2>5 DEF lipVars, playVars
  <2>6. ASSUME NEW c \in Calls, CallArrives(c) \/ FaceChanges(c) \/ (CallStep(c) /\ UNCHANGED lipVars)
        PROVE  Silent
    BY <1>2, <2>1, <2>5, <2>6 DEF CallArrives, FaceChanges, NewFace, playVars
  <2>7. ASSUME NEW s \in Starts,
               ((Started(s) \/ AckTimeout(s) \/ TabStep(s)) /\ UNCHANGED lipVars) \/ Frames(s)
        PROVE  Silent
    BY <2>5, <2>7 DEF Frames
  <2> QED BY <1>3, <2>2, <2>3, <2>4, <2>5, <2>6, <2>7 DEF MediaNext, mediaVars
<1>4. MouthInv /\ [MediaNext]_mediaVars =>
         [\A r \in preempted :
            Len(sink') > Len(sink) => sink'[Len(sink')] # [by |-> r, what |-> "audio"]]_playVars
  BY <1>3
<1> HIDE DEF Silent
<1>5. MouthInv /\ [MediaNext]_mediaVars => MouthInv'
  BY MediaStepKeepsMouth
<1> QED BY <1>4, <1>5, MouthBegins, PTL DEF MediaSpec, PreemptedFallsSilent
-----------------------------------------------------------------------------
(* The face. *)

(* A start waits in the link.                                              *)
Sent(s) == \E i \in 1..Len(commands) : commands[i] = s

(* The chain holds each call once, all but its head queued; a call without *)
(* its turn has made no renderer.                                          *)
CallsStand ==
    /\ \A i, j \in 1..Len(avatarChain) : avatarChain[i] = avatarChain[j] => i = j
    /\ \A i \in 1..Len(avatarChain) : call[avatarChain[i]] \notin {"idle", "answered"}
    /\ \A i \in 2..Len(avatarChain) : call[avatarChain[i]] = "queued"
    /\ \A c \in Starts : call[c] \in {"idle", "queued"} => renderer[c] = "none"

(* Each start is sent once, and is in the link, with its handler or over.  *)
OnceSent ==
    /\ \A i, j \in 1..Len(commands) : commands[i] \in Starts /\ commands[i] = commands[j] => i = j
    /\ \A s \in Starts :
         /\ renderer[s] = "none" => ~Sent(s) /\ handler[s] = "idle" /\ tab[s] = "none" /\ avatarTab # s
         /\ Sent(s) => handler[s] = "idle"
         /\ Sent(s) \/ handler[s] # "idle" => tab[s] = "none" /\ avatarTab # s

(* Without a mishap one handler runs at a time, the tab that is up is the  *)
(* one the worker knows, and a renderer has started on its own page only.  *)
TabsStand ==
    /\ Up = {avatarTab} \ {NoTab}
    /\ \A s, t \in Starts : handler[s] # "idle" /\ handler[t] # "idle" => s = t
    /\ Overlaps => avatarTab = NoTab
    /\ \A s \in Starts : renderer[s] = "started" => ~Sent(s) /\ handler[s] = "idle"

(* The tab the extension will show when it comes to rest.                  *)
Aims(t) ==
    \/ commands # <<>> /\ commands[Len(commands)] = t
    \/ commands = <<>> /\ t \in Starts /\ handler[t] # "idle"
    \/ commands = <<>> /\ ~Overlaps /\ avatarTab = t

(* Where the call at the head of the chain stands, and what there is by    *)
(* then of renderer, writer and tab.                                       *)
AtRest ==
    /\ avatarChain = <<>> \/ call[Head(avatarChain)] = "queued"
    /\ Waiting = {} /\ Running = {avatarRenderer} \ {NoTab} /\ writer = avatarRenderer
    /\ ~mishap => Aims(avatarRenderer)
StartingUp(h) ==
    /\ call[h] = "starting" /\ h \in Starts /\ avatarRenderer = NoTab /\ writer = NoTab
    /\ Waiting \cup Running \subseteq {h} /\ renderer[h] \in {"waiting", "started", "refused"}
    /\ ~mishap => Aims(h) \/ (Aims(NoTab) /\ commands = <<>> /\ renderer[h] # "started")
Opening(h) ==
    /\ call[h] = "opening" /\ h \in Starts /\ avatarRenderer = NoTab /\ writer = NoTab
    /\ Waiting = {} /\ Running = {h}
    /\ ~mishap => Aims(h)
Attached(h) ==
    /\ call[h] = "camera" /\ h \in Starts /\ avatarRenderer = h /\ writer = h
    /\ Waiting = {} /\ Running = {h}
    /\ ~mishap => Aims(h)
Detaching(h) ==
    /\ call[h] = "camera" /\ h \in Disables /\ avatarRenderer = NoTab
    /\ Waiting = {} /\ Running = {writer} \ {NoTab}
    /\ ~mishap => Aims(writer)
ClosingDown(h) ==
    /\ call[h] = "closing" /\ h \in Disables /\ avatarRenderer = NoTab /\ writer = NoTab
    /\ Waiting = {} /\ \E w \in Starts : Running = {w} /\ (~mishap => Aims(w))
UnderWay(h) == StartingUp(h) \/ Opening(h) \/ Attached(h) \/ Detaching(h) \/ ClosingDown(h)
RouteStands == AtRest \/ \E h \in Calls : Turn(h) /\ UnderWay(h)

FaceInv ==
    /\ HeadTypeOK /\ ~lateWrite /\ (writer # NoTab => device = "open")
    /\ CallsStand /\ OnceSent /\ RouteStands
    /\ ~mishap => TabsStand
-----------------------------------------------------------------------------
(* The extension. *)

Named == Starts \cup {NoTab}

LEMMA CommandTaken ==
    ASSUME TabTypeOK, NEW c, Command(c), commands' = Tail(commands)
    PROVE  /\ commands' \in Seq(Named) /\ Len(commands) \in Nat /\ Len(commands) >= 1
           /\ Len(commands') = Len(commands) - 1 /\ commands[1] = c
           /\ \A i \in 1..Len(commands') : i + 1 \in 1..Len(commands) /\ commands'[i] = commands[i + 1]
           /\ \A s : Sent(s)' => Sent(s)
           /\ commands' # <<>> => commands'[Len(commands')] = commands[Len(commands)]
           /\ commands' = <<>> => commands[Len(commands)] = c
<1>1. commands \in Seq(Named) /\ commands # <<>> /\ Head(commands) = c /\ Len(commands) \in Nat
  BY DEF TabTypeOK, Command, Named, AvatarStop
<1>2. /\ commands' \in Seq(Named) /\ Len(commands) >= 1
      /\ Len(commands') = Len(commands) - 1 /\ commands[1] = c
      /\ \A i \in 1..Len(commands') : i + 1 \in 1..Len(commands) /\ commands'[i] = commands[i + 1]
  BY <1>1
<1>3. \A s : Sent(s)' => Sent(s)
  BY <1>2 DEF Sent
<1>4. commands' # <<>> => commands'[Len(commands')] = commands[Len(commands)]
  BY <1>1, <1>2
<1>5. commands' = <<>> => commands[Len(commands)] = c
  BY <1>1, <1>2
<1> QED BY <1>1, <1>2, <1>3, <1>4, <1>5

(* A start that is taken from the link was there once.                     *)
LEMMA TakenOnce ==
    ASSUME TabTypeOK, OnceSent, NEW s \in Starts, Command(s), commands' = Tail(commands)
    PROVE  Sent(s) /\ ~Sent(s)'
<1>1. 1 \in 1..Len(commands) /\ commands[1] = s
  BY CommandTaken
<1>2. Sent(s)
  BY <1>1 DEF Sent
<1>3. ASSUME NEW i \in 1..Len(commands'), commands'[i] = s PROVE FALSE
  <2>1. i + 1 \in 1..Len(commands) /\ commands[i + 1] = s
    BY <1>3, CommandTaken
  <2>2. i + 1 = 1
    BY <1>1, <2>1 DEF OnceSent
  <2> QED BY <2>2
<1> QED BY <1>2, <1>3 DEF Sent

LEMMA OrderKept ==
    ASSUME TabTypeOK, OnceSent, NEW c, Command(c), commands' = Tail(commands)
    PROVE  \A i, j \in 1..Len(commands') : commands'[i] \in Starts /\ commands'[i] = commands'[j] => i = j
<1> TAKE i, j \in 1..Len(commands')
<1> SUFFICES ASSUME commands'[i] \in Starts, commands'[i] = commands'[j] PROVE i = j
  OBVIOUS
<1>1. /\ i + 1 \in 1..Len(commands) /\ commands'[i] = commands[i + 1]
      /\ j + 1 \in 1..Len(commands) /\ commands'[j] = commands[j + 1]
  BY CommandTaken
<1>2. i + 1 = j + 1
  BY <1>1 DEF OnceSent
<1> QED BY <1>2

AimKept == \A t \in Named : Aims(t) =>
    Aims(t)' \/ (Aims(NoTab)' /\ commands' = <<>> /\ t \in Starts /\ handler[t] # "idle")

(* What a step of the extension leaves true: each start is still in one    *)
(* place, and what the extension aims at changes only if Chrome fails.     *)
ExtensionGoesOn == TabTypeOK' /\ OnceSent' /\ (~mishap' => ~mishap /\ TabsStand' /\ AimKept)

LEMMA StartHandled ==
    ASSUME TabTypeOK, OnceSent, ~mishap => TabsStand, renderer' = renderer, NEW s \in Starts, HandleStart(s)
    PROVE  ExtensionGoesOn
<1> DEFINE at == IF avatarTab = NoTab THEN "creating" ELSE "closing"
<1>1. /\ Command(s) /\ commands' = Tail(commands) /\ handler' = [handler EXCEPT ![s] = at]
      /\ avatarTab' = NoTab /\ mishap' = (mishap \/ Overlaps)
      /\ tab' = IF avatarTab = NoTab THEN tab ELSE [tab EXCEPT ![avatarTab] = "closing"]
  BY DEF HandleStart, CloseTab
<1>2. /\ handler \in [Starts -> {"idle", "closing", "creating"}]
      /\ tab \in [Starts -> {"none", "loading", "live", "closing"}]
      /\ avatarTab \in Starts \cup {NoTab} /\ mishap \in BOOLEAN
  BY DEF TabTypeOK
<1>3. handler'[s] # "idle" /\ \A t \in Starts : t # s => handler'[t] = handler[t]
  BY <1>1, <1>2
<1>4. \A t \in Starts : tab'[t] = (IF t = avatarTab THEN "closing" ELSE tab[t])
  BY <1>1, <1>2, TabConstants
<1>5. TabTypeOK'
  <2>1. handler' \in [Starts -> {"idle", "closing", "creating"}]
    BY <1>1, <1>2
  <2>2. tab' \in [Starts -> {"none", "loading", "live", "closing"}]
    BY <1>1, <1>2
  <2>3. mishap' \in BOOLEAN
    BY <1>1, <1>2 DEF Overlaps
  <2>4. commands' \in Seq(Starts \cup {AvatarStop})
    BY <1>1, CommandTaken DEF Named, AvatarStop
  <2> QED BY <1>1, <2>1, <2>2, <2>3, <2>4 DEF TabTypeOK
<1>6. Sent(s) /\ ~Sent(s)' /\ \A t \in Starts : Sent(t)' => Sent(t)
  BY <1>1, TakenOnce, CommandTaken
<1>7. OnceSent'
  <2>1. \A i, j \in 1..Len(commands') : commands'[i] \in Starts /\ commands'[i] = commands'[j] => i = j
    BY <1>1, OrderKept
  <2>2. ASSUME NEW t \in Starts
        PROVE  /\ renderer[t] = "none" =>
                    ~Sent(t)' /\ handler'[t] = "idle" /\ tab'[t] = "none" /\ avatarTab' # t
               /\ Sent(t)' => handler'[t] = "idle"
               /\ Sent(t)' \/ handler'[t] # "idle" => tab'[t] = "none" /\ avatarTab' # t
    <3>1. CASE t = s
      <4>1. tab[s] = "none" /\ avatarTab # s /\ renderer[s] # "none"
        BY <1>6 DEF OnceSent
      <4>2. tab'[s] = "none"
        BY <1>4, <4>1
      <4> QED BY <1>1, <1>3, <1>6, <3>1, <4>1, <4>2, TabConstants
    <3>2. CASE t # s /\ t # avatarTab
      BY <1>1, <1>3, <1>4, <1>6, <3>2, TabConstants DEF OnceSent
    <3>3. CASE t # s /\ t = avatarTab
      BY <1>3, <1>4, <1>6, <3>3 DEF OnceSent
    <3> QED BY <3>1, <3>2, <3>3
  <2> QED BY <2>1, <2>2 DEF OnceSent
<1>8. ASSUME ~mishap' PROVE ~mishap /\ TabsStand' /\ AimKept
  <2>1. ~mishap /\ ~Overlaps /\ TabsStand
    BY <1>1, <1>8
  <2>2. \A t \in Starts : handler[t] = "idle"
    BY <2>1 DEF Overlaps
  <2>3. Up' = {}
    <3>1. \A t \in Starts : tab[t] \in {"loading", "live"} => t = avatarTab
      BY <2>1 DEF TabsStand, Up
    <3> QED BY <1>4, <3>1 DEF Up
  <2>4. \A t, u \in Starts : handler'[t] # "idle" /\ handler'[u] # "idle" => t = u
    BY <1>3, <2>2
  <2>5. \A t \in Starts : renderer'[t] = "started" => ~Sent(t)' /\ handler'[t] = "idle"
    BY <1>3, <1>6, <2>1 DEF TabsStand
  <2>6. TabsStand'
    BY <1>1, <2>3, <2>4, <2>5 DEF TabsStand
  <2>7. AimKept
    <3> SUFFICES ASSUME NEW t \in Named, Aims(t) PROVE Aims(t)'
      BY DEF AimKept
    <3>1. commands[Len(commands)] = t
      BY <1>1 DEF Aims, Command
    <3>2. commands' = <<>> => t = s
      BY <1>1, <3>1, CommandTaken
    <3> QED BY <1>1, <1>3, <3>1, <3>2, CommandTaken DEF Aims
  <2> QED BY <2>1, <2>6, <2>7
<1> QED BY <1>5, <1>7, <1>8 DEF ExtensionGoesOn

LEMMA StopHandled ==
    ASSUME TabTypeOK, OnceSent, ~mishap => TabsStand, renderer' = renderer, HandleStop
    PROVE  ExtensionGoesOn
<1>1. /\ Command(NoTab) /\ commands' = Tail(commands) /\ handler' = handler
      /\ avatarTab' = NoTab /\ mishap' = (mishap \/ Overlaps)
      /\ tab' = IF avatarTab = NoTab THEN tab ELSE [tab EXCEPT ![avatarTab] = "closing"]
  BY DEF HandleStop, CloseTab, AvatarStop
<1>2. /\ handler \in [Starts -> {"idle", "closing", "creating"}]
      /\ tab \in [Starts -> {"none", "loading", "live", "closing"}]
      /\ avatarTab \in Starts \cup {NoTab} /\ mishap \in BOOLEAN
  BY DEF TabTypeOK
<1>4. \A t \in Starts : tab'[t] = (IF t = avatarTab THEN "closing" ELSE tab[t])
  BY <1>1, <1>2, TabConstants
<1>5. TabTypeOK'
  <2>2. tab' \in [Starts -> {"none", "loading", "live", "closing"}]
    BY <1>1, <1>2
  <2>3. mishap' \in BOOLEAN
    BY <1>1, <1>2 DEF Overlaps
  <2>4. commands' \in Seq(Starts \cup {AvatarStop})
    BY <1>1, CommandTaken DEF Named, AvatarStop
  <2> QED BY <1>1, <1>2, <2>2, <2>3, <2>4 DEF TabTypeOK
<1>6. \A t \in Starts : Sent(t)' => Sent(t)
  BY <1>1, CommandTaken
<1>7. OnceSent'
  <2>1. \A i, j \in 1..Len(commands') : commands'[i] \in Starts /\ commands'[i] = commands'[j] => i = j
    BY <1>1, OrderKept
  <2>2. ASSUME NEW t \in Starts
        PROVE  /\ renderer[t] = "none" =>
                    ~Sent(t)' /\ handler'[t] = "idle" /\ tab'[t] = "none" /\ avatarTab' # t
               /\ Sent(t)' => handler'[t] = "idle"
               /\ Sent(t)' \/ handler'[t] # "idle" => tab'[t] = "none" /\ avatarTab' # t
    <3>1. CASE t # avatarTab
      BY <1>1, <1>4, <1>6, <3>1, TabConstants DEF OnceSent
    <3>2. CASE t = avatarTab
      BY <1>1, <1>4, <1>6, <3>2 DEF OnceSent
    <3> QED BY <3>1, <3>2
  <2> QED BY <2>1, <2>2 DEF OnceSent
<1>8. ASSUME ~mishap' PROVE ~mishap /\ TabsStand' /\ AimKept
  <2>1. ~mishap /\ ~Overlaps /\ TabsStand
    BY <1>1, <1>8
  <2>2. \A t \in Starts : handler[t] = "idle"
    BY <2>1 DEF Overlaps
  <2>3. Up' = {}
    <3>1. \A t \in Starts : tab[t] \in {"loading", "live"} => t = avatarTab
      BY <2>1 DEF TabsStand, Up
    <3> QED BY <1>4, <3>1 DEF Up
  <2>5. \A t \in Starts : renderer'[t] = "started" => ~Sent(t)' /\ handler'[t] = "idle"
    BY <1>1, <1>6, <2>1 DEF TabsStand
  <2>6. TabsStand'
    BY <1>1, <2>2, <2>3, <2>5 DEF TabsStand
  <2>7. AimKept
    <3> SUFFICES ASSUME NEW t \in Named, Aims(t) PROVE Aims(t)'
      BY DEF AimKept
    <3>1. commands[Len(commands)] = t
      BY <1>1 DEF Aims, Command
    <3>2. commands' = <<>> => t = NoTab
      BY <1>1, <3>1, CommandTaken
    <3>3. ~Overlaps'
      BY <1>1, <2>1 DEF Overlaps
    <3> QED BY <1>1, <3>1, <3>2, <3>3, CommandTaken DEF Aims
  <2> QED BY <2>1, <2>6, <2>7
<1> QED BY <1>5, <1>7, <1>8 DEF ExtensionGoesOn

(* A handler goes on, or Chrome is done with a tab: nothing is taken from  *)
(* the link.                                                               *)
LEMMA HandlerGoesOn ==
    ASSUME TabTypeOK, OnceSent, ~mishap => TabsStand, renderer' = renderer, NEW s \in Starts,
           OldTabClosed(s) \/ TabCreated(s) \/ TabFails(s) \/ TabGone(s)
    PROVE  ExtensionGoesOn
<1>1. /\ handler \in [Starts -> {"idle", "closing", "creating"}]
      /\ tab \in [Starts -> {"none", "loading", "live", "closing"}]
      /\ avatarTab \in Starts \cup {NoTab}
  BY DEF TabTypeOK
<1>2. commands' = commands /\ mishap' = mishap /\ \A t : Sent(t)' <=> Sent(t)
  BY DEF OldTabClosed, TabCreated, TabFails, TabGone, Sent
<1>3. CASE OldTabClosed(s)
  <2>1. /\ handler'[s] = "creating" /\ handler[s] = "closing" /\ avatarTab' = avatarTab /\ tab' = tab
        /\ \A t \in Starts : t # s => handler'[t] = handler[t]
    BY <1>1, <1>3 DEF OldTabClosed
  <2>2. TabTypeOK'
    BY <1>3 DEF TabTypeOK, OldTabClosed
  <2>3. \A t \in Starts : handler'[t] = "idle" <=> handler[t] = "idle"
    BY <2>1
  <2>4. OnceSent'
    BY <1>2, <2>1, <2>3 DEF OnceSent
  <2>5. Overlaps' <=> Overlaps
    BY <2>3 DEF Overlaps
  <2>6. TabsStand => TabsStand'
    BY <1>2, <2>1, <2>3, <2>5 DEF TabsStand, Up
  <2>7. AimKept
    BY <1>2, <2>1, <2>3, <2>5 DEF AimKept, Aims
  <2> QED BY <1>2, <2>2, <2>4, <2>6, <2>7 DEF ExtensionGoesOn
<1>4. CASE TabCreated(s)
  <2>1. /\ handler'[s] = "idle" /\ handler[s] = "creating" /\ avatarTab' = s
        /\ \A t \in Starts : t # s => handler'[t] = handler[t] /\ tab'[t] = tab[t]
        /\ tab'[s] = "loading"
    BY <1>1, <1>4 DEF TabCreated
  <2>2. TabTypeOK'
    BY <1>4 DEF TabTypeOK, TabCreated
  <2>3. ~Sent(s) /\ renderer[s] # "none"
    BY <2>1 DEF OnceSent
  <2>4. OnceSent'
    <3>1. \A t \in Starts :
               /\ renderer[t] = "none" => ~Sent(t)' /\ handler'[t] = "idle" /\ tab'[t] = "none" /\ avatarTab' # t
               /\ Sent(t)' => handler'[t] = "idle"
               /\ Sent(t)' \/ handler'[t] # "idle" => tab'[t] = "none" /\ avatarTab' # t
      BY <1>2, <2>1, <2>3 DEF OnceSent
    <3> QED BY <1>2, <3>1 DEF OnceSent
  <2>5. ASSUME ~mishap PROVE TabsStand' /\ AimKept
    <3>1. TabsStand /\ Overlaps /\ avatarTab = NoTab
      BY <2>1, <2>5 DEF TabsStand, Overlaps
    <3>2. \A t \in Starts : handler'[t] = "idle"
      BY <2>1, <3>1 DEF TabsStand
    <3>3. Up' = {s}
      <4>1. Up = {}
        BY <3>1 DEF TabsStand
      <4> QED BY <2>1, <4>1 DEF Up
    <3>4. TabsStand'
      BY <1>2, <2>1, <3>1, <3>2, <3>3, TabConstants DEF TabsStand, Overlaps
    <3>5. AimKept
      <4> SUFFICES ASSUME NEW t \in Named, Aims(t) PROVE Aims(t)'
        BY DEF AimKept
      <4>1. commands = <<>> => t = s
        BY <2>1, <3>1 DEF Aims, TabsStand
      <4> QED BY <1>2, <2>1, <3>2, <4>1 DEF Aims, Overlaps
    <3> QED BY <3>4, <3>5
  <2> QED BY <1>2, <2>2, <2>4, <2>5 DEF ExtensionGoesOn
<1>5. CASE TabFails(s)
  <2>1. /\ handler'[s] = "idle" /\ handler[s] = "creating" /\ avatarTab' = avatarTab /\ tab' = tab
        /\ \A t \in Starts : t # s => handler'[t] = handler[t]
    BY <1>1, <1>5 DEF TabFails
  <2>2. TabTypeOK'
    BY <1>5 DEF TabTypeOK, TabFails
  <2>3. OnceSent'
    BY <1>2, <2>1 DEF OnceSent
  <2>4. ASSUME ~mishap PROVE TabsStand' /\ AimKept
    <3>1. TabsStand /\ Overlaps /\ avatarTab = NoTab
      BY <2>1, <2>4 DEF TabsStand, Overlaps
    <3>2. \A t \in Starts : handler'[t] = "idle"
      BY <2>1, <3>1 DEF TabsStand
    <3>3. Up' = Up
      BY <2>1 DEF Up
    <3>4. TabsStand'
      BY <1>2, <2>1, <3>1, <3>2, <3>3 DEF TabsStand, Overlaps
    <3>5. ~Overlaps'
      BY <3>2 DEF Overlaps
    <3>6. ASSUME NEW t \in Named, Aims(t)
          PROVE  Aims(t)' \/ (Aims(NoTab)' /\ commands' = <<>> /\ t \in Starts /\ handler[t] # "idle")
      <4>1. CASE commands # <<>>
        BY <1>2, <3>6, <4>1 DEF Aims
      <4>2. CASE commands = <<>>
        <5>1. t \in Starts /\ handler[t] # "idle"
          BY <3>1, <3>6, <4>2 DEF Aims
        <5>2. Aims(NoTab)'
          BY <1>2, <2>1, <3>1, <3>5, <4>2 DEF Aims
        <5> QED BY <1>2, <4>2, <5>1, <5>2
      <4> QED BY <4>1, <4>2
    <3> QED BY <3>4, <3>6 DEF AimKept
  <2> QED BY <1>2, <2>2, <2>3, <2>4 DEF ExtensionGoesOn
<1>6. CASE TabGone(s)
  <2>1. /\ handler' = handler /\ avatarTab' = avatarTab /\ tab[s] = "closing" /\ tab'[s] = "none"
        /\ \A t \in Starts : t # s => tab'[t] = tab[t]
    BY <1>1, <1>6 DEF TabGone
  <2>2. TabTypeOK'
    BY <1>6 DEF TabTypeOK, TabGone
  <2>3. OnceSent'
    BY <1>2, <2>1 DEF OnceSent
  <2>4. Up' = Up
    BY <2>1 DEF Up
  <2>5. Overlaps' <=> Overlaps
    BY <2>1 DEF Overlaps
  <2>6. TabsStand => TabsStand'
    BY <1>2, <2>1, <2>4, <2>5 DEF TabsStand
  <2>7. AimKept
    BY <1>2, <2>1, <2>5 DEF AimKept, Aims
  <2> QED BY <1>2, <2>2, <2>3, <2>6, <2>7 DEF ExtensionGoesOn
<1> QED BY <1>3, <1>4, <1>5, <1>6

LEMMA ExtensionSteps ==
    ASSUME HeadTypeOK, OnceSent, ~mishap => TabsStand, NEW s \in Starts, TabStep(s)
    PROVE  ExtensionGoesOn /\ UNCHANGED headVars
<1>1. renderer' = renderer /\ TabTypeOK /\ UNCHANGED headVars
  BY DEF TabStep, headVars, HeadTypeOK
<1> QED BY <1>1, StartHandled, StopHandled, HandlerGoesOn DEF TabStep

(* Whatever the call at the head of the chain awaits, a step of the        *)
(* extension leaves it there: a tab fails only under a start that has not  *)
(* been acknowledged.                                                      *)
LEMMA TabStepKeepsFace ==
    ASSUME FaceInv, NEW s \in Starts, TabStep(s)
    PROVE  FaceInv'
<1> USE DEF FaceInv
<1>1. ExtensionGoesOn /\ UNCHANGED <<avatarChain, call, avatarRenderer, renderer, device, writer, transcoding, lateWrite>>
  BY ExtensionSteps DEF headVars
<1>2. TabTypeOK' /\ OnceSent' /\ (~mishap' => ~mishap /\ TabsStand' /\ AimKept)
  BY <1>1 DEF ExtensionGoesOn
<1>3. HeadTypeOK'
  BY <1>1, <1>2 DEF HeadTypeOK
<1>4. CallsStand'
  BY <1>1 DEF CallsStand
<1>5. Waiting' = Waiting /\ Running' = Running
  BY <1>1 DEF Waiting, Running
<1>6. ASSUME ~mishap', NEW t \in Named, Aims(t), t \in Starts => renderer[t] = "started"
      PROVE  Aims(t)'
  <2>1. t \in Starts => handler[t] = "idle"
    BY <1>2, <1>6 DEF TabsStand
  <2> QED BY <1>2, <1>6, <2>1 DEF AimKept
<1>7. avatarRenderer \in Named /\ writer \in Named
  BY DEF HeadTypeOK, Named
<1>8. ASSUME AtRest PROVE AtRest'
  <2>1. avatarRenderer \in Starts => renderer[avatarRenderer] = "started"
    BY <1>8, TabConstants DEF AtRest, Running
  <2> QED BY <1>1, <1>2, <1>5, <1>6, <1>7, <1>8, <2>1 DEF AtRest
<1>9. ASSUME NEW h \in Calls, Turn(h), UnderWay(h) PROVE Turn(h)' /\ UnderWay(h)'
  <2>1. Turn(h)' /\ h \in Calls
    BY <1>1, <1>9 DEF Turn
  <2>2. CASE StartingUp(h)
    <3>1. h \in Named /\ h \in Starts
      BY <2>2 DEF StartingUp, Named
    <3>2. ~mishap' => Aims(h)' \/ (Aims(NoTab)' /\ commands' = <<>> /\ renderer'[h] # "started")
      <4> SUFFICES ASSUME ~mishap' PROVE Aims(h)' \/ (Aims(NoTab)' /\ commands' = <<>> /\ renderer'[h] # "started")
        OBVIOUS
      <4>1. CASE Aims(h)
        <5>1. renderer[h] = "started" => handler[h] = "idle"
          BY <1>2, <3>1 DEF TabsStand
        <5> QED BY <1>1, <1>2, <3>1, <4>1, <5>1 DEF AimKept
      <4>2. CASE Aims(NoTab) /\ commands = <<>> /\ renderer[h] # "started"
        <5>1. Aims(NoTab)'
          BY <1>6, <4>2, TabConstants DEF Named
        <5>2. commands' = <<>>
          BY <4>2 DEF TabStep, HandleStart, OldTabClosed, TabCreated, TabFails, TabGone, HandleStop, Command
        <5> QED BY <1>1, <4>2, <5>1, <5>2
      <4> QED BY <1>2, <2>2, <4>1, <4>2 DEF StartingUp
    <3>3. StartingUp(h)'
      BY <1>1, <1>5, <2>2, <3>2 DEF StartingUp
    <3> QED BY <2>1, <3>3 DEF UnderWay
  <2>3. CASE Opening(h) \/ Attached(h)
    <3>1. h \in Named /\ renderer[h] = "started"
      BY <2>3 DEF Opening, Attached, Running, Named
    <3>2. (Opening(h) => Opening(h)') /\ (Attached(h) => Attached(h)')
      BY <1>1, <1>2, <1>5, <1>6, <3>1 DEF Opening, Attached
    <3> QED BY <2>1, <2>3, <3>2 DEF UnderWay
  <2>4. CASE Detaching(h)
    <3>1. writer \in Starts => renderer[writer] = "started"
      BY <2>4, TabConstants DEF Detaching, Running
    <3>2. Detaching(h)'
      BY <1>1, <1>2, <1>5, <1>6, <1>7, <2>4, <3>1 DEF Detaching
    <3> QED BY <2>1, <3>2 DEF UnderWay
  <2>5. CASE ClosingDown(h)
    <3> PICK w \in Starts : Running = {w} /\ (~mishap => Aims(w))
      BY <2>5 DEF ClosingDown
    <3>1. w \in Named /\ renderer[w] = "started"
      BY DEF Running, Named
    <3>2. ~mishap' => Aims(w)'
      BY <1>2, <1>6, <3>1
    <3>3. ClosingDown(h)'
      BY <1>1, <1>5, <2>5, <3>2 DEF ClosingDown
    <3> QED BY <2>1, <3>3 DEF UnderWay
  <2> QED BY <1>9, <2>2, <2>3, <2>4, <2>5 DEF UnderWay
<1>10. RouteStands'
  BY <1>8, <1>9 DEF RouteStands
<1> QED BY <1>1, <1>2, <1>3, <1>4, <1>10
-----------------------------------------------------------------------------
(* The routes. *)

CallStates == {"idle", "queued", "starting", "opening", "camera", "closing", "answered"}
RendererStates == {"none", "waiting", "started", "refused", "stopped"}

(* The call whose turn it is goes on.                                      *)
LEMMA TurnGoesOn ==
    ASSUME HeadTypeOK, CallsStand, NEW c \in Calls, Turn(c),
           NEW where \in CallStates \ {"idle", "queued", "answered"}, To(c, where),
           \A s \in Starts : s # c /\ renderer[s] # "none" => renderer'[s] # "none",
           \A s \in Starts : s # c /\ renderer[s] = "none" => renderer'[s] = "none"
    PROVE  /\ CallsStand' /\ Turn(c)' /\ call'[c] = where
           /\ call' \in [Calls -> CallStates] /\ avatarChain' \in Seq(Calls)
<1>1. /\ avatarChain \in Seq(Calls) /\ Len(avatarChain) \in Nat /\ call \in [Calls -> CallStates]
      /\ avatarChain # <<>> /\ Head(avatarChain) = c /\ avatarChain[1] = c /\ Len(avatarChain) >= 1
  BY DEF HeadTypeOK, Turn, CallStates
<1>2. /\ avatarChain' = avatarChain /\ call'[c] = where /\ call' \in [Calls -> CallStates]
      /\ \A d \in Calls : d # c => call'[d] = call[d]
  BY <1>1 DEF To
<1>3. \A i \in 1..Len(avatarChain) : avatarChain[i] \in Calls
  BY <1>1
<1>4. \A i \in 2..Len(avatarChain) : avatarChain[i] # c /\ i \in 1..Len(avatarChain)
  BY <1>1 DEF CallsStand
<1>5. \A i \in 1..Len(avatarChain) : call'[avatarChain[i]] \notin {"idle", "answered"}
  BY <1>2, <1>3 DEF CallsStand
<1>6. \A i \in 2..Len(avatarChain) : call'[avatarChain[i]] = "queued"
  BY <1>2, <1>3, <1>4 DEF CallsStand
<1>7. \A s \in Starts : call'[s] \in {"idle", "queued"} => renderer'[s] = "none"
  BY <1>2 DEF CallsStand, Calls
<1>8. CallsStand'
  BY <1>2, <1>5, <1>6, <1>7 DEF CallsStand
<1> QED BY <1>1, <1>2, <1>8 DEF Turn

(* It is answered, and the next call is queued.                            *)
LEMMA TurnEnds ==
    ASSUME HeadTypeOK, CallsStand, NEW c \in Calls, Turn(c), Answer(c),
           \A s \in Starts : renderer[s] = "none" => renderer'[s] = "none"
    PROVE  /\ CallsStand'
           /\ avatarChain' = <<>> \/ call'[Head(avatarChain')] = "queued"
           /\ call' \in [Calls -> CallStates] /\ avatarChain' \in Seq(Calls)
<1>1. /\ avatarChain \in Seq(Calls) /\ Len(avatarChain) \in Nat /\ call \in [Calls -> CallStates]
      /\ avatarChain # <<>> /\ Head(avatarChain) = c /\ avatarChain[1] = c /\ Len(avatarChain) >= 1
  BY DEF HeadTypeOK, Turn, CallStates
<1>2. /\ avatarChain' = Tail(avatarChain) /\ call'[c] = "answered" /\ call' \in [Calls -> CallStates]
      /\ \A d \in Calls : d # c => call'[d] = call[d]
  BY <1>1 DEF Answer, CallStates
<1>3. /\ avatarChain' \in Seq(Calls) /\ Len(avatarChain') = Len(avatarChain) - 1
      /\ \A i \in 1..Len(avatarChain') : i + 1 \in 2..Len(avatarChain) /\ avatarChain'[i] = avatarChain[i + 1]
  BY <1>1, <1>2
<1>4. \A i \in 2..Len(avatarChain) : /\ avatarChain[i] # c /\ avatarChain[i] \in Calls
                                     /\ i \in 1..Len(avatarChain)
  BY <1>1 DEF CallsStand
<1>5. \A i \in 1..Len(avatarChain') : call'[avatarChain'[i]] = "queued"
  BY <1>2, <1>3, <1>4 DEF CallsStand
<1>6. ASSUME NEW i \in 1..Len(avatarChain'), NEW j \in 1..Len(avatarChain'), avatarChain'[i] = avatarChain'[j]
      PROVE  i = j
  <2>1. i + 1 = j + 1
    BY <1>3, <1>4, <1>6 DEF CallsStand
  <2> QED BY <2>1
<1>7. \A s \in Starts : call'[s] \in {"idle", "queued"} => renderer'[s] = "none"
  BY <1>2 DEF CallsStand, Calls
<1>8. \A i \in 2..Len(avatarChain') : i \in 1..Len(avatarChain')
  BY <1>1, <1>3
<1>9. CallsStand'
  BY <1>5, <1>6, <1>7, <1>8 DEF CallsStand
<1>10. avatarChain' = <<>> \/ call'[Head(avatarChain')] = "queued"
  <2> SUFFICES ASSUME avatarChain' # <<>> PROVE call'[Head(avatarChain')] = "queued"
    OBVIOUS
  <2>1. 1 \in 1..Len(avatarChain') /\ Head(avatarChain') = avatarChain'[1]
    BY <1>3
  <2> QED BY <1>5, <2>1
<1> QED BY <1>2, <1>3, <1>9, <1>10

(* Which stage goes with where the head of the chain is suspended.         *)
LEMMA QueuedIsAtRest ==
    ASSUME FaceInv, NEW c \in Calls, At(c, "queued")
    PROVE  AtRest
BY DEF FaceInv, RouteStands, At, Turn, UnderWay, StartingUp, Opening, Attached, Detaching, ClosingDown

LEMMA BeyondQueueIsUnderWay ==
    ASSUME FaceInv, NEW c \in Calls, NEW where, At(c, where), where # "queued"
    PROVE  UnderWay(c)
BY DEF FaceInv, RouteStands, At, Turn, AtRest

(* A command that is sent is where the extension aims at, or it is lost.   *)
LEMMA CommandSent ==
    ASSUME TabTypeOK, OnceSent, ~mishap => TabsStand, NEW k \in Named, SendTo(k),
           k \in Starts => renderer[k] = "none" /\ renderer'[k] \notin {"none", "started"},
           \A s \in Starts : s # k => /\ renderer'[s] = "none" => renderer[s] = "none"
                                      /\ renderer'[s] = "started" => renderer[s] = "started"
    PROVE  TabTypeOK' /\ OnceSent' /\ (~mishap' => ~mishap /\ TabsStand' /\ Aims(k)')
<1>1. commands \in Seq(Named) /\ Len(commands) \in Nat /\ mishap \in BOOLEAN
  BY DEF TabTypeOK, AvatarStop, Named
<1>2. UNCHANGED <<handler, avatarTab, tab>>
  BY DEF SendTo
<1>3. \A s \in Starts : s = k => ~Sent(s) /\ handler[s] = "idle" /\ tab[s] = "none" /\ avatarTab # s
  BY DEF OnceSent
<1>4. CASE commands' = commands /\ mishap' = TRUE
  <2>1. TabTypeOK'
    BY <1>2, <1>4 DEF TabTypeOK
  <2>2. OnceSent'
    <3>1. \A s \in Starts : renderer'[s] = "none" => renderer[s] = "none"
      OBVIOUS
    <3> QED BY <1>2, <1>4, <3>1 DEF OnceSent, Sent
  <2> QED BY <1>4, <2>1, <2>2
<1>5. CASE commands' = Append(commands, k) /\ mishap' = mishap
  <2> DEFINE n == Len(commands) + 1
  <2>1. /\ commands' \in Seq(Named) /\ Len(commands') = n /\ commands'[n] = k /\ n \in 1..n
        /\ \A i \in 1..Len(commands) : commands'[i] = commands[i] /\ i \in 1..n
        /\ \A i \in 1..n : i = n \/ i \in 1..Len(commands)
    BY <1>1, <1>5
  <2> HIDE DEF n
  <2>2. TabTypeOK'
    BY <1>2, <1>5, <2>1 DEF TabTypeOK, AvatarStop, Named
  <2>3. \A s \in Starts : Sent(s)' => Sent(s) \/ s = k
    BY <2>1 DEF Sent
  <2>4. \A i, j \in 1..n : commands'[i] \in Starts /\ commands'[i] = commands'[j] => i = j
    <3> TAKE i, j \in 1..n
    <3> SUFFICES ASSUME commands'[i] \in Starts, commands'[i] = commands'[j] PROVE i = j
      OBVIOUS
    <3>1. k \in Starts => \A m \in 1..Len(commands) : commands[m] # k
      BY <1>3 DEF Sent
    <3> QED BY <2>1, <3>1 DEF OnceSent
  <2>5. OnceSent'
    <3>1. \A s \in Starts :
               /\ renderer'[s] = "none" => ~Sent(s)' /\ handler[s] = "idle" /\ tab[s] = "none" /\ avatarTab # s
               /\ Sent(s)' => handler[s] = "idle"
               /\ Sent(s)' \/ handler[s] # "idle" => tab[s] = "none" /\ avatarTab # s
      BY <1>3, <2>3 DEF OnceSent
    <3> QED BY <1>2, <2>1, <2>4, <3>1 DEF OnceSent
  <2>6. TabsStand => TabsStand'
    <3>1. Up' = Up /\ (Overlaps' <=> Overlaps)
      BY <1>2 DEF Up, Overlaps
    <3> QED BY <1>2, <2>3, <3>1 DEF TabsStand
  <2>7. Aims(k)'
    BY <2>1 DEF Aims
  <2> QED BY <1>5, <2>2, <2>5, <2>6, <2>7
<1> QED BY <1>4, <1>5 DEF SendTo

(* The parts of the state that the routes leave to the extension.          *)
LEMMA TabsUntouched ==
    ASSUME OnceSent, ~mishap => TabsStand, UNCHANGED tabVars,
           \A s \in Starts : /\ renderer'[s] = "none" => renderer[s] = "none"
                             /\ renderer'[s] = "started" => renderer[s] = "started"
    PROVE  OnceSent' /\ (~mishap' => ~mishap /\ TabsStand') /\ \A t : Aims(t)' <=> Aims(t)
<1>1. UNCHANGED <<commands, handler, avatarTab, tab, mishap>>
  BY DEF tabVars
<1>2. OnceSent'
  BY <1>1 DEF OnceSent, Sent
<1>3. TabsStand => TabsStand'
  BY <1>1 DEF TabsStand, Up, Overlaps, Sent
<1>4. \A t : Aims(t)' <=> Aims(t)
  BY <1>1 DEF Aims, Overlaps
<1> QED BY <1>1, <1>2, <1>3, <1>4

LEMMA EnableKeepsFace ==
    ASSUME FaceInv, NEW c \in Calls,
           EnableWithout(c) \/ EnableStarts(c) \/ EnableOpens(c) \/ EnableAttaches(c) \/ EnableEnds(c)
    PROVE  FaceInv'
<1> USE DEF FaceInv
<1>0. /\ renderer \in [Starts -> RendererStates] /\ avatarRenderer \in Starts \cup {NoTab}
      /\ writer \in Starts \cup {NoTab} /\ TabTypeOK
  BY DEF HeadTypeOK, RendererStates
<1>1. CASE EnableWithout(c)
  <2>1. AtRest /\ Turn(c) /\ Answer(c)
        /\ UNCHANGED <<avatarRenderer, renderer, device, writer, transcoding, lateWrite, tabVars>>
    BY <1>1, QueuedIsAtRest DEF EnableWithout, At
  <2>2. CallsStand' /\ (avatarChain' = <<>> \/ call'[Head(avatarChain')] = "queued")
        /\ call' \in [Calls -> CallStates] /\ avatarChain' \in Seq(Calls)
    BY <2>1, TurnEnds
  <2>3. OnceSent' /\ (~mishap' => ~mishap /\ TabsStand') /\ \A t : Aims(t)' <=> Aims(t)
    BY <2>1, TabsUntouched
  <2>4. HeadTypeOK'
    BY <2>1, <2>2 DEF HeadTypeOK, TabTypeOK, tabVars, CallStates
  <2>5. AtRest'
    BY <2>1, <2>2, <2>3 DEF AtRest, Waiting, Running
  <2> QED BY <2>1, <2>2, <2>3, <2>4, <2>5 DEF RouteStands
<1>2. CASE EnableStarts(c)
  <2> DEFINE how == IF commands' = commands THEN "refused" ELSE "waiting"
  <2>1. /\ AtRest /\ Turn(c) /\ call[c] = "queued" /\ c \in Starts /\ avatarRenderer = NoTab
        /\ To(c, "starting") /\ SendTo(c) /\ renderer' = [renderer EXCEPT ![c] = how]
        /\ UNCHANGED <<avatarRenderer, device, writer, transcoding, lateWrite>>
    BY <1>2, QueuedIsAtRest DEF EnableStarts, At
  <2>2. how \in {"refused", "waiting"}
    OBVIOUS
  <2> HIDE DEF how
  <2>3. /\ renderer' \in [Starts -> RendererStates] /\ renderer'[c] = how
        /\ \A s \in Starts : s # c => renderer'[s] = renderer[s]
    BY <1>0, <2>1, <2>2 DEF RendererStates
  <2>4. renderer[c] = "none"
    BY <2>1 DEF CallsStand
  <2>5. CallsStand' /\ Turn(c)' /\ call'[c] = "starting"
        /\ call' \in [Calls -> CallStates] /\ avatarChain' \in Seq(Calls)
    BY <2>1, <2>3, TurnGoesOn DEF CallStates
  <2>6. TabTypeOK' /\ OnceSent' /\ (~mishap' => ~mishap /\ TabsStand' /\ Aims(c)')
    BY <1>0, <2>1, <2>2, <2>3, <2>4, CommandSent DEF Named
  <2>7. HeadTypeOK'
    BY <2>1, <2>3, <2>5, <2>6 DEF HeadTypeOK, CallStates, RendererStates
  <2>8. StartingUp(c)'
    <3>1. Waiting = {} /\ Running = {} /\ writer = NoTab
      BY <2>1 DEF AtRest
    <3>2. Waiting' \cup Running' \subseteq {c}
      BY <2>3, <3>1 DEF Waiting, Running
    <3> QED BY <2>1, <2>2, <2>3, <2>5, <2>6, <3>1, <3>2 DEF StartingUp
  <2> QED BY <2>1, <2>5, <2>6, <2>7, <2>8 DEF RouteStands, UnderWay
<1>3. CASE EnableOpens(c)
  <2>1. /\ Turn(c) /\ call[c] = "starting" /\ renderer[c] = "started" /\ To(c, "opening")
        /\ UNCHANGED <<avatarRenderer, renderer, device, writer, transcoding, lateWrite, tabVars>>
    BY <1>3 DEF EnableOpens, At
  <2>2. UnderWay(c)
    BY <1>3, BeyondQueueIsUnderWay DEF EnableOpens
  <2>3. StartingUp(c)
    BY <2>1, <2>2 DEF UnderWay, Opening, Attached, Detaching, ClosingDown
  <2>4. CallsStand' /\ Turn(c)' /\ call'[c] = "opening"
        /\ call' \in [Calls -> CallStates] /\ avatarChain' \in Seq(Calls)
    BY <2>1, TurnGoesOn DEF CallStates
  <2>5. OnceSent' /\ (~mishap' => ~mishap /\ TabsStand') /\ \A t : Aims(t)' <=> Aims(t)
    BY <2>1, TabsUntouched
  <2>6. HeadTypeOK'
    BY <2>1, <2>4 DEF HeadTypeOK, TabTypeOK, tabVars, CallStates
  <2>7. Opening(c)'
    <3>1. c \in Starts
      BY <2>3 DEF StartingUp
    <3>2. Waiting' = {} /\ Running' = {c}
      BY <2>1, <2>3, <3>1 DEF StartingUp, Waiting, Running
    <3>3. ~mishap' => Aims(c)'
      BY <2>1, <2>3, <2>5 DEF StartingUp
    <3> QED BY <2>1, <2>3, <2>4, <3>1, <3>2, <3>3 DEF StartingUp, Opening
  <2> QED BY <2>1, <2>4, <2>5, <2>6, <2>7 DEF RouteStands, UnderWay
<1>4. CASE EnableAttaches(c)
  <2>1. /\ Turn(c) /\ call[c] = "opening" /\ To(c, "camera")
        /\ device' = "open" /\ writer' = c /\ avatarRenderer' = c
        /\ UNCHANGED <<renderer, transcoding, lateWrite, tabVars>>
    BY <1>4 DEF EnableAttaches, At
  <2>2. UnderWay(c)
    BY <1>4, BeyondQueueIsUnderWay DEF EnableAttaches
  <2>3. Opening(c) /\ c \in Starts
    BY <2>1, <2>2 DEF UnderWay, StartingUp, Opening, Attached, Detaching, ClosingDown
  <2>4. CallsStand' /\ Turn(c)' /\ call'[c] = "camera"
        /\ call' \in [Calls -> CallStates] /\ avatarChain' \in Seq(Calls)
    BY <2>1, TurnGoesOn DEF CallStates
  <2>5. OnceSent' /\ (~mishap' => ~mishap /\ TabsStand') /\ \A t : Aims(t)' <=> Aims(t)
    BY <2>1, TabsUntouched
  <2>6. HeadTypeOK'
    BY <2>1, <2>3, <2>4 DEF HeadTypeOK, TabTypeOK, tabVars, CallStates
  <2>7. Attached(c)'
    BY <2>1, <2>3, <2>4, <2>5 DEF Opening, Attached, Waiting, Running
  <2> QED BY <2>1, <2>4, <2>5, <2>6, <2>7 DEF RouteStands, UnderWay
<1>5. CASE EnableEnds(c)
  <2>1. /\ Turn(c) /\ call[c] = "camera" /\ c \in Starts /\ Answer(c)
        /\ UNCHANGED <<avatarRenderer, renderer, device, writer, transcoding, lateWrite, tabVars>>
    BY <1>5 DEF EnableEnds, At
  <2>2. UnderWay(c)
    BY <1>5, BeyondQueueIsUnderWay DEF EnableEnds
  <2>3. Attached(c)
    BY <2>1, <2>2, CallsDiffer DEF UnderWay, StartingUp, Opening, Attached, Detaching, ClosingDown
  <2>4. CallsStand' /\ (avatarChain' = <<>> \/ call'[Head(avatarChain')] = "queued")
        /\ call' \in [Calls -> CallStates] /\ avatarChain' \in Seq(Calls)
    BY <2>1, TurnEnds
  <2>5. OnceSent' /\ (~mishap' => ~mishap /\ TabsStand') /\ \A t : Aims(t)' <=> Aims(t)
    BY <2>1, TabsUntouched
  <2>6. HeadTypeOK'
    BY <2>1, <2>4 DEF HeadTypeOK, TabTypeOK, tabVars, CallStates
  <2>7. AtRest'
    BY <2>1, <2>3, <2>4, <2>5, TabConstants DEF Attached, AtRest, Waiting, Running
  <2> QED BY <2>1, <2>4, <2>5, <2>6, <2>7 DEF RouteStands
<1> QED BY <1>1, <1>2, <1>3, <1>4, <1>5

(* A renderer that is stopped takes its tab with it: the stop is the last  *)
(* command sent.                                                           *)
LEMMA StopEndsTurn ==
    ASSUME FaceInv, NEW c \in Calls, Turn(c), Answer(c),
           NEW s \in Starts, renderer[s] # "none", Waiting \cup Running \subseteq {s}, StopRendererOf(s),
           avatarRenderer = NoTab, avatarRenderer' = NoTab, writer' = NoTab, lateWrite' = lateWrite,
           device' \in {"closed", "open", "ending"}
    PROVE  FaceInv'
<1> USE DEF FaceInv
<1>1. renderer \in [Starts -> RendererStates] /\ TabTypeOK /\ transcoding \subseteq Starts
  BY DEF HeadTypeOK, RendererStates
<1>2. renderer' = [renderer EXCEPT ![s] = "stopped"] /\ SendTo(NoTab) /\ transcoding' = transcoding \ {s}
  BY DEF StopRendererOf, AvatarStop
<1>3. /\ renderer' \in [Starts -> RendererStates] /\ renderer'[s] = "stopped"
      /\ \A t \in Starts : t # s => renderer'[t] = renderer[t]
  BY <1>1, <1>2 DEF RendererStates
<1>4. CallsStand' /\ (avatarChain' = <<>> \/ call'[Head(avatarChain')] = "queued")
      /\ call' \in [Calls -> CallStates] /\ avatarChain' \in Seq(Calls)
  BY <1>3, TurnEnds
<1>5. TabTypeOK' /\ OnceSent' /\ (~mishap' => ~mishap /\ TabsStand' /\ Aims(NoTab)')
  BY <1>1, <1>2, <1>3, CommandSent, TabConstants DEF Named
<1>6. HeadTypeOK'
  BY <1>1, <1>2, <1>3, <1>4, <1>5 DEF HeadTypeOK, CallStates, RendererStates
<1>7. Waiting' = {} /\ Running' = {}
  BY <1>3 DEF Waiting, Running
<1>8. AtRest'
  BY <1>4, <1>5, <1>7 DEF AtRest
<1> QED BY <1>4, <1>5, <1>6, <1>8 DEF RouteStands, HeadTypeOK

LEMMA RefusalKeepsFace ==
    ASSUME FaceInv, NEW c \in Calls, EnableRefused(c) \/ OpenFails(c)
    PROVE  FaceInv'
<1>1. /\ Turn(c) /\ Answer(c) /\ StopRendererOf(c)
      /\ UNCHANGED <<avatarRenderer, device, writer, lateWrite>>
      /\ (call[c] = "starting" /\ renderer[c] = "refused") \/ call[c] = "opening"
  BY DEF EnableRefused, OpenFails, At
<1>2. UnderWay(c)
  BY BeyondQueueIsUnderWay DEF EnableRefused, OpenFails
<1>3. (StartingUp(c) /\ renderer[c] = "refused") \/ Opening(c)
  BY <1>1, <1>2 DEF UnderWay, StartingUp, Opening, Attached, Detaching, ClosingDown
<1>4. /\ c \in Starts /\ avatarRenderer = NoTab /\ writer = NoTab /\ Waiting \cup Running \subseteq {c}
      /\ renderer[c] # "none"
  BY <1>3 DEF StartingUp, Opening, Running
<1>5. device' \in {"closed", "open", "ending"}
  BY <1>1 DEF FaceInv, HeadTypeOK
<1> QED BY <1>1, <1>4, <1>5, StopEndsTurn

LEMMA DisableKeepsFace ==
    ASSUME FaceInv, NEW c \in Calls,
           DisableBegins(c) \/ DisableOfNothing(c) \/ DisableCloses(c) \/ DeviceClosed(c)
    PROVE  FaceInv'
<1> USE DEF FaceInv
<1>1. CASE DisableBegins(c)
  <2>1. /\ AtRest /\ Turn(c) /\ c \in Disables /\ To(c, "camera") /\ avatarRenderer' = NoTab
        /\ UNCHANGED <<renderer, device, writer, transcoding, lateWrite, tabVars>>
    BY <1>1, QueuedIsAtRest DEF DisableBegins, At
  <2>2. CallsStand' /\ Turn(c)' /\ call'[c] = "camera"
        /\ call' \in [Calls -> CallStates] /\ avatarChain' \in Seq(Calls)
    BY <2>1, TurnGoesOn DEF CallStates
  <2>3. OnceSent' /\ (~mishap' => ~mishap /\ TabsStand') /\ \A t : Aims(t)' <=> Aims(t)
    BY <2>1, TabsUntouched
  <2>4. HeadTypeOK'
    BY <2>1, <2>2 DEF HeadTypeOK, TabTypeOK, tabVars, CallStates
  <2>5. Detaching(c)'
    BY <2>1, <2>2, <2>3 DEF AtRest, Detaching, Waiting, Running
  <2> QED BY <2>1, <2>2, <2>3, <2>4, <2>5 DEF RouteStands, UnderWay
<1>2. CASE DisableOfNothing(c)
  <2>1. /\ Turn(c) /\ call[c] = "camera" /\ c \in Disables /\ writer = NoTab /\ Answer(c)
        /\ UNCHANGED <<avatarRenderer, renderer, device, writer, transcoding, lateWrite, tabVars>>
    BY <1>2 DEF DisableOfNothing, At
  <2>2. UnderWay(c)
    BY <1>2, BeyondQueueIsUnderWay DEF DisableOfNothing
  <2>3. Detaching(c)
    BY <2>1, <2>2, CallsDiffer DEF UnderWay, StartingUp, Opening, Attached, Detaching, ClosingDown
  <2>4. CallsStand' /\ (avatarChain' = <<>> \/ call'[Head(avatarChain')] = "queued")
        /\ call' \in [Calls -> CallStates] /\ avatarChain' \in Seq(Calls)
    BY <2>1, TurnEnds
  <2>5. OnceSent' /\ (~mishap' => ~mishap /\ TabsStand') /\ \A t : Aims(t)' <=> Aims(t)
    BY <2>1, TabsUntouched
  <2>6. HeadTypeOK'
    BY <2>1, <2>4 DEF HeadTypeOK, TabTypeOK, tabVars, CallStates
  <2>7. AtRest'
    BY <2>1, <2>3, <2>4, <2>5 DEF Detaching, AtRest, Waiting, Running
  <2> QED BY <2>1, <2>4, <2>5, <2>6, <2>7 DEF RouteStands
<1>3. CASE DisableCloses(c)
  <2>1. /\ Turn(c) /\ call[c] = "camera" /\ c \in Disables /\ writer # NoTab /\ To(c, "closing")
        /\ writer' = NoTab /\ device' = "ending"
        /\ UNCHANGED <<avatarRenderer, renderer, transcoding, lateWrite, tabVars>>
    BY <1>3 DEF DisableCloses, At
  <2>2. UnderWay(c)
    BY <1>3, BeyondQueueIsUnderWay DEF DisableCloses
  <2>3. Detaching(c)
    BY <2>1, <2>2, CallsDiffer DEF UnderWay, StartingUp, Opening, Attached, Detaching, ClosingDown
  <2>4. CallsStand' /\ Turn(c)' /\ call'[c] = "closing"
        /\ call' \in [Calls -> CallStates] /\ avatarChain' \in Seq(Calls)
    BY <2>1, TurnGoesOn DEF CallStates
  <2>5. OnceSent' /\ (~mishap' => ~mishap /\ TabsStand') /\ \A t : Aims(t)' <=> Aims(t)
    BY <2>1, TabsUntouched
  <2>6. HeadTypeOK'
    BY <2>1, <2>4 DEF HeadTypeOK, TabTypeOK, tabVars, CallStates
  <2>7. ClosingDown(c)'
    <3>1. writer \in Starts
      BY <2>1 DEF HeadTypeOK
    <3> PICK w \in Starts : w = writer
      BY <3>1
    <3>2. Waiting' = {} /\ Running' = {w}
      BY <2>1, <2>3 DEF Detaching, Waiting, Running
    <3>3. ~mishap' => Aims(w)'
      BY <2>3, <2>5 DEF Detaching
    <3>4. \E v \in Starts : Running' = {v} /\ (~mishap' => Aims(v)')
      BY <3>2, <3>3
    <3> QED BY <2>1, <2>3, <2>4, <3>2, <3>4 DEF Detaching, ClosingDown
  <2> QED BY <2>1, <2>4, <2>5, <2>6, <2>7 DEF RouteStands, UnderWay
<1>4. CASE DeviceClosed(c)
  <2> PICK s \in Running : StopRendererOf(s)
    BY <1>4 DEF DeviceClosed
  <2>1. /\ Turn(c) /\ call[c] = "closing" /\ Answer(c) /\ device' = "closed" /\ writer' = NoTab
        /\ UNCHANGED <<avatarRenderer, lateWrite>>
    BY <1>4 DEF DeviceClosed, At
  <2>2. UnderWay(c)
    BY <1>4, BeyondQueueIsUnderWay DEF DeviceClosed
  <2>3. ClosingDown(c)
    BY <2>1, <2>2 DEF UnderWay, StartingUp, Opening, Attached, Detaching, ClosingDown
  <2>4. /\ s \in Starts /\ renderer[s] # "none" /\ Waiting \cup Running \subseteq {s}
        /\ avatarRenderer = NoTab
    BY <2>3 DEF ClosingDown, Running
  <2> QED BY <2>1, <2>4, StopEndsTurn
<1> QED BY <1>1, <1>2, <1>3, <1>4

(* While a renderer waits, the call that made it is at the head.           *)
LEMMA WaitingIsStartingUp ==
    ASSUME FaceInv, Waiting # {}
    PROVE  \E h \in Starts : /\ h \in Calls /\ Turn(h) /\ StartingUp(h) /\ Waiting = {h}
BY DEF FaceInv, RouteStands, AtRest, UnderWay, StartingUp, Opening, Attached, Detaching, ClosingDown

(* Its own page reports itself, or, after a mishap, another's.             *)
LEMMA PageKeepsFace ==
    ASSUME FaceInv, NEW s \in Starts, Started(s)
    PROVE  FaceInv'
<1> USE DEF FaceInv
<1> PICK how \in {"started", "refused"} :
      renderer' = [r \in Starts |-> IF r \in Waiting THEN how ELSE renderer[r]]
  BY DEF Started
<1>1. /\ tab[s] = "loading" /\ tab' = [tab EXCEPT ![s] = "live"] /\ mishap' = (mishap \/ Waiting \notin {{}, {s}})
      /\ UNCHANGED <<commands, handler, avatarTab, avatarChain, call, avatarRenderer, device, writer, transcoding, lateWrite>>
  BY DEF Started, PageUp
<1>2. /\ renderer \in [Starts -> RendererStates] /\ TabTypeOK
      /\ tab \in [Starts -> {"none", "loading", "live", "closing"}] /\ mishap \in BOOLEAN
  BY DEF HeadTypeOK, TabTypeOK, RendererStates
<1>3. renderer' \in [Starts -> RendererStates] /\ \A t \in Starts : (renderer'[t] = "none" <=> renderer[t] = "none")
  BY <1>2 DEF RendererStates, Waiting
<1>4. /\ tab' \in [Starts -> {"none", "loading", "live", "closing"}] /\ tab'[s] = "live"
      /\ \A t \in Starts : t # s => tab'[t] = tab[t]
  BY <1>1, <1>2
<1>5. HeadTypeOK'
  <2>1. mishap' \in BOOLEAN
    BY <1>1, <1>2
  <2> QED BY <1>1, <1>3, <1>4, <2>1 DEF HeadTypeOK, TabTypeOK, RendererStates
<1>6. CallsStand'
  BY <1>1, <1>3 DEF CallsStand
<1>7. OnceSent'
  BY <1>1, <1>3, <1>4 DEF OnceSent, Sent
<1>8. \A t : Aims(t)' <=> Aims(t)
  BY <1>1 DEF Aims, Overlaps
<1>9. ~mishap' => ~mishap /\ TabsStand'
  <2> SUFFICES ASSUME ~mishap' PROVE ~mishap /\ TabsStand'
    OBVIOUS
  <2>1. ~mishap /\ TabsStand /\ Waiting \subseteq {s}
    BY <1>1
  <2>2. Up' = Up /\ (Overlaps' <=> Overlaps)
    BY <1>1, <1>4 DEF Up, Overlaps
  <2>3. ~Sent(s) /\ handler[s] = "idle"
    BY <1>1 DEF OnceSent
  <2>4. \A t \in Starts : renderer'[t] = "started" => ~Sent(t) /\ handler[t] = "idle"
    BY <2>1, <2>3 DEF TabsStand
  <2> QED BY <1>1, <2>1, <2>2, <2>4 DEF TabsStand, Sent
<1>10. RouteStands'
  <2>1. CASE Waiting = {}
    <3>1. renderer' = renderer
      BY <1>2, <2>1
    <3>2. mishap' = mishap
      BY <1>1, <1>2, <2>1
    <3>3. Waiting' = Waiting /\ Running' = Running
      BY <3>1 DEF Waiting, Running
    <3>4. AtRest => AtRest'
      BY <1>1, <1>8, <3>2, <3>3 DEF AtRest
    <3>5. \A h \in Calls : Turn(h) /\ UnderWay(h) => Turn(h)' /\ UnderWay(h)'
      BY <1>1, <1>8, <3>1, <3>2, <3>3 DEF Turn, UnderWay, StartingUp, Opening, Attached, Detaching, ClosingDown
    <3> QED BY <3>4, <3>5 DEF RouteStands
  <2>2. CASE Waiting # {}
    <3> PICK h \in Starts : h \in Calls /\ Turn(h) /\ StartingUp(h) /\ Waiting = {h}
      BY <2>2, WaitingIsStartingUp
    <3>1. Turn(h)'
      BY <1>1 DEF Turn
    <3>2. Waiting' \cup Running' \subseteq {h} /\ renderer'[h] \in {"waiting", "started", "refused"}
      BY <1>2 DEF StartingUp, Waiting, Running
    <3>3. ~mishap' => Aims(h)
      <4> SUFFICES ASSUME ~mishap' PROVE Aims(h)
        OBVIOUS
      <4>1. ~mishap /\ TabsStand /\ h = s
        BY <1>1
      <4>2. avatarTab = s
        BY <1>1, <4>1 DEF TabsStand, Up
      <4>3. ~(Aims(NoTab) /\ commands = <<>>)
        BY <4>2, TabConstants DEF Aims
      <4> QED BY <4>1, <4>3 DEF StartingUp
    <3>4. StartingUp(h)'
      BY <1>1, <1>8, <3>2, <3>3 DEF StartingUp
    <3> QED BY <3>1, <3>4 DEF RouteStands, UnderWay
  <2> QED BY <2>1, <2>2
<1> QED BY <1>1, <1>5, <1>6, <1>7, <1>9, <1>10

LEMMA TimeoutKeepsFace ==
    ASSUME FaceInv, NEW s \in Starts, AckTimeout(s)
    PROVE  FaceInv'
<1> USE DEF FaceInv
<1>1. /\ renderer[s] = "waiting" /\ renderer' = [renderer EXCEPT ![s] = "refused"]
      /\ UNCHANGED <<avatarChain, call, avatarRenderer, device, writer, transcoding, lateWrite, tabVars>>
  BY DEF AckTimeout
<1>2. renderer \in [Starts -> RendererStates]
  BY DEF HeadTypeOK, RendererStates
<1>3. /\ renderer' \in [Starts -> RendererStates] /\ renderer'[s] = "refused"
      /\ \A t \in Starts : t # s => renderer'[t] = renderer[t]
  BY <1>1, <1>2 DEF RendererStates
<1>4. OnceSent' /\ (~mishap' => ~mishap /\ TabsStand') /\ \A t : Aims(t)' <=> Aims(t)
  BY <1>1, <1>3, TabsUntouched
<1>5. HeadTypeOK'
  BY <1>1, <1>3 DEF HeadTypeOK, TabTypeOK, tabVars, RendererStates
<1>6. CallsStand'
  BY <1>1, <1>3 DEF CallsStand
<1>7. Waiting # {}
  BY <1>1 DEF Waiting
<1> PICK h \in Starts : h \in Calls /\ Turn(h) /\ StartingUp(h) /\ Waiting = {h}
  BY <1>7, WaitingIsStartingUp
<1>8. h = s
  BY <1>1 DEF Waiting
<1>9. Turn(h)'
  BY <1>1 DEF Turn
<1>10. Waiting' \cup Running' \subseteq {h}
  BY <1>3, <1>8 DEF StartingUp, Waiting, Running
<1>11. StartingUp(h)'
  <2>1. commands' = commands /\ mishap' = mishap
    BY <1>1 DEF tabVars
  <2>2. renderer'[h] = "refused"
    BY <1>3, <1>8
  <2>3. ~mishap' => Aims(h)' \/ (Aims(NoTab)' /\ commands' = <<>> /\ renderer'[h] # "started")
    BY <1>4, <2>1, <2>2 DEF StartingUp
  <2> QED BY <1>1, <1>10, <2>2, <2>3 DEF StartingUp
<1> QED BY <1>1, <1>4, <1>5, <1>6, <1>9, <1>11 DEF RouteStands, UnderWay

(* Frames: none is written to a device that is not open.                   *)
LEMMA FrameKeepsFace ==
    ASSUME FaceInv, NEW s \in Starts, FrameArrives(s) \/ FrameDone(s)
    PROVE  FaceInv'
<1> USE DEF FaceInv
<1>1. /\ UNCHANGED <<avatarChain, call, avatarRenderer, renderer, device, writer, tabVars>>
      /\ transcoding' \subseteq Starts /\ ~lateWrite' /\ lateWrite' \in BOOLEAN
  <2>1. CASE FrameArrives(s)
    BY <2>1 DEF FrameArrives, Listeners, HeadTypeOK
  <2>2. CASE FrameDone(s)
    BY <2>2, TabConstants DEF FrameDone, Dispatch, HeadTypeOK
  <2> QED BY <2>1, <2>2
<1>2. OnceSent' /\ (~mishap' => ~mishap /\ TabsStand') /\ \A t : Aims(t)' <=> Aims(t)
  BY <1>1, TabsUntouched
<1>3. mishap' = mishap /\ commands' = commands
  BY <1>1 DEF tabVars
<1>4. HeadTypeOK'
  BY <1>1 DEF HeadTypeOK, TabTypeOK, tabVars
<1>5. CallsStand'
  BY <1>1 DEF CallsStand
<1>6. Waiting' = Waiting /\ Running' = Running
  BY <1>1 DEF Waiting, Running
<1>7. AtRest => AtRest'
  BY <1>1, <1>2, <1>3, <1>6 DEF AtRest
<1>8. \A h \in Calls : Turn(h) /\ UnderWay(h) => Turn(h)' /\ UnderWay(h)'
  BY <1>1, <1>2, <1>3, <1>6 DEF Turn, UnderWay, StartingUp, Opening, Attached, Detaching, ClosingDown
<1>9. RouteStands'
  BY <1>7, <1>8 DEF RouteStands
<1> QED BY <1>1, <1>2, <1>4, <1>5, <1>9

(* A call that arrives is queued behind those before it.                   *)
LEMMA ArrivalKeepsFace ==
    ASSUME FaceInv, NEW c \in Calls, CallsAvatar(c)
    PROVE  FaceInv'
<1> USE DEF FaceInv
<1> DEFINE n == Len(avatarChain) + 1
<1>1. /\ avatarChain \in Seq(Calls) /\ Len(avatarChain) \in Nat /\ call \in [Calls -> CallStates]
      /\ call[c] = "idle" /\ avatarChain' = Append(avatarChain, c)
      /\ call' = [call EXCEPT ![c] = "queued"]
      /\ UNCHANGED <<avatarRenderer, renderer, device, writer, transcoding, lateWrite, tabVars>>
  BY DEF CallsAvatar, HeadTypeOK, CallStates
<1>2. /\ call' \in [Calls -> CallStates] /\ call'[c] = "queued"
      /\ \A d \in Calls : d # c => call'[d] = call[d]
  BY <1>1 DEF CallStates
<1>3. /\ avatarChain' \in Seq(Calls) /\ Len(avatarChain') = n /\ avatarChain'[n] = c
      /\ \A i \in 1..Len(avatarChain) : avatarChain'[i] = avatarChain[i] /\ avatarChain[i] \in Calls
      /\ \A i \in 1..n : i = n \/ i \in 1..Len(avatarChain)
      /\ \A i \in 2..n : i = n \/ i \in 2..Len(avatarChain)
      /\ 2..Len(avatarChain) \subseteq 1..Len(avatarChain)
  BY <1>1
<1>4. \A i \in 1..Len(avatarChain) : avatarChain[i] # c
  BY <1>1 DEF CallsStand
<1> HIDE DEF n
<1>5. CallsStand'
  <2>1. \A i, j \in 1..n : avatarChain'[i] = avatarChain'[j] => i = j
    BY <1>3, <1>4 DEF CallsStand
  <2>2. \A i \in 1..n : call'[avatarChain'[i]] \notin {"idle", "answered"}
    BY <1>2, <1>3, <1>4 DEF CallsStand
  <2>3. \A i \in 2..n : call'[avatarChain'[i]] = "queued"
    BY <1>2, <1>3, <1>4 DEF CallsStand
  <2>4. \A s \in Starts : call'[s] \in {"idle", "queued"} => renderer[s] = "none"
    BY <1>1, <1>2 DEF CallsStand, Calls
  <2> QED BY <1>1, <1>3, <2>1, <2>2, <2>3, <2>4 DEF CallsStand
<1>6. OnceSent' /\ (~mishap' => ~mishap /\ TabsStand') /\ \A t : Aims(t)' <=> Aims(t)
  BY <1>1, TabsUntouched
<1>7. HeadTypeOK'
  BY <1>1, <1>2, <1>3 DEF HeadTypeOK, TabTypeOK, tabVars, CallStates
<1>8. Waiting' = Waiting /\ Running' = Running /\ mishap' = mishap /\ commands' = commands
  BY <1>1 DEF Waiting, Running, tabVars
<1>9. avatarChain' # <<>> /\ (avatarChain = <<>> => Head(avatarChain') = c)
      /\ (avatarChain # <<>> => Head(avatarChain') = Head(avatarChain))
      /\ (avatarChain # <<>> => Head(avatarChain) \in Calls /\ Head(avatarChain) # c)
  <2>1. avatarChain # <<>> => Head(avatarChain) = avatarChain[1] /\ 1 \in 1..Len(avatarChain)
    BY <1>1
  <2> QED BY <1>1, <1>3, <1>4, <2>1
<1>10. AtRest => AtRest'
  BY <1>1, <1>2, <1>6, <1>8, <1>9 DEF AtRest
<1>11. ASSUME NEW h \in Calls, Turn(h), UnderWay(h) PROVE Turn(h)' /\ UnderWay(h)'
  <2>1. Turn(h)' /\ h # c
    BY <1>9, <1>11 DEF Turn
  <2>2. call'[h] = call[h]
    BY <1>2, <2>1
  <2> QED BY <1>1, <1>6, <1>8, <1>11, <2>1, <2>2
          DEF UnderWay, StartingUp, Opening, Attached, Detaching, ClosingDown
<1>12. RouteStands'
  BY <1>10, <1>11 DEF RouteStands
<1> QED BY <1>1, <1>5, <1>6, <1>7, <1>12

LEMMA FaceStutters ==
    ASSUME FaceInv, UNCHANGED avatarVars
    PROVE  FaceInv'
BY DEF FaceInv, avatarVars, headVars, tabVars, HeadTypeOK, TabTypeOK, CallsStand, OnceSent, Sent, TabsStand,
   Up, Overlaps, RouteStands, AtRest, UnderWay, StartingUp, Opening, Attached, Detaching, ClosingDown, Aims,
   Waiting, Running, Turn

LEMMA MediaStepKeepsFace ==
    ASSUME FaceInv, [MediaNext]_mediaVars
    PROVE  FaceInv'
<1>1. CASE PostArrives \/ OthersOfAudio \/ UNCHANGED mediaVars
  BY <1>1, FaceStutters DEF PostArrives, OthersOfAudio, mediaVars
<1>2. ASSUME NEW r \in Posts, Speak(r) PROVE FaceInv'
  BY <1>2, FaceStutters DEF Speak
<1>3. ASSUME NEW v \in Visemes, VisemePosted(v) PROVE FaceInv'
  BY <1>3, FaceStutters DEF VisemePosted
<1>4. ASSUME NEW c \in Calls, CallArrives(c) \/ FaceChanges(c) \/ CallStep(c) PROVE FaceInv'
  <2>1. CASE CallArrives(c)
    BY <2>1, ArrivalKeepsFace DEF CallArrives
  <2>2. CASE FaceChanges(c)
    BY <2>2, EnableKeepsFace, DisableKeepsFace DEF FaceChanges
  <2>3. CASE CallStep(c)
    BY <2>3, EnableKeepsFace, RefusalKeepsFace, DisableKeepsFace DEF CallStep
  <2> QED BY <1>4, <2>1, <2>2, <2>3
<1>5. ASSUME NEW s \in Starts, Started(s) \/ AckTimeout(s) \/ TabStep(s) \/ Frames(s) PROVE FaceInv'
  BY <1>5, PageKeepsFace, TimeoutKeepsFace, TabStepKeepsFace, FrameKeepsFace DEF Frames
<1> QED BY <1>1, <1>2, <1>3, <1>4, <1>5 DEF MediaNext

LEMMA FaceBegins == MediaInit => FaceInv
<1> SUFFICES ASSUME MediaInit PROVE FaceInv
  OBVIOUS
<1>1. HeadInit(Before) /\ TabInit(Before) /\ Before \in Starts /\ Before # NoTab
  BY MediaConstants, TabConstants DEF MediaInit, HeadInit
<1>2. /\ commands = <<>> /\ mishap = FALSE /\ avatarTab = Before
      /\ handler = [s \in Starts |-> "idle"]
      /\ tab = [s \in Starts |-> IF s = Before THEN "live" ELSE "none"]
  BY <1>1 DEF TabInit
<1>3. /\ avatarChain = <<>> /\ transcoding = {} /\ lateWrite = FALSE /\ device = "open"
      /\ call = [c \in Calls |-> IF c = Before THEN "answered" ELSE "idle"]
      /\ renderer = [s \in Starts |-> IF s = Before THEN "started" ELSE "none"]
      /\ avatarRenderer = Before /\ writer = Before
  BY <1>1 DEF HeadInit
<1>4. HeadTypeOK
  <2>1. handler \in [Starts -> {"idle", "closing", "creating"}]
    BY <1>2
  <2>2. tab \in [Starts -> {"none", "loading", "live", "closing"}]
    BY <1>2
  <2>3. commands \in Seq(Starts \cup {AvatarStop})
    BY <1>2
  <2>4. TabTypeOK
    BY <1>1, <1>2, <2>1, <2>2, <2>3 DEF TabTypeOK
  <2>5. call \in [Calls -> CallStates]
    BY <1>3 DEF CallStates
  <2>6. renderer \in [Starts -> RendererStates]
    BY <1>3 DEF RendererStates
  <2>7. avatarChain \in Seq(Calls)
    BY <1>3
  <2> QED BY <1>1, <1>3, <2>4, <2>5, <2>6, <2>7 DEF HeadTypeOK, CallStates, RendererStates
<1>5. 1..Len(avatarChain) = {} /\ 2..Len(avatarChain) = {} /\ 1..Len(commands) = {}
  BY <1>2, <1>3
<1>6. CallsStand
  BY <1>3, <1>5 DEF CallsStand, Calls
<1>7. \A s \in Starts : ~Sent(s)
  BY <1>5 DEF Sent
<1>8. OnceSent
  BY <1>2, <1>3, <1>5, <1>7 DEF OnceSent
<1>9. ~Overlaps
  BY <1>2 DEF Overlaps
<1>10. TabsStand
  BY <1>1, <1>2, <1>7, <1>9 DEF TabsStand, Up
<1>11. AtRest
  BY <1>1, <1>2, <1>3, <1>9 DEF AtRest, Waiting, Running, Aims
<1> QED BY <1>3, <1>4, <1>6, <1>8, <1>10, <1>11 DEF FaceInv, RouteStands

(* No frame is written to a device that is not open, and at rest the only  *)
(* tab that is up is the one of the renderer in use, for any number of     *)
(* calls of the avatar's routes: FaceIsClean.                              *)
THEOREM FaceStaysClean == MediaSpec => []FaceIsClean
<1>1. FaceInv => FaceIsClean
  <2> SUFFICES ASSUME FaceInv, Idle, avatarChain = <<>>, ~mishap PROVE Up = {avatarRenderer} \ {NoTab}
    BY DEF FaceInv, FaceIsClean
  <2>1. AtRest
    BY DEF FaceInv, RouteStands, Turn
  <2>2. commands = <<>> /\ ~Overlaps
    BY DEF Idle
  <2>3. avatarTab = avatarRenderer
    BY <2>1, <2>2 DEF AtRest, Aims, Overlaps
  <2> QED BY <2>3 DEF FaceInv, TabsStand
<1>2. FaceInv /\ [MediaNext]_mediaVars => FaceInv'
  BY MediaStepKeepsFace
<1> QED BY <1>1, <1>2, FaceBegins, PTL DEF MediaSpec
=============================================================================
