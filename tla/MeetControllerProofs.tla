------------------------ MODULE MeetControllerProofs -------------------------
(***************************************************************************)
(* Proofs about MeetController, for any number of chats and avatar calls   *)
(* and any number of misses: no superseded command acts late, a leave is   *)
(* final, the camera shows frames, and the chats are whole.                *)
(***************************************************************************)
EXTENDS MeetController, SequenceTheorems, TLAPS

-----------------------------------------------------------------------------
(* The content bridge.                                                     *)

(* A newer command d that supersedes c.                                    *)
Overtakes(d, c) == Fan!Supersedes(d, c) /\ Fan!Before(arrived, c, d)

FanTypeOK ==
    /\ arrived \in Seq(Commands) /\ asked \in Seq(Commands) /\ handled \in Seq(Commands)
    /\ fan \in [Commands -> {"idle", "asked", "waiting", "delivered", "dropped"}]

(* The worker's record of each command is where the command is, and each   *)
(* is asked of Chrome once at a time.                                      *)
FanAgrees ==
    /\ \A c \in Commands : fan[c] # "idle" => \E n \in DOMAIN arrived : arrived[n] = c
    /\ \A n \in DOMAIN arrived : fan[arrived[n]] # "idle"
    /\ \A m \in DOMAIN asked : fan[asked[m]] = "asked"
    /\ \A c \in Commands : fan[c] = "delivered" => \E i \in DOMAIN handled : handled[i] = c
    /\ \A i \in DOMAIN handled : fan[handled[i]] = "delivered"
    /\ \A m, n \in DOMAIN asked : asked[m] = asked[n] => m = n

(* Chrome is asked in an order that respects the generations: no command   *)
(* it has yet to answer is overtaken by one it is asked before, or by one  *)
(* the content script already has.                                         *)
NoneOvertaken ==
    /\ \A m, n \in DOMAIN asked : Overtakes(asked[n], asked[m]) => m < n
    /\ \A m \in DOMAIN asked, i \in DOMAIN handled : ~Overtakes(handled[i], asked[m])

(* The join is sent before the leave or not at all.                        *)
JoinComesFirst ==
    fan[Join] # "idle" /\ fan[Leave] # "idle" => Fan!Before(arrived, Join, Leave)

FanInv == FanTypeOK /\ FanAgrees /\ NoneOvertaken /\ JoinComesFirst /\ NoCommandActsLate

(* What comes last is after all that came before it.                       *)
LEMMA BeforeAppended ==
    ASSUME NEW s \in Seq(Commands), NEW e \in Commands, NEW c, NEW d
    PROVE  Fan!Before(Append(s, e), c, d) <=>
               Fan!Before(s, c, d) \/ (d = e /\ \E n \in DOMAIN s : s[n] = c)
  <1> DEFINE longer == Append(s, e)
  <1>1. /\ Len(s) \in Nat /\ DOMAIN s = 1..Len(s)
        /\ DOMAIN longer = 1..(Len(s) + 1)
        /\ longer[Len(s) + 1] = e
        /\ \A n \in 1..Len(s) : longer[n] = s[n]
    BY LenProperties, AppendProperties
  <1> HIDE DEF longer
  <1>2. ASSUME Fan!Before(longer, c, d)
        PROVE  Fan!Before(s, c, d) \/ (d = e /\ \E n \in DOMAIN s : s[n] = c)
    <2>1. PICK j \in DOMAIN longer : longer[j] = d /\ \E i \in 1..(j - 1) : longer[i] = c
      BY <1>2 DEF Fan!Before
    <2>2. PICK i \in 1..(j - 1) : longer[i] = c
      BY <2>1
    <2>3. i \in 1..Len(s) /\ s[i] = c
      BY <1>1, <2>1, <2>2
    <2>4. CASE j = Len(s) + 1
      BY <1>1, <2>1, <2>3, <2>4
    <2>5. CASE j \in 1..Len(s)
      <3>1. s[j] = d /\ i \in 1..(j - 1) /\ s[i] = c
        BY <1>1, <2>1, <2>2, <2>3, <2>5
      <3> QED
        BY <1>1, <2>5, <3>1 DEF Fan!Before
    <2> QED
      BY <1>1, <2>1, <2>4, <2>5
  <1>3. ASSUME Fan!Before(s, c, d) PROVE Fan!Before(longer, c, d)
    <2>1. PICK j \in DOMAIN s : s[j] = d /\ \E i \in 1..(j - 1) : s[i] = c
      BY <1>3 DEF Fan!Before
    <2>2. PICK i \in 1..(j - 1) : s[i] = c
      BY <2>1
    <2>3. j \in DOMAIN longer /\ longer[j] = d /\ i \in 1..(j - 1) /\ longer[i] = c
      BY <1>1, <2>1, <2>2
    <2> QED
      BY <2>3 DEF Fan!Before
  <1>4. ASSUME d = e, NEW n \in DOMAIN s, s[n] = c PROVE Fan!Before(longer, c, d)
    <2>1. Len(s) + 1 \in DOMAIN longer /\ longer[Len(s) + 1] = d
          /\ n \in 1..(Len(s) + 1 - 1) /\ longer[n] = c
      BY <1>1, <1>4
    <2> QED
      BY <2>1 DEF Fan!Before
  <1> QED
    BY <1>2, <1>3, <1>4 DEF longer

(* Of two different commands that have arrived, one came before the other. *)
LEMMA OneCameFirst ==
    ASSUME NEW s \in Seq(Commands), NEW m \in DOMAIN s, NEW n \in DOMAIN s, s[m] # s[n]
    PROVE  Fan!Before(s, s[m], s[n]) \/ Fan!Before(s, s[n], s[m])
  <1>1. DOMAIN s = 1..Len(s) /\ Len(s) \in Nat /\ m # n
    BY LenProperties
  <1>2. m \in 1..(n - 1) \/ n \in 1..(m - 1)
    BY <1>1
  <1> QED
    BY <1>2 DEF Fan!Before

(* What Before speaks of is in the sequence.                               *)
LEMMA BeforeIsWithin ==
    ASSUME NEW s \in Seq(Commands), NEW c, NEW d, Fan!Before(s, c, d)
    PROVE  (\E m \in DOMAIN s : s[m] = c) /\ (\E n \in DOMAIN s : s[n] = d)
  <1>1. DOMAIN s = 1..Len(s) /\ Len(s) \in Nat
    BY LenProperties
  <1>2. PICK j \in DOMAIN s : s[j] = d /\ \E i \in 1..(j - 1) : s[i] = c
    BY DEF Fan!Before
  <1> QED
    BY <1>1, <1>2

(* A command that arrives is asked of Chrome last, and is newer than all.  *)
LEMMA ArrivalKeepsOrder ==
    ASSUME FanInv, NEW c \in Commands, Fan!Arrives(c), c = Join => fan[Leave] = "idle"
    PROVE  FanInv'
  <1>1. /\ arrived' = Append(arrived, c) /\ asked' = Append(asked, c) /\ handled' = handled
        /\ fan[c] = "idle" /\ fan' = [fan EXCEPT ![c] = "asked"]
    BY DEF Fan!Arrives
  <1>2. /\ arrived \in Seq(Commands) /\ asked \in Seq(Commands) /\ handled \in Seq(Commands)
        /\ DOMAIN fan = Commands
    BY DEF FanInv, FanTypeOK
  <1>3. /\ Len(arrived) \in Nat /\ DOMAIN arrived = 1..Len(arrived)
        /\ DOMAIN arrived' = 1..(Len(arrived) + 1) /\ arrived'[Len(arrived) + 1] = c
        /\ \A n \in DOMAIN arrived : n \in DOMAIN arrived' /\ arrived'[n] = arrived[n] /\ arrived[n] \in Commands
    BY <1>1, <1>2, LenProperties, AppendProperties, ElementOfSeq
  <1>4. /\ Len(asked) \in Nat /\ DOMAIN asked = 1..Len(asked)
        /\ DOMAIN asked' = 1..(Len(asked) + 1) /\ asked'[Len(asked) + 1] = c
        /\ \A n \in DOMAIN asked : n \in DOMAIN asked' /\ asked'[n] = asked[n] /\ asked[n] \in Commands
    BY <1>1, <1>2, LenProperties, AppendProperties, ElementOfSeq
  <1>5. \A i \in DOMAIN handled : handled[i] \in Commands
    BY <1>2, ElementOfSeq
  <1>6. /\ fan'[c] = "asked"
        /\ \A d \in Commands : d # c => fan'[d] = fan[d]
    BY <1>1, <1>2
  <1>7. /\ \A n \in DOMAIN arrived : arrived[n] # c
        /\ \A m \in DOMAIN asked : asked[m] # c
        /\ \A i \in DOMAIN handled : handled[i] # c
    BY <1>1 DEF FanInv, FanAgrees
  <1>8. FanTypeOK'
    BY <1>1, <1>2, AppendProperties DEF FanInv, FanTypeOK
  <1>9. FanAgrees'
    <2>1. \A d \in Commands : fan'[d] # "idle" => \E n \in DOMAIN arrived' : arrived'[n] = d
      <3>1. ASSUME NEW d \in Commands, fan'[d] # "idle", d # c
            PROVE  \E n \in DOMAIN arrived' : arrived'[n] = d
        BY <1>3, <1>6, <3>1 DEF FanInv, FanAgrees
      <3>2. \E n \in DOMAIN arrived' : arrived'[n] = c
        BY <1>3
      <3> QED
        BY <3>1, <3>2
    <2>2. \A n \in DOMAIN arrived' : fan'[arrived'[n]] # "idle"
      BY <1>3, <1>6, <1>7 DEF FanInv, FanAgrees
    <2>3. \A m \in DOMAIN asked' : fan'[asked'[m]] = "asked"
      BY <1>4, <1>6, <1>7 DEF FanInv, FanAgrees
    <2>4. \A d \in Commands : fan'[d] = "delivered" => \E i \in DOMAIN handled' : handled'[i] = d
      BY <1>1, <1>6 DEF FanInv, FanAgrees
    <2>5. \A i \in DOMAIN handled' : fan'[handled'[i]] = "delivered"
      BY <1>1, <1>5, <1>6, <1>7 DEF FanInv, FanAgrees
    <2>6. \A m, n \in DOMAIN asked' : asked'[m] = asked'[n] => m = n
      BY <1>4, <1>7 DEF FanInv, FanAgrees
    <2> QED
      BY <2>1, <2>2, <2>3, <2>4, <2>5, <2>6 DEF FanAgrees
  <1>10. \A e, d : d # c => (Fan!Before(arrived', e, d) <=> Fan!Before(arrived, e, d))
    BY <1>1, <1>2, BeforeAppended
  <1>11. \A d : d # c => ~Fan!Before(arrived', c, d)
    BY <1>2, <1>7, <1>10, BeforeIsWithin
  <1>12. ~Fan!Before(arrived', c, c)
    <2>1. ~Fan!Before(arrived, c, c)
      BY <1>2, <1>7, BeforeIsWithin
    <2> QED
      BY <1>1, <1>2, <1>7, <2>1, BeforeAppended
  <1>13. NoneOvertaken'
    <2>1. ASSUME NEW m \in DOMAIN asked', NEW n \in DOMAIN asked', Overtakes(asked[n], asked[m])'
          PROVE  m < n
      <3>1. Fan!Supersedes(asked'[n], asked'[m]) /\ Fan!Before(arrived', asked'[m], asked'[n])
        BY <2>1 DEF Overtakes, Fan!Supersedes, Fan!Bumps, Fan!Captures, Fan!Before
      <3>2. CASE m \in DOMAIN asked /\ n \in DOMAIN asked
        BY <1>4, <1>7, <1>10, <3>1, <3>2 DEF FanInv, NoneOvertaken, Overtakes
      <3>3. CASE m \in DOMAIN asked /\ n = Len(asked) + 1
        BY <1>4, <3>3
      <3>4. CASE m = Len(asked) + 1
        BY <1>4, <1>11, <1>12, <3>1, <3>4
      <3> QED
        BY <1>4, <3>2, <3>3, <3>4
    <2>2. ASSUME NEW m \in DOMAIN asked', NEW i \in DOMAIN handled', Overtakes(handled[i], asked[m])'
          PROVE  FALSE
      <3>1. Fan!Supersedes(handled[i], asked'[m]) /\ Fan!Before(arrived', asked'[m], handled[i])
        BY <1>1, <2>2 DEF Overtakes, Fan!Supersedes, Fan!Bumps, Fan!Captures, Fan!Before
      <3>2. i \in DOMAIN handled /\ handled[i] # c
        BY <1>1, <1>7, <2>2
      <3>3. CASE m \in DOMAIN asked
        BY <1>4, <1>10, <3>1, <3>2, <3>3 DEF FanInv, NoneOvertaken, Overtakes
      <3>4. CASE m = Len(asked) + 1
        BY <1>4, <1>11, <3>1, <3>2, <3>4
      <3> QED
        BY <1>4, <3>3, <3>4
    <2> QED
      BY <2>1, <2>2 DEF NoneOvertaken
  <1>14. JoinComesFirst'
    <2> SUFFICES ASSUME fan'[Join] # "idle", fan'[Leave] # "idle"
                 PROVE  Fan!Before(arrived', Join, Leave)
      BY DEF JoinComesFirst, Fan!Before
    <2>1. Join \in Commands /\ Leave \in Commands /\ Join # Leave
      BY ControllerConstants
    <2>2. CASE c = Leave
      <3>1. \E n \in DOMAIN arrived : arrived[n] = Join
        BY <1>6, <2>1, <2>2 DEF FanInv, FanAgrees
      <3> QED
        BY <1>1, <1>2, <2>2, <3>1, BeforeAppended
    <2>3. CASE c # Leave
      <3>1. c # Join
        BY <1>6, <2>1, <2>3
      <3> QED
        BY <1>6, <1>10, <2>1, <2>3, <3>1 DEF FanInv, JoinComesFirst
    <2> QED
      BY <2>2, <2>3
  <1>15. NoCommandActsLate'
    <2>1. ASSUME NEW i \in DOMAIN handled', NEW j \in DOMAIN handled', i < j,
                 Fan!Supersedes(handled'[i], handled'[j])
          PROVE  Fan!Before(arrived', handled'[i], handled'[j])
      BY <1>1, <1>7, <1>10, <2>1 DEF FanInv, NoCommandActsLate
    <2> QED
      BY <2>1 DEF NoCommandActsLate, Fan!Supersedes, Fan!Bumps, Fan!Captures, Fan!Before
  <1> QED
    BY <1>8, <1>9, <1>13, <1>14, <1>15 DEF FanInv

(* Chrome's oldest request leaves its queue: the others keep their order.  *)
LEMMA OldestLeaves ==
    ASSUME FanInv, asked # <<>>, asked' = Tail(asked)
    PROVE  /\ Head(asked) \in Commands /\ fan[Head(asked)] = "asked" /\ asked' \in Seq(Commands)
           /\ \A m \in DOMAIN asked' : /\ m + 1 \in DOMAIN asked /\ m + 1 > 1
                                       /\ asked'[m] = asked[m + 1] /\ asked'[m] \in Commands
                                       /\ asked'[m] # Head(asked)
           /\ 1 \in DOMAIN asked /\ asked[1] = Head(asked)
           /\ DOMAIN asked' \subseteq Nat
           /\ \A m, n \in DOMAIN asked' : asked'[m] = asked'[n] => m = n
  <1>1. /\ asked \in Seq(Commands) /\ asked' \in Seq(Commands)
        /\ Len(asked) \in Nat \ {0} /\ DOMAIN asked = 1..Len(asked)
        /\ Head(asked) = asked[1]
        /\ DOMAIN asked' = 1..(Len(asked) - 1)
        /\ \A m \in 1..(Len(asked) - 1) : asked'[m] = asked[m + 1]
    BY HeadTailProperties, LenProperties, EmptySeq DEF FanInv, FanTypeOK
  <1>2. \A m \in DOMAIN asked : asked[m] \in Commands
    BY <1>1, ElementOfSeq
  <1>3. \A m \in DOMAIN asked' : m + 1 \in DOMAIN asked /\ m + 1 > 1 /\ asked'[m] = asked[m + 1]
    BY <1>1
  <1>4. 1 \in DOMAIN asked /\ asked[1] = Head(asked)
    BY <1>1
  <1>5. \A m, n \in DOMAIN asked : asked[m] = asked[n] => m = n
    BY DEF FanInv, FanAgrees
  <1>6. \A m \in DOMAIN asked' : asked'[m] # Head(asked)
    BY <1>3, <1>4, <1>5
  <1>7. \A m, n \in DOMAIN asked' : asked'[m] = asked'[n] => m = n
    <2> TAKE m, n \in DOMAIN asked'
    <2>1. m \in Nat /\ n \in Nat
      BY <1>1
    <2> QED
      BY <1>3, <1>5, <2>1
  <1>8. fan[Head(asked)] = "asked"
    BY <1>4 DEF FanInv, FanAgrees
  <1>9. DOMAIN asked' \subseteq Nat
    BY <1>1
  <1> QED
    BY <1>1, <1>2, <1>3, <1>4, <1>6, <1>7, <1>8, <1>9

(* What the content script takes next is older than nothing it has taken   *)
(* and should not have.                                                    *)
LEMMA DeliveryKeepsOrder ==
    ASSUME FanInv, NEW c \in Commands, Fan!Delivered(c)
    PROVE  FanInv'
  <1>1. /\ asked # <<>> /\ c = Head(asked) /\ asked' = Tail(asked)
        /\ handled' = Append(handled, c) /\ arrived' = arrived
        /\ fan' = [fan EXCEPT ![c] = "delivered"]
    BY DEF Fan!Delivered
  <1>2. /\ arrived \in Seq(Commands) /\ asked \in Seq(Commands) /\ handled \in Seq(Commands)
        /\ DOMAIN fan = Commands
    BY DEF FanInv, FanTypeOK
  <1>3. /\ fan[c] = "asked" /\ asked' \in Seq(Commands)
        /\ \A m \in DOMAIN asked' : /\ m + 1 \in DOMAIN asked /\ m + 1 > 1
                                    /\ asked'[m] = asked[m + 1] /\ asked'[m] \in Commands
                                    /\ asked'[m] # c
        /\ 1 \in DOMAIN asked /\ asked[1] = c
        /\ DOMAIN asked' \subseteq Nat
        /\ \A m, n \in DOMAIN asked' : asked'[m] = asked'[n] => m = n
    BY <1>1, OldestLeaves
  <1>4. /\ Len(handled) \in Nat /\ DOMAIN handled = 1..Len(handled)
        /\ DOMAIN handled' = 1..(Len(handled) + 1) /\ handled'[Len(handled) + 1] = c
        /\ \A i \in DOMAIN handled : i \in DOMAIN handled' /\ handled'[i] = handled[i] /\ handled[i] \in Commands
    BY <1>1, <1>2, LenProperties, AppendProperties, ElementOfSeq
  <1>5. fan'[c] = "delivered" /\ \A d \in Commands : d # c => fan'[d] = fan[d]
    BY <1>1, <1>2
  <1>6. \A n \in DOMAIN arrived : arrived[n] \in Commands
    BY <1>2, ElementOfSeq
  <1>7. FanTypeOK'
    BY <1>1, <1>2, <1>3, AppendProperties DEF FanInv, FanTypeOK
  <1>8. FanAgrees'
    <2>1. \A d \in Commands : fan'[d] # "idle" => \E n \in DOMAIN arrived' : arrived'[n] = d
      BY <1>1, <1>3, <1>5 DEF FanInv, FanAgrees
    <2>2. \A n \in DOMAIN arrived' : fan'[arrived'[n]] # "idle"
      BY <1>1, <1>5, <1>6 DEF FanInv, FanAgrees
    <2>3. \A m \in DOMAIN asked' : fan'[asked'[m]] = "asked"
      BY <1>3, <1>5 DEF FanInv, FanAgrees
    <2>4. \A d \in Commands : fan'[d] = "delivered" => \E i \in DOMAIN handled' : handled'[i] = d
      <3>1. \E i \in DOMAIN handled' : handled'[i] = c
        BY <1>4
      <3>2. ASSUME NEW d \in Commands, d # c, fan'[d] = "delivered"
            PROVE  \E i \in DOMAIN handled' : handled'[i] = d
        BY <1>4, <1>5, <3>2 DEF FanInv, FanAgrees
      <3> QED
        BY <3>1, <3>2
    <2>5. \A i \in DOMAIN handled' : fan'[handled'[i]] = "delivered"
      BY <1>4, <1>5 DEF FanInv, FanAgrees
    <2> QED
      BY <1>3, <2>1, <2>2, <2>3, <2>4, <2>5 DEF FanAgrees
  <1>9. NoneOvertaken'
    <2>1. ASSUME NEW m \in DOMAIN asked', NEW n \in DOMAIN asked', Overtakes(asked[n], asked[m])'
          PROVE  m < n
      <3>1. Overtakes(asked[n + 1], asked[m + 1])
        BY <1>1, <1>3, <2>1 DEF Overtakes, Fan!Supersedes, Fan!Bumps, Fan!Captures, Fan!Before
      <3>2. m + 1 < n + 1 /\ m \in Nat /\ n \in Nat
        BY <1>3, <3>1 DEF FanInv, NoneOvertaken
      <3> QED
        BY <3>2
    <2>2. ASSUME NEW m \in DOMAIN asked', NEW i \in DOMAIN handled', Overtakes(handled[i], asked[m])'
          PROVE  FALSE
      <3>1. Overtakes(handled'[i], asked[m + 1])
        BY <1>1, <1>3, <2>2 DEF Overtakes, Fan!Supersedes, Fan!Bumps, Fan!Captures, Fan!Before
      <3>2. CASE i \in DOMAIN handled
        BY <1>3, <1>4, <3>1, <3>2 DEF FanInv, NoneOvertaken
      <3>3. CASE i = Len(handled) + 1
        <4>1. Overtakes(asked[1], asked[m + 1])
          BY <1>3, <1>4, <3>1, <3>3
        <4>2. m + 1 < 1 /\ m \in Nat
          BY <1>3, <4>1 DEF FanInv, NoneOvertaken
        <4> QED
          BY <4>2
      <3> QED
        BY <1>4, <3>2, <3>3
    <2> QED
      BY <2>1, <2>2 DEF NoneOvertaken
  <1>10. JoinComesFirst'
    <2> SUFFICES ASSUME fan'[Join] # "idle", fan'[Leave] # "idle"
                 PROVE  Fan!Before(arrived, Join, Leave)
      BY <1>1 DEF JoinComesFirst, Fan!Before
    <2>1. Join \in Commands /\ Leave \in Commands
      BY ControllerConstants
    <2> QED
      BY <1>3, <1>5, <2>1 DEF FanInv, JoinComesFirst
  <1>11. NoCommandActsLate'
    <2>1. ASSUME NEW i \in DOMAIN handled', NEW j \in DOMAIN handled', i < j,
                 Fan!Supersedes(handled'[i], handled'[j])
          PROVE  Fan!Before(arrived', handled'[i], handled'[j])
      <3>1. CASE j \in DOMAIN handled
        <4>1. i \in DOMAIN handled
          BY <1>4, <2>1, <3>1
        <4> QED
          BY <1>1, <1>4, <2>1, <3>1, <4>1 DEF FanInv, NoCommandActsLate
      <3>2. CASE j = Len(handled) + 1
        <4>1. i \in DOMAIN handled /\ handled'[i] = handled[i] /\ handled'[j] = c
          BY <1>4, <2>1, <3>2
        <4>2. ~Overtakes(handled[i], asked[1])
          BY <1>3, <4>1 DEF FanInv, NoneOvertaken
        <4>3. ~Fan!Before(arrived, c, handled[i])
          BY <1>3, <2>1, <4>1, <4>2 DEF Overtakes
        <4>4. fan[handled[i]] = "delivered" /\ handled[i] \in Commands
          BY <1>4, <4>1 DEF FanInv, FanAgrees
        <4>5. PICK n \in DOMAIN arrived : arrived[n] = handled[i]
          BY <4>4 DEF FanInv, FanAgrees
        <4>6. PICK k \in DOMAIN arrived : arrived[k] = c
          BY <1>3 DEF FanInv, FanAgrees
        <4>7. c # handled[i]
          BY <1>3, <4>4
        <4>8. Fan!Before(arrived, handled[i], c)
          BY <1>2, <4>3, <4>5, <4>6, <4>7, OneCameFirst
        <4> QED
          BY <1>1, <4>1, <4>8
      <3> QED
        BY <1>4, <3>1, <3>2
    <2> QED
      BY <2>1 DEF NoCommandActsLate, Fan!Supersedes, Fan!Bumps, Fan!Captures, Fan!Before
  <1> QED
    BY <1>7, <1>8, <1>9, <1>10, <1>11 DEF FanInv

(* With no tab there, the command waits or is given up.                    *)
LEMMA MissKeepsOrder ==
    ASSUME FanInv, Fan!NoTab
    PROVE  FanInv'
  <1> DEFINE c == Head(asked)
  <1>1. /\ asked # <<>> /\ asked' = Tail(asked) /\ handled' = handled /\ arrived' = arrived
    BY DEF Fan!NoTab
  <1>2. PICK next \in {"waiting", "dropped"} : fan' = [fan EXCEPT ![c] = next]
    BY DEF Fan!NoTab
  <1>3. /\ arrived \in Seq(Commands) /\ asked \in Seq(Commands) /\ handled \in Seq(Commands)
        /\ DOMAIN fan = Commands
    BY DEF FanInv, FanTypeOK
  <1>4. /\ c \in Commands /\ fan[c] = "asked" /\ asked' \in Seq(Commands)
        /\ \A m \in DOMAIN asked' : /\ m + 1 \in DOMAIN asked /\ m + 1 > 1
                                    /\ asked'[m] = asked[m + 1] /\ asked'[m] \in Commands
                                    /\ asked'[m] # c
        /\ DOMAIN asked' \subseteq Nat
        /\ \A m, n \in DOMAIN asked' : asked'[m] = asked'[n] => m = n
    BY <1>1, OldestLeaves
  <1> HIDE DEF c
  <1>5. /\ fan'[c] \in {"waiting", "dropped"}
        /\ \A d \in Commands : d # c => fan'[d] = fan[d]
    BY <1>2, <1>3, <1>4
  <1>6. /\ \A n \in DOMAIN arrived : arrived[n] \in Commands
        /\ \A i \in DOMAIN handled : handled[i] \in Commands
    BY <1>3, ElementOfSeq
  <1>7. FanTypeOK'
    BY <1>1, <1>2, <1>3, <1>4 DEF FanInv, FanTypeOK
  <1>8. FanAgrees'
    <2>1. \A d \in Commands : fan'[d] # "idle" => \E n \in DOMAIN arrived' : arrived'[n] = d
      BY <1>1, <1>4, <1>5 DEF FanInv, FanAgrees
    <2>2. \A n \in DOMAIN arrived' : fan'[arrived'[n]] # "idle"
      BY <1>1, <1>5, <1>6 DEF FanInv, FanAgrees
    <2>3. \A m \in DOMAIN asked' : fan'[asked'[m]] = "asked"
      BY <1>4, <1>5 DEF FanInv, FanAgrees
    <2>4. \A d \in Commands : fan'[d] = "delivered" => \E i \in DOMAIN handled' : handled'[i] = d
      BY <1>1, <1>5 DEF FanInv, FanAgrees
    <2>5. \A i \in DOMAIN handled' : fan'[handled'[i]] = "delivered"
      BY <1>1, <1>4, <1>5, <1>6 DEF FanInv, FanAgrees
    <2> QED
      BY <1>4, <2>1, <2>2, <2>3, <2>4, <2>5 DEF FanAgrees
  <1>9. NoneOvertaken'
    <2>1. ASSUME NEW m \in DOMAIN asked', NEW n \in DOMAIN asked', Overtakes(asked[n], asked[m])'
          PROVE  m < n
      <3>1. Overtakes(asked[n + 1], asked[m + 1])
        BY <1>1, <1>4, <2>1 DEF Overtakes, Fan!Supersedes, Fan!Bumps, Fan!Captures, Fan!Before
      <3>2. m + 1 < n + 1 /\ m \in Nat /\ n \in Nat
        BY <1>4, <3>1 DEF FanInv, NoneOvertaken
      <3> QED
        BY <3>2
    <2>2. ASSUME NEW m \in DOMAIN asked', NEW i \in DOMAIN handled', Overtakes(handled[i], asked[m])'
          PROVE  FALSE
      <3>1. Overtakes(handled[i], asked[m + 1])
        BY <1>1, <1>4, <2>2 DEF Overtakes, Fan!Supersedes, Fan!Bumps, Fan!Captures, Fan!Before
      <3> QED
        BY <1>1, <1>4, <3>1 DEF FanInv, NoneOvertaken
    <2> QED
      BY <2>1, <2>2 DEF NoneOvertaken
  <1>10. JoinComesFirst'
    <2> SUFFICES ASSUME fan'[Join] # "idle", fan'[Leave] # "idle"
                 PROVE  Fan!Before(arrived, Join, Leave)
      BY <1>1 DEF JoinComesFirst, Fan!Before
    <2>1. Join \in Commands /\ Leave \in Commands
      BY ControllerConstants
    <2> QED
      BY <1>4, <1>5, <2>1 DEF FanInv, JoinComesFirst
  <1>11. NoCommandActsLate'
    BY <1>1 DEF FanInv, NoCommandActsLate, Fan!Supersedes, Fan!Bumps, Fan!Captures, Fan!Before
  <1> QED
    BY <1>7, <1>8, <1>9, <1>10, <1>11 DEF FanInv

(* A retry looks at the generations again before it asks.                  *)
LEMMA RetryKeepsOrder ==
    ASSUME FanInv, NEW c \in Commands, Fan!RetryFires(c)
    PROVE  FanInv'
  <1>1. /\ fan[c] = "waiting" /\ arrived' = arrived /\ handled' = handled
    BY DEF Fan!RetryFires
  <1>2. /\ arrived \in Seq(Commands) /\ asked \in Seq(Commands) /\ handled \in Seq(Commands)
        /\ DOMAIN fan = Commands
    BY DEF FanInv, FanTypeOK
  <1>3. /\ \A n \in DOMAIN arrived : arrived[n] \in Commands
        /\ \A m \in DOMAIN asked : asked[m] \in Commands /\ asked[m] # c
        /\ \A i \in DOMAIN handled : handled[i] \in Commands /\ handled[i] # c
    BY <1>1, <1>2, ElementOfSeq DEF FanInv, FanAgrees
  <1>4. CASE Fan!IsSuperseded(c)
    <2>1. asked' = asked /\ fan' = [fan EXCEPT ![c] = "dropped"]
      BY <1>4 DEF Fan!RetryFires
    <2>2. fan'[c] = "dropped" /\ \A d \in Commands : d # c => fan'[d] = fan[d]
      BY <1>2, <2>1
    <2>3. FanTypeOK'
      BY <1>1, <1>2, <2>1 DEF FanInv, FanTypeOK
    <2>4. FanAgrees'
      <3>1. \A d \in Commands : fan'[d] # "idle" => \E n \in DOMAIN arrived' : arrived'[n] = d
        BY <1>1, <2>2 DEF FanInv, FanAgrees
      <3>2. \A n \in DOMAIN arrived' : fan'[arrived'[n]] # "idle"
        BY <1>1, <1>3, <2>2 DEF FanInv, FanAgrees
      <3>3. \A m \in DOMAIN asked' : fan'[asked'[m]] = "asked"
        BY <1>3, <2>1, <2>2 DEF FanInv, FanAgrees
      <3>4. \A d \in Commands : fan'[d] = "delivered" => \E i \in DOMAIN handled' : handled'[i] = d
        BY <1>1, <2>2 DEF FanInv, FanAgrees
      <3>5. \A i \in DOMAIN handled' : fan'[handled'[i]] = "delivered"
        BY <1>1, <1>3, <2>2 DEF FanInv, FanAgrees
      <3> QED
        BY <2>1, <3>1, <3>2, <3>3, <3>4, <3>5 DEF FanInv, FanAgrees
    <2>5. NoneOvertaken'
      <3>1. ASSUME NEW d, NEW e, Overtakes(d, e)' PROVE Overtakes(d, e)
        BY <1>1, <3>1 DEF Overtakes, Fan!Supersedes, Fan!Bumps, Fan!Captures, Fan!Before
      <3> QED
        BY <1>1, <2>1, <3>1 DEF FanInv, NoneOvertaken
    <2>6. NoCommandActsLate'
      BY <1>1 DEF FanInv, NoCommandActsLate, Fan!Supersedes, Fan!Bumps, Fan!Captures, Fan!Before
    <2>7. JoinComesFirst'
      <3> SUFFICES ASSUME fan'[Join] # "idle", fan'[Leave] # "idle"
                   PROVE  Fan!Before(arrived, Join, Leave)
        BY <1>1 DEF JoinComesFirst, Fan!Before
      <3>1. Join \in Commands /\ Leave \in Commands
        BY ControllerConstants
      <3> QED
        BY <1>1, <2>2, <3>1 DEF FanInv, JoinComesFirst
    <2> QED
      BY <2>3, <2>4, <2>5, <2>6, <2>7 DEF FanInv
  <1>5. CASE ~Fan!IsSuperseded(c)
    <2>1. asked' = Append(asked, c) /\ fan' = [fan EXCEPT ![c] = "asked"]
      BY <1>5 DEF Fan!RetryFires
    <2>2. fan'[c] = "asked" /\ \A d \in Commands : d # c => fan'[d] = fan[d]
      BY <1>2, <2>1
    <2>3. /\ Len(asked) \in Nat /\ DOMAIN asked = 1..Len(asked)
          /\ DOMAIN asked' = 1..(Len(asked) + 1) /\ asked'[Len(asked) + 1] = c
          /\ \A m \in DOMAIN asked : m \in DOMAIN asked' /\ asked'[m] = asked[m]
      BY <1>2, <2>1, LenProperties, AppendProperties
    <2>4. \A n \in DOMAIN arrived : ~Overtakes(arrived[n], c)
      BY <1>5 DEF Fan!IsSuperseded, Fan!ToSet, Overtakes
    <2>5. \A d \in Commands : ~Overtakes(d, c)
      <3> TAKE d \in Commands
      <3> SUFFICES ASSUME Fan!Before(arrived, c, d) PROVE ~Overtakes(d, c)
        BY DEF Overtakes
      <3>1. PICK n \in DOMAIN arrived : arrived[n] = d
        BY <1>2, BeforeIsWithin
      <3> QED
        BY <2>4, <3>1
    <2>6. FanTypeOK'
      BY <1>1, <1>2, <2>1, AppendProperties DEF FanInv, FanTypeOK
    <2>7. FanAgrees'
      <3>1. \A d \in Commands : fan'[d] # "idle" => \E n \in DOMAIN arrived' : arrived'[n] = d
        BY <1>1, <2>2 DEF FanInv, FanAgrees
      <3>2. \A n \in DOMAIN arrived' : fan'[arrived'[n]] # "idle"
        BY <1>1, <1>3, <2>2 DEF FanInv, FanAgrees
      <3>3. \A m \in DOMAIN asked' : fan'[asked'[m]] = "asked"
        BY <1>3, <2>2, <2>3 DEF FanInv, FanAgrees
      <3>4. \A d \in Commands : fan'[d] = "delivered" => \E i \in DOMAIN handled' : handled'[i] = d
        BY <1>1, <2>2 DEF FanInv, FanAgrees
      <3>5. \A i \in DOMAIN handled' : fan'[handled'[i]] = "delivered"
        BY <1>1, <1>3, <2>2 DEF FanInv, FanAgrees
      <3>6. \A m, n \in DOMAIN asked' : asked'[m] = asked'[n] => m = n
        BY <1>3, <2>3 DEF FanInv, FanAgrees
      <3> QED
        BY <3>1, <3>2, <3>3, <3>4, <3>5, <3>6 DEF FanAgrees
    <2>8. NoneOvertaken'
      <3>1. ASSUME NEW m \in DOMAIN asked', NEW n \in DOMAIN asked', Overtakes(asked[n], asked[m])'
            PROVE  m < n
        <4>1. Overtakes(asked'[n], asked'[m])
          BY <1>1, <3>1 DEF Overtakes, Fan!Supersedes, Fan!Bumps, Fan!Captures, Fan!Before
        <4>2. asked'[n] \in Commands
          BY <1>3, <2>3
        <4>3. m \in DOMAIN asked
          BY <2>3, <2>5, <4>1, <4>2
        <4>4. CASE n \in DOMAIN asked
          BY <2>3, <4>1, <4>3, <4>4 DEF FanInv, NoneOvertaken
        <4>5. CASE n = Len(asked) + 1
          BY <2>3, <4>3, <4>5
        <4> QED
          BY <2>3, <4>4, <4>5
      <3>2. ASSUME NEW m \in DOMAIN asked', NEW i \in DOMAIN handled', Overtakes(handled[i], asked[m])'
            PROVE  FALSE
        <4>1. Overtakes(handled[i], asked'[m]) /\ i \in DOMAIN handled
          BY <1>1, <3>2 DEF Overtakes, Fan!Supersedes, Fan!Bumps, Fan!Captures, Fan!Before
        <4>2. m \in DOMAIN asked
          BY <1>3, <2>3, <2>5, <4>1
        <4> QED
          BY <2>3, <4>1, <4>2 DEF FanInv, NoneOvertaken
      <3> QED
        BY <3>1, <3>2 DEF NoneOvertaken
    <2>9. JoinComesFirst'
      <3> SUFFICES ASSUME fan'[Join] # "idle", fan'[Leave] # "idle"
                   PROVE  Fan!Before(arrived, Join, Leave)
        BY <1>1 DEF JoinComesFirst, Fan!Before
      <3>1. Join \in Commands /\ Leave \in Commands
        BY ControllerConstants
      <3> QED
        BY <1>1, <2>2, <3>1 DEF FanInv, JoinComesFirst
    <2>10. NoCommandActsLate'
      BY <1>1 DEF FanInv, NoCommandActsLate, Fan!Supersedes, Fan!Bumps, Fan!Captures, Fan!Before
    <2> QED
      BY <2>6, <2>7, <2>8, <2>9, <2>10 DEF FanInv
  <1> QED
    BY <1>4, <1>5

(* Nothing that leaves the worker and the content script alone matters.    *)
LEMMA IdleKeepsOrder ==
    ASSUME FanInv, UNCHANGED <<arrived, fan, asked, handled>>
    PROVE  FanInv'
  <1>1. FanTypeOK' /\ FanAgrees'
    BY DEF FanInv, FanTypeOK, FanAgrees
  <1>2. NoneOvertaken'
    <2>1. ASSUME NEW d, NEW e, Overtakes(d, e)' PROVE Overtakes(d, e)
      BY <2>1 DEF Overtakes, Fan!Supersedes, Fan!Bumps, Fan!Captures, Fan!Before
    <2> QED
      BY <2>1 DEF FanInv, NoneOvertaken
  <1>3. NoCommandActsLate'
    BY DEF FanInv, NoCommandActsLate, Fan!Supersedes, Fan!Bumps, Fan!Captures, Fan!Before
  <1>4. JoinComesFirst'
    BY DEF FanInv, JoinComesFirst, Fan!Before
  <1> QED
    BY <1>1, <1>2, <1>3, <1>4 DEF FanInv

(* What a step of the whole does to the bridge.                            *)
LEMMA BridgeStep ==
    ASSUME [Next]_vars
    PROVE  \/ \E c \in Commands : Fan!Arrives(c) /\ (c = Join => fan[Leave] = "idle")
           \/ \E c \in Commands : Fan!Delivered(c) \/ Fan!RetryFires(c)
           \/ Fan!NoTab
           \/ UNCHANGED <<arrived, fan, asked, handled>>
  <1>0. /\ Join \in Commands /\ Leave \in Commands /\ Join # Leave
        /\ \A c \in Chats : c \in Commands /\ c # Join
        /\ \A a \in AvatarCalls : a \in Commands
        /\ \A a \in AvatarCalls : a # Join
    <2>1. ASSUME NEW a \in AvatarCalls PROVE a # Join
      <3>1. TypeOf[a] \in {"enable", "disable"}
        BY ControllerConstants
      <3> QED
        BY <3>1, ControllerConstants
    <2> QED
      BY <2>1, ControllerConstants
  <1>1. CASE SendJoin
    BY <1>0, <1>1 DEF SendJoin, Leaving
  <1>2. CASE SendLeave
    BY <1>0, <1>2 DEF SendLeave
  <1>3. ASSUME NEW c \in Chats, PostSendChat(c) \/ SendChatViaExtension(c) \/ ReplyTimeout(c)
        PROVE  \/ Fan!Arrives(c)
               \/ UNCHANGED <<arrived, fan, asked, handled>>
    BY <1>3 DEF PostSendChat, SendChatViaExtension, ReplyTimeout, FanIdle
  <1>4. ASSUME NEW a \in AvatarCalls, CallsAvatar(a) \/ AsksCamera(a) \/ AvatarSteps(a)
        PROVE  \/ Fan!Arrives(a)
               \/ UNCHANGED <<arrived, fan, asked, handled>>
    BY <1>4 DEF CallsAvatar, AsksCamera, AvatarSteps, FanIdle
  <1>5. ASSUME NEW c \in Commands, Delivers(c) \/ ScriptSteps(c)
        PROVE  \/ Fan!Delivered(c)
               \/ UNCHANGED <<arrived, fan, asked, handled>>
    BY <1>5 DEF Delivers, ScriptSteps, FanIdle
  <1>6. CASE FanSteps
    BY <1>6 DEF FanSteps, Fan!TabOpens
  <1>7. CASE HandsRun \/ PollActs \/ HostActs
    BY <1>7 DEF HandsRun, PollActs, HostActs, FanIdle
  <1>8. CASE UNCHANGED vars
    BY <1>8 DEF vars
  <1> QED
    BY <1>0, <1>1, <1>2, <1>3, <1>4, <1>5, <1>6, <1>7, <1>8 DEF Next, Steps

LEMMA BridgeInduction == (Init => FanInv) /\ (FanInv /\ [Next]_vars => FanInv')
  <1>1. ASSUME Init PROVE FanInv
    <2>1. /\ arrived = <<>> /\ asked = <<>> /\ handled = <<>>
          /\ fan = [c \in Commands |-> "idle"]
      BY <1>1 DEF Init, Fan!FanInit
    <2>2. /\ DOMAIN arrived = {} /\ DOMAIN asked = {} /\ DOMAIN handled = {}
          /\ \A c \in Commands : fan[c] = "idle"
      BY <2>1
    <2>3. Join \in Commands
      BY ControllerConstants
    <2>4. FanTypeOK
      BY <2>1, EmptySeq DEF FanTypeOK
    <2> QED
      BY <2>2, <2>3, <2>4 DEF FanInv, FanAgrees, NoneOvertaken, JoinComesFirst, NoCommandActsLate
  <1>2. ASSUME FanInv, [Next]_vars PROVE FanInv'
    BY <1>2, BridgeStep, ArrivalKeepsOrder, DeliveryKeepsOrder, MissKeepsOrder, RetryKeepsOrder,
       IdleKeepsOrder
  <1> QED
    BY <1>1, <1>2

(* However long commands are retried and however many there are, the       *)
(* content script never acts on one after a newer one that supersedes it.  *)
THEOREM NothingActsLate == Spec => []NoCommandActsLate
  <1>1. FanInv => NoCommandActsLate
    BY DEF FanInv
  <1> QED
    BY <1>1, BridgeInduction, PTL DEF Spec

-----------------------------------------------------------------------------
(* The join flow.                                                          *)

FlowTypeOK ==
    /\ ScriptTypeOK
    /\ generation \in [Commands -> Nat] /\ joinGeneration \in Nat

(* Only the join knocks, and its generation is past once the leave is in.  *)
JoinIsOld ==
    /\ \A c \in Commands : flow[c] \in {"prejoin", "knocked", "knocked again"} => c = Join
    /\ generation[Join] <= joinGeneration
    /\ fan[Leave] = "delivered" => generation[Join] < joinGeneration

LeaveInv == FanInv /\ FlowTypeOK /\ JoinIsOld

(* The state an EXCEPT leaves.                                             *)
LEMMA Updated ==
    ASSUME NEW D, NEW R, NEW f \in [D -> R], NEW d \in D, NEW r \in R
    PROVE  /\ [f EXCEPT ![d] = r] \in [D -> R]
           /\ [f EXCEPT ![d] = r][d] = r
           /\ \A e \in D : e # d => [f EXCEPT ![d] = r][e] = f[e]
  OBVIOUS

(* The leave that has been taken keeps a join that is still on its way     *)
(* from being taken after it.                                              *)
LEMMA NoJoinAfterLeave ==
    ASSUME FanInv, Fan!Delivered(Join)
    PROVE  fan[Leave] # "delivered"
  <1> SUFFICES ASSUME fan[Leave] = "delivered" PROVE FALSE
    OBVIOUS
  <1>1. Join \in Commands /\ Leave \in Commands
        /\ TypeOf[Join] = "join" /\ TypeOf[Leave] = "leave"
    BY ControllerConstants
  <1>2. asked # <<>> /\ Head(asked) = Join /\ asked' = Tail(asked)
    BY DEF Fan!Delivered
  <1>3. fan[Join] = "asked" /\ 1 \in DOMAIN asked /\ asked[1] = Join
    BY <1>2, OldestLeaves
  <1>4. PICK i \in DOMAIN handled : handled[i] = Leave
    BY <1>1 DEF FanInv, FanAgrees
  <1>5. Fan!Before(arrived, Join, Leave)
    BY <1>3 DEF FanInv, JoinComesFirst
  <1>6. Fan!Supersedes(Leave, Join)
    BY <1>1 DEF Fan!Supersedes, Fan!Bumps, Fan!Captures
  <1>7. Overtakes(handled[i], asked[1])
    BY <1>3, <1>4, <1>5, <1>6 DEF Overtakes
  <1> QED
    BY <1>3, <1>7 DEF FanInv, NoneOvertaken

(* Only a delivery delivers.                                               *)
LEMMA OnlyDeliveryDelivers ==
    ASSUME FanInv, [Next]_vars, NEW d \in Commands, fan'[d] = "delivered", fan[d] # "delivered"
    PROVE  Delivers(d)
  <1>1. DOMAIN fan = Commands
    BY DEF FanInv, FanTypeOK
  <1>2. ASSUME NEW c \in Commands, Fan!Arrives(c) PROVE FALSE
    BY <1>1, <1>2 DEF Fan!Arrives
  <1>3. ASSUME Fan!NoTab PROVE FALSE
    <2>1. PICK next \in {"waiting", "dropped"} : fan' = [fan EXCEPT ![Head(asked)] = next]
      BY <1>3 DEF Fan!NoTab
    <2> QED
      BY <1>1, <2>1
  <1>4. ASSUME NEW c \in Commands, Fan!RetryFires(c) PROVE FALSE
    <2>1. \/ fan' = [fan EXCEPT ![c] = "dropped"]
          \/ fan' = [fan EXCEPT ![c] = "asked"]
      BY <1>4 DEF Fan!RetryFires
    <2> QED
      BY <1>1, <2>1
  <1>5. fan' # fan
    OBVIOUS
  <1>6. PICK c \in Commands : Fan!Delivered(c)
    BY <1>2, <1>3, <1>4, <1>5, BridgeStep
  <1>7. c = d
    BY <1>1, <1>6 DEF Fan!Delivered
  <1>8. \E e \in Commands : Delivers(e)
    <2>1. ASSUME NEW e \in Commands, Fan!Arrives(e) PROVE FALSE
      BY <1>2, <2>1
    <2> QED
      BY <1>2, <1>3, <1>4, <1>5, ControllerConstants
      DEF Next, Steps, vars, SendJoin, SendLeave, PostSendChat, SendChatViaExtension, ReplyTimeout,
          CallsAvatar, AsksCamera, AvatarSteps, ScriptSteps, FanSteps, HandsRun, PollActs, HostActs,
          FanIdle, Fan!TabOpens
  <1>9. PICK e \in Commands : Delivers(e)
    BY <1>8
  <1>10. e = d
    BY <1>1, <1>9 DEF Delivers, Fan!Delivered
  <1> QED
    BY <1>9, <1>10

Knocking == {"prejoin", "knocked", "knocked again"}

(* What one step of a flow may do: it goes elsewhere, never back to        *)
(* knocking, and a join that is past neither announces nor starts anything.*)
LEMMA ScriptStepIsFinal ==
    ASSUME FlowTypeOK, JoinIsOld, NEW c \in Commands, ScriptNext(c)
    PROVE  /\ FlowTypeOK' /\ UNCHANGED <<generation, joinGeneration>>
           /\ \A d \in Commands : flow'[d] \in Knocking => d = Join
           /\ generation[Join] < joinGeneration => UNCHANGED <<announced, session>>
  <1>1. /\ Join \in Commands /\ DOMAIN flow = Commands
        /\ session \in Commands \cup {None} /\ announced \in {"none", "joining", "joined", "error"}
        /\ generation \in [Commands -> Nat] /\ joinGeneration \in Nat
        /\ generation[Join] \in Nat
    BY ControllerConstants DEF FlowTypeOK, ScriptTypeOK
  <1> DEFINE Places == {"idle", "queued", "panel", "typing", "prejoin", "knocked", "knocked again",
                        "toggling"} \cup Ended
  <1>2. flow \in [Commands -> Places] /\ \A d \in Commands : flow[d] \in Knocking => d = Join
    BY DEF FlowTypeOK, ScriptTypeOK, JoinIsOld, Knocking
  <1>3. ASSUME NEW to \in Places, Goes(c, to), to \in Knocking => c = Join
        PROVE  /\ flow' \in [Commands -> Places]
               /\ \A d \in Commands : flow'[d] \in Knocking => d = Join
    <2>1. flow' = [flow EXCEPT ![c] = to]
      BY <1>3 DEF Goes
    <2> QED
      BY <1>2, <1>3, <2>1
  <1>4. ASSUME UNCHANGED <<generation, joinGeneration, session, announced>>,
               NEW to \in Places, Goes(c, to), to \in Knocking => c = Join
        PROVE  /\ FlowTypeOK' /\ UNCHANGED <<generation, joinGeneration>>
               /\ \A d \in Commands : flow'[d] \in Knocking => d = Join
               /\ generation[Join] < joinGeneration => UNCHANGED <<announced, session>>
    BY <1>1, <1>3, <1>4 DEF FlowTypeOK, ScriptTypeOK
  <1>5. ASSUME EnsurePanelOpen(c)
        PROVE  \E to \in Places \ Knocking : Goes(c, to)
    <2>1. "typing" \in Places \ Knocking /\ "panel" \in Places \ Knocking /\ "failed" \in Places \ Knocking
      BY DEF Knocking, Ended
    <2> QED
      BY <1>5, <2>1 DEF EnsurePanelOpen
  <1>6. CASE ToggleSettles(c)
    <2>1. PICK to \in {"changed", "failed"} : Goes(c, to)
      BY <1>6 DEF ToggleSettles
    <2>2. to \in Places /\ to \notin Knocking
      BY DEF Ended, Knocking
    <2> QED
      BY <1>4, <1>6, <2>1, <2>2 DEF ToggleSettles
  <1>7. CASE HandleSendChat(c)
    <2>1. PICK to \in Places \ Knocking : Goes(c, to)
      BY <1>5, <1>7 DEF HandleSendChat
    <2> QED
      BY <1>4, <1>7, <2>1 DEF HandleSendChat
  <1>8. CASE PanelWaitEnds(c)
    <2>1. PICK to \in {"typing", "failed"} : Goes(c, to)
      BY <1>8 DEF PanelWaitEnds
    <2>2. to \in Places /\ to \notin Knocking
      BY DEF Ended, Knocking
    <2> QED
      BY <1>4, <1>8, <2>1, <2>2 DEF PanelWaitEnds
  <1>9. CASE TypeWaitEnds(c)
    <2>1. PICK to \in {"sent", "failed"} : Goes(c, to)
      BY <1>9 DEF TypeWaitEnds
    <2>2. to \in Places /\ to \notin Knocking
      BY DEF Ended, Knocking
    <2> QED
      BY <1>4, <1>9, <2>1, <2>2 DEF TypeWaitEnds
  <1>10. CASE ClickAdmissionButton(c)
    <2>1. Goes(c, "knocked") /\ "knocked" \in Places /\ c = Join
      BY <1>2, <1>10 DEF ClickAdmissionButton, Knocking
    <2> QED
      BY <1>4, <1>10, <2>1 DEF ClickAdmissionButton
  <1>11. CASE RetryAdmissionClick(c)
    <2>1. Goes(c, "knocked again") /\ "knocked again" \in Places /\ c = Join
      BY <1>2, <1>11 DEF RetryAdmissionClick, Knocking
    <2> QED
      BY <1>4, <1>11, <2>1 DEF RetryAdmissionClick
  <1>12. CASE Admitted(c)
    <2>1. c = Join /\ UNCHANGED <<generation, joinGeneration>>
      BY <1>2, <1>12 DEF Admitted, Knocking
    <2>2. \/ session' = c /\ announced' = "joined" /\ generation[c] = joinGeneration
          \/ session' = session /\ announced' = announced
      BY <1>12 DEF Admitted, FinalizeAdmission
    <2>3. session' \in Commands \cup {None} /\ announced' \in {"none", "joining", "joined", "error"}
      BY <1>1, <2>2
    <2>4. generation[Join] < joinGeneration => UNCHANGED <<announced, session>>
      BY <1>1, <2>1, <2>2
    <2>5. PICK to \in Places \ Knocking : Goes(c, to)
      BY <1>5, <1>12 DEF Admitted
    <2>6. /\ flow' \in [Commands -> Places]
          /\ \A d \in Commands : flow'[d] \in Knocking => d = Join
      BY <1>3, <2>5
    <2> QED
      BY <1>1, <2>1, <2>3, <2>4, <2>6 DEF FlowTypeOK, ScriptTypeOK
  <1>13. CASE JoinFlowFails(c)
    <2>1. /\ c = Join /\ Goes(c, "failed") /\ UNCHANGED <<generation, joinGeneration, session>>
          /\ announced' = IF generation[c] = joinGeneration THEN "error" ELSE announced
      BY <1>2, <1>13 DEF JoinFlowFails, Knocking
    <2>2. "failed" \in Places /\ "failed" \notin Knocking
      BY DEF Ended, Knocking
    <2>3. /\ flow' \in [Commands -> Places]
          /\ \A d \in Commands : flow'[d] \in Knocking => d = Join
      BY <1>3, <2>1, <2>2
    <2>4. announced' \in {"none", "joining", "joined", "error"}
      BY <1>1, <2>1
    <2>5. generation[Join] < joinGeneration => UNCHANGED <<announced, session>>
      BY <1>1, <2>1
    <2> QED
      BY <1>1, <2>1, <2>3, <2>4, <2>5 DEF FlowTypeOK, ScriptTypeOK
  <1> QED
    BY <1>6, <1>7, <1>8, <1>9, <1>10, <1>11, <1>12, <1>13 DEF ScriptNext

(* What the content script makes of a command it is sent.                  *)
LEMMA HandlingIsFinal ==
    ASSUME FanInv, FlowTypeOK, JoinIsOld, NEW c \in Commands, Delivers(c)
    PROVE  /\ FlowTypeOK' /\ JoinIsOld'
           /\ fan[Leave] = "delivered" => UNCHANGED <<announced, session>>
  <1>1. /\ Join \in Commands /\ Leave \in Commands /\ Join # Leave /\ DOMAIN flow = Commands
        /\ session \in Commands \cup {None} /\ announced \in {"none", "joining", "joined", "error"}
        /\ generation \in [Commands -> Nat] /\ joinGeneration \in Nat
        /\ generation[Join] \in Nat
    BY ControllerConstants DEF FlowTypeOK, ScriptTypeOK
  <1>2. /\ Fan!Delivered(c) /\ fan[c] = "asked" /\ fan' = [fan EXCEPT ![c] = "delivered"]
        /\ DOMAIN fan = Commands
    BY OldestLeaves DEF Delivers, Fan!Delivered, FanInv, FanTypeOK
  <1>3. \A d \in Commands : d # c => fan'[d] = fan[d]
    BY <1>2
  <1> DEFINE Places == {"idle", "queued", "panel", "typing", "prejoin", "knocked", "knocked again",
                        "toggling"} \cup Ended
  <1>4. flow \in [Commands -> Places] /\ \A d \in Commands : flow[d] \in Knocking => d = Join
    BY DEF FlowTypeOK, ScriptTypeOK, JoinIsOld, Knocking
  <1>5. ASSUME NEW to \in Places, Goes(c, to), to \in Knocking => c = Join
        PROVE  /\ flow' \in [Commands -> Places]
               /\ \A d \in Commands : flow'[d] \in Knocking => d = Join
    <2>1. flow' = [flow EXCEPT ![c] = to]
      BY <1>5 DEF Goes
    <2> QED
      BY <1>4, <1>5, <2>1
  <1>6. CASE HandleJoin(c)
    <2>1. c = Join
      BY <1>6, ControllerConstants DEF HandleJoin
    <2>2. fan[Leave] # "delivered" /\ fan'[Leave] # "delivered"
      BY <1>1, <1>2, <1>3, <2>1, NoJoinAfterLeave
    <2>3. /\ joinGeneration' = joinGeneration + 1 /\ session' = None /\ announced' = "joining"
          /\ generation' = [generation EXCEPT ![c] = joinGeneration']
          /\ Goes(c, "prejoin")
      BY <1>6 DEF HandleJoin
    <2>4. /\ flow' \in [Commands -> Places]
          /\ \A d \in Commands : flow'[d] \in Knocking => d = Join
      BY <1>5, <2>1, <2>3
    <2>5. /\ joinGeneration' \in Nat /\ generation' \in [Commands -> Nat]
          /\ generation'[Join] = joinGeneration'
      BY <1>1, <2>1, <2>3
    <2>6. FlowTypeOK'
      BY <2>3, <2>4, <2>5 DEF FlowTypeOK, ScriptTypeOK
    <2>7. JoinIsOld'
      <3>1. generation'[Join] \in Nat /\ generation'[Join] <= joinGeneration'
        BY <2>5
      <3> QED
        BY <2>2, <2>4, <3>1 DEF JoinIsOld, Knocking
    <2> QED
      BY <2>2, <2>6, <2>7
  <1>7. CASE HandleLeave(c)
    <2>1. c = Leave
      BY <1>7, ControllerConstants DEF HandleLeave
    <2>2. /\ joinGeneration' = joinGeneration + 1 /\ session' = None /\ announced' = announced
          /\ generation' = generation /\ Goes(c, "sent")
      BY <1>7 DEF HandleLeave
    <2>3. "sent" \in Places /\ "sent" \notin Knocking
      BY DEF Ended, Knocking
    <2>4. /\ flow' \in [Commands -> Places]
          /\ \A d \in Commands : flow'[d] \in Knocking => d = Join
      BY <1>5, <2>2, <2>3
    <2>5. /\ joinGeneration' \in Nat /\ generation' \in [Commands -> Nat]
          /\ generation'[Join] < joinGeneration' /\ generation'[Join] <= joinGeneration'
      <3>1. generation[Join] <= joinGeneration
        BY DEF JoinIsOld
      <3>2. generation[Join] < joinGeneration + 1 /\ generation[Join] <= joinGeneration + 1
        BY <1>1, <3>1
      <3> QED
        BY <1>1, <2>2, <3>2
    <2>6. FlowTypeOK'
      BY <1>1, <2>2, <2>4, <2>5 DEF FlowTypeOK, ScriptTypeOK
    <2>7. JoinIsOld'
      BY <2>4, <2>5 DEF JoinIsOld, Knocking
    <2> QED
      BY <1>2, <2>1, <2>6, <2>7
  <1>8. CASE EnqueueSendChat(c) \/ HandleCameraToggle(c)
    <2>1. c # Leave
      BY <1>1, <1>8, ControllerConstants DEF EnqueueSendChat, HandleCameraToggle
    <2>2. PICK to \in {"queued", "failed", "changed", "toggling"} : Goes(c, to)
      BY <1>8 DEF EnqueueSendChat, HandleCameraToggle
    <2>3. /\ joinGeneration' = joinGeneration /\ session' = session /\ announced' = announced
          /\ generation' = generation
      BY <1>8 DEF EnqueueSendChat, HandleCameraToggle
    <2>4. to \in Places /\ to \notin Knocking
      BY DEF Ended, Knocking
    <2>5. /\ flow' \in [Commands -> Places]
          /\ \A d \in Commands : flow'[d] \in Knocking => d = Join
      BY <1>5, <2>2, <2>4
    <2>6. FlowTypeOK'
      BY <1>1, <2>3, <2>5 DEF FlowTypeOK, ScriptTypeOK
    <2>7. fan'[Leave] = fan[Leave]
      BY <1>1, <1>3, <2>1
    <2>8. JoinIsOld'
      BY <2>3, <2>5, <2>7 DEF JoinIsOld, Knocking
    <2> QED
      BY <2>3, <2>6, <2>8
  <1> QED
    BY <1>6, <1>7, <1>8 DEF Delivers, Handle

LEMMA LeaveInduction ==
    /\ Init => LeaveInv
    /\ LeaveInv /\ [Next]_vars =>
          LeaveInv' /\ (fan[Leave] = "delivered" => announced' = announced /\ session' = session)
  <1>1. ASSUME Init PROVE LeaveInv
    <2>1. FanInv
      BY <1>1, BridgeInduction
    <2>2. FlowTypeOK
      BY <1>1 DEF Init, ScriptInit, FlowTypeOK, ScriptTypeOK
    <2>3. JoinIsOld
      <3>1. Join \in Commands /\ Leave \in Commands
        BY ControllerConstants
      <3>2. \A c \in Commands : flow[c] = "idle" /\ fan[c] = "idle"
        BY <1>1 DEF Init, ScriptInit, Fan!FanInit
      <3>3. generation[Join] = 0 /\ joinGeneration = 0
        BY <1>1, <3>1 DEF Init, ScriptInit
      <3>4. generation[Join] <= joinGeneration
        BY <3>3
      <3> QED
        BY <3>1, <3>2, <3>4 DEF JoinIsOld
    <2> QED
      BY <2>1, <2>2, <2>3 DEF LeaveInv
  <1>2. ASSUME LeaveInv, [Next]_vars
        PROVE  LeaveInv' /\ (fan[Leave] = "delivered" => announced' = announced /\ session' = session)
    <2>1. FanInv'
      BY <1>2, BridgeInduction DEF LeaveInv
    <2>2. ASSUME NEW c \in Commands, Delivers(c)
          PROVE  /\ FlowTypeOK' /\ JoinIsOld'
                 /\ fan[Leave] = "delivered" => UNCHANGED <<announced, session>>
      BY <1>2, <2>2, HandlingIsFinal DEF LeaveInv
    <2>3. ASSUME ~\E c \in Commands : Delivers(c)
          PROVE  fan'[Leave] = "delivered" => fan[Leave] = "delivered"
      BY <1>2, <2>3, OnlyDeliveryDelivers, ControllerConstants DEF LeaveInv
    <2>4. ASSUME NEW c \in Commands, ScriptSteps(c)
          PROVE  /\ FlowTypeOK' /\ JoinIsOld'
                 /\ fan[Leave] = "delivered" => UNCHANGED <<announced, session>>
      <3>1. ScriptNext(c) /\ fan' = fan
        BY <2>4 DEF ScriptSteps, FanIdle
      <3>2. /\ FlowTypeOK' /\ generation' = generation /\ joinGeneration' = joinGeneration
            /\ \A d \in Commands : flow'[d] \in Knocking => d = Join
            /\ generation[Join] < joinGeneration => UNCHANGED <<announced, session>>
        BY <1>2, <3>1, ScriptStepIsFinal DEF LeaveInv
      <3> QED
        BY <1>2, <3>1, <3>2 DEF LeaveInv, JoinIsOld, Knocking
    <2>5. CASE UNCHANGED scriptVars
      <3>1. /\ flow' = flow /\ generation' = generation /\ joinGeneration' = joinGeneration
            /\ session' = session /\ announced' = announced
        BY <2>5 DEF scriptVars
      <3>2. FlowTypeOK'
        BY <1>2, <3>1 DEF LeaveInv, FlowTypeOK, ScriptTypeOK
      <3>3. CASE ~\E c \in Commands : Delivers(c)
        BY <1>2, <2>1, <2>3, <3>1, <3>2, <3>3 DEF LeaveInv, JoinIsOld
      <3>4. CASE \E c \in Commands : Delivers(c)
        BY <2>1, <2>2, <3>4 DEF LeaveInv
      <3> QED
        BY <3>3, <3>4
    <2>6. \/ \E c \in Commands : Delivers(c) \/ ScriptSteps(c)
          \/ UNCHANGED scriptVars
      BY <1>2 DEF Next, Steps, vars, SendJoin, SendLeave, PostSendChat, SendChatViaExtension,
         ReplyTimeout, CallsAvatar, AsksCamera, AvatarSteps, FanSteps, HandsRun, PollActs,
         PollShowsPeople, HostActs, ScriptIdle
    <2> QED
      BY <2>1, <2>2, <2>4, <2>5, <2>6 DEF LeaveInv
  <1> QED
    BY <1>1, <1>2

(* Once the content script has taken the leave, a join flow that is still  *)
(* waiting to be admitted announces nothing more and starts no scrapers.   *)
THEOREM LeaveStaysFinal == Spec => LeaveIsFinal
  <1>1. LeaveInv /\ [Next]_vars =>
            [fan[Leave] = "delivered" => announced' = announced /\ session' = session]_vars
    BY LeaveInduction
  <1> QED
    BY <1>1, LeaveInduction, PTL DEF Spec, LeaveIsFinal

-----------------------------------------------------------------------------
(* The camera.                                                             *)

Operations == {"admission", "panel", "camera", "send", "type"}
PageTypeOK == camera \in BOOLEAN /\ lane \in Seq([op : Operations, by : Commands])

(* A command's flow begins as the command is delivered, and an avatar call *)
(* has no flow but a toggle.                                               *)
FlowsFollow ==
    /\ \A c \in Commands : fan[c] # "delivered" => flow[c] = "idle"
    /\ \A a \in AvatarCalls : flow[a] \in {"idle", "toggling", "changed", "failed"}
    /\ \A c \in Commands \ AvatarCalls : flow[c] # "toggling"

(* The call that has the camera asked for is the one whose turn it is; its *)
(* request goes out with its command, and an enabling one has attached the *)
(* writer before.                                                          *)
Busy(a) == call[a] \in {"camera", "camera only"}
CallsStand ==
    \A a \in AvatarCalls :
        /\ Busy(a) => avatarChain # <<>> /\ a = Head(avatarChain) /\ request[a] # "none"
        /\ call[a] \in {"idle", "queued"} => request[a] = "none"
        /\ fan[a] = "idle" <=> request[a] = "none"
        /\ request[a] = "pending" => Busy(a) /\ flow[a] \in {"idle", "toggling"}
        /\ call[a] = "camera" /\ a \in Enabling => writer
        /\ call[a] = "camera only" => a \notin Enabling

(* Unless a request failed, a toggle runs only while its request is        *)
(* pending, has one click in the lane at most, and that click is for a     *)
(* camera which is not yet as desired; once the request has succeeded the  *)
(* camera is, as long as the call has the turn.                            *)
NoneFailed == \A a \in AvatarCalls : request[a] # "failed"
CameraFollows ==
    /\ \A a \in AvatarCalls :
          /\ flow[a] = "toggling" => request[a] = "pending"
          /\ request[a] = "ok" => flow[a] = "changed" /\ (Busy(a) => camera = Desired(a))
    /\ \A m \in DOMAIN lane : lane[m].op = "camera" =>
          /\ lane[m].by \in AvatarCalls /\ flow[lane[m].by] = "toggling"
          /\ camera # Desired(lane[m].by)
          /\ \A n \in DOMAIN lane : lane[n].op = "camera" => n = m
    /\ camera => writer

CameraTypes ==
    /\ FanInv /\ FlowTypeOK /\ Avatar!AvatarTypeOK /\ PageTypeOK
    /\ avatarChain \in Seq(AvatarCalls)
CameraInv == CameraTypes /\ FlowsFollow /\ CallsStand /\ (NoneFailed => CameraFollows)

(* The kinds of the commands.                                              *)
LEMMA Kinds ==
    /\ \A a \in AvatarCalls : a \in Commands /\ TypeOf[a] \in {"enable", "disable"}
    /\ \A c \in Commands : TypeOf[c] \in {"enable", "disable"} => c \in AvatarCalls
    /\ \A c \in Commands : TypeOf[c] \in {"join", "leave", "chat", "enable", "disable"}
    /\ \A a \in AvatarCalls : Desired(a) \in BOOLEAN /\ (Desired(a) <=> a \in Enabling)
    /\ Join \in Commands \ AvatarCalls /\ Leave \in Commands \ AvatarCalls
    /\ Chats \subseteq Commands \ AvatarCalls
  <1>1. \A a \in AvatarCalls : a \in Commands /\ TypeOf[a] \in {"enable", "disable"}
    BY ControllerConstants
  <1>2. \A c \in Commands : TypeOf[c] \in {"enable", "disable"} => c \in AvatarCalls
    <2> SUFFICES ASSUME NEW c \in Commands, TypeOf[c] \in {"enable", "disable"}, c \notin AvatarCalls
                 PROVE  FALSE
      OBVIOUS
    <2>1. c \in Chats \/ c = Join \/ c = Leave
      BY ControllerConstants
    <2> QED
      BY <2>1, ControllerConstants
  <1>3. \A c \in Commands : TypeOf[c] \in {"join", "leave", "chat", "enable", "disable"}
    BY ControllerConstants
  <1>4. \A a \in AvatarCalls : Desired(a) \in BOOLEAN /\ (Desired(a) <=> a \in Enabling)
    BY ControllerConstants DEF Desired
  <1>5. Join \in Commands \ AvatarCalls /\ Leave \in Commands \ AvatarCalls
    BY <1>1, ControllerConstants
  <1>6. Chats \subseteq Commands \ AvatarCalls
    <2> SUFFICES ASSUME NEW c \in Chats PROVE c \in Commands \ AvatarCalls
      OBVIOUS
    <2>1. c \in Commands /\ TypeOf[c] = "chat"
      BY ControllerConstants
    <2> QED
      BY <1>1, <2>1
  <1> QED
    BY <1>1, <1>2, <1>3, <1>4, <1>5, <1>6

(* What has been delivered stays so, and only an arrival ends idleness.    *)
LEMMA FanMoves ==
    ASSUME FanInv, [Next]_vars, NEW d \in Commands
    PROVE  /\ fan[d] = "delivered" => fan'[d] = "delivered"
           /\ fan'[d] = "idle" <=> fan[d] = "idle" /\ ~Fan!Arrives(d)
  <1>1. DOMAIN fan = Commands
    BY DEF FanInv, FanTypeOK
  <1>2. ASSUME NEW c \in Commands, Fan!Arrives(c)
        PROVE  /\ fan[c] = "idle" /\ fan' = [fan EXCEPT ![c] = "asked"]
               /\ d # c => ~Fan!Arrives(d)
    <2>1. fan[c] = "idle" /\ fan' = [fan EXCEPT ![c] = "asked"]
      BY <1>2 DEF Fan!Arrives
    <2>2. fan'[c] # fan[c]
      BY <1>1, <2>1
    <2>3. ASSUME d # c, Fan!Arrives(d) PROVE FALSE
      <3>1. fan' = [fan EXCEPT ![d] = "asked"]
        BY <2>3 DEF Fan!Arrives
      <3> QED
        BY <1>1, <2>2, <2>3, <3>1
    <2> QED
      BY <2>1, <2>3
  <1>3. CASE \E c \in Commands : Fan!Arrives(c)
    <2>1. PICK c \in Commands : Fan!Arrives(c)
      BY <1>3
    <2>2. /\ fan[c] = "idle" /\ fan' = [fan EXCEPT ![c] = "asked"]
          /\ d # c => ~Fan!Arrives(d)
      BY <1>2, <2>1
    <2> QED
      BY <1>1, <2>1, <2>2
  <1>4. ASSUME ~\E c \in Commands : Fan!Arrives(c), NEW c \in Commands, NEW to,
               fan[c] \in {"asked", "waiting"}, to \in {"delivered", "waiting", "dropped", "asked"},
               fan' = [fan EXCEPT ![c] = to]
        PROVE  /\ fan[d] = "delivered" => fan'[d] = "delivered"
               /\ fan'[d] = "idle" <=> fan[d] = "idle" /\ ~Fan!Arrives(d)
    BY <1>1, <1>4
  <1>5. CASE ~\E c \in Commands : Fan!Arrives(c)
    <2>1. ASSUME NEW c \in Commands, Fan!Delivered(c)
          PROVE  fan[c] = "asked" /\ fan' = [fan EXCEPT ![c] = "delivered"]
      BY <2>1, OldestLeaves DEF Fan!Delivered
    <2>2. ASSUME NEW c \in Commands, Fan!RetryFires(c)
          PROVE  /\ fan[c] = "waiting"
                 /\ \E to \in {"dropped", "asked"} : fan' = [fan EXCEPT ![c] = to]
      BY <2>2 DEF Fan!RetryFires
    <2>3. ASSUME Fan!NoTab
          PROVE  /\ fan[Head(asked)] = "asked" /\ Head(asked) \in Commands
                 /\ \E to \in {"waiting", "dropped"} : fan' = [fan EXCEPT ![Head(asked)] = to]
      BY <2>3, OldestLeaves DEF Fan!NoTab
    <2>4. CASE fan' = fan
      BY <1>5, <2>4
    <2> QED
      BY <1>4, <1>5, <2>1, <2>2, <2>3, <2>4, BridgeStep
  <1> QED
    BY <1>3, <1>5

(* A step of a chat's or of the join's flow: it goes on, and asks the bot  *)
(* for at most one thing, which is not a click on the camera.              *)
LEMMA FlowAsks ==
    ASSUME NEW c \in Commands, ScriptNext(c), flow[c] # "toggling"
    PROVE  /\ camera' = camera
           /\ flow[c] \in {"queued", "panel", "typing", "prejoin", "knocked", "knocked again"}
           /\ \E to \in {"typing", "panel", "failed", "sent", "knocked", "knocked again"} : Goes(c, to)
           /\ \/ lane' = lane
              \/ \E op \in Operations \ {"camera"} : lane' = Append(lane, [op |-> op, by |-> c])
  <1> DEFINE Asked == \/ lane' = lane
                      \/ \E op \in Operations \ {"camera"} : lane' = Append(lane, [op |-> op, by |-> c])
  <1>1. ASSUME NEW op \in {"admission", "panel", "send", "type"}, Asks(op, c) PROVE Asked
    BY <1>1 DEF Asks, Operations
  <1>2. ASSUME AsksNothing PROVE Asked
    BY <1>2 DEF AsksNothing
  <1>3. ASSUME EnsurePanelOpen(c)
        PROVE  Asked /\ \E to \in {"typing", "panel", "failed"} : Goes(c, to)
    <2>1. Asks("type", c) \/ Asks("panel", c) \/ AsksNothing
      BY <1>3 DEF EnsurePanelOpen
    <2> HIDE DEF Asked
    <2>2. Asked
      BY <1>1, <1>2, <2>1
    <2>3. \E to \in {"typing", "panel", "failed"} : Goes(c, to)
      BY <1>3 DEF EnsurePanelOpen
    <2> QED
      BY <2>2, <2>3
  <1> HIDE DEF Asked
  <1>4. CASE HandleSendChat(c)
    BY <1>3, <1>4 DEF HandleSendChat, Asked
  <1>5. CASE PanelWaitEnds(c)
    <2>1. Asked
      BY <1>1, <1>2, <1>5 DEF PanelWaitEnds
    <2> QED
      BY <1>5, <2>1 DEF PanelWaitEnds, Asked
  <1>6. CASE TypeWaitEnds(c)
    <2>1. Asked
      BY <1>1, <1>2, <1>6 DEF TypeWaitEnds
    <2> QED
      BY <1>6, <2>1 DEF TypeWaitEnds, Asked
  <1>7. CASE ClickAdmissionButton(c)
    <2>1. Asked
      BY <1>1, <1>7 DEF ClickAdmissionButton
    <2> QED
      BY <1>7, <2>1 DEF ClickAdmissionButton, Asked
  <1>8. CASE RetryAdmissionClick(c)
    <2>1. Asked
      BY <1>1, <1>8 DEF RetryAdmissionClick
    <2> QED
      BY <1>8, <2>1 DEF RetryAdmissionClick, Asked
  <1>9. CASE Admitted(c)
    BY <1>3, <1>9 DEF Admitted, Asked
  <1>10. CASE JoinFlowFails(c)
    BY <1>10 DEF JoinFlowFails, pageVars
  <1>11. ~ToggleSettles(c)
    BY DEF ToggleSettles
  <1> QED
    BY <1>4, <1>5, <1>6, <1>7, <1>8, <1>9, <1>10, <1>11 DEF ScriptNext, Asked

(* What is asked of the page is an operation of the lane.                  *)
LEMMA LaneGrows ==
    ASSUME PageTypeOK, NEW op \in Operations, NEW c \in Commands,
           lane' = Append(lane, [op |-> op, by |-> c])
    PROVE  /\ lane' \in Seq([op : Operations, by : Commands])
           /\ Len(lane) \in Nat /\ DOMAIN lane = 1..Len(lane) /\ DOMAIN lane' = 1..(Len(lane) + 1)
           /\ lane'[Len(lane) + 1] = [op |-> op, by |-> c]
           /\ \A m \in DOMAIN lane : lane'[m] = lane[m]
  <1>1. lane \in Seq([op : Operations, by : Commands])
        /\ [op |-> op, by |-> c] \in [op : Operations, by : Commands]
    BY DEF PageTypeOK
  <1> QED
    BY <1>1, AppendProperties, LenProperties

(* A delivered command starts its flow.                                    *)
LEMMA FlowStarts ==
    ASSUME NEW c \in Commands, Handle(c)
    PROVE  /\ c \in AvatarCalls => HandleCameraToggle(c)
           /\ c \notin AvatarCalls =>
                 /\ UNCHANGED pageVars
                 /\ \E to \in {"prejoin", "sent", "queued"} : Goes(c, to)
  <1>1. ASSUME c \in AvatarCalls PROVE HandleCameraToggle(c)
    BY <1>1, Kinds DEF Handle, HandleJoin, HandleLeave, EnqueueSendChat
  <1>2. ASSUME c \notin AvatarCalls
        PROVE  UNCHANGED pageVars /\ \E to \in {"prejoin", "sent", "queued"} : Goes(c, to)
    <2>1. ~HandleCameraToggle(c)
      BY <1>2, Kinds DEF HandleCameraToggle
    <2> QED
      BY <2>1 DEF Handle, HandleJoin, HandleLeave, EnqueueSendChat
  <1> QED
    BY <1>1, <1>2

LEMMA FlowsKeepFollowing ==
    ASSUME FanInv, FlowTypeOK, FlowsFollow, [Next]_vars
    PROVE  FlowsFollow'
  <1>1. DOMAIN flow = Commands
    BY DEF FlowTypeOK, ScriptTypeOK
  <1>2. \A c \in Commands : fan'[c] # "delivered" => flow[c] = "idle"
    BY FanMoves DEF FlowsFollow
  <1>3. ASSUME NEW c \in Commands, NEW to, Goes(c, to), fan'[c] = "delivered",
               c \in AvatarCalls => to \in {"toggling", "changed", "failed"},
               c \notin AvatarCalls => to # "toggling"
        PROVE  FlowsFollow'
    <2>1. flow'[c] = to /\ \A d \in Commands : d # c => flow'[d] = flow[d]
      BY <1>1, <1>3 DEF Goes
    <2>2. \A d \in Commands : fan'[d] # "delivered" => flow'[d] = "idle"
      BY <1>2, <1>3, <2>1
    <2>3. \A a \in AvatarCalls : flow'[a] \in {"idle", "toggling", "changed", "failed"}
      BY <1>3, <2>1, Kinds DEF FlowsFollow
    <2>4. \A d \in Commands \ AvatarCalls : flow'[d] # "toggling"
      BY <1>3, <2>1 DEF FlowsFollow
    <2> QED
      BY <2>2, <2>3, <2>4 DEF FlowsFollow
  <1>4. ASSUME NEW c \in Commands, Delivers(c) PROVE FlowsFollow'
    <2>1. DOMAIN fan = Commands /\ fan' = [fan EXCEPT ![c] = "delivered"]
      BY <1>4 DEF Delivers, Fan!Delivered, FanInv, FanTypeOK
    <2>2. fan'[c] = "delivered"
      BY <2>1
    <2>3. ASSUME c \in AvatarCalls
          PROVE  \E to \in {"toggling", "changed", "failed"} : Goes(c, to)
      BY <1>4, <2>3, FlowStarts DEF Delivers, HandleCameraToggle
    <2>4. ASSUME c \notin AvatarCalls
          PROVE  \E to \in {"prejoin", "sent", "queued"} : Goes(c, to)
      BY <1>4, <2>4, FlowStarts DEF Delivers
    <2> QED
      BY <1>3, <2>2, <2>3, <2>4
  <1>5. ASSUME NEW c \in Commands, ScriptSteps(c) PROVE FlowsFollow'
    <2>1. ScriptNext(c) /\ fan' = fan
      BY <1>5 DEF ScriptSteps, FanIdle
    <2>2. CASE flow[c] = "toggling"
      <3>1. ToggleSettles(c)
        BY <2>1, <2>2 DEF ScriptNext, HandleSendChat, PanelWaitEnds, TypeWaitEnds, ClickAdmissionButton,
           RetryAdmissionClick, Admitted, JoinFlowFails
      <3>2. PICK to \in {"changed", "failed"} : Goes(c, to)
        BY <3>1 DEF ToggleSettles
      <3>3. fan'[c] = "delivered"
        BY <2>1, <2>2 DEF FlowsFollow
      <3> QED
        BY <1>3, <2>2, <3>2, <3>3 DEF FlowsFollow
    <2>3. CASE flow[c] # "toggling"
      <3>1. PICK to \in {"typing", "panel", "failed", "sent", "knocked", "knocked again"} : Goes(c, to)
        BY <2>1, <2>3, FlowAsks
      <3>2. flow[c] \in {"queued", "panel", "typing", "prejoin", "knocked", "knocked again"}
        BY <2>1, <2>3, FlowAsks
      <3>3. fan'[c] = "delivered" /\ c \notin AvatarCalls
        BY <2>1, <3>2 DEF FlowsFollow
      <3> QED
        BY <1>3, <3>1, <3>3
    <2> QED
      BY <2>2, <2>3
  <1>6. CASE flow' = flow
    BY <1>2, <1>6 DEF FlowsFollow
  <1>7. \/ \E c \in Commands : Delivers(c) \/ ScriptSteps(c)
        \/ flow' = flow
    BY DEF Next, Steps, vars, SendJoin, SendLeave, PostSendChat, SendChatViaExtension, ReplyTimeout,
       CallsAvatar, AsksCamera, AvatarSteps, FanSteps, HandsRun, PollActs, PollShowsPeople, HostActs,
       ScriptIdle, scriptVars
  <1> QED
    BY <1>4, <1>5, <1>6, <1>7

(* Only the call whose turn it is has a request pending.                   *)
LEMMA OneRequest ==
    ASSUME CallsStand, NEW a \in AvatarCalls, NEW b \in AvatarCalls,
           request[a] = "pending" \/ Busy(a), request[b] = "pending" \/ Busy(b)
    PROVE  a = b
  BY DEF CallsStand

(* A step that concerns neither the calls, nor the toggles, nor the camera *)
(* and its clicks.                                                         *)
LEMMA CameraFrame ==
    ASSUME CameraInv, UNCHANGED <<avatarChain, call, writer, request, camera>>,
           \A a \in AvatarCalls : flow'[a] = flow[a] /\ (fan'[a] = "idle" <=> fan[a] = "idle"),
           \/ lane' = lane
           \/ \E op \in Operations \ {"camera"}, c \in Commands : lane' = Append(lane, [op |-> op, by |-> c])
    PROVE  CallsStand' /\ (NoneFailed' => CameraFollows')
  <1>1. CallsStand'
    BY DEF CameraInv, CallsStand, Busy
  <1>2. ASSUME NoneFailed' PROVE CameraFollows'
    <2>1. CameraFollows
      BY <1>2 DEF CameraInv, NoneFailed
    <2>2. \A a \in AvatarCalls :
             /\ flow'[a] = "toggling" => request'[a] = "pending"
             /\ request'[a] = "ok" => flow'[a] = "changed" /\ (Busy(a)' => camera' = Desired(a))
      <3> TAKE a \in AvatarCalls
      <3>1. /\ flow'[a] = flow[a] /\ request' = request /\ camera' = camera
            /\ Busy(a)' <=> Busy(a)
        BY DEF Busy
      <3>2. /\ flow[a] = "toggling" => request[a] = "pending"
            /\ request[a] = "ok" => flow[a] = "changed" /\ (Busy(a) => camera = Desired(a))
        BY <2>1 DEF CameraFollows
      <3> QED
        BY <3>1, <3>2
    <2>3. \A m \in DOMAIN lane' : lane'[m].op = "camera" => m \in DOMAIN lane /\ lane'[m] = lane[m]
      <3>1. CASE lane' = lane
        BY <3>1
      <3>2. ASSUME NEW op \in Operations \ {"camera"}, NEW c \in Commands,
                   lane' = Append(lane, [op |-> op, by |-> c])
            PROVE  \A m \in DOMAIN lane' : lane'[m].op = "camera" => m \in DOMAIN lane /\ lane'[m] = lane[m]
        <4>1. /\ Len(lane) \in Nat /\ DOMAIN lane = 1..Len(lane) /\ DOMAIN lane' = 1..(Len(lane) + 1)
              /\ lane'[Len(lane) + 1] = [op |-> op, by |-> c]
              /\ \A m \in DOMAIN lane : lane'[m] = lane[m]
          BY <3>2, LaneGrows DEF CameraInv, CameraTypes
        <4>2. lane'[Len(lane) + 1].op # "camera"
          BY <4>1
        <4> QED
          BY <4>1, <4>2
      <3> QED
        BY <3>1, <3>2
    <2>4. \A m \in DOMAIN lane' : lane'[m].op = "camera" =>
             /\ lane'[m].by \in AvatarCalls /\ flow'[lane'[m].by] = "toggling"
             /\ camera' # Desired(lane'[m].by)
             /\ \A n \in DOMAIN lane' : lane'[n].op = "camera" => n = m
      BY <2>1, <2>3 DEF CameraFollows
    <2>5. camera' => writer'
      BY <2>1 DEF CameraFollows
    <2> QED
      BY <2>2, <2>4, <2>5 DEF CameraFollows, Desired
  <1> QED
    BY <1>1, <1>2

(* An answer settles the request of its own command, if it is pending.     *)
LEMMA RepliesSettle ==
    ASSUME CameraInv, NEW c \in Commands, \A a \in AvatarCalls : a # c => flow'[a] = flow[a], Replies
    PROVE  /\ \A a \in AvatarCalls : a # c => request'[a] = request[a]
           /\ c \in AvatarCalls =>
                 request'[c] = IF request[c] = "pending" /\ flow'[c] \in Ended
                               THEN IF flow'[c] = "changed" THEN "ok" ELSE "failed"
                               ELSE request[c]
           /\ c \notin AvatarCalls => request' = request
           /\ UNCHANGED <<avatarChain, call, avatarHandle, renderer, device, writer>>
  <1>1. /\ request' = [a \in AvatarCalls |-> IF request[a] = "pending" /\ flow'[a] \in Ended
                                             THEN IF flow'[a] = "changed" THEN "ok" ELSE "failed"
                                             ELSE request[a]]
        /\ UNCHANGED <<avatarChain, call, avatarHandle, renderer, device, writer>>
    BY DEF Replies
  <1>2. ASSUME NEW a \in AvatarCalls, a # c PROVE request'[a] = request[a]
    <2>1. request[a] = "pending" => flow'[a] \notin Ended
      BY <1>2 DEF CameraInv, CallsStand, Ended
    <2> QED
      BY <1>1, <2>1
  <1>3. ASSUME c \notin AvatarCalls PROVE request' = request
    <2>1. request \in [AvatarCalls -> {"none", "pending", "ok", "failed"}]
      BY DEF CameraInv, CameraTypes, Avatar!AvatarTypeOK
    <2>2. \A a \in AvatarCalls : request'[a] = request[a]
      BY <1>2, <1>3
    <2> QED
      BY <1>1, <2>1, <2>2
  <1> QED
    BY <1>1, <1>2, <1>3

(* A toggle that is delivered: its request is pending, unless it has       *)
(* failed; the camera is as desired, or a click is asked for.              *)
LEMMA ToggleStarts ==
    ASSUME CameraInv, NEW c \in AvatarCalls, Delivers(c)
    PROVE  CallsStand' /\ (NoneFailed' => CameraFollows')
  <1>1. /\ c \in Commands /\ HandleCameraToggle(c) /\ Replies /\ Fan!Delivered(c)
        /\ DOMAIN flow = Commands /\ DOMAIN fan = Commands
    BY Kinds, FlowStarts DEF Delivers, CameraInv, CameraTypes, FlowTypeOK, ScriptTypeOK, FanInv, FanTypeOK
  <1>2. /\ fan[c] = "asked" /\ fan' = [fan EXCEPT ![c] = "delivered"]
        /\ flow[c] = "idle"
    BY <1>1, OldestLeaves DEF Fan!Delivered, CameraInv, CameraTypes, FlowsFollow
  <1>3. \A a \in AvatarCalls : fan'[a] = "idle" <=> fan[a] = "idle"
    BY <1>1, <1>2, Kinds
  <1>4. PICK to \in {"toggling", "changed", "failed"} :
           /\ Goes(c, to)
           /\ to = "toggling" => camera # Desired(c) /\ lane' = Append(lane, [op |-> "camera", by |-> c])
           /\ to # "toggling" => lane' = lane
           /\ to = "changed" => camera = Desired(c)
    BY <1>1 DEF HandleCameraToggle, AsksNothing, Asks
  <1>5. flow'[c] = to /\ \A a \in AvatarCalls : a # c => flow'[a] = flow[a]
    BY <1>1, <1>4, Kinds DEF Goes
  <1>6. camera' = camera
    BY <1>1 DEF HandleCameraToggle
  <1>7. /\ \A a \in AvatarCalls : a # c => request'[a] = request[a]
        /\ request'[c] = IF request[c] = "pending" /\ to \in Ended
                         THEN IF to = "changed" THEN "ok" ELSE "failed"
                         ELSE request[c]
        /\ call' = call /\ avatarChain' = avatarChain /\ writer' = writer
    BY <1>1, <1>5, RepliesSettle
  <1>8. request[c] # "none"
    BY <1>2 DEF CameraInv, CallsStand
  <1>9. CallsStand'
    <2> SUFFICES ASSUME NEW a \in AvatarCalls
                 PROVE  /\ Busy(a)' => avatarChain' # <<>> /\ a = Head(avatarChain') /\ request'[a] # "none"
                        /\ call'[a] \in {"idle", "queued"} => request'[a] = "none"
                        /\ fan'[a] = "idle" <=> request'[a] = "none"
                        /\ request'[a] = "pending" => Busy(a)' /\ flow'[a] \in {"idle", "toggling"}
                        /\ call'[a] = "camera" /\ a \in Enabling => writer'
                        /\ call'[a] = "camera only" => a \notin Enabling
      BY DEF CallsStand
    <2>1. CASE a # c
      BY <1>3, <1>5, <1>7, <2>1 DEF CameraInv, CallsStand, Busy
    <2>2. CASE a = c
      BY <1>3, <1>4, <1>5, <1>7, <1>8, <2>2 DEF CameraInv, CallsStand, Busy, Ended
    <2> QED
      BY <2>1, <2>2
  <1>10. ASSUME NoneFailed' PROVE CameraFollows'
    <2>1. \A a \in AvatarCalls : request[a] # "failed"
      BY <1>7, <1>10 DEF NoneFailed
    <2>2. CameraFollows
      BY <2>1 DEF CameraInv, NoneFailed
    <2>3. request[c] = "pending"
      <3>1. request[c] # "ok"
        BY <1>2, <2>2 DEF CameraFollows
      <3>2. request[c] \in {"none", "pending", "ok", "failed"}
        BY DEF CameraInv, CameraTypes, Avatar!AvatarTypeOK
      <3> QED
        BY <1>8, <2>1, <3>1, <3>2
    <2>4. to # "failed"
      BY <1>7, <1>10, <2>3 DEF NoneFailed, Ended
    <2>5. \A a \in AvatarCalls :
             /\ flow'[a] = "toggling" => request'[a] = "pending"
             /\ request'[a] = "ok" => flow'[a] = "changed" /\ (Busy(a)' => camera' = Desired(a))
      <3> TAKE a \in AvatarCalls
      <3>1. CASE a # c
        BY <1>5, <1>6, <1>7, <2>2, <3>1 DEF CameraFollows, Busy
      <3>2. CASE a = c
        BY <1>4, <1>5, <1>6, <1>7, <2>3, <2>4, <3>2 DEF Ended
      <3> QED
        BY <3>1, <3>2
    <2>6. \A m \in DOMAIN lane : lane[m].op # "camera"
      <3> SUFFICES ASSUME NEW m \in DOMAIN lane, lane[m].op = "camera" PROVE FALSE
        OBVIOUS
      <3> DEFINE b == lane[m].by
      <3>1. b \in AvatarCalls /\ flow[b] = "toggling" /\ request[b] = "pending"
        BY <2>2 DEF CameraFollows
      <3>2. b = c
        <4> HIDE DEF b
        <4> QED
          BY <2>3, <3>1, OneRequest DEF CameraInv
      <3> QED
        BY <1>2, <3>1, <3>2
    <2>7. \A m \in DOMAIN lane' : lane'[m].op = "camera" =>
             /\ lane'[m].by \in AvatarCalls /\ flow'[lane'[m].by] = "toggling"
             /\ camera' # Desired(lane'[m].by)
             /\ \A n \in DOMAIN lane' : lane'[n].op = "camera" => n = m
      <3>1. CASE to # "toggling"
        BY <1>4, <2>6, <3>1
      <3>2. CASE to = "toggling"
        <4>1. /\ Len(lane) \in Nat /\ DOMAIN lane = 1..Len(lane) /\ DOMAIN lane' = 1..(Len(lane) + 1)
              /\ lane'[Len(lane) + 1] = [op |-> "camera", by |-> c]
              /\ \A m \in DOMAIN lane : lane'[m] = lane[m]
          BY <1>1, <1>4, <3>2, LaneGrows DEF CameraInv, CameraTypes, Operations
        <4>2. \A m \in DOMAIN lane' : lane'[m].op = "camera" => m = Len(lane) + 1
          BY <2>6, <4>1
        <4>3. lane'[Len(lane) + 1].by = c
          BY <4>1
        <4> QED
          BY <1>4, <1>5, <1>6, <3>2, <4>2, <4>3
      <3> QED
        BY <3>1, <3>2
    <2>8. camera' => writer'
      BY <1>6, <1>7, <2>2 DEF CameraFollows
    <2> QED
      BY <2>5, <2>7, <2>8 DEF CameraFollows, Desired
  <1> QED
    BY <1>9, <1>10

(* A toggle that ends: what it reports is what the camera is.              *)
LEMMA ToggleEnds ==
    ASSUME CameraInv, NEW c \in Commands, ToggleSettles(c), Replies, fan' = fan
    PROVE  CallsStand' /\ (NoneFailed' => CameraFollows')
  <1>1. /\ flow[c] = "toggling" /\ UNCHANGED pageVars /\ c \in AvatarCalls
        /\ Goes(c, IF camera = Desired(c) THEN "changed" ELSE "failed")
        /\ DOMAIN flow = Commands
    BY DEF ToggleSettles, CameraInv, FlowsFollow, CameraTypes, FlowTypeOK, ScriptTypeOK
  <1>2. camera' = camera /\ lane' = lane
    BY <1>1 DEF pageVars
  <1>3. /\ flow'[c] = IF camera = Desired(c) THEN "changed" ELSE "failed"
        /\ \A a \in AvatarCalls : a # c => flow'[a] = flow[a]
    BY <1>1, Kinds DEF Goes
  <1>4. /\ \A a \in AvatarCalls : a # c => request'[a] = request[a]
        /\ request'[c] = IF request[c] = "pending"
                         THEN IF flow'[c] = "changed" THEN "ok" ELSE "failed"
                         ELSE request[c]
        /\ call' = call /\ avatarChain' = avatarChain /\ writer' = writer
    BY <1>1, <1>3, RepliesSettle DEF Ended
  <1>5. CallsStand'
    <2> SUFFICES ASSUME NEW a \in AvatarCalls
                 PROVE  /\ Busy(a)' => avatarChain' # <<>> /\ a = Head(avatarChain') /\ request'[a] # "none"
                        /\ call'[a] \in {"idle", "queued"} => request'[a] = "none"
                        /\ fan'[a] = "idle" <=> request'[a] = "none"
                        /\ request'[a] = "pending" => Busy(a)' /\ flow'[a] \in {"idle", "toggling"}
                        /\ call'[a] = "camera" /\ a \in Enabling => writer'
                        /\ call'[a] = "camera only" => a \notin Enabling
      BY DEF CallsStand
    <2>1. CASE a # c
      BY <1>3, <1>4, <2>1 DEF CameraInv, CallsStand, Busy
    <2>2. CASE a = c
      <3>1. request'[c] # "pending" /\ (request'[c] = "none" <=> request[c] = "none")
        BY <1>4
      <3> QED
        BY <1>4, <2>2, <3>1 DEF CameraInv, CallsStand, Busy
    <2> QED
      BY <2>1, <2>2
  <1>6. ASSUME NoneFailed' PROVE CameraFollows'
    <2>1. \A a \in AvatarCalls : request[a] # "failed"
      BY <1>4, <1>6 DEF NoneFailed
    <2>2. CameraFollows
      BY <2>1 DEF CameraInv, NoneFailed
    <2>3. request[c] = "pending"
      BY <1>1, <2>2 DEF CameraFollows
    <2>4. flow'[c] = "changed" /\ request'[c] = "ok" /\ camera = Desired(c)
      <3>1. request'[c] # "failed"
        BY <1>1, <1>6 DEF NoneFailed
      <3>2. flow'[c] = "changed" /\ request'[c] = "ok"
        BY <1>4, <2>3, <3>1
      <3> QED
        BY <1>3, <3>2
    <2>5. \A a \in AvatarCalls :
             /\ flow'[a] = "toggling" => request'[a] = "pending"
             /\ request'[a] = "ok" => flow'[a] = "changed" /\ (Busy(a)' => camera' = Desired(a))
      <3> TAKE a \in AvatarCalls
      <3>1. CASE a # c
        BY <1>2, <1>3, <1>4, <2>2, <3>1 DEF CameraFollows, Busy
      <3>2. CASE a = c
        BY <1>2, <2>4, <3>2
      <3> QED
        BY <3>1, <3>2
    <2>6. \A m \in DOMAIN lane : lane[m].op # "camera"
      <3> SUFFICES ASSUME NEW m \in DOMAIN lane, lane[m].op = "camera" PROVE FALSE
        OBVIOUS
      <3>1. PICK b \in AvatarCalls : b = lane[m].by
        BY <2>2 DEF CameraFollows
      <3>2. flow[b] = "toggling" /\ camera # Desired(b) /\ request[b] = "pending"
        BY <2>2, <3>1 DEF CameraFollows
      <3>3. b = c
        BY <1>1, <2>3, <3>2, OneRequest DEF CameraInv
      <3> QED
        BY <2>4, <3>2, <3>3
    <2>7. camera' => writer'
      BY <1>2, <1>4, <2>2 DEF CameraFollows
    <2> QED
      BY <1>2, <2>5, <2>6, <2>7 DEF CameraFollows, Desired
  <1> QED
    BY <1>5, <1>6

(* The lane runs an operation, or fails to.                                *)
LEMMA ClickLands ==
    ASSUME CameraInv, HandsRun
    PROVE  PageTypeOK' /\ CallsStand' /\ (NoneFailed' => CameraFollows')
  <1>1. /\ lane # <<>> /\ lane' = Tail(lane)
        /\ UNCHANGED <<flow, fan, avatarChain, call, writer, request>>
    BY DEF HandsRun, LaneRuns, FanIdle, AvatarIdle, scriptVars
  <1>2. /\ lane \in Seq([op : Operations, by : Commands]) /\ camera \in BOOLEAN
        /\ 1 \in DOMAIN lane /\ Head(lane) = lane[1] /\ lane[1] \in [op : Operations, by : Commands]
        /\ lane' \in Seq([op : Operations, by : Commands])
        /\ \A m \in DOMAIN lane' : m \in Nat /\ m + 1 \in DOMAIN lane /\ m + 1 # 1 /\ lane'[m] = lane[m + 1]
    <2>1. lane \in Seq([op : Operations, by : Commands]) /\ camera \in BOOLEAN
      BY DEF CameraInv, CameraTypes, PageTypeOK
    <2>2. /\ Len(lane) \in Nat \ {0} /\ DOMAIN lane = 1..Len(lane)
          /\ Head(lane) = lane[1]
          /\ lane' \in Seq([op : Operations, by : Commands])
          /\ DOMAIN lane' = 1..(Len(lane) - 1)
          /\ \A m \in 1..(Len(lane) - 1) : lane'[m] = lane[m + 1]
      BY <1>1, <2>1, HeadTailProperties, LenProperties, EmptySeq
    <2>3. 1 \in DOMAIN lane
      BY <2>2
    <2>4. lane[1] \in [op : Operations, by : Commands]
      BY <2>1, <2>2, <2>3, ElementOfSeq
    <2>5. \A m \in DOMAIN lane' : m \in Nat /\ m + 1 \in DOMAIN lane /\ m + 1 # 1 /\ lane'[m] = lane[m + 1]
      BY <2>2
    <2> QED
      BY <2>1, <2>2, <2>3, <2>4, <2>5
  <1>3. \/ camera' = camera
        \/ lane[1].op = "camera" /\ camera' \in {FALSE, ~camera}
    <2>1. lane[1].op \in Operations
      BY <1>2
    <2>2. CASE Effect(lane[1])
      <3>1. lane[1].op = "admission" => camera' = camera
        BY <2>2 DEF Effect, ClickAdmission
      <3>2. lane[1].op = "panel" => camera' = camera
        BY <2>2 DEF Effect, ClickPanel
      <3>3. lane[1].op = "send" => camera' = camera
        BY <2>2 DEF Effect, ClickSend
      <3>4. lane[1].op = "type" => camera' = camera
        BY <2>2 DEF Effect, TypeText
      <3>5. lane[1].op = "camera" => camera' = (page = "inside" /\ ~camera)
        BY <2>2 DEF Effect, ClickCamera
      <3> QED
        BY <2>1, <3>1, <3>2, <3>3, <3>4, <3>5 DEF Operations
    <2>3. CASE UNCHANGED camera
      BY <2>3
    <2> QED
      BY <1>2, <2>2, <2>3 DEF HandsRun, LaneRuns
  <1>4. PageTypeOK'
    BY <1>2, <1>3 DEF PageTypeOK
  <1>5. CallsStand'
    BY <1>1 DEF CameraInv, CallsStand, Busy
  <1>6. ASSUME NoneFailed' PROVE CameraFollows'
    <2>1. CameraFollows
      BY <1>1, <1>6 DEF CameraInv, NoneFailed
    <2>2. \A m \in DOMAIN lane' : lane'[m].op = "camera" =>
             /\ lane'[m].by \in AvatarCalls /\ flow[lane'[m].by] = "toggling"
             /\ camera # Desired(lane'[m].by)
             /\ \A n \in DOMAIN lane' : lane'[n].op = "camera" => n = m
             /\ lane[1].op # "camera"
      <3> TAKE m \in DOMAIN lane'
      <3> HAVE lane'[m].op = "camera"
      <3>1. m \in Nat /\ m + 1 \in DOMAIN lane /\ m + 1 # 1 /\ lane'[m] = lane[m + 1] /\ lane[m + 1].op = "camera"
        BY <1>2
      <3>2. /\ lane[m + 1].by \in AvatarCalls /\ flow[lane[m + 1].by] = "toggling"
            /\ camera # Desired(lane[m + 1].by)
            /\ \A n \in DOMAIN lane : lane[n].op = "camera" => n = m + 1
        BY <2>1, <3>1 DEF CameraFollows
      <3>3. \A n \in DOMAIN lane' : lane'[n].op = "camera" => n = m
        <4> TAKE n \in DOMAIN lane'
        <4> HAVE lane'[n].op = "camera"
        <4>1. n \in Nat /\ n + 1 \in DOMAIN lane /\ lane[n + 1].op = "camera"
          BY <1>2
        <4>2. n + 1 = m + 1
          BY <3>2, <4>1
        <4> QED
          BY <3>1, <4>1, <4>2
      <3> QED
        BY <1>2, <3>1, <3>2, <3>3
    <2>3. CASE camera' = camera
      <3>1. \A a \in AvatarCalls :
               /\ flow'[a] = "toggling" => request'[a] = "pending"
               /\ request'[a] = "ok" => flow'[a] = "changed" /\ (Busy(a)' => camera' = Desired(a))
        BY <1>1, <2>1, <2>3 DEF CameraFollows, Busy
      <3>2. \A m \in DOMAIN lane' : lane'[m].op = "camera" =>
               /\ lane'[m].by \in AvatarCalls /\ flow'[lane'[m].by] = "toggling"
               /\ camera' # Desired(lane'[m].by)
               /\ \A n \in DOMAIN lane' : lane'[n].op = "camera" => n = m
        BY <1>1, <2>2, <2>3
      <3>3. camera' => writer'
        BY <1>1, <2>1, <2>3 DEF CameraFollows
      <3> QED
        BY <3>1, <3>2, <3>3 DEF CameraFollows, Desired
    <2>4. CASE lane[1].op = "camera" /\ camera' \in {FALSE, ~camera}
      <3>1. PICK b \in AvatarCalls : b = lane[1].by
        BY <1>2, <2>1, <2>4 DEF CameraFollows
      <3>2. flow[b] = "toggling" /\ camera # Desired(b) /\ request[b] = "pending"
        BY <1>2, <2>1, <2>4, <3>1 DEF CameraFollows
      <3>3. \A a \in AvatarCalls : request[a] = "ok" => ~Busy(a)
        BY <3>2, OneRequest DEF CameraInv
      <3>4. camera' => writer
        <4> SUFFICES ASSUME camera' PROVE writer
          OBVIOUS
        <4>1. ~camera
          BY <1>2, <2>4
        <4>2. b \in Enabling
          BY <1>2, <3>2, <4>1, Kinds
        <4> QED
          BY <3>2, <4>2 DEF CameraInv, CallsStand, Busy
      <3>5. \A m \in DOMAIN lane' : lane'[m].op # "camera"
        BY <2>2, <2>4
      <3> QED
        BY <1>1, <2>1, <3>3, <3>4, <3>5 DEF CameraFollows, Desired, Busy
    <2> QED
      BY <1>3, <2>3, <2>4
  <1> QED
    BY <1>4, <1>5, <1>6

AvatarTypes == Avatar!AvatarTypeOK /\ avatarChain \in Seq(AvatarCalls)

(* The chain of the calls.                                                 *)
LEMMA ChainMoves ==
    ASSUME NEW S, NEW s \in Seq(S), NEW e \in S
    PROVE  /\ Append(s, e) \in Seq(S)
           /\ s # <<>> => Append(s, e) # <<>> /\ Head(Append(s, e)) = Head(s) /\ Tail(s) \in Seq(S)
  <1>1. /\ Append(s, e) \in Seq(S) /\ Len(s) \in Nat
        /\ Len(Append(s, e)) = Len(s) + 1
        /\ \A n \in 1..Len(s) : Append(s, e)[n] = s[n]
    BY AppendProperties, LenProperties
  <1>2. ASSUME s # <<>>
        PROVE  Append(s, e) # <<>> /\ Head(Append(s, e)) = Head(s) /\ Tail(s) \in Seq(S)
    <2>1. Len(s) > 0 /\ Head(s) = s[1] /\ Tail(s) \in Seq(S)
      BY <1>1, <1>2, HeadTailProperties, EmptySeq
    <2>2. Append(s, e) # <<>>
      BY <1>1, EmptySeq
    <2>3. Head(Append(s, e)) = Append(s, e)[1]
      BY <1>1, <2>2, HeadTailProperties
    <2>4. Append(s, e)[1] = s[1]
      BY <1>1, <2>1
    <2> QED
      BY <2>1, <2>2, <2>3, <2>4
  <1> QED
    BY <1>1, <1>2

(* Flows, camera and lane as they are, what follows depends on the calls   *)
(* alone.                                                                  *)
LEMMA CallFrame ==
    ASSUME CameraInv, UNCHANGED <<flow, camera, lane>>,
           \A b \in AvatarCalls :
              /\ request'[b] = request[b] \/ (request'[b] = "pending" /\ request[b] = "none")
                    \/ request'[b] = "failed"
              /\ flow[b] = "toggling" /\ request[b] = "pending" => request'[b] # "none"
              /\ Busy(b)' => Busy(b) \/ request'[b] = "pending",
           writer => writer' \/ ~camera \/ ~NoneFailed
    PROVE  NoneFailed' => CameraFollows'
  <1> SUFFICES ASSUME NoneFailed' PROVE CameraFollows'
    OBVIOUS
  <1>1. NoneFailed
    BY DEF NoneFailed
  <1>2. CameraFollows
    BY <1>1 DEF CameraInv
  <1>3. \A b \in AvatarCalls :
           /\ flow'[b] = "toggling" => request'[b] = "pending"
           /\ request'[b] = "ok" => flow'[b] = "changed" /\ (Busy(b)' => camera' = Desired(b))
    <2> TAKE b \in AvatarCalls
    <2>1. request'[b] # "failed"
      BY DEF NoneFailed
    <2>2. request'[b] = request[b] \/ (request'[b] = "pending" /\ request[b] = "none")
      BY <2>1
    <2>3. flow'[b] = "toggling" => request'[b] = "pending"
      BY <1>2, <2>2 DEF CameraFollows
    <2>4. request'[b] = "ok" => request[b] = "ok" /\ (Busy(b)' => Busy(b))
      BY <2>2
    <2> QED
      BY <1>2, <2>3, <2>4 DEF CameraFollows
  <1>4. camera' => writer'
    BY <1>1, <1>2 DEF CameraFollows
  <1>5. \A m \in DOMAIN lane' : lane'[m].op = "camera" =>
           /\ lane'[m].by \in AvatarCalls /\ flow'[lane'[m].by] = "toggling"
           /\ camera' # Desired(lane'[m].by)
           /\ \A n \in DOMAIN lane' : lane'[n].op = "camera" => n = m
    BY <1>2 DEF CameraFollows
  <1> QED
    BY <1>3, <1>4, <1>5 DEF CameraFollows, Desired

LEMMA NobodyBusy ==
    ASSUME CallsStand, NEW a \in AvatarCalls, avatarChain # <<>>, Head(avatarChain) = a, ~Busy(a)
    PROVE  \A b \in AvatarCalls : ~Busy(b) /\ request[b] # "pending"
  BY DEF CallsStand

(* POST /avatar/enable and /avatar/disable, from the queue to the answer.  *)
LEMMA CallMoves ==
    ASSUME CameraInv, NEW a \in AvatarCalls, CallsAvatar(a) \/ AsksCamera(a) \/ AvatarSteps(a)
    PROVE  AvatarTypes' /\ CallsStand' /\ (NoneFailed' => CameraFollows')
  <1>1. /\ flow' = flow /\ camera' = camera /\ lane' = lane
    BY DEF CallsAvatar, AsksCamera, AvatarSteps, ScriptIdle, scriptVars, pageVars
  <1>2. /\ call \in [AvatarCalls -> {"idle", "queued", "camera", "camera only", "answered"}]
        /\ request \in [AvatarCalls -> {"none", "pending", "ok", "failed"}]
        /\ avatarHandle \in BOOLEAN /\ renderer \in BOOLEAN /\ device \in BOOLEAN /\ writer \in BOOLEAN
        /\ avatarChain \in Seq(AvatarCalls)
    BY DEF CameraInv, CameraTypes, Avatar!AvatarTypeOK
  <1>3. CASE CallsAvatar(a)
    <2>1. /\ call[a] = "idle" /\ call' = [call EXCEPT ![a] = "queued"]
          /\ avatarChain' = Append(avatarChain, a) /\ fan' = fan
          /\ UNCHANGED <<avatarHandle, renderer, device, writer, request>>
      BY <1>3 DEF CallsAvatar, Avatar!CallsAvatar, Avatar!Goes, FanIdle
    <2>2. /\ avatarChain' \in Seq(AvatarCalls)
          /\ avatarChain # <<>> => avatarChain' # <<>> /\ Head(avatarChain') = Head(avatarChain)
      BY <1>2, <2>1, ChainMoves
    <2>3. call'[a] = "queued" /\ \A b \in AvatarCalls : b # a => call'[b] = call[b]
      BY <1>2, <2>1
    <2>4. AvatarTypes'
      BY <1>2, <2>1, <2>2 DEF AvatarTypes, Avatar!AvatarTypeOK
    <2>5. CallsStand'
      BY <1>1, <2>1, <2>2, <2>3 DEF CameraInv, CallsStand, Busy
    <2>6. \A b \in AvatarCalls : Busy(b)' => Busy(b)
      BY <2>3 DEF Busy
    <2> QED
      BY <1>1, <2>1, <2>4, <2>5, <2>6, CallFrame
  <1>4. CASE AsksCamera(a)
    <2>1. /\ Fan!Arrives(a)
          /\ Avatar!EnableAttaches(a) \/ Avatar!DisableAsksCamera(a)
      BY <1>4 DEF AsksCamera
    <2>2. /\ avatarChain # <<>> /\ Head(avatarChain) = a /\ call[a] = "queued" /\ avatarChain' = avatarChain
          /\ request' = [request EXCEPT ![a] = "pending"]
          /\ \/ a \in Enabling /\ writer' = TRUE /\ call' = [call EXCEPT ![a] = "camera"]
             \/ a \notin Enabling /\ writer' = writer /\ call' = [call EXCEPT ![a] = "camera"]
             \/ a \notin Enabling /\ writer' = writer /\ call' = [call EXCEPT ![a] = "camera only"]
          /\ avatarHandle' \in BOOLEAN /\ renderer' \in BOOLEAN /\ device' \in BOOLEAN
      BY <1>2, <2>1 DEF Avatar!EnableAttaches, Avatar!DisableAsksCamera, Avatar!Turn, Avatar!Goes
    <2>3. /\ call'[a] \in {"camera", "camera only"} /\ (call'[a] = "camera only" => a \notin Enabling)
          /\ a \in Enabling => writer'
          /\ writer' \in BOOLEAN /\ (writer => writer')
          /\ request'[a] = "pending"
          /\ \A b \in AvatarCalls : b # a => call'[b] = call[b] /\ request'[b] = request[b]
      <3>1. /\ a \in Enabling => writer'
            /\ writer' \in BOOLEAN /\ (writer => writer')
        <4>1. writer' = TRUE \/ (a \notin Enabling /\ writer' = writer)
          BY <2>2
        <4>2. CASE writer' = TRUE
          BY <4>2
        <4>3. CASE a \notin Enabling /\ writer' = writer
          BY <1>2, <4>3
        <4> QED
          BY <4>1, <4>2, <4>3
      <3>2. request'[a] = "pending" /\ \A b \in AvatarCalls : b # a => request'[b] = request[b]
        BY <1>2, <2>2
      <3>3. PICK to \in {"camera", "camera only"} :
               call' = [call EXCEPT ![a] = to] /\ (to = "camera only" => a \notin Enabling)
        BY <2>2
      <3>4. call'[a] = to /\ \A b \in AvatarCalls : b # a => call'[b] = call[b]
        BY <1>2, <3>3
      <3> QED
        BY <3>1, <3>2, <3>3, <3>4
    <2>4. /\ \A b \in AvatarCalls : ~Busy(b) /\ request[b] # "pending"
          /\ request[a] = "none" /\ flow[a] = "idle"
      <3>1. ~Busy(a)
        BY <2>2 DEF Busy
      <3>2. request[a] = "none" /\ fan[a] = "idle" /\ a \in Commands
        BY <2>1, <2>2, Kinds DEF CameraInv, CallsStand, Fan!Arrives
      <3>3. flow[a] = "idle"
        BY <3>2 DEF CameraInv, FlowsFollow
      <3> QED
        BY <2>2, <3>1, <3>2, <3>3, NobodyBusy DEF CameraInv
    <2>5. /\ fan'[a] = "asked"
          /\ \A b \in AvatarCalls : b # a => fan'[b] = fan[b]
      <3>1. fan' = [fan EXCEPT ![a] = "asked"] /\ DOMAIN fan = Commands
        BY <2>1 DEF Fan!Arrives, CameraInv, CameraTypes, FanInv, FanTypeOK
      <3> QED
        BY <3>1, Kinds
    <2>6. AvatarTypes'
      <3>1. /\ call' \in [AvatarCalls -> {"idle", "queued", "camera", "camera only", "answered"}]
            /\ request' \in [AvatarCalls -> {"none", "pending", "ok", "failed"}]
        BY <1>2, <2>2
      <3> QED
        BY <1>2, <2>2, <2>3, <3>1 DEF AvatarTypes, Avatar!AvatarTypeOK
    <2>7. CallsStand'
      <3> SUFFICES ASSUME NEW b \in AvatarCalls
                   PROVE  /\ Busy(b)' => avatarChain' # <<>> /\ b = Head(avatarChain') /\ request'[b] # "none"
                          /\ call'[b] \in {"idle", "queued"} => request'[b] = "none"
                          /\ fan'[b] = "idle" <=> request'[b] = "none"
                          /\ request'[b] = "pending" => Busy(b)' /\ flow'[b] \in {"idle", "toggling"}
                          /\ call'[b] = "camera" /\ b \in Enabling => writer'
                          /\ call'[b] = "camera only" => b \notin Enabling
        BY DEF CallsStand
      <3>1. CASE b = a
        BY <1>1, <2>2, <2>3, <2>4, <2>5, <3>1 DEF Busy
      <3>2. CASE b # a
        <4>1. /\ call'[b] = call[b] /\ request'[b] = request[b] /\ fan'[b] = fan[b]
              /\ call[b] \notin {"camera", "camera only"} /\ request[b] # "pending"
          BY <2>3, <2>4, <2>5, <3>2 DEF Busy
        <4>2. /\ call[b] \in {"idle", "queued"} => request[b] = "none"
              /\ fan[b] = "idle" <=> request[b] = "none"
          BY DEF CameraInv, CallsStand
        <4> QED
          BY <4>1, <4>2 DEF Busy
      <3> QED
        BY <3>1, <3>2
    <2>8. \A b \in AvatarCalls :
             /\ request'[b] = request[b] \/ (request'[b] = "pending" /\ request[b] = "none")
             /\ request[b] # "pending"
             /\ Busy(b)' => Busy(b) \/ request'[b] = "pending"
      BY <2>3, <2>4 DEF Busy
    <2> QED
      BY <1>1, <2>3, <2>6, <2>7, <2>8, CallFrame
  <1>5. ASSUME Busy(a) \/ (avatarChain # <<>> /\ Head(avatarChain) = a /\ call[a] = "queued"),
               request[a] # "pending", request' = request, fan' = fan,
               call' = [call EXCEPT ![a] = "answered"], avatarChain' = Tail(avatarChain)
        PROVE  CallsStand' /\ avatarChain' \in Seq(AvatarCalls)
               /\ call' \in [AvatarCalls -> {"idle", "queued", "camera", "camera only", "answered"}]
               /\ \A b \in AvatarCalls : Busy(b)' => Busy(b)
    <2>1. avatarChain # <<>> /\ Head(avatarChain) = a
      BY <1>5 DEF CameraInv, CallsStand
    <2>2. call'[a] = "answered" /\ \A b \in AvatarCalls : b # a => call'[b] = call[b]
      BY <1>2, <1>5
    <2>3. \A b \in AvatarCalls : b # a => ~Busy(b) /\ request[b] # "pending"
      BY <2>1 DEF CameraInv, CallsStand
    <2>4. CallsStand'
      <3> SUFFICES ASSUME NEW b \in AvatarCalls
                   PROVE  /\ ~Busy(b)' /\ call'[b] # "camera" /\ call'[b] # "camera only"
                          /\ call'[b] \in {"idle", "queued"} => request[b] = "none"
                          /\ fan[b] = "idle" <=> request[b] = "none"
                          /\ request[b] # "pending"
        BY <1>5 DEF CallsStand
      <3>1. CASE b = a
        BY <1>5, <2>2, <3>1 DEF Busy, CameraInv, CallsStand
      <3>2. CASE b # a
        BY <1>5, <2>2, <2>3, <3>2 DEF Busy, CameraInv, CallsStand
      <3> QED
        BY <3>1, <3>2
    <2>5. avatarChain' \in Seq(AvatarCalls)
      BY <1>2, <1>5, <2>1, ChainMoves
    <2>6. call' \in [AvatarCalls -> {"idle", "queued", "camera", "camera only", "answered"}]
      BY <1>2, <1>5
    <2>7. \A b \in AvatarCalls : Busy(b)' => Busy(b)
      BY <2>2 DEF Busy
    <2> QED
      BY <2>4, <2>5, <2>6, <2>7
  <1>6. CASE AvatarSteps(a)
    <2>1. fan' = fan
      BY <1>6 DEF AvatarSteps, FanIdle
    <2>2. CASE Avatar!AvatarNext(a)
      <3>1. /\ request' = request /\ call' = [call EXCEPT ![a] = "answered"]
            /\ avatarChain' = Tail(avatarChain)
            /\ Busy(a) \/ (avatarChain # <<>> /\ Head(avatarChain) = a /\ call[a] = "queued")
        BY <2>2 DEF Avatar!AvatarNext, Avatar!EnableRunning, Avatar!EnableFails, Avatar!EnableEnds,
           Avatar!DisableTearsDown, Avatar!DisableOfNothing, Avatar!Answers, Avatar!Goes, Avatar!Turn, Busy
      <3>2. request[a] # "pending"
        <4>1. call[a] = "queued" => request[a] = "none"
          BY DEF CameraInv, CallsStand
        <4> QED
          BY <2>2, <4>1 DEF Avatar!AvatarNext, Avatar!EnableRunning, Avatar!EnableFails, Avatar!EnableEnds,
             Avatar!DisableTearsDown, Avatar!DisableOfNothing
      <3>3. CallsStand' /\ avatarChain' \in Seq(AvatarCalls)
            /\ call' \in [AvatarCalls -> {"idle", "queued", "camera", "camera only", "answered"}]
            /\ \A b \in AvatarCalls : Busy(b)' => Busy(b)
        BY <1>5, <2>1, <3>1, <3>2
      <3>4. CASE Avatar!DisableTearsDown(a)
        <4>1. /\ a \notin Enabling /\ call[a] = "camera" /\ avatarHandle' = avatarHandle
              /\ writer' = FALSE /\ device' = FALSE /\ renderer' = FALSE
          BY <3>4 DEF Avatar!DisableTearsDown
        <4>2. NoneFailed => ~camera
          <5> SUFFICES ASSUME NoneFailed PROVE ~camera
            OBVIOUS
          <5>1. CameraFollows
            BY DEF CameraInv
          <5>2. request[a] # "none" /\ request[a] # "failed"
            BY <4>1 DEF CameraInv, CallsStand, Busy, NoneFailed
          <5>3. request[a] = "ok"
            BY <1>2, <3>2, <5>2
          <5>4. camera = Desired(a)
            BY <4>1, <5>1, <5>3 DEF CameraFollows, Busy
          <5>5. ~Desired(a)
            BY <4>1, Kinds
          <5> QED
            BY <5>4, <5>5
        <4>3. AvatarTypes'
          BY <1>2, <3>1, <3>3, <4>1 DEF AvatarTypes, Avatar!AvatarTypeOK
        <4>4. writer => writer' \/ ~camera \/ ~NoneFailed
          BY <4>2
        <4>5. NoneFailed' => CameraFollows'
          BY <1>1, <3>1, <3>3, <4>4, CallFrame
        <4> QED
          BY <3>3, <4>3, <4>5
      <3>5. CASE ~Avatar!DisableTearsDown(a)
        <4>1. UNCHANGED <<avatarHandle, renderer, device, writer>>
          BY <2>2, <3>5 DEF Avatar!AvatarNext, Avatar!EnableRunning, Avatar!EnableFails, Avatar!EnableEnds,
             Avatar!DisableOfNothing
        <4>2. AvatarTypes'
          BY <1>2, <3>1, <3>3, <4>1 DEF AvatarTypes, Avatar!AvatarTypeOK
        <4>3. NoneFailed' => CameraFollows'
          BY <1>1, <3>1, <3>3, <4>1, CallFrame
        <4> QED
          BY <3>3, <4>2, <4>3
      <3> QED
        BY <3>4, <3>5
    <2>3. CASE Avatar!CameraTimeout(a)
      <3>1. /\ request[a] = "pending" /\ request' = [request EXCEPT ![a] = "failed"]
            /\ UNCHANGED <<avatarChain, call, avatarHandle, renderer, device, writer>>
        BY <2>3 DEF Avatar!CameraTimeout
      <3>2. request'[a] = "failed" /\ \A b \in AvatarCalls : b # a => request'[b] = request[b]
        BY <1>2, <3>1
      <3>3. AvatarTypes'
        BY <1>2, <3>1 DEF AvatarTypes, Avatar!AvatarTypeOK
      <3>4. CallsStand'
        BY <1>1, <2>1, <3>1, <3>2 DEF CameraInv, CallsStand, Busy
      <3>5. ~NoneFailed'
        BY <3>2 DEF NoneFailed
      <3> QED
        BY <3>3, <3>4, <3>5
    <2> QED
      BY <1>6, <2>2, <2>3 DEF AvatarSteps
  <1> QED
    BY <1>3, <1>4, <1>6

(* The shutdown settles what is pending.                                   *)
LEMMA ShutdownSettles ==
    ASSUME CameraInv, SendLeave, \A a \in AvatarCalls : fan'[a] = "idle" <=> fan[a] = "idle"
    PROVE  AvatarTypes' /\ CallsStand' /\ (NoneFailed' => CameraFollows')
  <1>1. /\ flow' = flow /\ camera' = camera /\ lane' = lane
        /\ UNCHANGED <<avatarChain, call, avatarHandle, renderer, device, writer>>
        /\ request' = [a \in AvatarCalls |-> IF request[a] = "pending" THEN "failed" ELSE request[a]]
    BY DEF SendLeave, ScriptIdle, scriptVars, pageVars
  <1>2. request \in [AvatarCalls -> {"none", "pending", "ok", "failed"}]
    BY DEF CameraInv, CameraTypes, Avatar!AvatarTypeOK
  <1>3. request' \in [AvatarCalls -> {"none", "pending", "ok", "failed"}]
    BY <1>1, <1>2
  <1>4. AvatarTypes'
    BY <1>1, <1>3 DEF AvatarTypes, CameraInv, CameraTypes, Avatar!AvatarTypeOK
  <1>5. CallsStand'
    BY <1>1 DEF CameraInv, CallsStand, Busy
  <1>6. \A b \in AvatarCalls :
           /\ request'[b] = request[b] \/ request'[b] = "failed"
           /\ request[b] = "pending" => request'[b] # "none"
           /\ Busy(b)' => Busy(b)
    BY <1>1 DEF Busy
  <1>7. NoneFailed' => CameraFollows'
    BY <1>1, <1>6, CallFrame
  <1> QED
    BY <1>4, <1>5, <1>7

(* Idle avatar calls stay so unless one of them arrives.                   *)
LEMMA AvatarsStayIdle ==
    ASSUME FanInv, [Next]_vars,
           arrived' = arrived \/ \E c \in Commands \ AvatarCalls : Fan!Arrives(c)
    PROVE  \A a \in AvatarCalls : fan'[a] = "idle" <=> fan[a] = "idle"
  <1>1. arrived \in Seq(Commands) /\ DOMAIN fan = Commands
    BY DEF FanInv, FanTypeOK
  <1>2. CASE arrived' = arrived
    <2>1. ASSUME NEW a \in AvatarCalls, Fan!Arrives(a) PROVE FALSE
      <3>1. a \in Commands /\ Append(arrived, a) = arrived
        BY <1>2, <2>1, Kinds DEF Fan!Arrives
      <3>2. Len(Append(arrived, a)) = Len(arrived) + 1 /\ Len(arrived) \in Nat
        BY <1>1, <3>1, AppendProperties, LenProperties
      <3>3. Len(arrived) = Len(arrived) + 1
        BY <3>1, <3>2
      <3> QED
        BY <3>2, <3>3
    <2> QED
      BY <2>1, FanMoves, Kinds
  <1>3. ASSUME NEW c \in Commands \ AvatarCalls, Fan!Arrives(c)
        PROVE  \A a \in AvatarCalls : fan'[a] = "idle" <=> fan[a] = "idle"
    BY <1>1, <1>3, Kinds DEF Fan!Arrives
  <1> QED
    BY <1>2, <1>3

LEMMA CameraInduction == (Init => CameraInv) /\ (LeaveInv /\ CameraInv /\ [Next]_vars => CameraInv')
  <1>1. ASSUME Init PROVE CameraInv
    <2>1. FanInv /\ FlowTypeOK
      BY <1>1, BridgeInduction, LeaveInduction DEF LeaveInv
    <2>2. /\ avatarChain = <<>> /\ call = [a \in AvatarCalls |-> "idle"]
          /\ request = [a \in AvatarCalls |-> "none"]
          /\ avatarHandle = FALSE /\ renderer = FALSE /\ device = FALSE /\ writer = FALSE
          /\ lane = <<>> /\ camera = FALSE
          /\ flow = [c \in Commands |-> "idle"] /\ fan = [c \in Commands |-> "idle"]
      BY <1>1 DEF Init, Avatar!AvatarInit, PageInit, ScriptInit, Fan!FanInit
    <2>3. Avatar!AvatarTypeOK
      BY <2>2 DEF Avatar!AvatarTypeOK
    <2>4. PageTypeOK /\ avatarChain \in Seq(AvatarCalls)
      BY <2>2, EmptySeq DEF PageTypeOK
    <2>5. FlowsFollow
      BY <2>2, Kinds DEF FlowsFollow
    <2>6. CallsStand
      BY <2>2, Kinds DEF CallsStand, Busy
    <2>7. CameraFollows
      <3>1. DOMAIN lane = {}
        BY <2>2
      <3> QED
        BY <2>2, <3>1, Kinds DEF CameraFollows, Busy
    <2> QED
      BY <2>1, <2>3, <2>4, <2>5, <2>6, <2>7 DEF CameraInv, CameraTypes
  <1>2. ASSUME LeaveInv, CameraInv, [Next]_vars PROVE CameraInv'
    <2>1. FanInv' /\ FlowTypeOK' /\ FlowsFollow'
      BY <1>2, BridgeInduction, LeaveInduction, FlowsKeepFollowing DEF LeaveInv, CameraInv
    <2> DEFINE Rest == PageTypeOK' /\ AvatarTypes' /\ CallsStand' /\ (NoneFailed' => CameraFollows')
    <2>2. FanInv /\ FlowTypeOK /\ PageTypeOK /\ AvatarTypes
      BY <1>2 DEF CameraInv, CameraTypes, AvatarTypes
    <2>3. ASSUME UNCHANGED <<avatarChain, call, avatarHandle, renderer, device, writer, request>>
          PROVE  AvatarTypes'
      BY <2>2, <2>3 DEF AvatarTypes, Avatar!AvatarTypeOK
    <2>4. ASSUME AvatarIdle, flow' = flow, lane' = lane, camera' = camera,
                 arrived' = arrived \/ \E c \in Commands \ AvatarCalls : Fan!Arrives(c)
          PROVE  Rest
      <3>1. UNCHANGED <<avatarChain, call, avatarHandle, renderer, device, writer, request>>
        BY <2>4 DEF AvatarIdle
      <3>2. \A a \in AvatarCalls : flow'[a] = flow[a] /\ (fan'[a] = "idle" <=> fan[a] = "idle")
        BY <1>2, <2>2, <2>4, AvatarsStayIdle
      <3>3. PageTypeOK'
        BY <2>2, <2>4 DEF PageTypeOK
      <3> QED
        BY <1>2, <2>3, <2>4, <3>1, <3>2, <3>3, CameraFrame
    <2>5. ASSUME NEW c \in Commands, Replies, flow[c] # "toggling", c \notin AvatarCalls,
                 \A a \in AvatarCalls : a # c => flow'[a] = flow[a],
                 camera' = camera, arrived' = arrived,
                 \/ lane' = lane
                 \/ \E op \in Operations \ {"camera"} : lane' = Append(lane, [op |-> op, by |-> c])
          PROVE  Rest
      <3>1. request' = request /\ UNCHANGED <<avatarChain, call, avatarHandle, renderer, device, writer>>
        BY <1>2, <2>5, RepliesSettle
      <3>2. \A a \in AvatarCalls : flow'[a] = flow[a] /\ (fan'[a] = "idle" <=> fan[a] = "idle")
        BY <1>2, <2>2, <2>5, AvatarsStayIdle
      <3>3. PageTypeOK'
        <4>1. lane' \in Seq([op : Operations, by : Commands])
          BY <2>2, <2>5, LaneGrows DEF PageTypeOK
        <4> QED
          BY <2>2, <2>5, <4>1 DEF PageTypeOK
      <3>4. CallsStand' /\ (NoneFailed' => CameraFollows')
        BY <1>2, <2>5, <3>1, <3>2, CameraFrame
      <3>5. AvatarTypes'
        BY <2>3, <3>1
      <3> QED
        BY <3>3, <3>4, <3>5
    <2> HIDE DEF Rest
    <2>6. ASSUME SendJoin PROVE Rest
      <3>1. flow' = flow /\ lane' = lane /\ camera' = camera /\ AvatarIdle /\ Fan!Arrives(Join)
        BY <2>6 DEF SendJoin, ScriptIdle, scriptVars, pageVars
      <3> QED
        BY <2>4, <3>1, Kinds
    <2>7. ASSUME SendLeave PROVE Rest
      <3>1. lane' = lane /\ camera' = camera /\ Fan!Arrives(Leave)
        BY <2>7 DEF SendLeave, ScriptIdle, scriptVars, pageVars
      <3>2. \A a \in AvatarCalls : fan'[a] = "idle" <=> fan[a] = "idle"
        BY <1>2, <2>2, <3>1, AvatarsStayIdle, Kinds
      <3>3. PageTypeOK'
        BY <2>2, <3>1 DEF PageTypeOK
      <3> QED
        BY <1>2, <2>7, <3>2, <3>3, ShutdownSettles DEF Rest
    <2>8. ASSUME NEW c \in Chats, PostSendChat(c) \/ SendChatViaExtension(c) \/ ReplyTimeout(c)
          PROVE  Rest
      <3>1. flow' = flow /\ lane' = lane /\ camera' = camera /\ AvatarIdle
        BY <2>8 DEF PostSendChat, SendChatViaExtension, ReplyTimeout, ScriptIdle, scriptVars, pageVars
      <3>2. arrived' = arrived \/ Fan!Arrives(c)
        BY <2>8 DEF PostSendChat, SendChatViaExtension, ReplyTimeout, FanIdle
      <3> QED
        BY <2>4, <3>1, <3>2, Kinds
    <2>9. ASSUME NEW a \in AvatarCalls, CallsAvatar(a) \/ AsksCamera(a) \/ AvatarSteps(a)
          PROVE  Rest
      <3>1. lane' = lane /\ camera' = camera
        BY <2>9 DEF CallsAvatar, AsksCamera, AvatarSteps, ScriptIdle, scriptVars, pageVars
      <3>2. PageTypeOK'
        BY <2>2, <3>1 DEF PageTypeOK
      <3> QED
        BY <1>2, <2>9, <3>2, CallMoves DEF Rest
    <2>10. ASSUME NEW c \in Commands, Delivers(c)
           PROVE  Rest
      <3>1. Replies /\ Handle(c) /\ arrived' = arrived /\ Fan!Delivered(c)
        BY <2>10 DEF Delivers, Fan!Delivered
      <3>2. CASE c \in AvatarCalls
        <4>1. CallsStand' /\ (NoneFailed' => CameraFollows')
          BY <1>2, <2>10, <3>2, ToggleStarts
        <4>2. AvatarTypes'
          <5>1. /\ request' = [a \in AvatarCalls |-> IF request[a] = "pending" /\ flow'[a] \in Ended
                                             THEN IF flow'[a] = "changed" THEN "ok" ELSE "failed"
                                             ELSE request[a]]
                /\ UNCHANGED <<avatarChain, call, avatarHandle, renderer, device, writer>>
            BY <3>1 DEF Replies
          <5>2. request' \in [AvatarCalls -> {"none", "pending", "ok", "failed"}]
            BY <2>2, <5>1 DEF AvatarTypes, Avatar!AvatarTypeOK
          <5> QED
            BY <2>2, <5>1, <5>2 DEF AvatarTypes, Avatar!AvatarTypeOK
        <4>3. PageTypeOK'
          <5>1. HandleCameraToggle(c)
            BY <3>1, <3>2, FlowStarts
          <5>2. camera' = camera /\ (lane' = lane \/ lane' = Append(lane, [op |-> "camera", by |-> c]))
            BY <5>1 DEF HandleCameraToggle, AsksNothing, Asks
          <5>3. "camera" \in Operations
            BY DEF Operations
          <5>4. lane' \in Seq([op : Operations, by : Commands])
            BY <2>2, <5>2, <5>3, LaneGrows DEF PageTypeOK
          <5> QED
            BY <2>2, <5>2, <5>4 DEF PageTypeOK
        <4> QED
          BY <4>1, <4>2, <4>3 DEF Rest
      <3>3. CASE c \notin AvatarCalls
        <4>1. UNCHANGED pageVars /\ \E to \in {"prejoin", "sent", "queued"} : Goes(c, to)
          BY <3>1, <3>3, FlowStarts
        <4>2. lane' = lane /\ camera' = camera
          BY <4>1 DEF pageVars
        <4>3. \A a \in AvatarCalls : a # c => flow'[a] = flow[a]
          BY <2>2, <4>1, Kinds DEF Goes, FlowTypeOK, ScriptTypeOK
        <4>4. flow[c] # "toggling"
          BY <1>2, <3>3 DEF CameraInv, FlowsFollow
        <4> QED
          BY <2>5, <3>1, <3>3, <4>2, <4>3, <4>4
      <3> QED
        BY <3>2, <3>3
    <2>11. ASSUME NEW c \in Commands, ScriptSteps(c)
           PROVE  Rest
      <3>1. Replies /\ ScriptNext(c) /\ arrived' = arrived /\ fan' = fan
        BY <2>11 DEF ScriptSteps, FanIdle
      <3>2. CASE flow[c] = "toggling"
        <4>1. ToggleSettles(c)
          BY <3>1, <3>2 DEF ScriptNext, HandleSendChat, PanelWaitEnds, TypeWaitEnds, ClickAdmissionButton,
             RetryAdmissionClick, Admitted, JoinFlowFails
        <4>2. CallsStand' /\ (NoneFailed' => CameraFollows')
          BY <1>2, <3>1, <4>1, ToggleEnds
        <4>3. AvatarTypes'
          <5>1. /\ request' = [a \in AvatarCalls |-> IF request[a] = "pending" /\ flow'[a] \in Ended
                                             THEN IF flow'[a] = "changed" THEN "ok" ELSE "failed"
                                             ELSE request[a]]
                /\ UNCHANGED <<avatarChain, call, avatarHandle, renderer, device, writer>>
            BY <3>1 DEF Replies
          <5>2. request' \in [AvatarCalls -> {"none", "pending", "ok", "failed"}]
            BY <2>2, <5>1 DEF AvatarTypes, Avatar!AvatarTypeOK
          <5> QED
            BY <2>2, <5>1, <5>2 DEF AvatarTypes, Avatar!AvatarTypeOK
        <4>4. PageTypeOK'
          BY <2>2, <4>1 DEF PageTypeOK, ToggleSettles, pageVars
        <4> QED
          BY <4>2, <4>3, <4>4 DEF Rest
      <3>3. CASE flow[c] # "toggling"
        <4>1. /\ camera' = camera
              /\ flow[c] \in {"queued", "panel", "typing", "prejoin", "knocked", "knocked again"}
              /\ \E to \in {"typing", "panel", "failed", "sent", "knocked", "knocked again"} : Goes(c, to)
              /\ \/ lane' = lane
                 \/ \E op \in Operations \ {"camera"} : lane' = Append(lane, [op |-> op, by |-> c])
          BY <3>1, <3>3, FlowAsks
        <4>2. \A a \in AvatarCalls : a # c => flow'[a] = flow[a]
          BY <2>2, <4>1, Kinds DEF Goes, FlowTypeOK, ScriptTypeOK
        <4>3. c \notin AvatarCalls
          BY <1>2, <4>1 DEF CameraInv, FlowsFollow
        <4> QED
          BY <2>5, <3>1, <3>3, <4>1, <4>2, <4>3
      <3> QED
        BY <3>2, <3>3
    <2>12. ASSUME FanSteps PROVE Rest
      <3>1. flow' = flow /\ lane' = lane /\ camera' = camera /\ AvatarIdle /\ arrived' = arrived
        BY <2>12 DEF FanSteps, ScriptIdle, scriptVars, pageVars, Fan!NoTab, Fan!TabOpens, Fan!RetryFires
      <3> QED
        BY <2>4, <3>1
    <2>13. ASSUME HandsRun PROVE Rest
      <3>1. UNCHANGED <<avatarChain, call, avatarHandle, renderer, device, writer, request>>
        BY <2>13 DEF HandsRun, AvatarIdle
      <3> QED
        BY <1>2, <2>3, <2>13, <3>1, ClickLands DEF Rest
    <2>14. ASSUME HostActs PROVE Rest
      <3>1. flow' = flow /\ lane' = lane /\ camera' = camera /\ AvatarIdle /\ arrived' = arrived
        BY <2>14 DEF HostActs, HostDecides, FanIdle, scriptVars
      <3> QED
        BY <2>4, <3>1
    <2>17. ASSUME PollActs PROVE Rest
      <3>1. flow' = flow /\ lane' = lane /\ camera' = camera /\ AvatarIdle /\ arrived' = arrived
        BY <2>17 DEF PollActs, PollShowsPeople, FanIdle, scriptVars
      <3> QED
        BY <2>4, <3>1
    <2>15. ASSUME UNCHANGED vars PROVE Rest
      <3>1. flow' = flow /\ lane' = lane /\ camera' = camera /\ AvatarIdle /\ arrived' = arrived
        BY <2>15 DEF vars, scriptVars, pageVars, AvatarIdle
      <3> QED
        BY <2>4, <3>1
    <2>16. Rest
      BY <1>2, <2>6, <2>7, <2>8, <2>9, <2>10, <2>11, <2>12, <2>13, <2>14, <2>15,
         <2>17 DEF Next, Steps
    <2> QED
      BY <2>1, <2>16 DEF Rest, CameraInv, CameraTypes, AvatarTypes
  <1> QED
    BY <1>1, <1>2

(* However many calls turn the avatar on and off, the meeting never sees   *)
(* the camera without the device writer behind it, unless a request for a  *)
(* toggle failed or timed out.                                             *)
THEOREM CameraKeepsShowingFrames == Spec => []CameraShowsFrames
  <1>1. CameraInv => CameraShowsFrames
    <2> SUFFICES ASSUME CameraInv, camera, ~writer
                 PROVE  \E a \in AvatarCalls : request[a] = "failed"
      BY DEF CameraShowsFrames
    <2> QED
      BY DEF CameraInv, NoneFailed, CameraFollows
  <1>2. Init => LeaveInv /\ CameraInv
    BY LeaveInduction, CameraInduction
  <1>3. LeaveInv /\ CameraInv /\ [Next]_vars => (LeaveInv /\ CameraInv)'
    BY LeaveInduction, CameraInduction
  <1> QED
    BY <1>1, <1>2, <1>3, PTL DEF Spec

-----------------------------------------------------------------------------
(* The chat.                                                               *)

Text(c) == [op |-> "type", by |-> c]
Click(c) == [op |-> "send", by |-> c]

(* Of the chats only the oldest in the queue is at the composer.           *)
QueueStands ==
    /\ sendChatQueue \in Seq(Chats)
    /\ \A c \in Chats : flow[c] \in {"panel", "typing"} => Turn(c)
    /\ \A c \in Commands : flow[c] \in {"queued", "panel", "typing"} => c \in Chats \cup {Join}
    /\ flow[Join] # "queued"

(* What was reported as sent was sent.                                     *)
ReportsStand ==
    /\ chat \in [Chats -> {"idle", "chained", "pending", "ok", "failed"}]
    /\ \A c \in Chats : chat[c] = "ok" => flow[c] = "sent"

(* Nobody types but the chats and the consent message.                     *)
Typers == Chats \cup {Join}
TypersStand ==
    /\ composer \in Seq(Typers)
    /\ \A n \in DOMAIN lane : lane[n].op = "type" => lane[n].by \in Typers

(* The chats the panel has never been closed on.                           *)
Kept == Chats \ displaced

Held(c) == \E i \in DOMAIN composer : composer[i] = c
Waits(c) == Held(c) \/ \E n \in DOMAIN lane : lane[n] = Text(c)
Posted(c) == \E m \in posted : c \in ToSet(m)

ClickAfter(c, m) == \E k \in DOMAIN lane : m < k /\ lane[k] = Click(c)
SendBetween(m, n) == \E k \in DOMAIN lane : m < k /\ k < n /\ lane[k].op = "send"
IsText(n) == lane[n].op = "type" /\ lane[n].by # Join

(* A text is not there before it was asked for.                            *)
TextsBegun == \A c \in Chats : Waits(c) => flow[c] \in {"typing", "sent", "failed"}

(* After a kept chat's text comes its own click on the send button, or it  *)
(* is still to be asked for.                                               *)
Follows(c, m) == flow[c] = "typing" \/ ClickAfter(c, m)
TextsFollow ==
    \A c \in Kept :
        /\ Held(c) => Follows(c, 0)
        /\ \A n \in DOMAIN lane : lane[n] = Text(c) => Follows(c, n)

(* The next text of a chat comes after a click on the send button.         *)
TextsInOrder ==
    \A c \in Kept, n \in DOMAIN lane : IsText(n) =>
        /\ Held(c) => SendBetween(0, n)
        /\ \A m \in DOMAIN lane : m < n /\ lane[m] = Text(c) => SendBetween(m, n)

(* The panel is open to a kept chat at the composer.                       *)
PanelStands == \A c \in Kept : c \in AtComposer => panel

ChatsReach == \A c \in Kept : flow[c] \in {"typing", "sent"} => Posted(c) \/ Waits(c)

(* No kept chat has another text after it in what is or will be posted.    *)
Proper(m) == Join \in ToSet(m) \/ \A i \in 1..(Len(m) - 1) : m[i] \in displaced
Whole == Proper(composer) /\ \A m \in posted : Proper(m)

Chatting == TextsBegun /\ TextsFollow /\ TextsInOrder /\ PanelStands /\ ChatsReach /\ Whole
ChatInv == QueueStands /\ ReportsStand /\ TypersStand /\ (~slipped => Chatting)

(* What a step is to the chat: nothing; a flow that goes on, or ends, with *)
(* no word to the composer; one that asks for the panel, for its text or   *)
(* for the send button; an operation of the lane; the poll.                *)
StandsStill ==
    UNCHANGED <<flow, lane, slipped, panel, composer, posted>>
PageStays == UNCHANGED <<slipped, page, panel, composer, posted>>
Slides(c) ==
    /\ \E to \in {"queued", "prejoin", "knocked", "knocked again", "toggling"} \cup Ended :
          /\ Goes(c, to)
          /\ to = "sent" => c \notin Chats
          /\ flow[c] \in {"panel", "typing"} => to = "failed"
    /\ flow[c] \notin {"sent", "failed"} /\ (flow[c] = "typing" => ~panel)
    /\ \/ lane' = lane
       \/ \E op \in {"admission", "camera"} : lane' = Append(lane, [op |-> op, by |-> c])
    /\ PageStays
AsksPress(c) ==
    /\ flow[c] \notin {"panel", "typing", "sent", "failed"} /\ ~panel
    /\ Goes(c, "panel") /\ Asks("panel", c) /\ PageStays
AsksText(c) ==
    /\ flow[c] \notin {"typing", "sent", "failed"} /\ panel
    /\ Goes(c, "typing") /\ Asks("type", c) /\ PageStays
AsksSend(c) ==
    /\ flow[c] = "typing" /\ panel
    /\ Goes(c, "sent") /\ Asks("send", c) /\ PageStays

LEMMA AskingMoves ==
    ASSUME NEW c \in Commands, EnsurePanelOpen(c), PageStays,
           flow[c] \in {"queued", "knocked", "knocked again"}
    PROVE  Slides(c) \/ AsksPress(c) \/ AsksText(c)
  <1>1. CASE panel
    BY <1>1 DEF EnsurePanelOpen, AsksText
  <1>2. CASE ~panel /\ page = "inside"
    BY <1>2 DEF EnsurePanelOpen, AsksPress
  <1>3. CASE ~panel /\ page # "inside"
    BY <1>3 DEF EnsurePanelOpen, AsksNothing, Slides, Ended
  <1> QED
    BY <1>1, <1>2, <1>3

LEMMA ScriptMoves ==
    ASSUME NEW c \in Commands, ScriptNext(c)
    PROVE  Slides(c) \/ AsksPress(c) \/ AsksText(c) \/ AsksSend(c)
  <1>1. CASE ToggleSettles(c)
    <2>1. flow[c] = "toggling" /\ \E to \in {"changed", "failed"} : Goes(c, to)
      BY <1>1 DEF ToggleSettles
    <2>2. lane' = lane /\ PageStays
      BY <1>1 DEF ToggleSettles, pageVars, PageStays
    <2> QED
      BY <2>1, <2>2 DEF Slides, Ended
  <1>2. CASE HandleSendChat(c)
    BY <1>2, AskingMoves DEF HandleSendChat, PageStays
  <1>3. CASE PanelWaitEnds(c)
    <2>1. PageStays /\ flow[c] = "panel"
      BY <1>3 DEF PanelWaitEnds, PageStays
    <2>2. CASE panel
      BY <1>3, <2>1, <2>2 DEF PanelWaitEnds, AsksText
    <2>3. CASE ~panel
      BY <1>3, <2>1, <2>3 DEF PanelWaitEnds, AsksNothing, Slides, Ended
    <2> QED
      BY <2>2, <2>3
  <1>4. CASE TypeWaitEnds(c)
    <2>1. PageStays /\ flow[c] = "typing"
      BY <1>4 DEF TypeWaitEnds, PageStays
    <2>2. CASE panel
      BY <1>4, <2>1, <2>2 DEF TypeWaitEnds, AsksSend
    <2>3. CASE ~panel
      BY <1>4, <2>1, <2>3 DEF TypeWaitEnds, AsksNothing, Slides, Ended
    <2> QED
      BY <2>2, <2>3
  <1>5. CASE ClickAdmissionButton(c)
    <2>1. flow[c] = "prejoin" /\ Goes(c, "knocked") /\ PageStays
      BY <1>5 DEF ClickAdmissionButton, PageStays
    <2>2. lane' = Append(lane, [op |-> "admission", by |-> c])
      BY <1>5 DEF ClickAdmissionButton, Asks
    <2> QED
      BY <2>1, <2>2 DEF Slides
  <1>6. CASE RetryAdmissionClick(c)
    <2>1. flow[c] = "knocked" /\ Goes(c, "knocked again") /\ PageStays
      BY <1>6 DEF RetryAdmissionClick, PageStays
    <2>2. lane' = Append(lane, [op |-> "admission", by |-> c])
      BY <1>6 DEF RetryAdmissionClick, Asks
    <2> QED
      BY <2>1, <2>2 DEF Slides
  <1>7. CASE Admitted(c)
    BY <1>7, AskingMoves DEF Admitted, PageStays
  <1>8. CASE JoinFlowFails(c)
    <2>1. /\ flow[c] \in {"prejoin", "knocked", "knocked again"} /\ Goes(c, "failed")
          /\ lane' = lane /\ PageStays
      BY <1>8 DEF JoinFlowFails, pageVars, PageStays
    <2> QED
      BY <2>1 DEF Slides, Ended
  <1> QED
    BY <1>1, <1>2, <1>3, <1>4, <1>5, <1>6, <1>7, <1>8 DEF ScriptNext

LEMMA DeliveryMoves ==
    ASSUME NEW c \in Commands, Handle(c), flow[c] = "idle"
    PROVE  Slides(c)
  <1>1. CASE HandleJoin(c)
    BY <1>1 DEF HandleJoin, Slides, pageVars, PageStays
  <1>2. CASE HandleLeave(c)
    <2>1. c \notin Chats
      BY <1>2, ControllerConstants DEF HandleLeave
    <2> QED
      BY <1>2, <2>1 DEF HandleLeave, Slides, pageVars, PageStays, Ended
  <1>3. CASE EnqueueSendChat(c)
    BY <1>3 DEF EnqueueSendChat, Slides, pageVars, PageStays
  <1>4. CASE HandleCameraToggle(c)
    <2>1. PageStays
      BY <1>4 DEF HandleCameraToggle, PageStays, AsksNothing, Asks
    <2>2. \E to \in {"toggling", "changed", "failed"} : Goes(c, to)
      BY <1>4 DEF HandleCameraToggle
    <2>3. lane' = lane \/ lane' = Append(lane, [op |-> "camera", by |-> c])
      BY <1>4 DEF HandleCameraToggle, AsksNothing, Asks
    <2> QED
      BY <2>1, <2>2, <2>3 DEF Slides, Ended
  <1> QED
    BY <1>1, <1>2, <1>3, <1>4 DEF Handle

Moves(c) == Slides(c) \/ AsksPress(c) \/ AsksText(c) \/ AsksSend(c)

LEMMA ChatMoves ==
    ASSUME CameraInv, [Next]_vars
    PROVE  StandsStill \/ (\E c \in Commands : Moves(c)) \/ HandsRun \/ PollActs
  <1>1. ASSUME UNCHANGED <<scriptVars, pageVars>> PROVE StandsStill
    BY <1>1 DEF scriptVars, pageVars, StandsStill
  <1>2. ASSUME NEW c \in Commands, Delivers(c) PROVE Moves(c)
    <2>1. fan[c] = "asked"
      BY <1>2, OldestLeaves DEF Delivers, Fan!Delivered, CameraInv, CameraTypes
    <2>2. flow[c] = "idle"
      BY <2>1 DEF CameraInv, FlowsFollow
    <2> QED
      BY <1>2, <2>2, DeliveryMoves DEF Delivers, Moves
  <1>3. ASSUME NEW c \in Commands, ScriptSteps(c) PROVE Moves(c)
    BY <1>3, ScriptMoves DEF ScriptSteps, Moves
  <1>4. ASSUME HostActs PROVE StandsStill
    BY <1>4 DEF HostActs, HostDecides, StandsStill, scriptVars
  <1>5. \/ UNCHANGED <<scriptVars, pageVars>>
        \/ \E c \in Commands : Delivers(c) \/ ScriptSteps(c)
        \/ HandsRun \/ PollActs \/ HostActs
    BY DEF Next, Steps, vars, SendJoin, SendLeave, PostSendChat, SendChatViaExtension, ReplyTimeout,
       CallsAvatar, AsksCamera, AvatarSteps, FanSteps, ScriptIdle
  <1> QED
    BY <1>1, <1>2, <1>3, <1>4, <1>5

(* The queue of the content script.                                        *)
LEMMA QueueFrame ==
    ASSUME QueueStands, FlowTypeOK, NEW c \in Commands, NEW to, Goes(c, to),
           to \in {"panel", "typing"} => c = Join \/ (c \in Chats /\ Turn(c)),
           to # "queued", sendChatQueue' = sendChatQueue
    PROVE  QueueStands'
  <1>1. /\ flow'[c] = to /\ \A d \in Commands : d # c => flow'[d] = flow[d]
        /\ \A d \in Chats : d \in Commands /\ d # Join
        /\ Join \in Commands
    BY Kinds, ControllerConstants DEF Goes, FlowTypeOK, ScriptTypeOK
  <1>2. \A d \in Chats : flow'[d] \in {"panel", "typing"} => Turn(d)'
    BY <1>1 DEF QueueStands, Turn
  <1>3. \A d \in Commands : flow'[d] \in {"queued", "panel", "typing"} => d \in Chats \cup {Join}
    BY <1>1 DEF QueueStands
  <1>4. flow'[Join] # "queued"
    BY <1>1 DEF QueueStands
  <1> QED
    BY <1>2, <1>3, <1>4 DEF QueueStands

LEMMA QueueAdvances ==
    ASSUME QueueStands, FlowTypeOK, NEW c \in Commands, NEW to, Goes(c, to),
           to \notin {"queued", "panel", "typing"}, Dequeued(c)
    PROVE  QueueStands'
  <1>1. CASE ~Turn(c)
    BY <1>1, QueueFrame DEF Dequeued
  <1>2. CASE Turn(c)
    <2>1. sendChatQueue # <<>> /\ c = Head(sendChatQueue) /\ sendChatQueue' = Tail(sendChatQueue)
      BY <1>2 DEF Dequeued, Turn
    <2>2. sendChatQueue' \in Seq(Chats)
      BY <2>1, HeadTailProperties DEF QueueStands
    <2>3. /\ flow'[c] = to /\ \A d \in Commands : d # c => flow'[d] = flow[d]
          /\ \A d \in Chats : d \in Commands
          /\ Join \in Commands
      BY Kinds, ControllerConstants DEF Goes, FlowTypeOK, ScriptTypeOK
    <2>4. \A d \in Chats : flow'[d] \notin {"panel", "typing"}
      BY <2>1, <2>3 DEF QueueStands, Turn
    <2>5. \A d \in Commands : flow'[d] \in {"queued", "panel", "typing"} => d \in Chats \cup {Join}
      BY <2>3 DEF QueueStands
    <2>6. flow'[Join] # "queued"
      BY <2>3 DEF QueueStands
    <2> QED
      BY <2>2, <2>4, <2>5, <2>6 DEF QueueStands
  <1> QED
    BY <1>1, <1>2

LEMMA QueueGrows ==
    ASSUME QueueStands, FlowTypeOK, NEW c \in Chats, EnqueueSendChat(c)
    PROVE  QueueStands'
  <1>1. /\ flow'[c] = "queued" /\ \A d \in Commands : d # c => flow'[d] = flow[d]
        /\ \A d \in Chats : d \in Commands /\ d # Join
        /\ Join \in Commands
    BY Kinds, ControllerConstants DEF EnqueueSendChat, Goes, FlowTypeOK, ScriptTypeOK
  <1>2. sendChatQueue \in Seq(Chats) /\ sendChatQueue' = Append(sendChatQueue, c)
    BY DEF QueueStands, EnqueueSendChat
  <1>3. /\ sendChatQueue' \in Seq(Chats)
        /\ sendChatQueue # <<>> => sendChatQueue' # <<>> /\ Head(sendChatQueue') = Head(sendChatQueue)
    <2>1. /\ sendChatQueue' \in Seq(Chats) /\ Len(sendChatQueue') = Len(sendChatQueue) + 1
          /\ \A i \in 1..Len(sendChatQueue) : sendChatQueue'[i] = sendChatQueue[i]
          /\ Len(sendChatQueue) \in Nat
      BY <1>2, AppendProperties, LenProperties
    <2>2. sendChatQueue # <<>> => Len(sendChatQueue) # 0 /\ Head(sendChatQueue) = sendChatQueue[1]
      BY <1>2, HeadTailProperties, LenProperties, EmptySeq
    <2>3. sendChatQueue' # <<>> => Head(sendChatQueue') = sendChatQueue'[1]
      BY <2>1, HeadTailProperties
    <2>4. sendChatQueue' # <<>>
      BY <2>1, EmptySeq
    <2> QED
      BY <2>1, <2>2, <2>3, <2>4
  <1>4. \A d \in Chats : flow'[d] \in {"panel", "typing"} => Turn(d)'
    BY <1>1, <1>3 DEF QueueStands, Turn
  <1>5. \A d \in Commands : flow'[d] \in {"queued", "panel", "typing"} => d \in Chats \cup {Join}
    BY <1>1 DEF QueueStands
  <1>6. flow'[Join] # "queued"
    BY <1>1 DEF QueueStands
  <1> QED
    BY <1>3, <1>4, <1>5, <1>6 DEF QueueStands

LEMMA QueueKeepsStanding ==
    ASSUME LeaveInv, QueueStands, [Next]_vars
    PROVE  QueueStands'
  <1>t. FlowTypeOK /\ JoinIsOld
    BY DEF LeaveInv
  <1>1. ASSUME NEW c \in Commands, EnsurePanelOpen(c)
        PROVE  \/ Goes(c, "typing") \/ Goes(c, "panel")
               \/ Goes(c, "failed")
    BY <1>1 DEF EnsurePanelOpen
  <1>2. ASSUME NEW c \in Commands, Handle(c) PROVE QueueStands'
    <2>1. CASE HandleJoin(c)
      BY <1>t, <2>1, QueueFrame DEF HandleJoin
    <2>2. CASE HandleLeave(c)
      BY <1>t, <2>2, QueueFrame DEF HandleLeave
    <2>3. CASE EnqueueSendChat(c)
      <3>1. c \in Chats
        BY <2>3, ControllerConstants DEF EnqueueSendChat
      <3> QED
        BY <1>t, <2>3, <3>1, QueueGrows
    <2>4. CASE HandleCameraToggle(c)
      <3>1. \E to \in {"toggling", "changed", "failed"} : Goes(c, to)
        BY <2>4 DEF HandleCameraToggle
      <3> QED
        BY <1>t, <2>4, <3>1, QueueFrame DEF HandleCameraToggle
    <2> QED
      BY <1>2, <2>1, <2>2, <2>3, <2>4 DEF Handle
  <1>3. ASSUME NEW c \in Commands, ScriptNext(c) PROVE QueueStands'
    <2>1. CASE ToggleSettles(c)
      <3>1. \E to \in {"changed", "failed"} : Goes(c, to)
        BY <2>1 DEF ToggleSettles
      <3> QED
        BY <1>t, <2>1, <3>1, QueueFrame DEF ToggleSettles
    <2>2. CASE HandleSendChat(c)
      <3>1. c \in Chats /\ Turn(c) /\ EnsurePanelOpen(c)
        BY <2>2 DEF HandleSendChat, QueueStands
      <3>2. CASE Goes(c, "failed")
        <4>1. flow'[c] = "failed"
          BY <1>t, <3>2 DEF Goes, FlowTypeOK, ScriptTypeOK
        <4> QED
          BY <1>t, <2>2, <3>2, <4>1, QueueAdvances DEF HandleSendChat
      <3>3. ASSUME NEW to \in {"typing", "panel"}, Goes(c, to) PROVE QueueStands'
        <4>1. flow'[c] # "failed"
          BY <1>t, <3>3 DEF Goes, FlowTypeOK, ScriptTypeOK
        <4>2. sendChatQueue' = sendChatQueue
          BY <2>2, <4>1 DEF HandleSendChat
        <4> QED
          BY <1>t, <3>1, <3>3, <4>2, QueueFrame
      <3> QED
        BY <1>1, <3>1, <3>2, <3>3
    <2>3. CASE PanelWaitEnds(c)
      <3>1. c = Join \/ (c \in Chats /\ Turn(c))
        BY <2>3 DEF PanelWaitEnds, QueueStands
      <3>2. CASE panel
        BY <1>t, <2>3, <3>1, <3>2, QueueFrame DEF PanelWaitEnds
      <3>3. CASE ~panel
        BY <1>t, <2>3, <3>3, QueueAdvances DEF PanelWaitEnds
      <3> QED
        BY <3>2, <3>3
    <2>4. CASE TypeWaitEnds(c)
      <3>1. \E to \in {"sent", "failed"} : Goes(c, to)
        BY <2>4 DEF TypeWaitEnds
      <3> QED
        BY <1>t, <2>4, <3>1, QueueAdvances DEF TypeWaitEnds
    <2>5. CASE ClickAdmissionButton(c)
      BY <1>t, <2>5, QueueFrame DEF ClickAdmissionButton
    <2>6. CASE RetryAdmissionClick(c)
      BY <1>t, <2>6, QueueFrame DEF RetryAdmissionClick
    <2>7. CASE Admitted(c)
      <3>1. c = Join /\ EnsurePanelOpen(c) /\ sendChatQueue' = sendChatQueue
        BY <1>t, <2>7 DEF Admitted, JoinIsOld
      <3>2. \E to \in {"typing", "panel", "failed"} : Goes(c, to)
        BY <1>1, <3>1
      <3> QED
        BY <1>t, <3>1, <3>2, QueueFrame
    <2>8. CASE JoinFlowFails(c)
      BY <1>t, <2>8, QueueFrame DEF JoinFlowFails
    <2> QED
      BY <1>3, <2>1, <2>2, <2>3, <2>4, <2>5, <2>6, <2>7, <2>8 DEF ScriptNext
  <1>4. CASE UNCHANGED scriptVars
    <2>1. flow' = flow /\ sendChatQueue' = sendChatQueue
      BY <1>4 DEF scriptVars
    <2> QED
      BY <2>1 DEF QueueStands, Turn
  <1>5. \/ UNCHANGED scriptVars
        \/ \E c \in Commands : Handle(c) \/ ScriptNext(c)
    BY DEF Next, Steps, vars, SendJoin, SendLeave, PostSendChat, SendChatViaExtension, ReplyTimeout,
       CallsAvatar, AsksCamera, AvatarSteps, FanSteps, ScriptIdle, Delivers, ScriptSteps, HandsRun,
       PollActs, PollShowsPeople, HostActs
  <1> QED
    BY <1>2, <1>3, <1>4, <1>5

(* A flow that has sent stays where it is.                                 *)
LEMMA MovesOn ==
    ASSUME FlowTypeOK, NEW c \in Commands, Moves(c)
    PROVE  /\ flow[c] \notin {"sent", "failed"}
           /\ \A d \in Commands : d # c => flow'[d] = flow[d]
           /\ \E to : flow'[c] = to /\ Goes(c, to)
  <1>1. DOMAIN flow = Commands
    BY DEF FlowTypeOK, ScriptTypeOK
  <1>2. flow[c] \notin {"sent", "failed"} /\ \E to : Goes(c, to)
    BY DEF Moves, Slides, AsksPress, AsksText, AsksSend
  <1> QED
    BY <1>1, <1>2 DEF Goes

LEMMA ReportsKeepStanding ==
    ASSUME CameraInv, ReportsStand, [Next]_vars
    PROVE  ReportsStand'
  <1> DEFINE Reports == {"idle", "chained", "pending", "ok", "failed"}
  <1>1. chat \in [Chats -> Reports] /\ Chats \subseteq Commands
    BY Kinds DEF ReportsStand
  <1>2. \A d \in Commands : flow[d] = "sent" => flow'[d] = "sent"
    <2>1. CASE StandsStill
      BY <2>1 DEF StandsStill
    <2>2. CASE HandsRun
      BY <2>2 DEF HandsRun, scriptVars
    <2>4. CASE PollActs
      BY <2>4 DEF PollActs, PollShowsPeople, scriptVars
    <2>3. ASSUME NEW c \in Commands, Moves(c)
          PROVE  \A d \in Commands : flow[d] = "sent" => flow'[d] = "sent"
      BY <2>3, MovesOn DEF CameraInv, CameraTypes
    <2> QED
      BY <2>1, <2>2, <2>3, <2>4, ChatMoves
  <1>3. ASSUME NEW d \in Chats, NEW to \in {"chained", "pending", "failed"}, chat' = [chat EXCEPT ![d] = to]
        PROVE  chat' \in [Chats -> Reports] /\ \A c \in Chats : chat'[c] = "ok" => chat[c] = "ok"
    BY <1>1, <1>3
  <1>4. ASSUME Replies
        PROVE  /\ chat' \in [Chats -> Reports]
               /\ \A c \in Chats : chat'[c] = "ok" => chat[c] = "ok" \/ flow'[c] = "sent"
    <2>1. chat' = [c \in Chats |-> IF chat[c] = "pending" /\ flow'[c] \in Ended
                                   THEN IF flow'[c] = "sent" THEN "ok" ELSE "failed"
                                   ELSE chat[c]]
      BY <1>4 DEF Replies
    <2> QED
      BY <1>1, <2>1
  <1>5. ASSUME SendLeave
        PROVE  chat' \in [Chats -> Reports] /\ \A c \in Chats : chat'[c] = "ok" => chat[c] = "ok"
    <2>1. chat' = [c \in Chats |-> IF chat[c] \in {"chained", "pending"} THEN "failed" ELSE chat[c]]
      BY <1>5 DEF SendLeave
    <2> QED
      BY <1>1, <2>1
  <1>6. ASSUME chat' = chat
        PROVE  chat' \in [Chats -> Reports] /\ \A c \in Chats : chat'[c] = "ok" => chat[c] = "ok"
    BY <1>1, <1>6
  <1> HIDE DEF Reports
  <1>7. \/ chat' = chat \/ SendLeave \/ Replies
        \/ \E d \in Chats : \E to \in {"chained", "pending", "failed"} : chat' = [chat EXCEPT ![d] = to]
    BY DEF Next, Steps, vars, chatVars, SendJoin, PostSendChat, SendChatViaExtension, ReplyTimeout,
       BotIdle, CallsAvatar, AsksCamera, AvatarSteps, FanSteps, Delivers, ScriptSteps, HandsRun,
       PollActs, HostActs
  <1>8. /\ chat' \in [Chats -> Reports]
        /\ \A c \in Chats : chat'[c] = "ok" => chat[c] = "ok" \/ flow'[c] = "sent"
    BY <1>3, <1>4, <1>5, <1>6, <1>7
  <1> QED
    BY <1>1, <1>2, <1>8 DEF ReportsStand, Reports

LEMMA OnLane ==
    ASSUME PageTypeOK, NEW n \in DOMAIN lane
    PROVE  /\ n \in Nat /\ lane[n] \in [op : Operations, by : Commands]
           /\ lane[n].op \in Operations /\ lane[n].by \in Commands
  <1>1. lane \in Seq([op : Operations, by : Commands])
    BY DEF PageTypeOK
  <1>2. n \in 1..Len(lane) /\ Len(lane) \in Nat
    BY <1>1, LenProperties
  <1>3. lane[n] \in [op : Operations, by : Commands]
    BY <1>1, <1>2, ElementOfSeq
  <1> QED
    BY <1>2, <1>3

(* The lane without its oldest operation, and with one more.               *)
LEMMA LaneShrinks ==
    ASSUME PageTypeOK, lane # <<>>, lane' = Tail(lane)
    PROVE  /\ 1 \in DOMAIN lane /\ Head(lane) = lane[1]
           /\ lane[1].op \in Operations /\ lane[1].by \in Commands
           /\ \A m \in DOMAIN lane' :
                 m \in Nat /\ m > 0 /\ m + 1 \in DOMAIN lane /\ lane'[m] = lane[m + 1]
           /\ \A k \in DOMAIN lane : k \in Nat /\ (k # 1 => k - 1 \in DOMAIN lane' /\ lane'[k - 1] = lane[k])
  <1>1. lane \in Seq([op : Operations, by : Commands])
    BY DEF PageTypeOK
  <1>2. /\ Len(lane) \in Nat \ {0} /\ DOMAIN lane = 1..Len(lane)
        /\ Head(lane) = lane[1]
        /\ DOMAIN lane' = 1..(Len(lane) - 1)
        /\ \A m \in 1..(Len(lane) - 1) : lane'[m] = lane[m + 1]
    BY <1>1, HeadTailProperties, LenProperties, EmptySeq
  <1>3. 1 \in DOMAIN lane
    BY <1>2
  <1>4. lane[1].op \in Operations /\ lane[1].by \in Commands
    BY <1>3, OnLane
  <1>5. \A m \in DOMAIN lane' : m \in Nat /\ m > 0 /\ m + 1 \in DOMAIN lane /\ lane'[m] = lane[m + 1]
    BY <1>2
  <1>6. ASSUME NEW k \in DOMAIN lane
        PROVE  k \in Nat /\ (k # 1 => k - 1 \in DOMAIN lane' /\ lane'[k - 1] = lane[k])
    <2>1. k \in Nat /\ (k # 1 => k - 1 \in 1..(Len(lane) - 1) /\ (k - 1) + 1 = k)
      BY <1>2
    <2> QED
      BY <1>2, <2>1
  <1> QED
    BY <1>2, <1>3, <1>4, <1>5, <1>6

Longer ==
    /\ Len(lane) \in Nat /\ DOMAIN lane = 1..Len(lane) /\ DOMAIN lane' = 1..(Len(lane) + 1)
    /\ \A m \in DOMAIN lane : m \in DOMAIN lane' /\ lane'[m] = lane[m]

LEMMA AskedLast ==
    ASSUME PageTypeOK, NEW op \in Operations, NEW c \in Commands,
           lane' = Append(lane, [op |-> op, by |-> c])
    PROVE  Longer /\ lane'[Len(lane) + 1] = [op |-> op, by |-> c]
  <1>1. /\ Len(lane) \in Nat /\ DOMAIN lane = 1..Len(lane) /\ DOMAIN lane' = 1..(Len(lane) + 1)
        /\ lane'[Len(lane) + 1] = [op |-> op, by |-> c]
        /\ \A m \in DOMAIN lane : lane'[m] = lane[m]
    BY LaneGrows
  <1>2. \A m \in DOMAIN lane : m \in DOMAIN lane'
    BY <1>1
  <1> QED
    BY <1>1, <1>2 DEF Longer

(* ---- what each kind of step leaves ------------------------------------ *)

(* Whoever is followed at the composer is there, and finds the panel open. *)
LEMMA FollowedAreThere == \A c \in Chats : \A m : Follows(c, m) => c \in AtComposer
  BY DEF Follows, ClickAfter, AtComposer, Click, ToSet

LEMMA KeptWaits ==
    ASSUME Chatting, NEW c \in Kept, Waits(c)
    PROVE  c \in AtComposer /\ panel
  <1>1. c \in Chats
    BY DEF Kept
  <1>2. \E m : Follows(c, m)
    BY DEF Waits, Chatting, TextsFollow
  <1>3. c \in AtComposer
    BY <1>1, <1>2, FollowedAreThere
  <1> QED
    BY <1>3 DEF Chatting, PanelStands

(* The displaced are ever more: all who are there as the panel closes.     *)
LEMMA FewerKept ==
    ASSUME [Next]_vars
    PROVE  /\ Kept' \subseteq Kept
           /\ panel' = panel => displaced' = displaced
           /\ panel /\ ~panel' => \A c \in Kept' : c \notin AtComposer
           /\ \A m : Proper(m) => Proper(m)'
  <1>1. displaced' = displaced \/ (panel /\ ~panel' /\ displaced' = displaced \cup AtComposer)
    BY DEF Next, Displaces, vars
  <1>2. panel /\ ~panel' => displaced' = displaced \cup AtComposer
    BY DEF Next, Displaces, vars, pageVars
  <1>3. panel' = panel => displaced' = displaced
    BY <1>1
  <1>4. displaced \subseteq displaced'
    BY <1>1
  <1>5. ASSUME NEW m, Proper(m) PROVE Proper(m)'
    BY <1>4, <1>5 DEF Proper
  <1> QED
    BY <1>2, <1>3, <1>4, <1>5 DEF Kept

LEMMA ClicksStay ==
    ASSUME Longer \/ lane' = lane
    PROVE  /\ \A c, m : ClickAfter(c, m) => ClickAfter(c, m)'
           /\ \A m, n : SendBetween(m, n) => SendBetween(m, n)'
           /\ \A c : composer' = composer /\ Waits(c) => Waits(c)'
  <1>1. \A k \in DOMAIN lane : k \in DOMAIN lane' /\ lane'[k] = lane[k]
    BY DEF Longer
  <1>2. ASSUME NEW c, NEW m, ClickAfter(c, m) PROVE ClickAfter(c, m)'
    BY <1>1, <1>2 DEF ClickAfter, Click
  <1>3. ASSUME NEW m, NEW n, SendBetween(m, n) PROVE SendBetween(m, n)'
    BY <1>1, <1>3 DEF SendBetween
  <1>4. ASSUME NEW c, composer' = composer, Waits(c) PROVE Waits(c)'
    BY <1>1, <1>4 DEF Waits, Held, Text
  <1> QED
    BY <1>2, <1>3, <1>4

(* A flow goes on, or ends before its text.                                *)
LEMMA ChatGoesOn ==
    ASSUME PageTypeOK, Chatting, UNCHANGED <<panel, composer, posted, displaced>>,
           \/ lane' = lane
           \/ \E op \in Operations \ {"type", "send"} : \E c \in Commands :
                 lane' = Append(lane, [op |-> op, by |-> c]),
           \A c \in Chats :
              /\ flow[c] \in {"typing", "sent", "failed"} => flow'[c] \in {"typing", "sent", "failed"}
              /\ flow'[c] \in {"typing", "sent"} => flow'[c] = flow[c]
              /\ flow[c] = "typing" /\ c \in Kept => flow'[c] = "typing"
    PROVE  Chatting'
  <1>1. Longer \/ lane' = lane
    BY AskedLast
  <1>2. \A n \in DOMAIN lane' : lane'[n].op \in {"type", "send"} => n \in DOMAIN lane /\ lane'[n] = lane[n]
    <2>1. CASE lane' = lane
      BY <2>1
    <2>2. ASSUME NEW op \in Operations \ {"type", "send"}, NEW c \in Commands,
                 lane' = Append(lane, [op |-> op, by |-> c])
          PROVE  \A n \in DOMAIN lane' :
                    lane'[n].op \in {"type", "send"} => n \in DOMAIN lane /\ lane'[n] = lane[n]
      <3>1. Longer /\ lane'[Len(lane) + 1] = [op |-> op, by |-> c]
        BY <2>2, AskedLast
      <3>2. \A n \in DOMAIN lane' : n \in DOMAIN lane \/ n = Len(lane) + 1
        BY <3>1 DEF Longer
      <3>3. lane'[Len(lane) + 1].op \notin {"type", "send"}
        BY <3>1
      <3>4. \A n \in DOMAIN lane : lane'[n] = lane[n]
        BY <3>1 DEF Longer
      <3> QED
        BY <3>2, <3>3, <3>4
    <2> QED
      BY <2>1, <2>2
  <1>k. Kept' = Kept /\ Kept \subseteq Chats
    BY DEF Kept
  <1>w. /\ \A c : Held(c)' <=> Held(c)
        /\ \A c : Waits(c)' <=> Waits(c)
    <2>1. \A c : Held(c)' <=> Held(c)
      BY DEF Held
    <2>2. ASSUME NEW c, Waits(c)' PROVE Waits(c)
      BY <1>2, <2>1, <2>2 DEF Waits, Text
    <2> QED
      BY <1>1, <2>1, <2>2, ClicksStay
  <1>f. \A c \in Kept : \A m : Follows(c, m) => Follows(c, m)'
    BY <1>1, <1>k, ClicksStay DEF Follows
  <1>3. TextsBegun'
    BY <1>w DEF Chatting, TextsBegun
  <1>4. TextsFollow'
    <2>1. ASSUME NEW c \in Kept, NEW n \in DOMAIN lane', lane'[n] = Text(c) PROVE Follows(c, n)'
      BY <1>2, <1>f, <2>1 DEF Chatting, TextsFollow, Text
    <2>2. ASSUME NEW c \in Kept, Held(c) PROVE Follows(c, 0)'
      BY <1>f, <2>2 DEF Chatting, TextsFollow
    <2>3. \A c \in Kept' : /\ Held(c)' => Follows(c, 0)'
                           /\ \A n \in DOMAIN lane' : lane'[n] = Text(c) => Follows(c, n)'
      BY <1>k, <1>w, <2>1, <2>2
    <2> QED
      BY <2>3 DEF TextsFollow, Text
  <1>5. TextsInOrder'
    <2>1. ASSUME NEW c \in Kept, NEW n \in DOMAIN lane', IsText(n)'
          PROVE  /\ Held(c) => SendBetween(0, n)'
                 /\ \A m \in DOMAIN lane' : m < n /\ lane'[m] = Text(c) => SendBetween(m, n)'
      <3>1. n \in DOMAIN lane /\ IsText(n)
        BY <1>2, <2>1 DEF IsText
      <3>2. \A m \in DOMAIN lane' : lane'[m] = Text(c) => m \in DOMAIN lane /\ lane[m] = Text(c)
        BY <1>2 DEF Text
      <3>3. /\ Held(c) => SendBetween(0, n)
            /\ \A m \in DOMAIN lane : m < n /\ lane[m] = Text(c) => SendBetween(m, n)
        BY <3>1 DEF Chatting, TextsInOrder
      <3> QED
        BY <1>1, <3>2, <3>3, ClicksStay
    <2> QED
      BY <1>k, <1>w, <2>1 DEF TextsInOrder, Text
  <1>6. PanelStands'
    <2>1. ASSUME NEW c \in Kept, c \in AtComposer' PROVE c \in AtComposer
      <3>1. c \in Chats
        BY <1>k
      <3>2. flow'[c] = "typing" \/ \E n \in DOMAIN lane' : lane'[n] = Click(c)
        BY <2>1 DEF AtComposer, Click, ToSet
      <3>3. flow[c] = "typing" \/ \E n \in DOMAIN lane : lane[n] = Click(c)
        BY <1>2, <3>1, <3>2 DEF Click
      <3> QED
        BY <3>1, <3>3 DEF AtComposer, Click, ToSet
    <2> QED
      BY <1>k, <2>1 DEF Chatting, PanelStands
  <1>7. ChatsReach'
    <2>1. \A c \in Kept : flow'[c] \in {"typing", "sent"} => Posted(c) \/ Waits(c)
      BY <1>k DEF Chatting, ChatsReach
    <2>2. \A c : Posted(c)' <=> Posted(c)
      BY DEF Posted
    <2> QED
      BY <1>k, <1>w, <2>1, <2>2 DEF ChatsReach
  <1>8. Whole'
    BY DEF Chatting, Whole, Proper
  <1> QED
    BY <1>3, <1>4, <1>5, <1>6, <1>7, <1>8 DEF Chatting

(* A flow asks for its text: the queue's oldest, or the consent message.   *)
LEMMA TextIsAsked ==
    ASSUME PageTypeOK, FlowTypeOK, QueueStands', Chatting, displaced' = displaced,
           NEW c \in Commands, AsksText(c)
    PROVE  Chatting'
  <1>a. /\ flow[c] \notin {"typing", "sent", "failed"} /\ panel /\ panel' = panel
        /\ composer' = composer /\ posted' = posted
        /\ lane' = Append(lane, Text(c))
    BY DEF AsksText, PageStays, Asks, Text
  <1>b. flow'[c] = "typing" /\ \A d \in Commands : d # c => flow'[d] = flow[d]
    BY DEF AsksText, Goes, FlowTypeOK, ScriptTypeOK
  <1>k. /\ Kept' = Kept /\ Kept \subseteq Chats /\ Chats \subseteq Commands
    BY Kinds DEF Kept
  <1>l. PICK N : N = Len(lane) + 1
    OBVIOUS
  <1>1. Longer /\ lane'[N] = Text(c) /\ N \in DOMAIN lane'
    <2>1. "type" \in Operations
      BY DEF Operations
    <2>2. Longer /\ lane'[N] = Text(c)
      BY <1>a, <1>l, <2>1, AskedLast DEF Text
    <2> QED
      BY <1>l, <2>2 DEF Longer
  <1>2. /\ \A n \in DOMAIN lane' : n = N \/ (n \in DOMAIN lane /\ lane'[n] = lane[n])
        /\ \A n \in DOMAIN lane : n \in Nat /\ 0 < n /\ n < N
    BY <1>1, <1>l DEF Longer
  <1>w. /\ \A d : Held(d)' <=> Held(d)
        /\ \A d : Waits(d)' => d = c \/ Waits(d)
    <2>1. \A d : Held(d)' <=> Held(d)
      BY <1>a DEF Held
    <2>2. ASSUME NEW d, Waits(d)', d # c PROVE Waits(d)
      <3>1. Text(d) # Text(c)
        BY <2>2 DEF Text
      <3>2. Held(d)' \/ \E n \in DOMAIN lane' : lane'[n] = Text(d)
        BY <2>2 DEF Waits, Text
      <3> QED
        BY <1>1, <1>2, <2>1, <3>1, <3>2 DEF Waits
    <2> QED
      BY <2>1, <2>2
  <1>f. \A d \in Kept : \A m : Follows(d, m) => Follows(d, m)'
    BY <1>1, <1>b, <1>k, ClicksStay DEF Follows
  <1>c. c \in Chats => ~Waits(c) /\ \A d \in Chats : d # c => flow[d] # "typing"
    <2> SUFFICES ASSUME c \in Chats
                 PROVE  ~Waits(c) /\ \A d \in Chats : d # c => flow[d] # "typing"
      OBVIOUS
    <2>1. ~Waits(c)
      BY <1>a DEF Chatting, TextsBegun
    <2>2. ASSUME NEW d \in Chats, d # c, flow[d] = "typing" PROVE FALSE
      <3>1. flow'[d] = "typing"
        BY <1>b, <1>k, <2>2
      <3>2. Turn(c)' /\ Turn(d)'
        BY <1>b, <3>1 DEF QueueStands
      <3> QED
        BY <2>2, <3>2 DEF Turn
    <2> QED
      BY <2>1, <2>2
  <1>3. TextsBegun'
    BY <1>b, <1>k, <1>w DEF Chatting, TextsBegun
  <1>4. TextsFollow'
    <2>1. ASSUME NEW d \in Kept, NEW n \in DOMAIN lane', lane'[n] = Text(d) PROVE Follows(d, n)'
      <3>1. CASE n = N
        BY <1>1, <1>b, <2>1, <3>1 DEF Text, Follows
      <3>2. CASE n \in DOMAIN lane /\ lane'[n] = lane[n]
        BY <1>f, <2>1, <3>2 DEF Chatting, TextsFollow
      <3> QED
        BY <1>2, <3>1, <3>2
    <2>2. ASSUME NEW d \in Kept, Held(d) PROVE Follows(d, 0)'
      BY <1>f, <2>2 DEF Chatting, TextsFollow
    <2>3. \A d \in Kept' : /\ Held(d)' => Follows(d, 0)'
                           /\ \A n \in DOMAIN lane' : lane'[n] = Text(d) => Follows(d, n)'
      BY <1>k, <1>w, <2>1, <2>2
    <2> QED
      BY <2>3 DEF TextsFollow, Text
  <1>5. TextsInOrder'
    <2>1. ASSUME NEW d \in Kept, NEW n \in DOMAIN lane', IsText(n)'
          PROVE  /\ Held(d) => SendBetween(0, n)'
                 /\ \A m \in DOMAIN lane' : m < n /\ lane'[m] = Text(d) => SendBetween(m, n)'
      <3>1. CASE n \in DOMAIN lane /\ lane'[n] = lane[n]
        <4>1. IsText(n)
          BY <2>1, <3>1 DEF IsText
        <4>2. /\ Held(d) => SendBetween(0, n)
              /\ \A m \in DOMAIN lane : m < n /\ lane[m] = Text(d) => SendBetween(m, n)
          BY <3>1, <4>1 DEF Chatting, TextsInOrder
        <4>3. \A m \in DOMAIN lane' : m < n => m \in DOMAIN lane /\ lane'[m] = lane[m]
          <5>1. N \in Nat /\ n \in Nat /\ n < N
            BY <1>1, <1>2, <1>l, <3>1 DEF Longer
          <5>2. ~(N < n)
            BY <5>1
          <5> QED
            BY <1>2, <5>2
        <4> QED
          BY <1>1, <4>2, <4>3, ClicksStay
      <3>2. CASE n = N
        <4>1. c \in Chats
          <5>1. c # Join
            BY <1>1, <2>1, <3>2 DEF IsText, Text
          <5> QED
            BY <1>b, <5>1 DEF QueueStands
        <4>2. ASSUME NEW m, Follows(d, m), Waits(d) PROVE SendBetween(m, n)'
          <5>1. d \in Chats /\ d # c
            BY <1>c, <1>k, <4>1, <4>2
          <5>2. ClickAfter(d, m)
            BY <1>c, <4>1, <4>2, <5>1 DEF Follows
          <5>3. PICK k \in DOMAIN lane : m < k /\ lane[k] = Click(d)
            BY <5>2 DEF ClickAfter
          <5>4. k \in DOMAIN lane' /\ lane'[k].op = "send" /\ k < n
            BY <1>1, <1>2, <3>2, <5>3 DEF Longer, Click
          <5> QED
            BY <5>3, <5>4 DEF SendBetween
        <4>3. Held(d) => SendBetween(0, n)'
          BY <4>2 DEF Waits, Chatting, TextsFollow
        <4>4. ASSUME NEW m \in DOMAIN lane', m < n, lane'[m] = Text(d) PROVE SendBetween(m, n)'
          <5>1. N \in Nat
            BY <1>1, <1>l DEF Longer
          <5>2. m # N
            BY <3>2, <4>4, <5>1
          <5>3. m \in DOMAIN lane /\ lane[m] = Text(d)
            BY <1>2, <4>4, <5>2
          <5>4. Waits(d) /\ Follows(d, m)
            BY <5>3 DEF Waits, Chatting, TextsFollow
          <5> QED
            BY <4>2, <5>4
        <4> QED
          BY <4>3, <4>4
      <3> QED
        BY <1>2, <3>1, <3>2
    <2> QED
      BY <1>k, <1>w, <2>1 DEF TextsInOrder, Text
  <1>6. PanelStands'
    BY <1>a DEF PanelStands
  <1>7. ChatsReach'
    <2>1. ASSUME NEW d \in Kept, flow'[d] \in {"typing", "sent"} PROVE Posted(d)' \/ Waits(d)'
      <3>1. CASE d = c
        BY <1>1, <3>1 DEF Waits, Text
      <3>2. CASE d # c
        <4>1. Posted(d) \/ Waits(d)
          BY <1>b, <1>k, <2>1, <3>2 DEF Chatting, ChatsReach
        <4>2. Posted(d) => Posted(d)'
          BY <1>a DEF Posted
        <4> QED
          BY <1>1, <1>a, <4>1, <4>2, ClicksStay
      <3> QED
        BY <3>1, <3>2
    <2> QED
      BY <1>k, <2>1 DEF ChatsReach
  <1>8. Whole'
    BY <1>a DEF Chatting, Whole, Proper
  <1> QED
    BY <1>3, <1>4, <1>5, <1>6, <1>7, <1>8 DEF Chatting

(* A flow asks for its click on the send button.                           *)
LEMMA ClickIsAsked ==
    ASSUME PageTypeOK, FlowTypeOK, Chatting, displaced' = displaced, NEW c \in Commands, AsksSend(c)
    PROVE  Chatting'
  <1>a. /\ flow[c] = "typing" /\ panel /\ panel' = panel
        /\ composer' = composer /\ posted' = posted
        /\ lane' = Append(lane, Click(c))
    BY DEF AsksSend, PageStays, Asks, Click
  <1>b. flow'[c] = "sent" /\ \A d \in Commands : d # c => flow'[d] = flow[d]
    BY DEF AsksSend, Goes, FlowTypeOK, ScriptTypeOK
  <1>k. /\ Kept' = Kept /\ Kept \subseteq Chats /\ Chats \subseteq Commands
    BY Kinds DEF Kept
  <1>l. PICK N : N = Len(lane) + 1
    OBVIOUS
  <1>1. Longer /\ lane'[N] = Click(c) /\ N \in DOMAIN lane'
    <2>1. "send" \in Operations
      BY DEF Operations
    <2>2. Longer /\ lane'[N] = Click(c)
      BY <1>a, <1>l, <2>1, AskedLast DEF Click
    <2> QED
      BY <1>l, <2>2 DEF Longer
  <1>2. /\ \A n \in DOMAIN lane : n \in Nat /\ 0 < n /\ n < N
        /\ \A n \in DOMAIN lane' : lane'[n].op = "type" => n \in DOMAIN lane /\ lane'[n] = lane[n]
        /\ N \in Nat /\ 0 < N
    <2>1. /\ \A n \in DOMAIN lane' : n = N \/ (n \in DOMAIN lane /\ lane'[n] = lane[n])
          /\ \A n \in DOMAIN lane : n \in Nat /\ 0 < n /\ n < N
          /\ N \in Nat /\ 0 < N
      BY <1>1, <1>l DEF Longer
    <2>2. lane'[N].op # "type"
      BY <1>1 DEF Click
    <2> QED
      BY <2>1, <2>2
  <1>w. /\ \A d : Held(d)' <=> Held(d)
        /\ \A d : Waits(d)' <=> Waits(d)
    <2>1. \A d : Held(d)' <=> Held(d)
      BY <1>a DEF Held
    <2>2. ASSUME NEW d, Waits(d)' PROVE Waits(d)
      BY <1>2, <2>1, <2>2 DEF Waits, Text
    <2> QED
      BY <1>1, <1>a, <2>1, <2>2, ClicksStay
  <1>f. ASSUME NEW d \in Kept, NEW m \in Nat, m < N, Follows(d, m) PROVE Follows(d, m)'
    <2>1. CASE d = c
      BY <1>1, <1>f, <2>1 DEF Follows, ClickAfter, Click
    <2>2. CASE d # c
      <3>1. d \in Commands
        BY <1>k
      <3> QED
        BY <1>1, <1>b, <1>f, <2>2, <3>1, ClicksStay DEF Follows
    <2> QED
      BY <2>1, <2>2
  <1>3. TextsBegun'
    BY <1>b, <1>k, <1>w DEF Chatting, TextsBegun
  <1>4. TextsFollow'
    <2>1. ASSUME NEW d \in Kept, NEW n \in DOMAIN lane', lane'[n] = Text(d) PROVE Follows(d, n)'
      <3>1. n \in DOMAIN lane /\ lane[n] = Text(d) /\ n \in Nat /\ n < N
        BY <1>2, <2>1 DEF Text
      <3> QED
        BY <1>f, <3>1 DEF Chatting, TextsFollow
    <2>2. ASSUME NEW d \in Kept, Held(d) PROVE Follows(d, 0)'
      BY <1>2, <1>f, <2>2 DEF Chatting, TextsFollow
    <2>3. \A d \in Kept' : /\ Held(d)' => Follows(d, 0)'
                           /\ \A n \in DOMAIN lane' : lane'[n] = Text(d) => Follows(d, n)'
      BY <1>k, <1>w, <2>1, <2>2
    <2> QED
      BY <2>3 DEF TextsFollow, Text
  <1>5. TextsInOrder'
    <2>1. ASSUME NEW d \in Kept, NEW n \in DOMAIN lane', IsText(n)'
          PROVE  /\ Held(d) => SendBetween(0, n)'
                 /\ \A m \in DOMAIN lane' : m < n /\ lane'[m] = Text(d) => SendBetween(m, n)'
      <3>1. n \in DOMAIN lane /\ IsText(n)
        BY <1>2, <2>1 DEF IsText
      <3>2. \A m \in DOMAIN lane' : lane'[m] = Text(d) => m \in DOMAIN lane /\ lane[m] = Text(d)
        BY <1>2 DEF Text
      <3>3. /\ Held(d) => SendBetween(0, n)
            /\ \A m \in DOMAIN lane : m < n /\ lane[m] = Text(d) => SendBetween(m, n)
        BY <3>1 DEF Chatting, TextsInOrder
      <3> QED
        BY <1>1, <3>2, <3>3, ClicksStay
    <2> QED
      BY <1>k, <1>w, <2>1 DEF TextsInOrder, Text
  <1>6. PanelStands'
    BY <1>a DEF PanelStands
  <1>7. ChatsReach'
    <2>1. ASSUME NEW d \in Kept, flow'[d] \in {"typing", "sent"} PROVE Posted(d) \/ Waits(d)
      <3>1. flow[d] \in {"typing", "sent"}
        BY <1>a, <1>b, <1>k, <2>1
      <3> QED
        BY <3>1 DEF Chatting, ChatsReach
    <2>2. \A d : Posted(d)' <=> Posted(d)
      BY <1>a DEF Posted
    <2> QED
      BY <1>k, <1>w, <2>1, <2>2 DEF ChatsReach
  <1>8. Whole'
    BY <1>a DEF Chatting, Whole, Proper
  <1> QED
    BY <1>3, <1>4, <1>5, <1>6, <1>7, <1>8 DEF Chatting

(* What an operation does to the texts.                                    *)
LEMMA EffectOnTexts ==
    ASSUME PageTypeOK, lane # <<>>, Effect(lane[1])
    PROVE  \/ /\ lane[1].op = "type" /\ panel' = panel /\ posted' = posted
              /\ composer' = IF panel THEN Append(composer, lane[1].by) ELSE composer
           \/ /\ lane[1].op = "send" /\ panel' = panel
              /\ IF panel /\ composer # <<>>
                 THEN posted' = posted \cup {composer} /\ composer' = <<>>
                 ELSE posted' = posted /\ composer' = composer
           \/ /\ lane[1].op = "panel" /\ panel /\ ~panel' /\ posted' = posted
              /\ composer' \in {composer, <<>>}
           \/ /\ lane[1].op \in Operations \ {"type", "send"} /\ posted' = posted
              /\ composer' = composer /\ (panel => panel')
  <1>1. lane \in Seq([op : Operations, by : Commands])
    BY DEF PageTypeOK
  <1>2. lane[1] \in [op : Operations, by : Commands]
    <2>1. Len(lane) \in Nat \ {0} /\ DOMAIN lane = 1..Len(lane)
      BY <1>1, LenProperties, EmptySeq
    <2>2. 1 \in DOMAIN lane
      BY <2>1
    <2> QED
      BY <2>2, OnLane
  <1>3. lane[1].op \in Operations
    BY <1>2
  <1>4. CASE lane[1].op = "type"
    BY <1>4 DEF Effect, TypeText
  <1>5. CASE lane[1].op = "send"
    BY <1>5 DEF Effect, ClickSend
  <1>6. CASE lane[1].op = "panel"
    <2>1. ClickPanel
      BY <1>6 DEF Effect
    <2>2. CASE panel
      BY <1>6, <2>1, <2>2 DEF ClickPanel, ClosesChat
    <2>3. CASE ~panel
      BY <1>6, <2>1, <2>3 DEF ClickPanel, Operations
    <2> QED
      BY <2>2, <2>3
  <1>7. CASE lane[1].op = "camera"
    BY <1>7 DEF Effect, ClickCamera, Operations
  <1>8. CASE lane[1].op = "admission"
    BY <1>8 DEF Effect, ClickAdmission, Operations
  <1> QED
    BY <1>3, <1>4, <1>5, <1>6, <1>7, <1>8 DEF Operations

(* What was asked of the lane is one step nearer.                          *)
LEMMA ClicksCloser ==
    ASSUME PageTypeOK, lane # <<>>, lane' = Tail(lane), flow' = flow
    PROVE  /\ \A c : \A m \in Nat : Follows(c, m + 1) => Follows(c, m)'
           /\ \A m, n \in Nat : SendBetween(m + 1, n + 1) => SendBetween(m, n)'
           /\ lane[1].op # "send" =>
                 /\ \A c : Follows(c, 0) => Follows(c, 0)'
                 /\ \A n \in Nat : SendBetween(0, n + 1) => SendBetween(0, n)'
  <1>1. \A k \in DOMAIN lane : k \in Nat /\ (k # 1 => k - 1 \in DOMAIN lane' /\ lane'[k - 1] = lane[k])
    BY LaneShrinks
  <1>2. ASSUME NEW c, NEW m \in Nat, Follows(c, m + 1) PROVE Follows(c, m)'
    <2>1. CASE flow[c] = "typing"
      BY <2>1 DEF Follows
    <2>2. CASE ClickAfter(c, m + 1)
      <3>1. PICK k \in DOMAIN lane : m + 1 < k /\ lane[k] = Click(c)
        BY <2>2 DEF ClickAfter
      <3>2. k \in Nat /\ k # 1 /\ m < k - 1
        BY <1>1, <3>1
      <3> QED
        BY <1>1, <3>1, <3>2 DEF Follows, ClickAfter, Click
    <2> QED
      BY <1>2, <2>1, <2>2 DEF Follows
  <1>3. ASSUME NEW m \in Nat, NEW n \in Nat, SendBetween(m + 1, n + 1) PROVE SendBetween(m, n)'
    <2>1. PICK k \in DOMAIN lane : m + 1 < k /\ k < n + 1 /\ lane[k].op = "send"
      BY <1>3 DEF SendBetween
    <2>2. k \in Nat /\ k # 1 /\ m < k - 1 /\ k - 1 < n
      BY <1>1, <2>1
    <2> QED
      BY <1>1, <2>1, <2>2 DEF SendBetween
  <1>4. ASSUME lane[1].op # "send", NEW c, Follows(c, 0) PROVE Follows(c, 0)'
    <2>1. CASE flow[c] = "typing"
      BY <2>1 DEF Follows
    <2>2. CASE ClickAfter(c, 0)
      <3>1. PICK k \in DOMAIN lane : 0 < k /\ lane[k] = Click(c)
        BY <2>2 DEF ClickAfter
      <3>2. k \in Nat /\ k # 1 /\ 0 < k - 1
        BY <1>1, <1>4, <3>1 DEF Click
      <3> QED
        BY <1>1, <3>1, <3>2 DEF Follows, ClickAfter, Click
    <2> QED
      BY <1>4, <2>1, <2>2 DEF Follows
  <1>5. ASSUME lane[1].op # "send", NEW n \in Nat, SendBetween(0, n + 1) PROVE SendBetween(0, n)'
    <2>1. PICK k \in DOMAIN lane : 0 < k /\ k < n + 1 /\ lane[k].op = "send"
      BY <1>5 DEF SendBetween
    <2>2. k \in Nat /\ k # 1 /\ 0 < k - 1 /\ k - 1 < n
      BY <1>1, <1>5, <2>1
    <2> QED
      BY <1>1, <2>1, <2>2 DEF SendBetween
  <1> QED
    BY <1>2, <1>3, <1>4, <1>5

(* A composer with one more text.                                          *)
LEMMA ComposerGrows ==
    ASSUME composer \in Seq(Typers), NEW d \in Typers, composer' = Append(composer, d)
    PROVE  /\ \A c : Held(c)' <=> Held(c) \/ c = d
           /\ (\A i \in DOMAIN composer : composer[i] = Join \/ composer[i] \in displaced) =>
                 Proper(Append(composer, d))
           /\ Join \in ToSet(composer) \/ d = Join => Proper(Append(composer, d))
  <1>1. /\ Len(composer) \in Nat /\ DOMAIN composer = 1..Len(composer)
        /\ DOMAIN composer' = 1..(Len(composer) + 1) /\ Len(composer') = Len(composer) + 1
        /\ composer'[Len(composer) + 1] = d /\ \A i \in 1..Len(composer) : composer'[i] = composer[i]
    BY AppendProperties, LenProperties
  <1>2. /\ \A i \in DOMAIN composer : i \in DOMAIN composer' /\ composer'[i] = composer[i]
        /\ \A i \in DOMAIN composer' : i \in DOMAIN composer \/ composer'[i] = d
        /\ Len(composer) + 1 \in DOMAIN composer'
    BY <1>1
  <1>3. \A c : Held(c)' <=> Held(c) \/ c = d
    <2>1. ASSUME NEW c, Held(c)' PROVE Held(c) \/ c = d
      BY <1>2, <2>1 DEF Held
    <2>2. ASSUME NEW c, Held(c) \/ c = d PROVE Held(c)'
      BY <1>1, <1>2, <2>2 DEF Held
    <2> QED
      BY <2>1, <2>2
  <1>4. Join \in ToSet(composer) \/ d = Join => Join \in ToSet(composer')
    BY <1>1, <1>2 DEF ToSet
  <1>5. 1..(Len(composer') - 1) = DOMAIN composer
    BY <1>1
  <1>6. ASSUME \A i \in DOMAIN composer : composer[i] = Join \/ composer[i] \in displaced
        PROVE  Join \in ToSet(composer') \/ \A i \in 1..(Len(composer') - 1) : composer'[i] \in displaced
    <2>1. CASE \E i \in DOMAIN composer : composer[i] = Join
      BY <1>4, <2>1 DEF ToSet
    <2> QED
      BY <1>2, <1>5, <1>6, <2>1
  <1> QED
    BY <1>3, <1>4, <1>6 DEF Proper

(* The lane runs an operation.                                             *)
LEMMA TextsRun ==
    ASSUME PageTypeOK, TypersStand, Chatting, [Next]_vars, flow' = flow,
           lane # <<>>, lane' = Tail(lane), Effect(lane[1])
    PROVE  Chatting'
  <1>1. /\ 1 \in DOMAIN lane
        /\ \A m \in DOMAIN lane' :
              m \in Nat /\ m > 0 /\ m + 1 \in DOMAIN lane /\ lane'[m] = lane[m + 1]
        /\ \A k \in DOMAIN lane : k \in Nat /\ (k # 1 => k - 1 \in DOMAIN lane' /\ lane'[k - 1] = lane[k])
    BY LaneShrinks
  <1>k. /\ Kept' \subseteq Kept /\ Kept \subseteq Chats
        /\ panel /\ ~panel' => \A c \in Kept' : c \notin AtComposer
        /\ \A m : Proper(m) => Proper(m)'
    BY FewerKept DEF Kept
  <1>p. /\ panel' = panel => displaced' = displaced
        /\ composer \in Seq(Typers)
        /\ lane[1].op = "type" => lane[1].by \in Typers /\ lane[1] = Text(lane[1].by)
    <2>1. lane[1].op = "type" => lane[1].by \in Typers
      BY <1>1 DEF TypersStand
    <2>2. lane[1].op = "type" => lane[1] = Text(lane[1].by)
      <3>1. lane[1] \in [op : Operations, by : Commands]
        BY <1>1, OnLane
      <3> QED
        BY <3>1 DEF Text
    <2> QED
      BY <2>1, <2>2, FewerKept DEF TypersStand
  <1>s. /\ \A c : \A m \in Nat : Follows(c, m + 1) => Follows(c, m)'
        /\ \A m, n \in Nat : SendBetween(m + 1, n + 1) => SendBetween(m, n)'
        /\ lane[1].op # "send" =>
              /\ \A c : Follows(c, 0) => Follows(c, 0)'
              /\ \A n \in Nat : SendBetween(0, n + 1) => SendBetween(0, n)'
    BY ClicksCloser
  <1>h. \A c : Held(c) => \E i \in DOMAIN composer : composer[i] = c
    BY DEF Held
  (* Where the texts are after it.                                         *)
  <1>2. /\ \A c \in Chats : Held(c)' => Held(c) \/ lane[1] = Text(c)
        /\ \A c \in Kept' : Held(c)' => (Held(c) /\ lane[1].op # "send") \/ lane[1] = Text(c)
        /\ \A c \in Kept' : Waits(c) => Posted(c)' \/ Waits(c)'
        /\ \A c : Posted(c) => Posted(c)'
        /\ Whole'
    <2>1. ASSUME NEW c \in Kept', Waits(c), lane[1] # Text(c), Held(c) => Held(c)' PROVE Waits(c)'
      <3>1. CASE Held(c)
        BY <2>1, <3>1 DEF Waits, Text
      <3>2. ASSUME NEW n \in DOMAIN lane, lane[n] = Text(c) PROVE Waits(c)'
        <4>1. n - 1 \in DOMAIN lane' /\ lane'[n - 1] = Text(c)
          BY <1>1, <2>1, <3>2
        <4> QED
          BY <4>1 DEF Waits, Text
      <3> QED
        BY <2>1, <3>1, <3>2 DEF Waits
    <2>2. ASSUME NEW c, posted \subseteq posted', Posted(c) PROVE Posted(c)'
      BY <2>2 DEF Posted
    <2>3. ASSUME NEW c, lane[1] = Text(c) PROVE lane[1].op = "type" /\ lane[1].by = c
      BY <2>3 DEF Text
    <2>w. Proper(composer) /\ \A m \in posted : Proper(m)
      BY DEF Chatting, Whole
    <2>e. \A c : Held(c)' => composer' # <<>>
      BY DEF Held
    <2>u. ASSUME composer' = composer
          PROVE  \A c : Held(c)' <=> Held(c)
      BY <2>u DEF Held
    <2>v. ASSUME \/ composer' = composer \/ composer' = <<>>,
                 \A m \in posted' : m \in posted \/ m = composer
          PROVE  Whole'
      <3>1. Proper(<<>>)
        BY DEF Proper
      <3>2. \A m \in posted' : Proper(m)'
        BY <1>k, <2>v, <2>w
      <3>3. \A m : m = composer \/ m = <<>> => Proper(m)'
        BY <1>k, <2>w, <3>1
      <3>4. PICK m : m = composer'
        OBVIOUS
      <3>5. Proper(m)'
        BY <2>v, <3>3, <3>4
      <3>6. Proper(composer)'
        BY <3>4, <3>5 DEF Proper
      <3> QED
        BY <3>2, <3>6 DEF Whole, Proper
    <2>4. CASE /\ lane[1].op = "type" /\ panel' = panel /\ posted' = posted
               /\ composer' = IF panel THEN Append(composer, lane[1].by) ELSE composer
      <3>1. CASE panel
        <4>1. composer' = Append(composer, lane[1].by)
          BY <2>4, <3>1
        <4>2. /\ \A c : Held(c)' <=> Held(c) \/ c = lane[1].by
              /\ (\A i \in DOMAIN composer : composer[i] = Join \/ composer[i] \in displaced) =>
                    Proper(Append(composer, lane[1].by))
              /\ Join \in ToSet(composer) \/ lane[1].by = Join => Proper(Append(composer, lane[1].by))
          BY <1>p, <2>4, <4>1, ComposerGrows
        <4>3. \A c \in Kept' : Waits(c) => Waits(c)'
          <5> SUFFICES ASSUME NEW c \in Kept', Waits(c) PROVE Waits(c)'
            OBVIOUS
          <5>1. CASE lane[1] = Text(c)
            <6>1. Held(c)'
              BY <2>3, <4>2, <5>1
            <6> QED
              BY <6>1 DEF Waits, Text
          <5> QED
            BY <2>1, <4>2, <5>1
        <4>4. Proper(Append(composer, lane[1].by))
          <5>1. CASE lane[1].by = Join
            BY <4>2, <5>1
          <5>2. CASE lane[1].by # Join
            <6>1. IsText(1)
              BY <2>4, <5>2 DEF IsText
            <6>2. ASSUME NEW c \in Kept, Held(c) PROVE FALSE
              <7>1. SendBetween(0, 1)
                BY <1>1, <6>1, <6>2 DEF Chatting, TextsInOrder
              <7>2. PICK k \in DOMAIN lane : 0 < k /\ k < 1
                BY <7>1 DEF SendBetween
              <7>3. k \in Nat
                BY <1>1
              <7> QED
                BY <7>2, <7>3
            <6>3. \A i \in DOMAIN composer : composer[i] = Join \/ composer[i] \in displaced
              <7> TAKE i \in DOMAIN composer
              <7>1. composer[i] \in Typers
                <8>1. i \in 1..Len(composer)
                  BY <1>p, LenProperties
                <8> QED
                  BY <1>p, <8>1, ElementOfSeq
              <7>2. composer[i] \notin Kept
                BY <6>2 DEF Held
              <7> QED
                BY <7>1, <7>2 DEF Typers, Kept
            <6> QED
              BY <4>2, <6>3
          <5> QED
            BY <5>1, <5>2
        <4>5. Whole'
          <5>1. Proper(composer')
            BY <4>1, <4>4
          <5>2. displaced' = displaced
            BY <1>p, <2>4
          <5>3. Proper(composer)'
            BY <5>1, <5>2 DEF Proper
          <5>4. \A m \in posted' : Proper(m)'
            BY <1>k, <2>4, <2>w
          <5> QED
            BY <5>3, <5>4 DEF Whole, Proper
        <4>6. \A c : Held(c)' => Held(c) \/ lane[1] = Text(c)
          BY <1>p, <2>4, <4>2
        <4>7. \A c : Posted(c) => Posted(c)'
          BY <2>2, <2>4
        <4> QED
          BY <2>4, <4>3, <4>5, <4>6, <4>7
      <3>2. CASE ~panel
        <4>1. composer' = composer
          BY <2>4, <3>2
        <4>2. Whole'
          BY <2>4, <2>v, <4>1
        <4>3. \A c \in Kept' : ~Waits(c)
          BY <1>k, <3>2, KeptWaits
        <4>4. \A c : Posted(c) => Posted(c)'
          BY <2>2, <2>4
        <4>5. \A c : Held(c)' => Held(c) /\ lane[1].op # "send"
          BY <2>4, <2>u, <4>1
        <4> QED
          BY <4>2, <4>3, <4>4, <4>5
      <3> QED
        BY <3>1, <3>2
    <2>5. CASE /\ lane[1].op = "send" /\ panel' = panel
               /\ IF panel /\ composer # <<>>
                  THEN posted' = posted \cup {composer} /\ composer' = <<>>
                  ELSE posted' = posted /\ composer' = composer
      <3>1. CASE panel /\ composer # <<>>
        <4>1. posted' = posted \cup {composer} /\ composer' = <<>>
          BY <2>5, <3>1
        <4>2. \A c : ~Held(c)'
          BY <2>e, <4>1
        <4>3. Whole'
          BY <2>v, <4>1
        <4>4. \A c : Held(c) => Posted(c)'
          BY <1>h, <4>1 DEF Posted, ToSet
        <4>5. \A c : Posted(c) => Posted(c)'
          BY <2>2, <4>1
        <4>6. \A c \in Kept' : Waits(c) => Posted(c)' \/ Waits(c)'
          BY <2>1, <2>3, <2>5, <4>4
        <4> QED
          BY <4>2, <4>3, <4>5, <4>6
      <3>2. CASE ~(panel /\ composer # <<>>)
        <4>1. posted' = posted /\ composer' = composer
          BY <2>5, <3>2
        <4>2. \A c \in Kept' : ~Held(c)
          <5> SUFFICES ASSUME NEW c \in Kept', Held(c) PROVE FALSE
            OBVIOUS
          <5>1. c \in Kept /\ Waits(c)
            BY <1>k DEF Waits
          <5>2. panel
            BY <5>1, KeptWaits
          <5>3. composer # <<>>
            BY <1>h
          <5> QED
            BY <3>2, <5>2, <5>3
        <4>3. Whole'
          BY <2>v, <4>1
        <4>4. \A c : Posted(c) => Posted(c)'
          BY <2>2, <4>1
        <4>5. \A c \in Kept' : Waits(c) => Waits(c)'
          BY <2>1, <2>3, <2>5, <2>u, <4>1
        <4>6. \A c : Held(c)' => Held(c)
          BY <2>u, <4>1
        <4> QED
          BY <4>2, <4>3, <4>4, <4>5, <4>6
      <3> QED
        BY <3>1, <3>2
    <2>6. CASE /\ lane[1].op = "panel" /\ panel /\ ~panel' /\ posted' = posted
               /\ composer' \in {composer, <<>>}
      <3>1. \A c \in Kept' : ~Waits(c)
        BY <1>k, <2>6, KeptWaits
      <3>2. Whole'
        BY <2>6, <2>v
      <3>3. \A c : Posted(c) => Posted(c)'
        BY <2>2, <2>6
      <3>4. \A c : Held(c)' => Held(c) /\ lane[1].op # "send"
        BY <2>6, <2>u, <2>e
      <3> QED
        BY <3>1, <3>2, <3>3, <3>4
    <2>7. CASE /\ lane[1].op \in Operations \ {"type", "send"} /\ posted' = posted
               /\ composer' = composer /\ (panel => panel')
      <3>1. \A c : Held(c)' <=> Held(c)
        BY <2>7, <2>u
      <3>2. Whole'
        BY <2>7, <2>v
      <3>3. \A c : Posted(c) => Posted(c)'
        BY <2>2, <2>7
      <3>4. \A c \in Kept' : Waits(c) => Waits(c)'
        BY <2>1, <2>3, <2>7, <3>1
      <3> QED
        BY <2>7, <3>1, <3>2, <3>3, <3>4
    <2> QED
      BY <2>4, <2>5, <2>6, <2>7, EffectOnTexts
  <1>w. \A c \in Chats : Waits(c)' => Waits(c)
    <2> SUFFICES ASSUME NEW c \in Chats, Waits(c)' PROVE Waits(c)
      OBVIOUS
    <2>1. CASE Held(c)'
      BY <1>1, <1>2, <2>1 DEF Waits
    <2>2. ASSUME NEW n \in DOMAIN lane', lane'[n] = Text(c) PROVE Waits(c)
      BY <1>1, <2>2 DEF Waits
    <2> QED
      BY <2>1, <2>2 DEF Waits, Text
  <1>3. TextsBegun'
    BY <1>w DEF Chatting, TextsBegun
  <1>4. TextsFollow'
    <2>1. ASSUME NEW c \in Kept', Held(c)' PROVE Follows(c, 0)'
      <3>1. c \in Kept
        BY <1>k
      <3>2. CASE Held(c) /\ lane[1].op # "send"
        BY <1>s, <3>1, <3>2 DEF Chatting, TextsFollow
      <3>3. CASE lane[1] = Text(c)
        <4>1. Follows(c, 0 + 1)
          BY <1>1, <3>1, <3>3 DEF Chatting, TextsFollow
        <4> QED
          BY <1>s, <4>1
      <3> QED
        BY <1>2, <2>1, <3>2, <3>3
    <2>2. ASSUME NEW c \in Kept', NEW n \in DOMAIN lane', lane'[n] = Text(c) PROVE Follows(c, n)'
      <3>1. n \in Nat /\ n + 1 \in DOMAIN lane /\ lane[n + 1] = Text(c) /\ c \in Kept
        BY <1>1, <1>k, <2>2
      <3>2. Follows(c, n + 1)
        BY <3>1 DEF Chatting, TextsFollow
      <3> QED
        BY <1>s, <3>1, <3>2
    <2> QED
      BY <2>1, <2>2 DEF TextsFollow, Text
  <1>5. TextsInOrder'
    <2>1. ASSUME NEW c \in Kept', NEW n \in DOMAIN lane', IsText(n)'
          PROVE  /\ Held(c)' => SendBetween(0, n)'
                 /\ \A m \in DOMAIN lane' : m < n /\ lane'[m] = Text(c) => SendBetween(m, n)'
      <3>1. c \in Kept /\ n \in Nat /\ n > 0 /\ n + 1 \in DOMAIN lane /\ lane'[n] = lane[n + 1]
        BY <1>1, <1>k
      <3>2. IsText(n + 1)
        BY <2>1, <3>1 DEF IsText
      <3>3. /\ Held(c) => SendBetween(0, n + 1)
            /\ \A m \in DOMAIN lane : m < n + 1 /\ lane[m] = Text(c) => SendBetween(m, n + 1)
        BY <3>1, <3>2 DEF Chatting, TextsInOrder
      <3>4. ASSUME Held(c)' PROVE SendBetween(0, n)'
        <4>1. CASE Held(c) /\ lane[1].op # "send"
          BY <1>s, <3>1, <3>3, <4>1
        <4>2. CASE lane[1] = Text(c)
          <5>1. 1 < n + 1
            BY <3>1
          <5>2. SendBetween(0 + 1, n + 1)
            BY <1>1, <3>3, <4>2, <5>1
          <5> QED
            BY <1>s, <3>1, <5>2
        <4> QED
          BY <1>2, <3>4, <4>1, <4>2
      <3>5. ASSUME NEW m \in DOMAIN lane', m < n, lane'[m] = Text(c) PROVE SendBetween(m, n)'
        <4>1. m \in Nat /\ m + 1 \in DOMAIN lane /\ lane[m + 1] = Text(c)
          BY <1>1, <3>5
        <4>2. m + 1 < n + 1
          BY <3>1, <3>5, <4>1
        <4>3. SendBetween(m + 1, n + 1)
          BY <3>3, <4>1, <4>2
        <4> QED
          BY <1>s, <3>1, <4>1, <4>3
      <3> QED
        BY <3>4, <3>5
    <2> QED
      BY <2>1 DEF TextsInOrder, Text
  <1>6. PanelStands'
    <2> SUFFICES ASSUME NEW c \in Kept', c \in AtComposer' PROVE panel'
      BY DEF PanelStands
    <2>1. c \in Kept /\ c \in Chats
      BY <1>k
    <2>2. flow[c] = "typing" \/ \E n \in DOMAIN lane' : lane'[n] = Click(c)
      BY <2>1 DEF AtComposer, Click, ToSet
    <2>3. flow[c] = "typing" \/ \E n \in DOMAIN lane : lane[n] = Click(c)
      BY <1>1, <2>2
    <2>4. c \in AtComposer
      BY <2>1, <2>3 DEF AtComposer, Click, ToSet
    <2>5. panel
      BY <2>1, <2>4 DEF Chatting, PanelStands
    <2> QED
      BY <1>k, <2>4, <2>5
  <1>7. ChatsReach'
    <2> SUFFICES ASSUME NEW c \in Kept', flow[c] \in {"typing", "sent"} PROVE Posted(c)' \/ Waits(c)'
      BY DEF ChatsReach
    <2>1. Posted(c) \/ Waits(c)
      BY <1>k DEF Chatting, ChatsReach
    <2> QED
      BY <1>2, <2>1
  <1> QED
    BY <1>2, <1>3, <1>4, <1>5, <1>6, <1>7 DEF Chatting

(* The poll takes the panel for the participants: who was at the composer  *)
(* is displaced, and nobody else has a text on its way.                    *)
LEMMA PollDisplaces ==
    ASSUME Chatting, [Next]_vars, PollActs
    PROVE  Chatting'
  <1>1. /\ panel /\ ~panel' /\ lane' = lane /\ flow' = flow /\ posted' = posted
        /\ composer' \in {composer, <<>>}
    BY DEF PollActs, PollShowsPeople, ClosesChat, scriptVars
  <1>k. /\ Kept' \subseteq Kept /\ Kept \subseteq Chats
        /\ \A c \in Kept' : c \notin AtComposer
        /\ \A m : Proper(m) => Proper(m)'
    BY <1>1, FewerKept DEF Kept
  <1>2. \A c \in Kept' : ~Waits(c)
    BY <1>k, KeptWaits
  <1>3. \A c : Waits(c)' => Waits(c)
    <2>1. \A c : Held(c)' => Held(c)
      BY <1>1 DEF Held
    <2> QED
      BY <1>1, <2>1 DEF Waits, Text
  <1>4. \A c \in Kept' : ~Waits(c)'
    BY <1>2, <1>3
  <1>5. TextsBegun'
    BY <1>1, <1>3 DEF Chatting, TextsBegun
  <1>6. TextsFollow' /\ TextsInOrder'
    BY <1>4 DEF TextsFollow, TextsInOrder, Waits, Text
  <1>7. PanelStands'
    <2>1. AtComposer' = AtComposer
      BY <1>1 DEF AtComposer
    <2> QED
      BY <1>k, <2>1 DEF PanelStands
  <1>8. ChatsReach'
    <2> SUFFICES ASSUME NEW c \in Kept', flow[c] \in {"typing", "sent"} PROVE Posted(c)' \/ Waits(c)'
      BY <1>1 DEF ChatsReach
    <2>1. Posted(c)
      BY <1>2, <1>k DEF Chatting, ChatsReach
    <2> QED
      BY <1>1, <2>1 DEF Posted
  <1>9. Whole'
    <2>1. Proper(<<>>)
      BY DEF Proper
    <2>2. PICK m : m = composer'
      OBVIOUS
    <2>3. Proper(m)'
      BY <1>1, <1>k, <2>1, <2>2 DEF Chatting, Whole
    <2>4. Proper(composer)'
      BY <2>2, <2>3 DEF Proper
    <2>5. \A p \in posted' : Proper(p)'
      BY <1>1, <1>k DEF Chatting, Whole
    <2> QED
      BY <2>4, <2>5 DEF Whole, Proper
  <1> QED
    BY <1>5, <1>6, <1>7, <1>8, <1>9 DEF Chatting

LEMMA TypersKeepStanding ==
    ASSUME PageTypeOK, FlowTypeOK, QueueStands', TypersStand,
           StandsStill \/ (\E c \in Commands : Moves(c)) \/ HandsRun \/ PollActs
    PROVE  TypersStand'
  <1>1. ASSUME composer' = composer,
               \A n \in DOMAIN lane' :
                  (n \in DOMAIN lane /\ lane'[n] = lane[n]) \/ (lane'[n].op = "type" => lane'[n].by \in Typers)
        PROVE  TypersStand'
    BY <1>1 DEF TypersStand, Typers
  <1>2. CASE StandsStill
    BY <1>1, <1>2 DEF StandsStill
  <1>3. ASSUME NEW c \in Commands, Moves(c) PROVE TypersStand'
    <2>1. composer' = composer
      BY <1>3 DEF Moves, Slides, AsksPress, AsksText, AsksSend, PageStays
    <2>2. ASSUME NEW op \in Operations, lane' = Append(lane, [op |-> op, by |-> c]),
                 op = "type" => c \in Typers
          PROVE  TypersStand'
      <3>1. Longer /\ lane'[Len(lane) + 1] = [op |-> op, by |-> c]
        BY <2>2, AskedLast
      <3>2. \A n \in DOMAIN lane' : n \in DOMAIN lane \/ n = Len(lane) + 1
        BY <3>1 DEF Longer
      <3>3. lane'[Len(lane) + 1].op = "type" => lane'[Len(lane) + 1].by \in Typers
        BY <2>2, <3>1
      <3>4. \A n \in DOMAIN lane : lane'[n] = lane[n]
        BY <3>1 DEF Longer
      <3> QED
        BY <1>1, <2>1, <3>2, <3>3, <3>4
    <2>3. CASE Slides(c)
      <3>1. lane' = lane \/ \E op \in {"admission", "camera"} : lane' = Append(lane, [op |-> op, by |-> c])
        BY <2>3 DEF Slides
      <3> QED
        BY <1>1, <2>1, <2>2, <3>1 DEF Operations
    <2>4. CASE AsksPress(c)
      BY <2>2, <2>4 DEF AsksPress, Asks, Operations
    <2>5. CASE AsksText(c)
      <3>1. flow'[c] = "typing"
        BY <2>5 DEF AsksText, Goes, FlowTypeOK, ScriptTypeOK
      <3>2. c \in Typers
        BY <3>1 DEF QueueStands, Typers
      <3> QED
        BY <2>2, <2>5, <3>2 DEF AsksText, Asks, Operations
    <2>6. CASE AsksSend(c)
      BY <2>2, <2>6 DEF AsksSend, Asks, Operations
    <2> QED
      BY <1>3, <2>3, <2>4, <2>5, <2>6 DEF Moves
  <1>4. CASE HandsRun
    <2>1. lane # <<>> /\ lane' = Tail(lane)
      BY <1>4 DEF HandsRun, LaneRuns
    <2>2. /\ 1 \in DOMAIN lane /\ Head(lane) = lane[1]
          /\ \A m \in DOMAIN lane' : m + 1 \in DOMAIN lane /\ lane'[m] = lane[m + 1]
      BY <2>1, LaneShrinks
    <2>3. \A n \in DOMAIN lane' : lane'[n].op = "type" => lane'[n].by \in Typers
      BY <2>2 DEF TypersStand
    <2>4. composer \in Seq(Typers) /\ (lane[1].op = "type" => lane[1].by \in Typers)
      BY <2>2 DEF TypersStand
    <2>5. \/ composer' = composer \/ composer' = <<>>
          \/ lane[1].op = "type" /\ composer' = Append(composer, lane[1].by)
      <3>1. Effect(lane[1]) \/ composer' = composer
        BY <1>4, <2>2 DEF HandsRun, LaneRuns
      <3> QED
        BY <2>1, <3>1, EffectOnTexts
    <2>6. composer' \in Seq(Typers)
      <3>1. CASE composer' = composer
        BY <2>4, <3>1
      <3>2. CASE composer' = <<>>
        BY <3>2, EmptySeq
      <3>3. CASE lane[1].op = "type" /\ composer' = Append(composer, lane[1].by)
        BY <2>4, <3>3, AppendProperties
      <3> QED
        BY <2>5, <3>1, <3>2, <3>3
    <2> QED
      BY <2>3, <2>6 DEF TypersStand, Typers
  <1>5. CASE PollActs
    <2>1. lane' = lane /\ composer' \in {composer, <<>>}
      BY <1>5 DEF PollActs, PollShowsPeople, ClosesChat
    <2>2. composer' \in Seq(Typers)
      BY <2>1, EmptySeq DEF TypersStand
    <2> QED
      BY <2>1, <2>2 DEF TypersStand, Typers
  <1> QED
    BY <1>2, <1>3, <1>4, <1>5

LEMMA ChatInduction == (Init => ChatInv) /\ (LeaveInv /\ CameraInv /\ ChatInv /\ [Next]_vars => ChatInv')
  <1>1. ASSUME Init PROVE ChatInv
    <2>1. /\ chat = [c \in Chats |-> "idle"] /\ flow = [c \in Commands |-> "idle"]
          /\ sendChatQueue = <<>> /\ lane = <<>> /\ composer = <<>> /\ posted = {}
      BY <1>1 DEF Init, ScriptInit, PageInit
    <2>2. DOMAIN lane = {} /\ DOMAIN composer = {} /\ \A c \in Commands : flow[c] = "idle"
      BY <2>1
    <2>3. Join \in Commands /\ Chats \subseteq Commands
      BY Kinds
    <2>4. QueueStands
      <3>1. sendChatQueue \in Seq(Chats)
        BY <2>1
      <3> QED
        BY <2>2, <2>3, <3>1 DEF QueueStands
    <2>5. ReportsStand
      BY <2>1 DEF ReportsStand
    <2>6. TypersStand
      BY <2>1, <2>2, EmptySeq DEF TypersStand
    <2>7. \A c : ~Waits(c)
      BY <2>2 DEF Waits, Held
    <2>8. \A c \in Chats : flow[c] \notin {"typing", "sent"} /\ c \notin AtComposer
      BY <2>2, <2>3 DEF AtComposer, ToSet
    <2>9. Chatting
      <3>1. TextsBegun /\ TextsFollow /\ TextsInOrder
        BY <2>2, <2>7 DEF TextsBegun, TextsFollow, TextsInOrder, Waits
      <3>2. PanelStands /\ ChatsReach
        BY <2>8 DEF PanelStands, ChatsReach, Kept
      <3>3. Whole
        BY <2>1 DEF Whole, Proper
      <3> QED
        BY <3>1, <3>2, <3>3 DEF Chatting
    <2> QED
      BY <2>4, <2>5, <2>6, <2>9 DEF ChatInv
  <1>2. ASSUME LeaveInv, CameraInv, ChatInv, [Next]_vars PROVE ChatInv'
    <2>1. QueueStands /\ ReportsStand /\ TypersStand /\ PageTypeOK /\ FlowTypeOK
      BY <1>2 DEF ChatInv, CameraInv, CameraTypes
    <2>2. QueueStands' /\ ReportsStand'
      BY <1>2, <2>1, QueueKeepsStanding, ReportsKeepStanding
    <2>3. StandsStill \/ (\E c \in Commands : Moves(c)) \/ HandsRun \/ PollActs
      BY <1>2, ChatMoves
    <2>4. TypersStand'
      BY <2>1, <2>2, <2>3, TypersKeepStanding
    <2>5. slipped => slipped'
      BY <2>3 DEF StandsStill, Moves, Slides, AsksPress, AsksText, AsksSend, PageStays, HandsRun, LaneRuns,
         PollActs, PollShowsPeople
    <2>6. ASSUME ~slipped' PROVE Chatting'
      <3>1. Chatting
        BY <1>2, <2>5, <2>6 DEF ChatInv
      <3>2. ASSUME panel' = panel PROVE displaced' = displaced
        BY <1>2, <3>2, FewerKept
      <3>3. CASE StandsStill
        BY <2>1, <3>1, <3>2, <3>3, ChatGoesOn DEF StandsStill
      <3>4. ASSUME NEW c \in Commands, Moves(c) PROVE Chatting'
        <4>1. UNCHANGED <<panel, composer, posted, displaced>>
          BY <3>2, <3>4 DEF Moves, Slides, AsksPress, AsksText, AsksSend, PageStays
        <4>2. /\ flow[c] \notin {"sent", "failed"} /\ \A d \in Commands : d # c => flow'[d] = flow[d]
              /\ \A to : Goes(c, to) => flow'[c] = to
              /\ \A d \in Chats : d \in Commands
          BY <2>1, <3>4, MovesOn, Kinds DEF Goes, FlowTypeOK, ScriptTypeOK
        <4>3. CASE Slides(c)
          <5>1. \/ lane' = lane
                \/ \E op \in Operations \ {"type", "send"} : \E d \in Commands :
                      lane' = Append(lane, [op |-> op, by |-> d])
            BY <4>3 DEF Slides, Operations
          <5>2. /\ flow[c] = "typing" => flow'[c] = "failed" /\ ~panel
                /\ flow'[c] # "typing" /\ (flow'[c] = "sent" => c \notin Chats)
            BY <4>2, <4>3 DEF Slides, Ended
          <5>3. c \in Kept => flow[c] # "typing"
            <6> SUFFICES ASSUME c \in Kept, flow[c] = "typing" PROVE FALSE
              OBVIOUS
            <6>1. c \in AtComposer
              BY DEF Kept, AtComposer
            <6> QED
              BY <3>1, <5>2, <6>1 DEF Chatting, PanelStands
          <5>4. \A d \in Chats :
                   /\ flow[d] \in {"typing", "sent", "failed"} => flow'[d] \in {"typing", "sent", "failed"}
                   /\ flow'[d] \in {"typing", "sent"} => flow'[d] = flow[d]
                   /\ flow[d] = "typing" /\ d \in Kept => flow'[d] = "typing"
            BY <4>2, <5>2, <5>3
          <5> QED
            BY <2>1, <3>1, <4>1, <5>1, <5>4, ChatGoesOn
        <4>4. CASE AsksPress(c)
          <5>1. \E op \in Operations \ {"type", "send"} : \E d \in Commands :
                   lane' = Append(lane, [op |-> op, by |-> d])
            BY <4>4 DEF AsksPress, Asks, Operations
          <5>2. flow'[c] = "panel" /\ flow[c] \notin {"panel", "typing", "sent", "failed"}
            BY <4>2, <4>4 DEF AsksPress
          <5>3. \A d \in Chats :
                   /\ flow[d] \in {"typing", "sent", "failed"} => flow'[d] \in {"typing", "sent", "failed"}
                   /\ flow'[d] \in {"typing", "sent"} => flow'[d] = flow[d]
                   /\ flow[d] = "typing" /\ d \in Kept => flow'[d] = "typing"
            BY <4>2, <5>2
          <5> QED
            BY <2>1, <3>1, <4>1, <5>1, <5>3, ChatGoesOn
        <4>5. CASE AsksText(c)
          BY <2>1, <2>2, <3>1, <4>1, <4>5, TextIsAsked
        <4>6. CASE AsksSend(c)
          BY <2>1, <3>1, <4>1, <4>6, ClickIsAsked
        <4> QED
          BY <3>4, <4>3, <4>4, <4>5, <4>6 DEF Moves
      <3>5. CASE HandsRun
        <4>1. lane # <<>> /\ lane' = Tail(lane) /\ Effect(Head(lane)) /\ flow' = flow
          BY <2>6, <3>5 DEF HandsRun, LaneRuns, scriptVars
        <4>2. Head(lane) = lane[1]
          BY <2>1, <4>1, LaneShrinks
        <4> QED
          BY <1>2, <2>1, <3>1, <4>1, <4>2, TextsRun
      <3>6. CASE PollActs
        BY <1>2, <3>1, <3>6, PollDisplaces
      <3> QED
        BY <2>3, <3>3, <3>4, <3>5, <3>6
    <2> QED
      BY <2>2, <2>4, <2>6 DEF ChatInv
  <1> QED
    BY <1>1, <1>2

(* Whatever is retried, times out or waits in the lane, the meeting reads  *)
(* each chat whole and on its own, and a chat reported as sent has been    *)
(* posted when the lane is through: unless an xdotool failed, the consent  *)
(* message is part of it, or the panel was closed on the chat by the poll  *)
(* of the participants or by another flow's press.                         *)
THEOREM ChatsStayWhole == Spec => []ChatsAreWhole
  <1>1. ASSUME CameraInv, ChatInv PROVE ChatsAreWhole
    <2>1. TypeOK
      BY <1>1 DEF TypeOK, CameraInv, CameraTypes, FlowTypeOK
    <2>2. \A m \in posted : slipped \/ Join \in ToSet(m) \/ \A i \in 1..(Len(m) - 1) : m[i] \in displaced
      BY <1>1 DEF ChatInv, Chatting, Whole, Proper
    <2>3. ASSUME lane = <<>>, NEW c \in Chats, chat[c] = "ok", ~slipped, c \notin displaced
          PROVE  \E m \in posted : c \in ToSet(m)
      <3>1. flow[c] = "sent" /\ Chatting /\ c \in Kept
        BY <1>1, <2>3 DEF ChatInv, ReportsStand, Kept
      <3>2. DOMAIN lane = {}
        BY <2>3
      <3>3. ~Waits(c)
        BY <3>1, <3>2 DEF Chatting, TextsFollow, Follows, ClickAfter, Waits
      <3> QED
        BY <3>1, <3>3 DEF Chatting, ChatsReach, Posted
    <2> QED
      BY <2>1, <2>2, <2>3 DEF ChatsAreWhole
  <1>2. Init => LeaveInv /\ CameraInv /\ ChatInv
    BY LeaveInduction, CameraInduction, ChatInduction
  <1>3. LeaveInv /\ CameraInv /\ ChatInv /\ [Next]_vars => (LeaveInv /\ CameraInv /\ ChatInv)'
    BY LeaveInduction, CameraInduction, ChatInduction
  <1> QED
    BY <1>1, <1>2, <1>3, PTL DEF Spec
=============================================================================
