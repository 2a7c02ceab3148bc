---------------------------- MODULE MeetingProofs ----------------------------
(***************************************************************************)
(* Proofs about those who hear a meeting.  Of MeetingListeners, for every  *)
(* length of the meeting, every set of events and every setting of the     *)
(* intervals that is ordered as the code's: an objection is put before the *)
(* model in time, and every wake of the assistant is earned.  Of           *)
(* MeetingRecords, for every set of people and messages, every size of a   *)
(* batch, every number of attempts, faults and events: events are seen in  *)
(* order, the records tell the meeting, a label changes hands only when    *)
(* that is earned, and what is told has been on the page.                  *)
(***************************************************************************)
EXTENDS MeetingListeners, MeetingRecords, SequenceTheorems, TLAPS

-----------------------------------------------------------------------------
(* The consent monitor.                                                    *)

(* consent-monitor.ts: a call (5 s) does not outlast the debounce (8 s),   *)
(* and what is said stays in the prompt's window (30 s) for a debounce and *)
(* a tick (8 s and 20 s).                                                  *)
IntervalsNest == Timeout <= Debounce /\ Debounce + Interval <= Window

Call == [since : Nat, content : Nat, before : Int]

MonitorTypeOK ==
    /\ now \in Nat /\ arrivals \in Nat /\ nextTick \in Nat
    /\ transcriptBuffer \subseteq [place : Nat, at : Int]
    /\ chatBuffer \in Seq(Nat)
    /\ lastContent \in 0..arrivals /\ lastChecked \in Nat
    /\ lastCheckAt \in Int
    /\ llmCall \in Call \cup {Consent!NoCall}
    /\ selfKnown \in BOOLEAN
    /\ monitor \in {"listening", "decided", "stopped"}
    /\ owed \subseteq [kind : {"speech", "chat"}, place : 1..arrivals, at : 0..now]

(* The timers: the tick is never missed, and a call ends in time.          *)
InTime ==
    /\ monitor # "listening" => owed = {}
    /\ monitor = "listening" => now <= nextTick
    /\ nextTick <= now + Interval
    /\ lastCheckAt <= now /\ lastChecked <= lastContent
    /\ llmCall # Consent!NoCall =>
           /\ llmCall.before <= llmCall.since
           /\ llmCall.since <= now /\ now <= llmCall.since + Timeout
           /\ llmCall.content <= lastContent

(* What is owed and can still be shown: speech, and chat in the buffer.    *)
Waits(x) == x.kind = "speech" \/ x.place \in Consent!Range(chatBuffer)

(* Nothing that blocks a tick can do so for longer than the debounce: the  *)
(* last check and the call in flight are older than x, the watermark is    *)
(* behind it, and its words are in the buffer.                             *)
Unblocked(x) ==
    /\ nextTick <= x.at + Debounce + Interval
    /\ lastCheckAt <= x.at
    /\ llmCall # Consent!NoCall => llmCall.since <= x.at /\ llmCall.content < x.place
    /\ lastChecked < x.place /\ x.place <= lastContent
    /\ x.kind = "speech" => [place |-> x.place, at |-> x.at] \in transcriptBuffer

MonitorInv ==
    /\ MonitorTypeOK /\ InTime
    /\ \A x \in owed : Waits(x) => Unblocked(x)

(* The buffer of chat messages is a sequence, and keeps the last of them.  *)
LEMMA LastOfChat ==
    ASSUME NEW s \in Seq(Nat), NEW n \in Nat
    PROVE  /\ Consent!LastOf(s, n) \in Seq(Nat)
           /\ Consent!Range(Consent!LastOf(s, n)) \subseteq Consent!Range(s)
  <1>1. CASE Len(s) > n
    <2> DEFINE first == Len(s) - n + 1
    <2>1. first \in 1..(Len(s) + 1) /\ Len(s) \in Nat
      BY <1>1, LenProperties
    <2>2. Consent!LastOf(s, n) = SubSeq(s, first, Len(s))
      BY <1>1 DEF Consent!LastOf
    <2>3. /\ SubSeq(s, first, Len(s)) \in Seq(Nat)
          /\ Len(SubSeq(s, first, Len(s))) = n
          /\ \A i \in 1..n : SubSeq(s, first, Len(s))[i] = s[first + i - 1]
      BY <2>1, SubSeqProperties
    <2>4. \A i \in 1..n : first + i - 1 \in DOMAIN s
      BY <2>1, LenProperties
    <2>5. DOMAIN SubSeq(s, first, Len(s)) = 1..n
      BY <2>3, LenProperties
    <2> QED
      BY <2>2, <2>3, <2>4, <2>5 DEF Consent!Range
  <1>2. CASE ~(Len(s) > n)
    BY <1>2 DEF Consent!LastOf
  <1> QED
    BY <1>1, <1>2

(* A new message is in the buffer or has been pushed out of it; what was   *)
(* not there before does not come back.                                    *)
LEMMA ChatGrows ==
    ASSUME NEW s \in Seq(Nat), NEW n \in Nat, NEW p \in Nat
    PROVE  /\ Consent!LastOf(Append(s, p), n) \in Seq(Nat)
           /\ Consent!Range(Consent!LastOf(Append(s, p), n)) \subseteq Consent!Range(s) \cup {p}
  <1>1. Append(s, p) \in Seq(Nat) /\ Consent!Range(Append(s, p)) = Consent!Range(s) \cup {p}
    BY AppendProperties, LenProperties DEF Consent!Range
  <1> QED
    BY <1>1, LastOfChat

(* What MaybeRunLLMCheck() does: it is blocked, for one of its reasons, or *)
(* it makes a call that shows what the two buffers hold.                   *)
Blocked(isTick, transcript, chat, content) ==
    \/ monitor # "listening" \/ llmCall # Consent!NoCall
    \/ isTick /\ transcript = {} /\ chat = <<>>
    \/ now - lastCheckAt < Debounce
    \/ isTick /\ content = lastChecked

Shown(x, transcript, chat) ==
    x.place \in Consent!Range(chat) \/ \E entry \in Consent!Trimmed(transcript) : entry.place = x.place

Asks(transcript, chat, content, due) ==
    /\ monitor = "listening" /\ llmCall = Consent!NoCall
    /\ transcriptBuffer' = Consent!Trimmed(transcript)
    /\ llmCall' = [since |-> now, content |-> content, before |-> lastCheckAt]
    /\ lastCheckAt' = now
    /\ owed' \subseteq due
    /\ \A x \in owed' : ~Shown(x, transcript, chat)

LEMMA CheckRunsOrNot ==
    ASSUME NEW isTick, NEW transcript, NEW chat, NEW content, NEW due,
           Consent!MaybeRunLLMCheck(isTick, transcript, chat, content, due)
    PROVE  /\ chatBuffer' = chat /\ lastContent' = content
           /\ \/ /\ Blocked(isTick, transcript, chat, content)
                 /\ transcriptBuffer' = transcript /\ owed' = due
                 /\ UNCHANGED <<llmCall, lastCheckAt>>
              \/ Asks(transcript, chat, content, due)
  <1>1. CASE Blocked(isTick, transcript, chat, content)
    BY <1>1 DEF Consent!MaybeRunLLMCheck, Blocked
  <1>2. CASE ~Blocked(isTick, transcript, chat, content)
    BY <1>2 DEF Consent!MaybeRunLLMCheck, Blocked, Asks, Shown
  <1> QED
    BY <1>1, <1>2

(* What is said or written is owed from its own place on: the debounce and *)
(* the call in flight are older than it, and nothing that was owed before  *)
(* is pushed aside unseen.                                                 *)
LEMMA HeardIsOwed ==
    ASSUME IntervalsNest, MonitorInv, monitor = "listening",
           NEW e \in Events, e.kind \in {"speech", "chat"},
           NEW transcript \in SUBSET [place : Nat, at : Int], NEW chat \in Seq(Nat),
           Consent!Range(chat) \subseteq Consent!Range(chatBuffer) \cup {Consent!Place},
           Consent!Trimmed(transcriptBuffer) \subseteq transcript,
           e.kind = "speech" => [place |-> Consent!Place, at |-> now] \in transcript,
           Consent!Heard(e, transcript, chat),
           now' = now, arrivals' = arrivals + 1
    PROVE  MonitorInv'
  <1>a. PICK due : due = Consent!Due(e)
    OBVIOUS
  <1>b. PICK content : content = Consent!Watermark(e)
    OBVIOUS
  <1>1. /\ chatBuffer' = chat /\ lastContent' = content
        /\ \/ transcriptBuffer' = transcript /\ owed' = due /\ UNCHANGED <<llmCall, lastCheckAt>>
           \/ Asks(transcript, chat, content, due)
    <2>1. CASE e.text \in Objections
      <3>1. Consent!MaybeRunLLMCheck(FALSE, transcript, chat, content, due)
        BY <2>1, <1>a, <1>b DEF Consent!Heard, Consent!MaybeRunLLMCheck
      <3> QED
        BY <3>1, CheckRunsOrNot
    <2>2. CASE e.text \notin Objections
      BY <2>2, <1>a, <1>b DEF Consent!Heard
    <2> QED
      BY <2>1, <2>2
  <1>k. /\ Window \in Nat /\ Interval \in Nat /\ Debounce \in Nat /\ Timeout \in Nat
        /\ Timeout <= Debounce /\ Debounce + Interval <= Window
        /\ e.own \in BOOLEAN
    BY ListenerConstants DEF IntervalsNest
  <1>t. MonitorTypeOK
    BY DEF MonitorInv
  <1>i. InTime
    BY DEF MonitorInv
  <1>2. UNCHANGED <<lastChecked, nextTick, selfKnown, monitor>>
    BY DEF Consent!Heard
  <1>3. content \in lastContent..(arrivals + 1) /\ (~e.own => content = arrivals + 1)
    BY <1>b, <1>k, <1>t DEF Consent!Watermark, MonitorTypeOK
  <1>4. /\ due \subseteq [kind : {"speech", "chat"}, place : 1..(arrivals + 1), at : 0..now]
        /\ \A x \in due : \/ x \in owed
                          \/ /\ x = [kind |-> e.kind, place |-> arrivals + 1, at |-> now]
                             /\ ~e.own
    BY <1>a, <1>k, <1>t DEF Consent!Due, Consent!Place, MonitorTypeOK
  <1>5. Consent!Trimmed(transcript) \subseteq transcript
    BY DEF Consent!Trimmed
  <1>6. owed' \subseteq due /\ transcriptBuffer' \subseteq transcript
    BY <1>1, <1>5 DEF Asks
  <1>7. MonitorTypeOK'
    <2>1. llmCall' \in Call \cup {Consent!NoCall} /\ lastCheckAt' \in Int
      BY <1>1, <1>3, <1>t DEF Asks, Call, MonitorTypeOK
    <2>2. owed' \subseteq [kind : {"speech", "chat"}, place : 1..arrivals', at : 0..now']
      BY <1>4, <1>6
    <2> QED
      BY <1>1, <1>2, <1>3, <1>6, <1>t, <2>1, <2>2 DEF MonitorTypeOK
  <1>8. InTime'
    <2>1. CASE UNCHANGED <<llmCall, lastCheckAt>>
      BY <2>1, <1>1, <1>2, <1>3, <1>t, <1>i, <1>k DEF MonitorTypeOK, InTime, Call
    <2>2. CASE Asks(transcript, chat, content, due)
      <3>1. llmCall'.since = now /\ llmCall'.before = lastCheckAt /\ llmCall'.content = lastContent'
        BY <2>2, <1>1 DEF Asks
      <3> QED
        BY <2>2, <3>1, <1>1, <1>2, <1>3, <1>t, <1>i, <1>k DEF Asks, MonitorTypeOK, InTime
    <2> QED
      BY <1>1, <2>1, <2>2
  <1>9. ASSUME NEW x \in owed', Waits(x)'
        PROVE  Unblocked(x)'
    <2>1. x \in due /\ x \in [kind : {"speech", "chat"}, place : Nat, at : Nat] /\ x.place <= arrivals + 1
      BY <1>4, <1>6, <1>t DEF MonitorTypeOK
    <2>2. Waits(x)' <=> x.kind = "speech" \/ x.place \in Consent!Range(chat)
      BY <1>1 DEF Waits
    <2>3. /\ nextTick <= x.at + Debounce + Interval
          /\ lastCheckAt <= x.at
          /\ llmCall # Consent!NoCall => llmCall.since <= x.at /\ llmCall.content < x.place
          /\ lastChecked < x.place /\ x.place <= content
          /\ x.kind = "speech" => [place |-> x.place, at |-> x.at] \in transcript
          /\ x.kind = "speech" => x.at >= now - Window
      <3>1. CASE x \in owed
        <4>1. x.place <= arrivals
          BY <3>1, <1>t DEF MonitorTypeOK
        <4>2. Waits(x)
          BY <2>2, <4>1, <1>9, <1>t DEF Waits, Consent!Place, MonitorTypeOK
        <4>3. Unblocked(x)
          BY <3>1, <4>2 DEF MonitorInv
        <4>4. now <= x.at + Window
          <5>1. now <= nextTick /\ nextTick <= x.at + Debounce + Interval
            BY <4>3, <1>i DEF Unblocked, InTime
          <5>2. now \in Nat /\ nextTick \in Nat
            BY <1>t DEF MonitorTypeOK
          <5> QED
            BY <5>1, <5>2, <2>1, <1>k
        <4>5. x.kind = "speech" => [place |-> x.place, at |-> x.at] \in transcript
          <5> SUFFICES ASSUME x.kind = "speech" PROVE [place |-> x.place, at |-> x.at] \in transcript
            OBVIOUS
          <5> DEFINE entry == [place |-> x.place, at |-> x.at]
          <5>1. entry \in transcriptBuffer
            BY <4>3 DEF Unblocked
          <5>2. entry.at >= now - Window
            BY <4>4, <2>1, <1>t, <1>k DEF MonitorTypeOK
          <5> QED
            BY <5>1, <5>2 DEF Consent!Trimmed
        <4> QED
          <5>1. now \in Nat /\ arrivals \in Nat /\ lastContent \in Nat
            BY <1>t DEF MonitorTypeOK
          <5>2. x.kind = "speech" => x.at >= now - Window
            BY <4>4, <5>1, <2>1, <1>k
          <5>3. x.place <= content
            BY <4>3, <5>1, <1>3, <2>1 DEF Unblocked
          <5> QED
            BY <4>3, <4>5, <5>2, <5>3 DEF Unblocked
      <3>2. CASE x = [kind |-> e.kind, place |-> arrivals + 1, at |-> now] /\ ~e.own
        <4>1. content = arrivals + 1
          BY <3>2, <1>3
        <4>2. x.kind = "speech" => [place |-> x.place, at |-> x.at] \in transcript
          BY <3>2 DEF Consent!Place
        <4>3. llmCall # Consent!NoCall => llmCall.since <= x.at /\ llmCall.content < x.place
          BY <3>2, <1>i, <1>t DEF InTime, MonitorTypeOK, Call
        <4> QED
          BY <3>2, <4>1, <4>2, <4>3, <1>i, <1>t, <1>k DEF InTime, MonitorTypeOK
      <3> QED
        BY <2>1, <1>4, <3>1, <3>2
    <2>4. ~Asks(transcript, chat, content, due)
      <3> SUFFICES ASSUME Asks(transcript, chat, content, due) PROVE FALSE
        OBVIOUS
      <3>1. x.kind = "speech" => Shown(x, transcript, chat)
        BY <2>3, <2>1 DEF Shown, Consent!Trimmed
      <3>2. x.place \in Consent!Range(chat) => Shown(x, transcript, chat)
        BY DEF Shown
      <3> QED
        BY <3>1, <3>2, <2>2, <1>9 DEF Asks
    <2> QED
      BY <2>3, <2>4, <1>1, <1>2 DEF Unblocked
  <1> QED
    BY <1>7, <1>8, <1>9 DEF MonitorInv

(* An event either is dropped, or is heard, or tells who is there; none    *)
(* of it touches what is owed already.                                     *)
LEMMA EventIsOwed ==
    ASSUME IntervalsNest, MonitorInv, NEW e \in Events, Dispatch(e)
    PROVE  MonitorInv'
  <1>1. now' = now /\ arrivals' = arrivals + 1
    BY DEF Dispatch
  <1>t. MonitorTypeOK /\ InTime /\ e.own \in BOOLEAN /\ ChatSize \in Nat /\ Window \in Nat
    BY ListenerConstants DEF MonitorInv
  <1>2. CASE Consent!Idle
    <2>1. MonitorTypeOK'
      BY <1>1, <1>2, <1>t DEF MonitorTypeOK, Consent!Idle, Consent!consentVars
    <2>2. InTime'
      BY <1>1, <1>2, <1>t DEF InTime, Consent!Idle, Consent!consentVars
    <2>3. ASSUME NEW x \in owed', Waits(x)' PROVE Unblocked(x)'
      BY <2>3, <1>1, <1>2 DEF Unblocked, Waits, Consent!Idle, Consent!consentVars, MonitorInv
    <2> QED
      BY <2>1, <2>2, <2>3 DEF MonitorInv
  <1>3. CASE monitor = "listening" /\ Consent!OnTranscriptChunk(e)
    <2> DEFINE entry == [place |-> Consent!Place, at |-> now]
               transcript == Consent!Trimmed(transcriptBuffer \cup {entry})
    <2>1. PICK heard : heard = transcript
      OBVIOUS
    <2>2. heard \in SUBSET [place : Nat, at : Int] /\ chatBuffer \in Seq(Nat)
      BY <2>1, <1>t DEF Consent!Trimmed, Consent!Place, MonitorTypeOK
    <2>3. Consent!Trimmed(transcriptBuffer) \subseteq heard
      BY <2>1 DEF Consent!Trimmed
    <2>4. entry \in heard
      <3>1. entry.at >= now - Window
        BY <1>t DEF MonitorTypeOK
      <3> QED
        BY <3>1, <2>1 DEF Consent!Trimmed
    <2>5. PICK chat : chat = chatBuffer
      OBVIOUS
    <2>6. Consent!Heard(e, heard, chat) /\ e.kind = "speech"
      BY <1>3, <2>1, <2>5 DEF Consent!OnTranscriptChunk
    <2> QED
      BY <1>1, <1>3, <2>2, <2>3, <2>4, <2>5, <2>6, HeardIsOwed
  <1>4. CASE monitor = "listening" /\ Consent!OnInboundChat(e)
    <2>1. PICK heard : heard = transcriptBuffer
      OBVIOUS
    <2>2. PICK chat : chat = Consent!LastOf(Append(chatBuffer, Consent!Place), ChatSize)
      OBVIOUS
    <2>3. Consent!Place \in Nat /\ chatBuffer \in Seq(Nat) /\ heard \in SUBSET [place : Nat, at : Int]
      BY <2>1, <1>t DEF Consent!Place, MonitorTypeOK
    <2>4. chat \in Seq(Nat) /\ Consent!Range(chat) \subseteq Consent!Range(chatBuffer) \cup {Consent!Place}
      BY <2>2, <2>3, <1>t, ChatGrows
    <2>5. Consent!Trimmed(transcriptBuffer) \subseteq heard
      BY <2>1 DEF Consent!Trimmed
    <2>6. Consent!Heard(e, heard, chat) /\ e.kind = "chat"
      BY <1>4, <2>1, <2>2 DEF Consent!OnInboundChat
    <2> QED
      BY <1>1, <1>4, <2>3, <2>4, <2>5, <2>6, HeardIsOwed
  <1>5. CASE monitor = "listening" /\ Consent!OnParticipantChange(e)
    <2>1. /\ UNCHANGED <<transcriptBuffer, chatBuffer, lastChecked, lastCheckAt, llmCall, nextTick,
                         monitor, owed>>
          /\ selfKnown' \in BOOLEAN
          /\ lastContent' \in lastContent..(arrivals + 1)
      BY <1>5, <1>t DEF Consent!OnParticipantChange, Consent!Place, MonitorTypeOK
    <2>2. MonitorTypeOK'
      BY <1>1, <2>1, <1>t DEF MonitorTypeOK
    <2>3. InTime'
      BY <1>1, <2>1, <1>t DEF InTime, MonitorTypeOK, Call
    <2>4. ASSUME NEW x \in owed', Waits(x)' PROVE Unblocked(x)'
      <3>1. x \in owed /\ Unblocked(x) /\ x.place \in Nat
        BY <2>4, <2>1, <1>t DEF Waits, MonitorInv, MonitorTypeOK
      <3> QED
        BY <3>1, <1>1, <2>1, <1>t DEF Unblocked, MonitorTypeOK
    <2> QED
      BY <2>2, <2>3, <2>4 DEF MonitorInv
  <1> QED
    BY <1>2, <1>3, <1>4, <1>5 DEF Dispatch, Consent!OnEvent

(* A tick that does not ask is blocked by something older than what is     *)
(* owed, and the next one is still in time.                                *)
LEMMA TickIsInTime ==
    ASSUME IntervalsNest, MonitorInv, Consent!Tick, UNCHANGED <<now, arrivals>>
    PROVE  MonitorInv'
  <1>k. /\ Window \in Nat /\ Interval \in Nat /\ Debounce \in Nat /\ Timeout \in Nat
        /\ Timeout <= Debounce /\ Debounce + Interval <= Window
    BY ListenerConstants DEF IntervalsNest
  <1>t. MonitorTypeOK /\ InTime
    BY DEF MonitorInv
  <1>1. /\ now = nextTick /\ nextTick' = now + Interval
        /\ UNCHANGED <<recentHashes, lastChecked, selfKnown, monitor, now, arrivals>>
    BY DEF Consent!Tick
  <1>2. /\ UNCHANGED <<chatBuffer, lastContent>>
        /\ \/ /\ Blocked(TRUE, transcriptBuffer, chatBuffer, lastContent)
              /\ UNCHANGED <<transcriptBuffer, owed, llmCall, lastCheckAt>>
           \/ Asks(transcriptBuffer, chatBuffer, lastContent, owed)
    <2>1. PICK transcript, chat, content, due :
              transcript = transcriptBuffer /\ chat = chatBuffer /\ content = lastContent /\ due = owed
      OBVIOUS
    <2>2. Consent!MaybeRunLLMCheck(TRUE, transcript, chat, content, due)
      BY <2>1 DEF Consent!Tick, Consent!MaybeRunLLMCheck
    <2>3. /\ chatBuffer' = chat /\ lastContent' = content
          /\ \/ /\ Blocked(TRUE, transcript, chat, content)
                /\ transcriptBuffer' = transcript /\ owed' = due
                /\ UNCHANGED <<llmCall, lastCheckAt>>
             \/ Asks(transcript, chat, content, due)
      BY <2>2, CheckRunsOrNot
    <2> QED
      BY <2>1, <2>3 DEF Blocked, Asks, Shown
  <1>3. owed' \subseteq owed /\ transcriptBuffer' \subseteq transcriptBuffer
    BY <1>2 DEF Asks, Consent!Trimmed
  <1>4. MonitorTypeOK'
    <2>1. llmCall' \in Call \cup {Consent!NoCall} /\ lastCheckAt' \in Int
      <3>1. CASE UNCHANGED <<llmCall, lastCheckAt>>
        BY <3>1, <1>t DEF MonitorTypeOK
      <3>2. CASE Asks(transcriptBuffer, chatBuffer, lastContent, owed)
        BY <3>2, <1>t DEF Asks, Call, MonitorTypeOK
      <3> QED
        BY <1>2, <3>1, <3>2
    <2> QED
      BY <1>1, <1>2, <1>3, <2>1, <1>t, <1>k DEF MonitorTypeOK
  <1>5. InTime'
    <2>1. CASE UNCHANGED <<llmCall, lastCheckAt>>
      BY <2>1, <1>1, <1>2, <1>3, <1>t, <1>k DEF MonitorTypeOK, InTime, Call
    <2>2. CASE Asks(transcriptBuffer, chatBuffer, lastContent, owed)
      <3>1. llmCall'.since = now /\ llmCall'.before = lastCheckAt /\ llmCall'.content = lastContent'
        BY <2>2, <1>2 DEF Asks
      <3> QED
        BY <2>2, <3>1, <1>1, <1>2, <1>t, <1>k DEF Asks, MonitorTypeOK, InTime
    <2> QED
      BY <1>2, <2>1, <2>2
  <1>6. ASSUME NEW x \in owed', Waits(x)' PROVE Unblocked(x)'
    <2>1. x \in owed /\ Waits(x) /\ x \in [kind : {"speech", "chat"}, place : Nat, at : Nat]
      BY <1>6, <1>2, <1>3, <1>t DEF Waits, MonitorTypeOK
    <2>2. Unblocked(x)
      BY <2>1 DEF MonitorInv
    <2>3. ~Asks(transcriptBuffer, chatBuffer, lastContent, owed)
      <3> SUFFICES ASSUME Asks(transcriptBuffer, chatBuffer, lastContent, owed) PROVE FALSE
        OBVIOUS
      <3>1. CASE x.kind = "speech"
        <4> DEFINE entry == [place |-> x.place, at |-> x.at]
        <4>1. entry \in transcriptBuffer /\ entry.place = x.place
          BY <2>2, <3>1 DEF Unblocked
        <4>2. entry.at >= now - Window
          BY <2>2, <2>1, <1>1, <1>t, <1>k DEF Unblocked, MonitorTypeOK
        <4>3. entry \in Consent!Trimmed(transcriptBuffer)
          BY <4>1, <4>2 DEF Consent!Trimmed
        <4> QED
          BY <4>1, <4>3, <1>6 DEF Asks, Shown
      <3>2. CASE x.place \in Consent!Range(chatBuffer)
        BY <3>2, <1>6 DEF Asks, Shown
      <3> QED
        BY <3>1, <3>2, <2>1 DEF Waits
    <2>4. Blocked(TRUE, transcriptBuffer, chatBuffer, lastContent)
      BY <2>3, <1>2
    <2>5. monitor = "listening"
      BY <2>1, <1>t DEF InTime
    <2>6. ~(transcriptBuffer = {} /\ chatBuffer = <<>>)
      BY <2>1, <2>2 DEF Waits, Unblocked, Consent!Range
    <2>7. lastContent # lastChecked
      BY <2>1, <2>2, <1>t DEF Unblocked, MonitorTypeOK
    <2>8. now <= x.at + Debounce
      <3>1. CASE llmCall # Consent!NoCall
        <4>1. llmCall.since \in Nat /\ now \in Nat
          BY <3>1, <1>t DEF MonitorTypeOK, Call
        <4>2. llmCall.since <= x.at /\ now <= llmCall.since + Timeout
          BY <3>1, <2>2, <1>t DEF Unblocked, InTime
        <4> QED
          BY <4>1, <4>2, <2>1, <1>k
      <3>2. CASE now - lastCheckAt < Debounce
        BY <3>2, <2>1, <2>2, <1>t, <1>k DEF Unblocked, MonitorTypeOK
      <3> QED
        BY <3>1, <3>2, <2>4, <2>5, <2>6, <2>7 DEF Blocked
    <2>9. nextTick' <= x.at + Debounce + Interval
      BY <2>1, <2>8, <1>1, <1>t, <1>k DEF MonitorTypeOK
    <2> QED
      BY <2>2, <2>3, <2>9, <1>1, <1>2 DEF Unblocked
  <1> QED
    BY <1>4, <1>5, <1>6 DEF MonitorInv

(* A call that fails gives the debounce back, one that is answered moves   *)
(* the watermark to what it had seen: both are older than what is owed.    *)
LEMMA AnswersAreOld ==
    ASSUME MonitorInv, Consent!LlmFails \/ \E objected \in BOOLEAN : Consent!LlmAnswers(objected),
           UNCHANGED <<now, arrivals>>
    PROVE  MonitorInv'
  <1>t. MonitorTypeOK /\ InTime
    BY DEF MonitorInv
  <1>1. /\ llmCall # Consent!NoCall /\ llmCall' = Consent!NoCall
        /\ lastCheckAt' \in {lastCheckAt, llmCall.before}
        /\ lastChecked' \in {lastChecked, llmCall.content}
        /\ UNCHANGED <<transcriptBuffer, chatBuffer, lastContent, nextTick, selfKnown, now, arrivals>>
        /\ \/ UNCHANGED <<monitor, owed>>
           \/ monitor' = "decided" /\ owed' = {}
    BY DEF Consent!LlmFails, Consent!LlmAnswers
  <1>2. llmCall \in Call
    BY <1>1, <1>t DEF MonitorTypeOK
  <1>3. MonitorTypeOK'
    BY <1>1, <1>2, <1>t DEF MonitorTypeOK, Call
  <1>4. InTime'
    BY <1>1, <1>2, <1>t DEF MonitorTypeOK, InTime, Call
  <1>5. ASSUME NEW x \in owed', Waits(x)' PROVE Unblocked(x)'
    <2>1. x \in owed /\ Unblocked(x) /\ x.place \in Nat /\ x.at \in Nat
      BY <1>5, <1>1, <1>t DEF Waits, MonitorInv, MonitorTypeOK
    <2> QED
      BY <2>1, <1>1, <1>2, <1>t DEF Unblocked, MonitorTypeOK, InTime, Call
  <1> QED
    BY <1>3, <1>4, <1>5 DEF MonitorInv

(* The invariant of the monitor: what is said, written or answered, ticks, *)
(* leave() and the time keep it.                                           *)
LEMMA MonitorInduction == ASSUME IntervalsNest PROVE Spec => []MonitorInv
  <1>1. Init => MonitorInv
    <2> SUFFICES ASSUME Init PROVE MonitorInv
      OBVIOUS
    <2>k. Debounce \in Nat /\ Interval \in Nat
      BY ListenerConstants
    <2>1. MonitorTypeOK
      <3>1. lastCheckAt \in Int /\ now = 0 /\ nextTick \in Nat
        BY <2>k DEF Init, Consent!Init, Consent!Never
      <3>2. chatBuffer \in Seq(Nat) /\ transcriptBuffer = {} /\ owed = {}
        BY EmptySeq DEF Init, Consent!Init
      <3>3. arrivals = 0 /\ lastContent = 0 /\ lastChecked = 0 /\ llmCall = Consent!NoCall
        BY DEF Init, Consent!Init
      <3>4. selfKnown \in BOOLEAN /\ monitor \in {"listening", "decided", "stopped"}
        BY DEF Init, Consent!Init
      <3> QED
        BY <3>1, <3>2, <3>3, <3>4 DEF MonitorTypeOK
    <2>2. InTime
      BY <2>k DEF Init, Consent!Init, Consent!Never, InTime
    <2> QED
      BY <2>1, <2>2 DEF Init, Consent!Init, MonitorInv
  <1>2. MonitorInv /\ [Next]_vars => MonitorInv'
    <2> SUFFICES ASSUME MonitorInv, [Next]_vars PROVE MonitorInv'
      OBVIOUS
    <2>t. MonitorTypeOK /\ InTime
      BY DEF MonitorInv
    <2>1. ASSUME NEW e \in Events, Dispatch(e) PROVE MonitorInv'
      BY <2>1, EventIsOwed
    <2>2. CASE Leave
      <3>1. /\ monitor' = "stopped" /\ owed' = {}
            /\ UNCHANGED <<now, arrivals, transcriptBuffer, chatBuffer, lastContent, lastChecked,
                           lastCheckAt, llmCall, nextTick, selfKnown>>
        BY <2>2 DEF Leave, Consent!Stop
      <3>2. MonitorTypeOK'
        BY <3>1, <2>t DEF MonitorTypeOK
      <3>3. InTime'
        BY <3>1, <2>t DEF InTime
      <3> QED
        BY <3>1, <3>2, <3>3 DEF MonitorInv
    <2>3. CASE MonitorStep
      BY <2>3, TickIsInTime, AnswersAreOld DEF MonitorStep, Consent!Own
    <2>4. CASE Advance
      <3>1. /\ now' = now + 1 /\ Consent!OnTime
            /\ UNCHANGED <<arrivals, transcriptBuffer, chatBuffer, lastContent, lastChecked,
                           lastCheckAt, llmCall, nextTick, selfKnown, monitor, owed>>
        BY <2>4 DEF Advance, Consent!Idle, Consent!consentVars
      <3>2. MonitorTypeOK'
        <4>1. owed' \subseteq [kind : {"speech", "chat"}, place : 1..arrivals', at : 0..now']
          BY <3>1, <2>t DEF MonitorTypeOK
        <4> QED
          BY <3>1, <4>1, <2>t DEF MonitorTypeOK
      <3>3. InTime'
        <4>1. Interval \in Nat /\ Timeout \in Nat
          BY ListenerConstants
        <4>2. llmCall # Consent!NoCall => llmCall.since \in Nat /\ now < llmCall.since + Timeout
          BY <3>1, <2>t DEF MonitorTypeOK, Consent!OnTime, Call
        <4>3. monitor = "listening" => now < nextTick
          BY <3>1 DEF Consent!OnTime
        <4> QED
          BY <3>1, <4>1, <4>2, <4>3, <2>t DEF InTime, MonitorTypeOK
      <3>4. ASSUME NEW x \in owed', Waits(x)' PROVE Unblocked(x)'
        BY <3>4, <3>1 DEF Waits, Unblocked, MonitorInv
      <3> QED
        BY <3>2, <3>3, <3>4 DEF MonitorInv
    <2>5. CASE DetectorStep \/ UNCHANGED vars
      <3>1. UNCHANGED <<now, arrivals, transcriptBuffer, chatBuffer, lastContent, lastChecked,
                        lastCheckAt, llmCall, nextTick, selfKnown, monitor, owed>>
        BY <2>5 DEF DetectorStep, Consent!Idle, vars, Consent!consentVars
      <3>2. MonitorTypeOK'
        BY <3>1, <2>t DEF MonitorTypeOK
      <3>3. InTime'
        BY <3>1, <2>t DEF InTime
      <3>4. ASSUME NEW x \in owed', Waits(x)' PROVE Unblocked(x)'
        BY <3>4, <3>1 DEF Waits, Unblocked, MonitorInv
      <3> QED
        BY <3>2, <3>3, <3>4 DEF MonitorInv
    <2> QED
      BY <2>1, <2>2, <2>3, <2>4, <2>5 DEF Next
  <1> QED
    BY <1>1, <1>2, PTL DEF Spec

(* Every objection is put before the model within a debounce and a tick of *)
(* the moment it was made, for any intervals nested as the code's are.     *)
THEOREM ObjectionsAreAskedInTime == ASSUME IntervalsNest PROVE Spec => []AskedInTime
  <1>1. MonitorInv => AskedInTime
    <2> SUFFICES ASSUME MonitorInv, NEW x \in owed, Waits(x)
                 PROVE  now <= x.at + Debounce + Interval
      BY DEF AskedInTime, Consent!AskedInTime, Waits, MonitorInv, MonitorTypeOK
    <2>1. Debounce \in Nat /\ Interval \in Nat
      BY ListenerConstants
    <2>2. MonitorTypeOK /\ InTime /\ Unblocked(x)
      BY DEF MonitorInv
    <2>3. monitor = "listening" /\ x.at \in Nat
      BY <2>2 DEF InTime, MonitorTypeOK
    <2> QED
      BY <2>1, <2>2, <2>3 DEF MonitorTypeOK, InTime, Unblocked
  <1> QED
    BY <1>1, MonitorInduction, PTL

-----------------------------------------------------------------------------
(* The chat opportunity detector.                                          *)

(* The cooldown counts from the last wake, and a timer that is set belongs *)
(* to the last word of a 1:1 that still is one.                            *)
DetectorInv ==
    /\ now \in Nat /\ participantCount \in Nat
    /\ {lastEscalationAt, lastWord, voiceEouTimer} \subseteq Int
    /\ wake.at = lastEscalationAt
    /\ disposed => voiceEouTimer = Chat!Never
    /\ voiceEouTimer # Chat!Never =>
           /\ alone /\ VoiceMode /\ participantCount = 2
           /\ voiceEouTimer = lastWord + EndOfUtterance

(* What the intervals are.                                                 *)
LEMMA DetectorIntervals ==
    /\ Tier2Debounce \in Nat /\ Cooldown \in Nat /\ EndOfUtterance \in Nat
    /\ Chat!Never \in Int /\ Chat!Never < 0
  BY ListenerConstants DEF Chat!Never

(* Words start the wait anew, and who comes or goes ends it.               *)
LEMMA DetectorHears ==
    ASSUME DetectorInv, NEW e \in Events, Chat!OnEvent(e), UNCHANGED now
    PROVE  DetectorInv' /\ UNCHANGED wake
  <1> USE DetectorIntervals DEF DetectorInv
  <1>1. CASE Chat!Idle
    BY <1>1 DEF Chat!Idle, Chat!detectorVars
  <1>2. CASE ~disposed /\ Chat!OnTranscriptChunk(e)
    <2>1. /\ lastWord' = now /\ alone' = (participantCount = 2)
          /\ UNCHANGED <<participantCount, lastEscalationAt, disposed, wake, now>>
          /\ IF VoiceMode /\ participantCount = 2
             THEN voiceEouTimer' = now + EndOfUtterance
             ELSE UNCHANGED voiceEouTimer
      BY <1>2 DEF Chat!OnTranscriptChunk, Chat!ScheduleVoiceEouWake, Chat!IsOneOnOne
    <2>2. CASE VoiceMode /\ participantCount = 2
      <3>1. alone' /\ ~disposed'
        BY <1>2, <2>1, <2>2, Zenon
      <3>2. voiceEouTimer' = now + EndOfUtterance /\ lastWord' = now
        BY <2>1, <2>2
      <3> QED
        BY <2>1, <2>2, <3>1, <3>2
    <2>3. CASE ~(VoiceMode /\ participantCount = 2)
      BY <1>2, <2>1, <2>3
    <2> QED
      BY <2>2, <2>3
  <1>3. CASE Chat!OnInboundChat(e)
    BY <1>3 DEF Chat!OnInboundChat
  <1>4. CASE Chat!OnParticipantChange(e)
    <2>1. /\ participantCount' = Chat!NewCount(e)
          /\ voiceEouTimer' = IF participantCount = 2 /\ participantCount' # 2 THEN Chat!Never
                              ELSE voiceEouTimer
          /\ alone' = (alone /\ participantCount' = 2)
          /\ UNCHANGED <<lastEscalationAt, disposed, wake, lastWord, now>>
      BY <1>4 DEF Chat!OnParticipantChange, Chat!IsOneOnOne
    <2>2. participantCount' \in Nat
      BY <2>1 DEF Chat!NewCount
    <2>3. CASE voiceEouTimer' # Chat!Never
      BY <2>1, <2>2, <2>3
    <2>4. CASE voiceEouTimer' = Chat!Never
      BY <2>1, <2>2, <2>4
    <2> QED
      BY <2>3, <2>4
  <1> QED
    BY <1>1, <1>2, <1>3, <1>4 DEF Chat!OnEvent

(* A wake passes the cooldown, or there is none.                           *)
LEMMA FiringCools ==
    ASSUME DetectorInv, NEW kind, Chat!TryFireOpportunity(kind)
    PROVE  /\ lastEscalationAt' \in Int /\ wake'.at = lastEscalationAt'
           /\ wake' # wake => now - wake.at >= Cooldown /\ wake'.kind = kind
  <1> USE DetectorIntervals DEF DetectorInv
  <1>1. CASE now - lastEscalationAt < Cooldown
    BY <1>1 DEF Chat!TryFireOpportunity
  <1>2. CASE ~(now - lastEscalationAt < Cooldown)
    BY <1>2 DEF Chat!TryFireOpportunity
  <1> QED
    BY <1>1, <1>2

(* What a wake has to be; a step that makes none has nothing to show.      *)
Earned ==
    wake' # wake =>
        /\ ~disposed
        /\ now - wake.at >= Cooldown
        /\ wake'.kind = "voice" => alone /\ now - lastWord >= EndOfUtterance

(* The detector's own steps wake when they may.                            *)
LEMMA DetectorActs ==
    ASSUME DetectorInv, Chat!Own, UNCHANGED now
    PROVE  DetectorInv' /\ Earned
  <1>1. CASE Chat!OnVoiceEouFire
    <2>1. /\ voiceEouTimer = now /\ voiceEouTimer' = Chat!Never
          /\ \/ UNCHANGED <<lastEscalationAt, wake>>
             \/ ~disposed /\ Chat!TryFireOpportunity("voice")
          /\ UNCHANGED <<participantCount, disposed, lastWord, alone, now>>
      BY <1>1 DEF Chat!OnVoiceEouFire
    <2>2. alone /\ now - lastWord >= EndOfUtterance
      BY <2>1, DetectorIntervals DEF DetectorInv
    <2>3. CASE UNCHANGED <<lastEscalationAt, wake>>
      BY <2>1, <2>3, DetectorIntervals DEF DetectorInv, Earned
    <2>4. CASE ~disposed /\ Chat!TryFireOpportunity("voice")
      <3>1. /\ lastEscalationAt' \in Int /\ wake'.at = lastEscalationAt'
            /\ wake' # wake => now - wake.at >= Cooldown
        BY <2>4, FiringCools
      <3> QED
        BY <2>1, <2>2, <2>4, <3>1, DetectorIntervals DEF DetectorInv, Earned
    <2> QED
      BY <2>1, <2>3, <2>4
  <1>2. CASE Chat!Tier2Fails
    BY <1>2 DEF Chat!Tier2Fails, DetectorInv, Earned
  <1>3. CASE \E yes \in BOOLEAN : Chat!Tier2Answers(yes)
    <2>1. /\ \/ UNCHANGED <<lastEscalationAt, wake>>
             \/ ~disposed /\ Chat!TryFireOpportunity("chat")
          /\ UNCHANGED <<participantCount, voiceEouTimer, disposed, lastWord, alone, now>>
      BY <1>3 DEF Chat!Tier2Answers
    <2>2. CASE UNCHANGED <<lastEscalationAt, wake>>
      BY <2>1, <2>2 DEF DetectorInv, Earned
    <2>3. CASE ~disposed /\ Chat!TryFireOpportunity("chat")
      <3>1. /\ lastEscalationAt' \in Int /\ wake'.at = lastEscalationAt'
            /\ wake' # wake => now - wake.at >= Cooldown /\ wake'.kind = "chat"
        BY <2>3, FiringCools
      <3> QED
        BY <2>1, <2>3, <3>1 DEF DetectorInv, Earned
    <2> QED
      BY <2>1, <2>2, <2>3
  <1> QED
    BY <1>1, <1>2, <1>3 DEF Chat!Own

(* No wake after dispose(), none within the cooldown of the one before,    *)
(* and none by voice but in an uninterrupted 1:1 that has fallen silent,   *)
(* for every setting of the detector.                                      *)
THEOREM WakesEarned == Spec => WakesAreEarned
  <1>1. Init => DetectorInv
    BY DetectorIntervals DEF Init, Chat!Init, Consent!Init, DetectorInv
  <1>2. DetectorInv /\ [Next]_vars => DetectorInv' /\ Earned
    <2> SUFFICES ASSUME DetectorInv, [Next]_vars PROVE DetectorInv' /\ Earned
      OBVIOUS
    <2>1. ASSUME NEW e \in Events, Dispatch(e) PROVE DetectorInv' /\ Earned
      BY <2>1, DetectorHears DEF Dispatch, Earned
    <2>2. CASE Leave
      BY <2>2, DetectorIntervals DEF Leave, Chat!Dispose, DetectorInv, Earned
    <2>3. CASE DetectorStep
      BY <2>3, DetectorActs DEF DetectorStep
    <2>4. CASE Advance
      BY <2>4 DEF Advance, Chat!Idle, Chat!detectorVars, DetectorInv, Earned
    <2>5. CASE MonitorStep \/ UNCHANGED vars
      BY <2>5 DEF MonitorStep, vars, Chat!Idle, Chat!detectorVars, DetectorInv, Earned
    <2> QED
      BY <2>1, <2>2, <2>3, <2>4, <2>5 DEF Next
  <1>3. Earned => [Earned]_<<Chat!detectorVars, now>>
    OBVIOUS
  <1> QED
    BY <1>1, <1>2, <1>3, PTL DEF Spec, WakesAreEarned, Chat!WakesAreEarned, Earned
-----------------------------------------------------------------------------
(* The way of the events: what is told, the chain of batches on their way, *)
(* and the batch the daemon walks through.                                 *)

Rosters == {w \in [joined : SUBSET People, left : SUBSET People] : w.joined \cap w.left = {}}
Told == [speaker : People] \cup Rosters \cup [chat : Chats] \cup {LeftEvent}
Event == [what : Told, at : Nat]
Shipments == [batch : Seq(Event), attempt : Nat, at : {"request", "authenticated", "ok", "refused"}]

(* The events of a sequence, and those of the batches on their way: the    *)
(* first of the chain may have been handed to the daemon, the others wait. *)
Elems(s) == {s[k] : k \in 1..Len(s)}
Shipped(i) == Elems(shipments[i].batch)
Foremost == IF shipments = <<>> THEN {} ELSE Shipped(1)
Queued == {e \in Event : \E i \in 2..Len(shipments) : e \in Shipped(i)}
Behindhand == Elems(buffer) \cup Queued
Accepted == shipments # <<>> /\ shipments[1].at = "ok"
Pending == Elems(dispatching) \cup Foremost \cup Behindhand
Unserved == Elems(dispatching) \cup (IF Accepted THEN {} ELSE Foremost) \cup Behindhand

QueuesTypeOK ==
    /\ produced \in Nat /\ reported \subseteq Nat
    /\ buffer \in Seq(Event) /\ dispatching \in Seq(Event) /\ shipments \in Seq(Shipments)
    /\ Len(buffer) < MaxBatchSize
    /\ \A i \in 1..Len(shipments) : Len(shipments[i].batch) \in 1..MaxBatchSize
    /\ \A i \in 2..Len(shipments) : shipments[i].at = "request"

(* The numbers of a batch follow one another, and batch follows batch.     *)
Run(s) == \A i, j \in 1..Len(s) : s[j].at = s[i].at + (j - i)
InOrder ==
    /\ Run(buffer) /\ Run(dispatching) /\ \A i \in 1..Len(shipments) : Run(shipments[i].batch)
    /\ buffer # <<>> => buffer[Len(buffer)].at = produced
    /\ \A e \in Pending : e.at \in 1..produced
    /\ \A i, j \in 1..Len(shipments) : i < j => \A e \in Shipped(i), f \in Shipped(j) : e.at < f.at
    /\ \A i \in 1..Len(shipments) : \A e \in Shipped(i), f \in Elems(buffer) : e.at < f.at

(* What the daemon walks through is the rest of the first batch, or of one *)
(* that the client has done with.                                          *)
Walked == Len(shipments[1].batch) - Len(dispatching)
Within ==
    /\ shipments # <<>> /\ Walked >= 0
    /\ \A k \in 1..Len(dispatching) : dispatching[k] = shipments[1].batch[Walked + k]
    /\ \A k \in 1..Walked : shipments[1].batch[k].at <= seen
Beyond == \A e \in Elems(dispatching), f \in Foremost \cup Behindhand : e.at < f.at
DispatchStands == (Within \/ Beyond) /\ (Accepted => Within)

(* An event that is neither reported nor on its way has been seen.         *)
SeenStands ==
    /\ seen \in 0..produced
    /\ \A e \in Behindhand : seen < e.at
    /\ \A e \in Pending : seen < e.at + MaxBatchSize
    /\ \A n \in 1..produced : n <= seen \/ n \in reported \/ \E e \in Pending : e.at = n

OrderInv == QueuesTypeOK /\ InOrder /\ DispatchStands /\ SeenStands
-----------------------------------------------------------------------------
(* Sequences of events.                                                    *)

LEMMA ElemsOfAppend ==
    ASSUME NEW S, NEW s \in Seq(S), NEW e \in S
    PROVE  Elems(Append(s, e)) = Elems(s) \cup {e}
<1> DEFINE t == Append(s, e)
<1>1. /\ Len(s) \in Nat /\ Len(t) = Len(s) + 1 /\ t[Len(s) + 1] = e
      /\ \A k \in 1..Len(s) : t[k] = s[k]
      /\ \A k \in 1..Len(t) : k \in 1..Len(s) \/ k = Len(s) + 1
      /\ 1..Len(s) \subseteq 1..Len(t) /\ Len(s) + 1 \in 1..Len(t)
  OBVIOUS
<1> HIDE DEF t
<1> QED BY <1>1 DEF Elems

LEMMA ElemsOfTail ==
    ASSUME NEW S, NEW s \in Seq(S), s # <<>>
    PROVE  /\ Elems(s) = {Head(s)} \cup Elems(Tail(s)) /\ Tail(s) \in Seq(S)
           /\ Len(Tail(s)) = Len(s) - 1 /\ Len(s) \in Nat \ {0} /\ Head(s) = s[1]
           /\ \A k \in 1..Len(Tail(s)) : Tail(s)[k] = s[k + 1]
<1> DEFINE t == Tail(s)
<1>1. /\ Len(s) \in Nat /\ Len(s) >= 1 /\ Len(t) = Len(s) - 1 /\ Head(s) = s[1] /\ t \in Seq(S)
      /\ \A k \in 1..Len(t) : t[k] = s[k + 1] /\ k + 1 \in 1..Len(s)
      /\ \A k \in 1..Len(s) : k = 1 \/ (k - 1 \in 1..Len(t) /\ t[k - 1] = s[k])
      /\ 1 \in 1..Len(s)
  OBVIOUS
<1> HIDE DEF t
<1>2. Elems(s) = {Head(s)} \cup Elems(t)
  BY <1>1 DEF Elems
<1> QED BY <1>1, <1>2 DEF t

LEMMA ElemsOfNone == Elems(<<>>) = {}
BY DEF Elems

(* The first of a chain is settled.                                        *)
LEMMA FirstSettled ==
    ASSUME NEW S, NEW s \in Seq(S), s # <<>>
    PROVE  LET t == SubSeq(s, 1, 1 - 1) \o SubSeq(s, 1 + 1, Len(s))
           IN  t \in Seq(S) /\ Len(t) = Len(s) - 1 /\ \A k \in 1..Len(t) : t[k] = s[k + 1]
<1> DEFINE n == Len(s)
<1> DEFINE r == SubSeq(s, 2, n)
<1>1. n \in Nat /\ n >= 1 /\ \A i \in 2..n : s[i] \in S
  OBVIOUS
<1>2. /\ r \in Seq(S) /\ Len(r) = IF 2 <= n THEN n - 2 + 1 ELSE 0
      /\ \A i \in 1..n - 2 + 1 : r[i] = s[2 + i - 1]
  <2> HIDE DEF n
  <2> QED BY <1>1, SubSeqProperties
<1>3. SubSeq(s, 1, 0) = <<>>
  BY SubSeqEmpty
<1>4. SubSeq(s, 1, 1 - 1) \o SubSeq(s, 1 + 1, Len(s)) = <<>> \o r
  BY <1>3
<1>5. <<>> \o r = r
  BY <1>2, ConcatEmptySeq
<1>6. Len(r) = n - 1 /\ \A k \in 1..Len(r) : r[k] = s[k + 1]
  <2> HIDE DEF n, r
  <2>1. Len(r) = n - 1
    BY <1>1, <1>2
  <2>2. ASSUME NEW k \in 1..Len(r) PROVE r[k] = s[k + 1]
    <3>1. k \in 1..n - 2 + 1 /\ 2 + k - 1 = k + 1
      BY <1>1, <2>1
    <3> QED BY <1>2, <3>1
  <2> QED BY <2>1, <2>2
<1>7. SubSeq(s, 1, 1 - 1) \o SubSeq(s, 1 + 1, Len(s)) = r
  BY <1>4, <1>5
<1> HIDE DEF r
<1> QED BY <1>2, <1>6, <1>7

(* The first of a chain changes.                                           *)
LEMMA FirstChanged ==
    ASSUME NEW S, NEW s \in Seq(S), s # <<>>, NEW e \in S
    PROVE  LET t == [s EXCEPT ![1] = e]
           IN  t \in Seq(S) /\ Len(t) = Len(s) /\ t[1] = e /\ \A k \in 2..Len(s) : t[k] = s[k]
<1>1. Len(s) \in Nat /\ Len(s) >= 1 /\ DOMAIN s = 1..Len(s)
  OBVIOUS
<1> QED BY <1>1

(* The numbers in a run rise, and lie close together.                      *)
LEMMA RunsRise ==
    ASSUME NEW s \in Seq(Event), Run(s)
    PROVE  /\ \A i, j \in 1..Len(s) : i < j => s[i].at < s[j].at
           /\ \A e, f \in Elems(s) : e.at - f.at < Len(s)
           /\ Elems(s) \subseteq Event
           /\ s # <<>> => Len(s) >= 1 /\ 1 \in 1..Len(s) /\ Len(s) \in 1..Len(s)
<1>1. /\ Len(s) \in Nat /\ \A i \in 1..Len(s) : s[i] \in Event /\ s[i].at \in Nat
      /\ s # <<>> => Len(s) >= 1
  <2>1. \A e \in Event : e.at \in Nat
    BY DEF Event
  <2> QED BY <2>1
<1>2. ASSUME NEW i \in 1..Len(s), NEW j \in 1..Len(s)
      PROVE  (i < j => s[i].at < s[j].at) /\ s[i].at - s[j].at < Len(s)
  <2> PICK x, y, n : x = s[i].at /\ y = s[j].at /\ n = Len(s)
    OBVIOUS
  <2>1. x \in Nat /\ n \in Nat /\ i \in 1..n /\ j \in 1..n
    BY <1>1
  <2>2. y = x + (j - i)
    BY DEF Run
  <2>3. (i < j => x < y) /\ x - y < n
    BY <2>1, <2>2
  <2> QED BY <2>3
<1>3. \A e, f \in Elems(s) : e.at - f.at < Len(s)
  BY <1>2 DEF Elems
<1>4. Elems(s) \subseteq Event
  BY <1>1 DEF Elems
<1> QED BY <1>1, <1>2, <1>3, <1>4
-----------------------------------------------------------------------------
(* The chain of batches.                                                   *)

(* What the state functions of the chain are made of.                      *)
LEMMA ChainTyped ==
    ASSUME QueuesTypeOK
    PROVE  /\ Len(shipments) \in Nat /\ (shipments # <<>> <=> Len(shipments) >= 1)
           /\ \A i \in 1..Len(shipments) :
                /\ shipments[i] \in Shipments /\ shipments[i].batch \in Seq(Event)
                /\ Len(shipments[i].batch) \in Nat /\ Len(shipments[i].batch) >= 1
                /\ Shipped(i) \subseteq Event
           /\ Elems(buffer) \subseteq Event /\ Elems(dispatching) \subseteq Event
           /\ Pending \subseteq Event
           /\ \A e \in Event : e.at \in Nat /\ e.what \in Told
<1>1. Len(shipments) \in Nat /\ (shipments # <<>> <=> Len(shipments) >= 1)
      /\ \A i \in 1..Len(shipments) : shipments[i] \in Shipments
  BY DEF QueuesTypeOK
<1>2. \A i \in 1..Len(shipments) :
          /\ shipments[i].batch \in Seq(Event) /\ Len(shipments[i].batch) \in Nat
          /\ Len(shipments[i].batch) >= 1
  BY <1>1 DEF Shipments, QueuesTypeOK
<1>3. \A i \in 1..Len(shipments) : Shipped(i) \subseteq Event
  <2> TAKE i \in 1..Len(shipments)
  <2> DEFINE b == shipments[i].batch
  <2>1. b \in Seq(Event)
    BY <1>2
  <2> HIDE DEF b
  <2>2. \A k \in 1..Len(b) : b[k] \in Event
    BY <2>1
  <2> QED BY <2>2 DEF Shipped, Elems, b
<1>4. Elems(buffer) \subseteq Event /\ Elems(dispatching) \subseteq Event
  BY DEF QueuesTypeOK, Elems
<1>5. Pending \subseteq Event
  BY <1>1, <1>3, <1>4 DEF Pending, Foremost, Behindhand, Queued
<1>6. \A e \in Event : e.at \in Nat /\ e.what \in Told
  BY DEF Event
<1> QED BY <1>1, <1>2, <1>3, <1>4, <1>5, <1>6

(* A batch joins the chain.                                                *)
LEMMA ChainGrows ==
    ASSUME QueuesTypeOK, NEW b \in Seq(Event), Len(b) \in 1..MaxBatchSize, Client!ShipBatch(b)
    PROVE  LET n == Len(shipments) IN
           /\ shipments' \in Seq(Shipments) /\ n \in Nat /\ Len(shipments') = n + 1 /\ shipments' # <<>>
           /\ \A i \in 1..n : shipments'[i] = shipments[i] /\ Shipped(i)' = Shipped(i)
           /\ shipments'[n + 1] = [batch |-> b, attempt |-> 1, at |-> "request"]
           /\ \A i : i = n + 1 => Shipped(i)' = Elems(b)
           /\ \A i \in 1..Len(shipments') : i = n + 1 \/ i \in 1..n
           /\ Foremost' = (IF shipments = <<>> THEN Elems(b) ELSE Foremost)
           /\ Accepted' <=> Accepted
           /\ Queued' = Queued \cup (IF shipments = <<>> THEN {} ELSE Elems(b))
<1> DEFINE n == Len(shipments)
           s == [batch |-> b, attempt |-> 1, at |-> "request"]
<1>1. s \in Shipments /\ shipments' = Append(shipments, s) /\ shipments \in Seq(Shipments)
  BY DEF Shipments, Client!ShipBatch, Client!Shipment, QueuesTypeOK
<1>2. s.batch = b /\ s.at = "request"
  OBVIOUS
<1> HIDE DEF s
<1>3. /\ shipments' \in Seq(Shipments) /\ n \in Nat /\ Len(shipments') = n + 1 /\ shipments' # <<>>
      /\ \A i \in 1..n : shipments'[i] = shipments[i]
      /\ shipments'[n + 1] = s /\ (shipments = <<>> <=> n = 0)
  <2>1. n \in Nat /\ (shipments = <<>> <=> n = 0)
    BY <1>1
  <2>2. /\ shipments' \in Seq(Shipments) /\ Len(shipments') = n + 1 /\ shipments'[n + 1] = s
        /\ \A i \in 1..n : shipments'[i] = shipments[i]
    BY <1>1, AppendProperties
  <2> QED BY <2>1, <2>2
<1> HIDE DEF n
<1>4. \A i \in 1..n : Shipped(i)' = Shipped(i)
  BY <1>3 DEF Shipped
<1>5. \A i : i = n + 1 => Shipped(i)' = Elems(b)
  BY <1>2, <1>3 DEF Shipped
<1>6. \A i \in 1..n + 1 : i = n + 1 \/ i \in 1..n
  BY <1>3
<1>7. Foremost' = IF shipments = <<>> THEN Elems(b) ELSE Foremost
  <2>1. CASE shipments = <<>>
    <3>1. n + 1 = 1
      BY <1>3, <2>1
    <3> QED BY <1>3, <1>5, <2>1, <3>1 DEF Foremost
  <2>2. CASE shipments # <<>>
    <3>1. 1 \in 1..n
      BY <1>3, <2>2
    <3>2. Shipped(1)' = Shipped(1)
      BY <1>4, <3>1
    <3> QED BY <1>3, <2>2, <3>2 DEF Foremost
  <2> QED BY <2>1, <2>2
<1>8. Accepted' <=> Accepted
  <2>1. CASE shipments = <<>>
    <3>1. shipments'[1] = s
      BY <1>3, <2>1
    <3> QED BY <1>2, <2>1, <3>1 DEF Accepted
  <2>2. CASE shipments # <<>>
    <3>1. 1 \in 1..n
      BY <1>3, <2>2
    <3> QED BY <1>3, <2>2, <3>1 DEF Accepted
  <2> QED BY <2>1, <2>2
<1>9. Queued' = Queued \cup (IF shipments = <<>> THEN {} ELSE Elems(b))
  <2>0. Elems(b) \subseteq Event
    BY DEF Elems
  <2>1. CASE shipments = <<>>
    <3>1. 2..n + 1 = {} /\ 2..n = {}
      BY <1>3, <2>1
    <3>2. Queued' = {} /\ Queued = {}
      BY <1>3, <3>1 DEF Queued, n
    <3> QED BY <2>1, <3>2
  <2>2. CASE shipments # <<>>
    <3>1. \A i : i \in 2..n + 1 <=> i \in 2..n \/ i = n + 1
      BY <1>3, <2>2
    <3>2. \A i \in 2..n : Shipped(i)' = Shipped(i)
      BY <1>3, <1>4
    <3>3. \A e : (\E i \in 2..n + 1 : e \in Shipped(i)') <=> (\E i \in 2..n : e \in Shipped(i)) \/ e \in Elems(b)
      BY <1>5, <3>1, <3>2
    <3>4. Queued' = {e \in Event : \E i \in 2..n + 1 : e \in Shipped(i)'}
      BY <1>3 DEF Queued
    <3>5. Queued = {e \in Event : \E i \in 2..n : e \in Shipped(i)}
      BY DEF Queued, n
    <3> QED BY <2>0, <2>2, <3>3, <3>4, <3>5
  <2> QED BY <2>1, <2>2
<1> QED BY <1>3, <1>4, <1>5, <1>6, <1>7, <1>8, <1>9 DEF n, s

LEMMA ShippedIsPending ==
    ASSUME QueuesTypeOK
    PROVE  /\ \A i \in 1..Len(shipments) : Shipped(i) \subseteq Foremost \cup Queued /\ Shipped(i) \subseteq Pending
           /\ \A i \in 2..Len(shipments) : Shipped(i) \subseteq Queued /\ i \in 1..Len(shipments)
<1>1. \A i \in 2..Len(shipments) : Shipped(i) \subseteq Queued /\ i \in 1..Len(shipments)
  BY ChainTyped DEF Queued
<1>2. shipments # <<>> => Shipped(1) = Foremost
  BY DEF Foremost
<1>3. \A i \in 1..Len(shipments) : i \in 2..Len(shipments) \/ (i = 1 /\ shipments # <<>>)
  BY ChainTyped
<1> QED BY <1>1, <1>2, <1>3 DEF Pending, Behindhand

(* A batch that is shipped is the buffer, or the buffer and a new event.   *)
LEMMA ShippingKeepsOrder ==
    ASSUME OrderInv, NEW b \in Seq(Event), Len(b) \in 1..MaxBatchSize, Run(b), Client!ShipBatch(b),
           buffer' = <<>>, UNCHANGED <<dispatching, seen, reported>>,
           NEW N \in SUBSET Event, Elems(b) = Elems(buffer) \cup N,
           \/ N = {} /\ produced' = produced
           \/ produced' = produced + 1 /\ \E e \in Event : N = {e} /\ e.at = produced + 1
    PROVE  OrderInv' /\ Pending' = Pending \cup N /\ Unserved' = Unserved \cup N
<1> USE DEF OrderInv
<1> PICK n : n = Len(shipments)
  OBVIOUS
<1>1. /\ shipments' \in Seq(Shipments) /\ n \in Nat /\ Len(shipments') = n + 1 /\ shipments' # <<>>
      /\ \A i \in 1..n : shipments'[i] = shipments[i] /\ Shipped(i)' = Shipped(i)
      /\ shipments'[n + 1] = [batch |-> b, attempt |-> 1, at |-> "request"]
      /\ \A i : i = n + 1 => Shipped(i)' = Elems(b)
      /\ \A i \in 1..n + 1 : i = n + 1 \/ i \in 1..n
      /\ Foremost' = (IF shipments = <<>> THEN Elems(b) ELSE Foremost)
      /\ Accepted' <=> Accepted
      /\ Queued' = Queued \cup (IF shipments = <<>> THEN {} ELSE Elems(b))
      /\ (shipments = <<>> <=> n = 0) /\ (shipments = <<>> => Queued = {} /\ Foremost = {} /\ ~Accepted)
  <2>1. shipments = <<>> => Queued = {} /\ Foremost = {} /\ ~Accepted
    BY DEF Queued, Foremost, Accepted
  <2>2. shipments = <<>> <=> n = 0
    BY ChainTyped
  <2> QED BY <2>1, <2>2, ChainGrows
<1>2. Elems(buffer)' = {} /\ Elems(dispatching)' = Elems(dispatching) /\ Behindhand' = Queued'
  BY ElemsOfNone DEF Behindhand
<1>3. Foremost' \cup Behindhand' = Foremost \cup Behindhand \cup N
  BY <1>1, <1>2 DEF Behindhand
<1>4. Pending' = Pending \cup N /\ Unserved' = Unserved \cup N
  <2>1. CASE shipments = <<>>
    BY <1>1, <1>2, <1>3, <2>1 DEF Pending, Unserved, Behindhand
  <2>2. CASE shipments # <<>>
    BY <1>1, <1>2, <1>3, <2>2 DEF Pending, Unserved, Behindhand
  <2> QED BY <2>1, <2>2
<1>5. /\ produced \in Nat /\ produced' \in Nat /\ produced' >= produced /\ MaxBatchSize \in Nat \ {0}
      /\ \A e \in N : e.at = produced' /\ e.at = produced + 1
      /\ \A e \in Pending : e.at \in Nat /\ e.at >= 1 /\ e.at <= produced
      /\ \A k \in 1..produced' : k \in 1..produced \/ \E e \in N : e.at = k
      /\ seen \in Nat /\ seen <= produced
  <2>1. produced \in Nat /\ MaxBatchSize \in Nat \ {0} /\ seen \in Nat /\ seen <= produced
    BY RecordConstants DEF QueuesTypeOK, SeenStands
  <2>2. \A e \in Pending : e.at \in Nat /\ e.at >= 1 /\ e.at <= produced
    BY <2>1 DEF InOrder
  <2>3. /\ produced' \in Nat /\ produced' >= produced /\ \A e \in N : e.at = produced' /\ e.at = produced + 1
    BY <2>1
  <2>4. \A k \in 1..produced' : k \in 1..produced \/ \E e \in N : e.at = k
    BY <2>1
  <2> QED BY <2>1, <2>2, <2>3, <2>4
<1>6. \A i \in 1..n : /\ shipments[i] \in Shipments /\ Len(shipments[i].batch) \in 1..MaxBatchSize
                      /\ Run(shipments[i].batch) /\ Shipped(i) \subseteq Pending
  BY ChainTyped, ShippedIsPending DEF QueuesTypeOK, InOrder
<1>7. QueuesTypeOK'
  <2>1. \A i \in 1..n + 1 : Len(shipments'[i].batch) \in 1..MaxBatchSize
    BY <1>1, <1>6
  <2>2. \A i \in 2..n + 1 : shipments'[i].at = "request"
    <3>1. \A i \in 2..n + 1 : i = n + 1 \/ i \in 2..n
      BY <1>1
    <3> QED BY <1>1, <3>1 DEF QueuesTypeOK
  <2> QED BY <1>1, <1>5, <2>1, <2>2 DEF QueuesTypeOK
<1>8. InOrder'
  <2>1. Run(buffer)' /\ Run(dispatching)' /\ \A i \in 1..n + 1 : Run(shipments'[i].batch)
    <3>1. \A i \in 1..n + 1 : Run(shipments'[i].batch)
      BY <1>1, <1>6
    <3>2. Run(dispatching)'
      BY DEF InOrder, Run
    <3>3. Run(buffer)'
      BY DEF Run
    <3> QED BY <3>1, <3>2, <3>3
  <2>2. \A e \in Pending' : e.at \in 1..produced'
    BY <1>4, <1>5
  <2>3. ASSUME NEW i \in 1..n + 1, NEW j \in 1..n + 1, i < j, NEW e \in Shipped(i)', NEW f \in Shipped(j)'
        PROVE  e.at < f.at
    <3>1. i \in 1..n /\ e \in Shipped(i)
      BY <1>1, <2>3
    <3>2. CASE j \in 1..n
      BY <1>1, <2>3, <3>1, <3>2 DEF InOrder
    <3>3. CASE j = n + 1
      <4>1. f \in Elems(buffer) \/ f \in N
        BY <1>1, <2>3, <3>3
      <4> QED BY <1>5, <1>6, <3>1, <4>1 DEF InOrder
    <3> QED BY <1>1, <3>2, <3>3
  <2> QED BY <1>1, <1>2, <2>1, <2>2, <2>3 DEF InOrder
<1>9. DispatchStands'
  <2>1. Within => Within'
    <3>1. shipments # <<>> => shipments'[1] = shipments[1]
      BY <1>1
    <3> QED BY <1>1, <3>1 DEF Within, Walked
  <2>2. Beyond => Beyond'
    <3>1. \A e \in Elems(dispatching), f \in N : e.at < f.at
      BY <1>5 DEF Pending
    <3> QED BY <1>2, <1>3, <3>1 DEF Beyond
  <2> QED BY <1>1, <2>1, <2>2 DEF DispatchStands
<1>10. SeenStands'
  <2>1. \A e \in Behindhand' : seen < e.at
    <3>1. Behindhand' \subseteq Behindhand \cup N
      BY <1>1, <1>2 DEF Behindhand
    <3> QED BY <1>5, <3>1 DEF SeenStands
  <2>2. \A e \in Pending' : seen < e.at + MaxBatchSize
    BY <1>4, <1>5 DEF SeenStands
  <2>3. \A k \in 1..produced' : k <= seen \/ k \in reported \/ \E e \in Pending' : e.at = k
    BY <1>4, <1>5 DEF SeenStands
  <2> QED BY <1>5, <2>1, <2>2, <2>3 DEF SeenStands
<1> QED BY <1>4, <1>7, <1>8, <1>9, <1>10

(* A new event continues the buffer's run.                                 *)
LEMMA RunGoesOn ==
    ASSUME OrderInv, NEW e \in Event, e.at = produced + 1
    PROVE  /\ Append(buffer, e) \in Seq(Event) /\ Len(Append(buffer, e)) = Len(buffer) + 1
           /\ Run(Append(buffer, e)) /\ Elems(Append(buffer, e)) = Elems(buffer) \cup {e}
           /\ Append(buffer, e)[Len(buffer) + 1] = e
<1> DEFINE n == Len(buffer)
           b == Append(buffer, e)
<1>1. buffer \in Seq(Event) /\ n \in Nat /\ produced \in Nat /\ (buffer = <<>> <=> n = 0)
  BY DEF OrderInv, QueuesTypeOK
<1>2. /\ b \in Seq(Event) /\ Len(b) = n + 1 /\ b[n + 1] = e
      /\ \A i \in 1..n : b[i] = buffer[i] /\ buffer[i] \in Event
  BY <1>1
<1>3. Elems(b) = Elems(buffer) \cup {e}
  BY <1>1, ElemsOfAppend
<1>4. Run(buffer) /\ (n >= 1 => buffer[n].at = produced)
  BY <1>1 DEF OrderInv, InOrder
<1>5. \A f \in Event : f.at \in Nat
  BY DEF Event
<1> HIDE DEF n, b
<1>6. Run(b)
  <2>1. ASSUME NEW i \in 1..n, NEW j \in 1..n PROVE b[j].at = b[i].at + (j - i)
    BY <1>2, <1>4 DEF Run, n
  <2>2. ASSUME NEW i \in 1..n PROVE b[n + 1].at = b[i].at + (n + 1 - i) /\ b[i].at = b[n + 1].at + (i - (n + 1))
    <3>1. n >= 1 /\ n \in 1..n
      BY <1>1
    <3>2. buffer[n].at = buffer[i].at + (n - i)
      BY <1>4, <3>1 DEF Run, n
    <3>3. buffer[n].at = produced /\ buffer[i].at \in Nat
      BY <1>2, <1>4, <1>5, <3>1
    <3>4. b[i].at = buffer[i].at /\ b[n + 1].at = produced + 1
      BY <1>2
    <3>5. PICK x, y : x = b[i].at /\ y = b[n + 1].at
      OBVIOUS
    <3>6. x \in Nat /\ i \in Nat /\ produced = x + (n - i) /\ y = produced + 1
      BY <3>2, <3>3, <3>4, <3>5
    <3> QED BY <1>1, <3>5, <3>6
  <2>3. b[n + 1].at = produced + 1
    BY <1>2
  <2>4. \A i \in 1..n + 1 : i \in 1..n \/ i = n + 1
    BY <1>1
  <2>5. ASSUME NEW i \in 1..n + 1, NEW j \in 1..n + 1 PROVE b[j].at = b[i].at + (j - i)
    <3>1. CASE i \in 1..n /\ j \in 1..n
      BY <2>1, <3>1
    <3>2. CASE i \in 1..n /\ j = n + 1
      <4>1. b[n + 1].at = b[i].at + (n + 1 - i)
        BY <2>2, <3>2
      <4>2. j - i = n + 1 - i /\ b[j] = b[n + 1]
        BY <1>1, <3>2
      <4> QED BY <4>1, <4>2
    <3>3. CASE i = n + 1 /\ j \in 1..n
      <4>1. b[j].at = b[n + 1].at + (j - (n + 1))
        BY <2>2, <3>3
      <4> QED BY <3>3, <4>1
    <3>4. CASE i = n + 1 /\ j = n + 1
      <4>1. j - i = 0 /\ b[i].at \in Nat /\ b[j].at = b[i].at
        BY <1>1, <2>3, <3>4
      <4> QED BY <4>1
    <3> QED BY <2>4, <3>1, <3>2, <3>3, <3>4
  <2> QED BY <1>2, <2>5 DEF Run
<1> QED BY <1>2, <1>3, <1>6 DEF b, n

LEMMA BufferingKeepsOrder ==
    ASSUME OrderInv, NEW e \in Event, e.at = produced + 1, Len(buffer) + 1 < MaxBatchSize,
           buffer' = Append(buffer, e), produced' = produced + 1,
           UNCHANGED <<shipments, dispatching, seen, reported>>
    PROVE  OrderInv' /\ Pending' = Pending \cup {e} /\ Unserved' = Unserved \cup {e}
<1> USE DEF OrderInv
<1>1. /\ buffer' \in Seq(Event) /\ Len(buffer') = Len(buffer) + 1 /\ Run(buffer)'
      /\ Elems(buffer)' = Elems(buffer) \cup {e} /\ buffer'[Len(buffer')] = e
  <2>1. Run(Append(buffer, e)) /\ Elems(Append(buffer, e)) = Elems(buffer) \cup {e}
    BY RunGoesOn
  <2>2. Run(buffer)' /\ Elems(buffer)' = Elems(buffer) \cup {e}
    BY <2>1 DEF Run, Elems
  <2> QED BY <2>2, RunGoesOn
<1>2. /\ Foremost' = Foremost /\ Queued' = Queued /\ Accepted' = Accepted
      /\ \A i : Shipped(i)' = Shipped(i)
      /\ Elems(dispatching)' = Elems(dispatching)
  BY DEF Foremost, Queued, Accepted, Shipped, Elems
<1>3. Behindhand' = Behindhand \cup {e} /\ Pending' = Pending \cup {e} /\ Unserved' = Unserved \cup {e}
  BY <1>1, <1>2 DEF Pending, Unserved, Behindhand
<1>4. /\ produced \in Nat /\ MaxBatchSize \in Nat \ {0} /\ seen \in Nat /\ seen <= produced
      /\ Len(buffer) \in Nat
  BY RecordConstants DEF QueuesTypeOK, SeenStands
<1>5. \A f \in Pending : f.at \in Nat /\ f.at >= 1 /\ f.at <= produced
  BY <1>4 DEF InOrder
<1>6. \A i \in 1..Len(shipments) : Shipped(i) \subseteq Pending
  BY ShippedIsPending
<1>7. QueuesTypeOK'
  BY <1>1, <1>4 DEF QueuesTypeOK
<1>8. InOrder'
  <2>1. \A f \in Pending' : f.at \in 1..produced'
    BY <1>3, <1>4, <1>5
  <2>2. \A i \in 1..Len(shipments) : \A f \in Shipped(i)', g \in Elems(buffer)' : f.at < g.at
    BY <1>1, <1>2, <1>4, <1>5, <1>6 DEF InOrder
  <2>3. Run(dispatching)' /\ \A i \in 1..Len(shipments) : Run(shipments'[i].batch)
    BY DEF InOrder, Run
  <2> QED BY <1>1, <1>2, <2>1, <2>2, <2>3 DEF InOrder
<1>9. DispatchStands'
  <2>1. Within => Within'
    BY DEF Within, Walked
  <2>2. Beyond => Beyond'
    BY <1>2, <1>3, <1>4, <1>5 DEF Beyond, Pending
  <2> QED BY <1>2, <2>1, <2>2 DEF DispatchStands
<1>10. SeenStands'
  <2>1. \A k \in 1..produced' : k \in 1..produced \/ k = e.at
    BY <1>4
  <2>2. \A k \in 1..produced' : k <= seen \/ k \in reported \/ \E f \in Pending' : f.at = k
    BY <1>3, <2>1 DEF SeenStands
  <2>3. \A f \in Behindhand' : seen < f.at
    BY <1>3, <1>4 DEF SeenStands
  <2>4. \A f \in Pending' : seen < f.at + MaxBatchSize
    BY <1>3, <1>4 DEF SeenStands
  <2> QED BY <1>4, <2>2, <2>3, <2>4 DEF SeenStands
<1> QED BY <1>3, <1>7, <1>8, <1>9, <1>10

LEMMA EnqueueKeepsOrder ==
    ASSUME OrderInv, NEW what \in Told, Client!Enqueue(what), UNCHANGED <<dispatching, seen>>
    PROVE  /\ OrderInv' /\ UNCHANGED reported
           /\ \E e \in Event : /\ e.what = what /\ e.at = produced + 1
                               /\ Pending' = Pending \cup {e} /\ Unserved' = Unserved \cup {e}
<1> DEFINE e == [what |-> what, at |-> produced + 1]
           b == Append(buffer, e)
<1>1. /\ produced \in Nat /\ Len(buffer) \in Nat /\ MaxBatchSize \in Nat \ {0} /\ Len(buffer) < MaxBatchSize
  BY RecordConstants DEF OrderInv, QueuesTypeOK
<1>2. e \in Event /\ e.what = what /\ e.at = produced + 1
  BY <1>1 DEF Event
<1>3. /\ produced' = produced + 1 /\ UNCHANGED reported
      /\ IF Len(b) >= MaxBatchSize THEN Client!ShipBatch(b) /\ buffer' = <<>>
                                   ELSE buffer' = b /\ UNCHANGED shipments
  BY DEF Client!Enqueue
<1> HIDE DEF e
<1>4. /\ b \in Seq(Event) /\ Len(b) = Len(buffer) + 1 /\ Run(b) /\ Elems(b) = Elems(buffer) \cup {e}
  BY <1>2, RunGoesOn
<1>5. CASE Len(b) >= MaxBatchSize
  <2>1. Len(b) \in 1..MaxBatchSize /\ {e} \in SUBSET Event /\ Client!ShipBatch(b) /\ buffer' = <<>>
    BY <1>1, <1>2, <1>3, <1>4, <1>5
  <2> HIDE DEF b
  <2>2. OrderInv' /\ Pending' = Pending \cup {e} /\ Unserved' = Unserved \cup {e}
    BY <1>2, <1>3, <1>4, <2>1, ShippingKeepsOrder
  <2> QED BY <1>2, <1>3, <2>2
<1>6. CASE ~(Len(b) >= MaxBatchSize)
  <2>1. Len(buffer) + 1 < MaxBatchSize
    BY <1>1, <1>4, <1>6
  <2>2. OrderInv' /\ Pending' = Pending \cup {e} /\ Unserved' = Unserved \cup {e}
    BY <1>2, <1>3, <1>6, <2>1, BufferingKeepsOrder
  <2> QED BY <1>2, <1>3, <2>2
<1> QED BY <1>5, <1>6

(* The first batch of the chain gets further, or starts again.             *)
LEMMA FirstMovesOn ==
    ASSUME OrderInv, shipments # <<>>,
           shipments' \in Seq(Shipments), Len(shipments') = Len(shipments),
           shipments'[1].batch = shipments[1].batch,
           \A i \in 2..Len(shipments) : shipments'[i] = shipments[i],
           UNCHANGED <<produced, buffer, reported, seen>>,
           \/ UNCHANGED dispatching /\ (Accepted' => Accepted)
           \/ dispatching = <<>> /\ dispatching' = shipments[1].batch /\ ~Accepted /\ Accepted'
    PROVE  OrderInv' /\ Pending' = Pending /\ Unserved \subseteq Unserved'
<1> USE DEF OrderInv
<1> PICK n : n = Len(shipments)
  OBVIOUS
<1>1. /\ n \in Nat /\ n >= 1 /\ shipments' # <<>> /\ \A i \in 1..n : i = 1 \/ i \in 2..n
      /\ \A i \in 1..n : shipments'[i].batch = shipments[i].batch /\ Shipped(i)' = Shipped(i)
  <2>1. n \in Nat /\ n >= 1 /\ shipments' # <<>>
    BY ChainTyped
  <2>2. \A i \in 1..n : i = 1 \/ i \in 2..n
    BY <2>1
  <2>3. \A i \in 1..n : shipments'[i].batch = shipments[i].batch
    BY <2>2
  <2> QED BY <2>1, <2>2, <2>3 DEF Shipped
<1>2. Foremost' = Foremost /\ Queued' = Queued /\ Behindhand' = Behindhand
  <2>1. Foremost' = Foremost /\ 1 \in 1..n
    BY <1>1 DEF Foremost
  <2>2. \A i \in 2..n : Shipped(i)' = Shipped(i)
    BY <1>1
  <2>3. Queued' = Queued
    BY <2>2 DEF Queued
  <2> QED BY <2>1, <2>3 DEF Behindhand
<1>3. Pending' = Pending /\ Unserved \subseteq Unserved'
  <2>1. CASE UNCHANGED dispatching /\ (Accepted' => Accepted)
    BY <1>2, <2>1 DEF Pending, Unserved
  <2>2. CASE dispatching = <<>> /\ dispatching' = shipments[1].batch /\ ~Accepted /\ Accepted'
    <3>1. Elems(dispatching)' = Foremost /\ Elems(dispatching) = {}
      BY <2>2, ElemsOfNone DEF Foremost, Shipped
    <3> QED BY <1>2, <2>2, <3>1 DEF Pending, Unserved
  <2> QED BY <2>1, <2>2
<1>4. /\ dispatching' \in Seq(Event) /\ Run(dispatching)'
  <2>1. shipments[1].batch \in Seq(Event) /\ Run(shipments[1].batch)
    BY <1>1, ChainTyped DEF InOrder
  <2>2. Run(dispatching)' = Run(dispatching')
    OBVIOUS
  <2> QED BY <2>1, <2>2 DEF QueuesTypeOK, InOrder, Run
<1>5. QueuesTypeOK'
  <2>1. \A i \in 1..n : Len(shipments'[i].batch) \in 1..MaxBatchSize
    BY <1>1 DEF QueuesTypeOK
  <2> QED BY <1>4, <2>1 DEF QueuesTypeOK
<1>6. InOrder'
  <2>1. Run(buffer)' /\ \A i \in 1..n : Run(shipments'[i].batch)
    BY <1>1 DEF InOrder, Run
  <2>2. \A i, j \in 1..n : i < j => \A e \in Shipped(i)', f \in Shipped(j)' : e.at < f.at
    BY <1>1 DEF InOrder
  <2>3. \A i \in 1..n : \A e \in Shipped(i)', f \in Elems(buffer)' : e.at < f.at
    BY <1>1 DEF InOrder, Elems
  <2>4. \A e \in Pending' : e.at \in 1..produced'
    BY <1>3 DEF InOrder
  <2>5. buffer' # <<>> => buffer'[Len(buffer')].at = produced'
    BY DEF InOrder
  <2> QED BY <1>4, <2>1, <2>2, <2>3, <2>4, <2>5 DEF InOrder
<1>7. DispatchStands'
  <2>1. CASE UNCHANGED dispatching /\ (Accepted' => Accepted)
    <3>1. Within => Within'
      BY <1>1, <2>1 DEF Within, Walked
    <3>2. Beyond => Beyond'
      BY <1>2, <2>1 DEF Beyond
    <3> QED BY <2>1, <3>1, <3>2 DEF DispatchStands
  <2>2. CASE dispatching = <<>> /\ dispatching' = shipments[1].batch /\ ~Accepted /\ Accepted'
    <3>1. Walked' = 0 /\ Len(dispatching') \in Nat
      BY <1>1, <2>2, ChainTyped DEF Walked
    <3>2. \A k \in 1..Len(dispatching') : dispatching'[k] = shipments'[1].batch[0 + k]
      BY <1>1, <2>2, <3>1
    <3>3. Within'
      <4>1. \A k \in 1..0 : FALSE
        OBVIOUS
      <4> QED BY <1>1, <3>1, <3>2, <4>1 DEF Within
    <3> QED BY <3>3 DEF DispatchStands
  <2> QED BY <2>1, <2>2
<1>8. SeenStands'
  BY <1>2, <1>3 DEF SeenStands
<1> QED BY <1>3, <1>5, <1>6, <1>7, <1>8

(* Where the first batch and what is being walked through stand.           *)
LEMMA WalkedThrough ==
    ASSUME OrderInv
    PROVE  /\ Elems(dispatching) \subseteq Event /\ Behindhand \subseteq Event
           /\ \A e \in Elems(dispatching), f \in Behindhand : e.at < f.at
           /\ \A e \in Foremost, f \in Behindhand : e.at < f.at
           /\ Within =>
                /\ Elems(dispatching) \subseteq Foremost
                /\ \A e \in Foremost : e \in Elems(dispatching) \/ e.at <= seen
                /\ \A e \in Foremost \ Elems(dispatching), f \in Elems(dispatching) : e.at < f.at
<1> USE DEF OrderInv
<1>1. /\ Elems(dispatching) \subseteq Event /\ Behindhand \subseteq Event
      /\ \A e \in Event : e.at \in Nat
  BY ChainTyped DEF Pending, Behindhand
<1>2. \A e \in Foremost, f \in Behindhand : e.at < f.at
  <2>1. shipments # <<>> => 1 \in 1..Len(shipments) /\ \A i \in 2..Len(shipments) : i \in 1..Len(shipments) /\ 1 < i
    BY ChainTyped
  <2>2. ASSUME NEW e \in Foremost, NEW f \in Elems(buffer) PROVE e.at < f.at
    BY <2>1 DEF InOrder, Foremost
  <2>3. ASSUME NEW e \in Foremost, NEW f \in Queued PROVE e.at < f.at
    <3>1. shipments # <<>> /\ e \in Shipped(1)
      BY DEF Foremost
    <3>2. PICK i \in 2..Len(shipments) : f \in Shipped(i)
      BY DEF Queued
    <3> QED BY <2>1, <3>1, <3>2 DEF InOrder
  <2> QED BY <2>2, <2>3 DEF Behindhand
<1>3. ASSUME Within
      PROVE  /\ Elems(dispatching) \subseteq Foremost
             /\ \A e \in Foremost : e \in Elems(dispatching) \/ e.at <= seen
             /\ \A e \in Foremost \ Elems(dispatching), f \in Elems(dispatching) : e.at < f.at
  <2> DEFINE b == shipments[1].batch
             w == Walked
  <2>1. shipments # <<>> /\ 1 \in 1..Len(shipments) /\ b \in Seq(Event) /\ Run(b) /\ Foremost = Elems(b)
    BY <1>3, ChainTyped DEF Within, InOrder, Foremost, Shipped
  <2>2. /\ Len(b) \in Nat /\ Len(dispatching) \in Nat /\ w = Len(b) - Len(dispatching) /\ w >= 0
        /\ \A k \in 1..Len(dispatching) : dispatching[k] = b[w + k]
        /\ \A k \in 1..w : b[k].at <= seen
    BY <1>3, <2>1 DEF Within, Walked, QueuesTypeOK
  <2> HIDE DEF b, w
  <2>3. \A k \in 1..Len(dispatching) : w + k \in 1..Len(b) /\ w + k > w
    BY <2>2
  <2>4. \A k \in 1..Len(b) : k \in 1..w \/ (k - w \in 1..Len(dispatching) /\ dispatching[k - w] = b[k])
    <3> TAKE k \in 1..Len(b)
    <3>1. CASE k <= w
      BY <2>2, <3>1
    <3>2. CASE k > w
      <4>1. k - w \in 1..Len(dispatching) /\ w + (k - w) = k
        BY <2>2, <3>2
      <4> QED BY <2>2, <4>1
    <3> QED BY <2>2, <3>1, <3>2
  <2>5. \A i, j \in 1..Len(b) : i < j => b[i].at < b[j].at
    BY <2>1, RunsRise
  <2>6. Elems(dispatching) \subseteq Foremost
    BY <2>1, <2>2, <2>3 DEF Elems
  <2>7. ASSUME NEW e \in Foremost, e \notin Elems(dispatching)
        PROVE  \E k \in 1..w : k \in 1..Len(b) /\ e = b[k]
    <3>1. PICK k \in 1..Len(b) : e = b[k]
      BY <2>1 DEF Elems
    <3> QED BY <2>4, <2>7, <3>1 DEF Elems
  <2>8. ASSUME NEW e \in Foremost, e \notin Elems(dispatching), NEW f \in Elems(dispatching)
        PROVE  e.at < f.at
    <3>1. PICK k \in 1..w : k \in 1..Len(b) /\ e = b[k]
      BY <2>7, <2>8
    <3>2. PICK m \in 1..Len(dispatching) : f = dispatching[m]
      BY DEF Elems
    <3>3. k < w + m
      BY <2>2
    <3> QED BY <2>2, <2>3, <2>5, <3>1, <3>2, <3>3
  <2> QED BY <2>2, <2>6, <2>7, <2>8
<1>4. \A e \in Elems(dispatching), f \in Behindhand : e.at < f.at
  BY <1>2, <1>3 DEF DispatchStands, Beyond
<1> QED BY <1>1, <1>2, <1>3, <1>4

(* The first batch is settled: it has been accepted, or it is reported.    *)
LEMMA FirstLeaves ==
    ASSUME OrderInv, shipments # <<>>, Client!Settled(1), reported' \subseteq Nat, reported \subseteq reported',
           Accepted \/ \A e \in Foremost : e.at \in reported',
           UNCHANGED <<produced, buffer, dispatching, seen>>
    PROVE  /\ OrderInv' /\ Pending' \subseteq Pending
           /\ Accepted => /\ Unserved' = Unserved
                          /\ \A e \in Pending', f \in Pending \ Pending' : f.at < e.at
<1> USE DEF OrderInv
<1> PICK n : n = Len(shipments)
  OBVIOUS
<1>1. /\ shipments' \in Seq(Shipments) /\ n \in Nat /\ n >= 1 /\ Len(shipments') = n - 1
      /\ \A i \in 1..n - 1 : shipments'[i] = shipments[i + 1] /\ Shipped(i)' = Shipped(i + 1)
      /\ \A i \in 1..n - 1 : i + 1 \in 2..n /\ i + 1 \in 1..n
  <2>1. shipments' = SubSeq(shipments, 1, 1 - 1) \o SubSeq(shipments, 1 + 1, Len(shipments))
    BY DEF Client!Settled
  <2>2. shipments' \in Seq(Shipments) /\ Len(shipments') = n - 1 /\ \A i \in 1..n - 1 : shipments'[i] = shipments[i + 1]
    BY <2>1, FirstSettled DEF QueuesTypeOK
  <2>3. n \in Nat /\ n >= 1 /\ \A i \in 1..n - 1 : i + 1 \in 2..n /\ i + 1 \in 1..n
    BY ChainTyped
  <2>4. \A i \in 1..n - 1 : Shipped(i)' = Shipped(i + 1)
    BY <2>2 DEF Shipped
  <2> QED BY <2>2, <2>3, <2>4
<1>2. Foremost' \cup Queued' = Queued /\ ~Accepted' /\ Elems(dispatching)' = Elems(dispatching)
  <2>1. \A i \in 1..n - 1 : Shipped(i)' \subseteq Queued
    BY <1>1, ShippedIsPending
  <2>2. shipments' # <<>> => 1 \in 1..n - 1
    BY <1>1
  <2>3. Foremost' \subseteq Queued
    BY <2>1, <2>2 DEF Foremost
  <2>4. Queued' \subseteq Queued
    <3>1. \A i \in 2..n - 1 : i \in 1..n - 1
      OBVIOUS
    <3> QED BY <1>1, <2>1, <3>1 DEF Queued
  <2>5. ASSUME NEW e \in Queued PROVE e \in Foremost' \cup Queued'
    <3>1. PICK i \in 2..n : e \in Shipped(i) /\ e \in Event
      BY DEF Queued
    <3>2. i - 1 \in 1..n - 1 /\ i - 1 + 1 = i /\ (i - 1 = 1 \/ i - 1 \in 2..n - 1)
      BY <1>1
    <3>3. \A k : k = i - 1 => e \in Shipped(k)'
      BY <1>1, <3>1, <3>2
    <3>4. shipments' # <<>>
      BY <1>1, <3>2
    <3>5. CASE i - 1 = 1
      BY <3>3, <3>4, <3>5 DEF Foremost
    <3>6. CASE i - 1 \in 2..n - 1
      BY <1>1, <3>1, <3>3, <3>6 DEF Queued
    <3> QED BY <3>2, <3>5, <3>6
  <2>6. ~Accepted'
    <3>1. shipments' # <<>> => shipments'[1].at = "request"
      BY <1>1, <2>2 DEF QueuesTypeOK
    <3> QED BY <3>1 DEF Accepted
  <2> QED BY <2>3, <2>4, <2>5, <2>6
<1>3. Foremost' \cup Behindhand' = Behindhand /\ Behindhand' \subseteq Behindhand
  BY <1>2 DEF Behindhand
<1>4. Pending' = Elems(dispatching) \cup Behindhand /\ Pending' \subseteq Pending /\ Unserved' = Pending'
  BY <1>2, <1>3 DEF Pending, Unserved
<1>5. QueuesTypeOK'
  <2>1. \A i \in 1..n - 1 : Len(shipments'[i].batch) \in 1..MaxBatchSize
    BY <1>1 DEF QueuesTypeOK
  <2>2. \A i \in 2..n - 1 : shipments'[i].at = "request"
    <3>1. \A i \in 2..n - 1 : i \in 1..n - 1
      OBVIOUS
    <3> QED BY <1>1, <3>1 DEF QueuesTypeOK
  <2> QED BY <1>1, <2>1, <2>2 DEF QueuesTypeOK
<1>6. InOrder'
  <2>1. Run(buffer)' /\ Run(dispatching)' /\ \A i \in 1..n - 1 : Run(shipments'[i].batch)
    <3>1. \A i \in 1..n - 1 : Run(shipments'[i].batch)
      BY <1>1 DEF InOrder
    <3>2. Run(buffer)' /\ Run(dispatching)'
      BY DEF InOrder, Run
    <3> QED BY <3>1, <3>2
  <2>2. ASSUME NEW i \in 1..n - 1, NEW j \in 1..n - 1, i < j, NEW e \in Shipped(i)', NEW f \in Shipped(j)'
        PROVE  e.at < f.at
    <3>1. i + 1 \in 1..n /\ j + 1 \in 1..n /\ i + 1 < j + 1
      BY <1>1, <2>2
    <3> QED BY <1>1, <2>2, <3>1 DEF InOrder
  <2>3. ASSUME NEW i \in 1..n - 1, NEW e \in Shipped(i)', NEW f \in Elems(buffer)' PROVE e.at < f.at
    <3>1. f \in Elems(buffer)
      BY DEF Elems
    <3> QED BY <1>1, <2>3, <3>1 DEF InOrder
  <2>4. \A e \in Pending' : e.at \in 1..produced'
    BY <1>4 DEF InOrder
  <2>5. buffer' # <<>> => buffer'[Len(buffer')].at = produced'
    BY DEF InOrder
  <2> QED BY <1>1, <2>1, <2>2, <2>3, <2>4, <2>5 DEF InOrder
<1>7. DispatchStands'
  <2>1. Beyond'
    BY <1>2, <1>3, WalkedThrough DEF Beyond
  <2> QED BY <1>2, <2>1 DEF DispatchStands
<1>8. SeenStands'
  <2>1. \A k \in 1..produced' : k <= seen \/ k \in reported' \/ \E e \in Pending' : e.at = k
    <3> TAKE k \in 1..produced'
    <3>1. CASE \E e \in Pending : e.at = k
      <4>1. PICK e \in Pending : e.at = k
        BY <3>1
      <4>2. e \in Foremost \/ e \in Pending'
        BY <1>4 DEF Pending
      <4>3. CASE e \in Foremost
        BY <1>4, <4>1, <4>3, WalkedThrough DEF DispatchStands
      <4> QED BY <4>1, <4>2, <4>3
    <3> QED BY <3>1 DEF SeenStands
  <2> QED BY <1>3, <1>4, <2>1 DEF SeenStands
<1>9. ASSUME Accepted PROVE Unserved' = Unserved /\ \A e \in Pending', f \in Pending \ Pending' : f.at < e.at
  <2>1. Unserved' = Unserved
    BY <1>4, <1>9 DEF Unserved
  <2>2. ASSUME NEW e \in Pending', NEW f \in Pending, f \notin Pending' PROVE f.at < e.at
    <3>1. f \in Foremost \ Elems(dispatching) /\ (e \in Elems(dispatching) \/ e \in Behindhand)
      BY <1>4, <2>2 DEF Pending
    <3> QED BY <1>9, <3>1, WalkedThrough DEF DispatchStands
  <2> QED BY <2>1, <2>2
<1> QED BY <1>4, <1>5, <1>6, <1>7, <1>8, <1>9

(* The buffer leaves, by the timer or with stop().                         *)
LEMMA FlushKeepsOrder ==
    ASSUME OrderInv, Client!Flush, UNCHANGED <<produced, dispatching, seen, reported>>
    PROVE  OrderInv' /\ Pending' = Pending /\ Unserved' = Unserved
<1>1. CASE buffer = <<>>
  <2>1. UNCHANGED <<shipments, buffer>>
    BY <1>1 DEF Client!Flush
  <2> QED BY <2>1 DEF OrderInv, QueuesTypeOK, InOrder, DispatchStands, SeenStands, Pending, Unserved,
                      Foremost, Behindhand, Queued, Accepted, Shipped, Elems, Run, Within, Walked, Beyond
<1>2. CASE buffer # <<>>
  <2>1. Client!ShipBatch(buffer) /\ buffer' = <<>>
    BY <1>2 DEF Client!Flush
  <2>2. buffer \in Seq(Event) /\ Len(buffer) \in 1..MaxBatchSize /\ Run(buffer)
    BY <1>2, RecordConstants DEF OrderInv, QueuesTypeOK, InOrder
  <2> PICK b : b = buffer
    OBVIOUS
  <2>3. /\ b \in Seq(Event) /\ Len(b) \in 1..MaxBatchSize /\ Run(b) /\ Client!ShipBatch(b)
        /\ Elems(b) = Elems(buffer) \cup {}
    BY <2>1, <2>2
  <2>4. /\ {} \in SUBSET Event /\ produced' = produced
        /\ UNCHANGED <<dispatching, seen, reported>>
    OBVIOUS
  <2>5. OrderInv' /\ Pending' = Pending \cup {} /\ Unserved' = Unserved \cup {}
    BY <2>1, <2>3, <2>4, ShippingKeepsOrder
  <2> QED BY <2>5
<1> QED BY <1>1, <1>2

(* An event reaches the router.                                            *)
LEMMA DispatchKeepsOrder ==
    ASSUME OrderInv, dispatching # <<>>, dispatching' = Tail(dispatching),
           seen' = (IF Head(dispatching).at > seen THEN Head(dispatching).at ELSE seen),
           UNCHANGED <<produced, buffer, shipments, reported>>
    PROVE  LET h == Head(dispatching) IN
           /\ OrderInv' /\ h \in Event /\ h \in Pending /\ h \in Unserved
           /\ Pending = Pending' \cup {h} /\ Unserved = Unserved' \cup {h}
           /\ \A e \in Pending', f \in Pending \ Pending' : f.at < e.at
           /\ \A f \in Pending \ Unserved : f.at < h.at
           /\ \A k \in seen + 1 .. h.at - 1 : k \in reported
           /\ h.at > seen - MaxBatchSize
<1> USE DEF OrderInv
<1> PICK h : h = Head(dispatching)
  OBVIOUS
<1>1. /\ dispatching \in Seq(Event) /\ dispatching' \in Seq(Event) /\ Run(dispatching)
      /\ Elems(dispatching) = {h} \cup Elems(dispatching)' /\ h \in Event /\ h \in Elems(dispatching)
      /\ \A e \in Elems(dispatching)' : h.at < e.at
      /\ Run(dispatching)'
      /\ Len(dispatching) \in Nat /\ Len(dispatching) >= 1 /\ Len(dispatching') = Len(dispatching) - 1
      /\ \A k \in 1..Len(dispatching') : dispatching'[k] = dispatching[k + 1]
      /\ h = dispatching[1]
  <2> DEFINE n == Len(dispatching)
  <2>0. dispatching \in Seq(Event)
    BY DEF QueuesTypeOK
  <2>1. /\ Run(dispatching) /\ n \in Nat /\ n >= 1
        /\ dispatching' \in Seq(Event) /\ Len(dispatching') = n - 1 /\ h = dispatching[1]
        /\ \A k \in 1..n - 1 : dispatching'[k] = dispatching[k + 1]
        /\ Elems(dispatching) = {h} \cup Elems(Tail(dispatching))
    BY <2>0, ElemsOfTail DEF InOrder
  <2>2. Elems(dispatching)' = Elems(Tail(dispatching))
    BY DEF Elems
  <2>3. \A i, j \in 1..n : i < j => dispatching[i].at < dispatching[j].at
    BY <2>0, <2>1, RunsRise
  <2>4. h \in Event /\ h \in Elems(dispatching)
    BY <2>1, ChainTyped
  <2> HIDE DEF n
  <2>5. \A k \in 1..n - 1 : k + 1 \in 1..n /\ 1 < k + 1 /\ 1 \in 1..n
    BY <2>1
  <2>6. ASSUME NEW e \in Elems(dispatching)' PROVE h.at < e.at
    <3>1. PICK k \in 1..n - 1 : e = dispatching'[k]
      BY <2>1 DEF Elems
    <3> QED BY <2>1, <2>3, <2>5, <3>1
  <2>7. Run(dispatching)'
    <3>1. ASSUME NEW i \in 1..n - 1, NEW j \in 1..n - 1 PROVE dispatching'[j].at = dispatching'[i].at + (j - i)
      <4>1. dispatching[j + 1].at = dispatching[i + 1].at + ((j + 1) - (i + 1))
        BY <2>1, <2>5 DEF Run, n
      <4>2. (j + 1) - (i + 1) = j - i
        OBVIOUS
      <4> QED BY <2>1, <4>1, <4>2
    <3> QED BY <2>1, <3>1 DEF Run
  <2> QED BY <2>0, <2>1, <2>2, <2>4, <2>6, <2>7 DEF n
<1>2. /\ Foremost' = Foremost /\ Behindhand' = Behindhand /\ Accepted' = Accepted
      /\ \A i : Shipped(i)' = Shipped(i)
  BY DEF Foremost, Behindhand, Queued, Accepted, Shipped, Elems
<1>3. Pending = Pending' \cup {h} /\ Unserved = Unserved' \cup {h}
  BY <1>1, <1>2 DEF Pending, Unserved
<1>4. /\ \A e \in Pending : e.at \in Nat /\ e.at >= 1 /\ e.at <= produced
      /\ produced \in Nat /\ seen \in Nat /\ seen <= produced /\ MaxBatchSize \in Nat \ {0}
      /\ h \in Pending /\ h.at \in Nat
  <2>1. produced \in Nat /\ seen \in Nat /\ seen <= produced /\ MaxBatchSize \in Nat \ {0}
    BY RecordConstants DEF QueuesTypeOK, SeenStands
  <2>2. \A e \in Pending : e.at \in Nat /\ e.at >= 1 /\ e.at <= produced
    BY <2>1 DEF InOrder
  <2> QED BY <1>3, <2>1, <2>2
<1>5. seen' \in Nat /\ seen' >= seen /\ seen' >= h.at /\ (seen' = seen \/ seen' = h.at) /\ seen' <= produced
  BY <1>4
<1>6. \A e \in Behindhand : h.at < e.at
  BY <1>1, WalkedThrough
<1>7. \A f \in Foremost : (Within /\ h.at - f.at < MaxBatchSize) \/ h.at < f.at
  <2>1. CASE Within
    <3>1. shipments # <<>> /\ 1 \in 1..Len(shipments)
      BY <2>1, ChainTyped DEF Within
    <3> DEFINE b == shipments[1].batch
    <3>2. b \in Seq(Event) /\ Run(b) /\ Len(b) \in 1..MaxBatchSize /\ Foremost = Elems(b) /\ h \in Elems(b)
      BY <1>1, <2>1, <3>1, ChainTyped, WalkedThrough DEF QueuesTypeOK, InOrder, Foremost, Shipped
    <3>3. \A f \in Elems(b) : h.at - f.at < Len(b)
      <4> HIDE DEF b
      <4> QED BY <3>2, RunsRise
    <3>4. \A f \in Foremost : f.at \in Nat
      BY <1>4 DEF Pending
    <3> QED BY <1>4, <2>1, <3>2, <3>3, <3>4
  <2>2. CASE Beyond
    BY <1>1, <2>2 DEF Beyond
  <2> QED BY <2>1, <2>2 DEF DispatchStands
<1>8. QueuesTypeOK'
  BY <1>1 DEF QueuesTypeOK
<1>9. InOrder'
  <2>1. Run(buffer)' /\ \A i \in 1..Len(shipments) : Run(shipments[i].batch)'
    BY DEF InOrder, Run
  <2>2. \A e \in Pending' : e.at \in 1..produced'
    BY <1>3 DEF InOrder
  <2>3. Elems(buffer)' = Elems(buffer)
    BY DEF Elems
  <2>4. \A i, j \in 1..Len(shipments) : i < j => \A e \in Shipped(i)', f \in Shipped(j)' : e.at < f.at
    BY <1>2 DEF InOrder
  <2>5. \A i \in 1..Len(shipments) : \A e \in Shipped(i)', f \in Elems(buffer)' : e.at < f.at
    BY <1>2, <2>3 DEF InOrder
  <2>6. buffer' # <<>> => buffer'[Len(buffer')].at = produced'
    BY DEF InOrder
  <2> QED BY <1>1, <2>1, <2>2, <2>4, <2>5, <2>6 DEF InOrder
<1>10. DispatchStands'
  <2>1. ASSUME Within PROVE Within'
    <3> DEFINE w == Walked
               b == shipments[1].batch
    <3>1. /\ Len(b) \in Nat /\ w = Len(b) - Len(dispatching) /\ w >= 0 /\ Walked' = Len(b) - Len(dispatching')
          /\ \A k \in 1..Len(dispatching) : dispatching[k] = b[w + k]
          /\ \A k \in 1..w : b[k].at <= seen
      <4>1. shipments # <<>> /\ 1 \in 1..Len(shipments)
        BY <2>1, ChainTyped DEF Within
      <4> QED BY <2>1, <4>1, ChainTyped DEF Within, Walked
    <3> HIDE DEF w, b
    <3>2. Walked' = w + 1 /\ w \in Nat /\ 1 \in 1..Len(dispatching)
      BY <1>1, <3>1
    <3>3. \A k \in 1..Len(dispatching') : dispatching'[k] = b[(w + 1) + k]
      <4> TAKE k \in 1..Len(dispatching')
      <4>1. k + 1 \in 1..Len(dispatching) /\ w + (k + 1) = (w + 1) + k
        BY <1>1, <3>2
      <4> QED BY <1>1, <3>1, <4>1
    <3>4. ASSUME NEW k \in 1..w + 1 PROVE b[k].at <= seen'
      <4>1. CASE k \in 1..w
        <5>1. shipments # <<>> /\ 1 \in 1..Len(shipments) /\ b \in Seq(Event)
          BY <2>1, ChainTyped DEF Within, b
        <5>2. k \in 1..Len(b)
          BY <1>1, <3>1, <3>2, <4>1
        <5>3. b[k].at \in Nat
          BY <5>1, <5>2, ChainTyped
        <5>4. b[k].at <= seen
          BY <3>1, <4>1
        <5> PICK x : x = b[k].at
          OBVIOUS
        <5>5. x \in Nat /\ x <= seen
          BY <5>3, <5>4
        <5>6. x <= seen'
          BY <1>4, <1>5, <5>5
        <5> QED BY <5>6
      <4>2. CASE k = w + 1
        BY <1>1, <1>5, <3>1, <3>2, <4>2
      <4> QED BY <3>2, <4>1, <4>2
    <3>5. shipments' # <<>> /\ b = shipments'[1].batch /\ w + 1 >= 0
      BY <2>1, <3>2 DEF Within, b
    <3> PICK u : u = Walked' /\ u = w + 1
      BY <3>2
    <3>6. /\ u >= 0 /\ \A k \in 1..Len(dispatching') : dispatching'[k] = b[u + k]
          /\ \A k \in 1..u : b[k].at <= seen'
      BY <3>3, <3>4, <3>5
    <3> QED BY <3>5, <3>6 DEF Within
  <2>2. Beyond => Beyond'
    BY <1>1, <1>2 DEF Beyond
  <2> QED BY <1>2, <2>1, <2>2 DEF DispatchStands
<1>11. SeenStands'
  <2>1. \A e \in Behindhand' : seen' < e.at
    BY <1>2, <1>5, <1>6 DEF SeenStands
  <2>2. ASSUME NEW e \in Pending' PROVE seen' < e.at + MaxBatchSize
    <3>1. e \in Pending /\ e.at \in Nat /\ seen < e.at + MaxBatchSize
      BY <1>3, <1>4 DEF SeenStands
    <3>2. h.at < e.at + MaxBatchSize
      <4>1. e \in Elems(dispatching)' \/ e \in Foremost \/ e \in Behindhand
        BY <1>2 DEF Pending
      <4> QED BY <1>1, <1>4, <1>6, <1>7, <3>1, <4>1
    <3> QED BY <1>5, <3>1, <3>2
  <2>3. \A k \in 1..produced' : k <= seen' \/ k \in reported' \/ \E e \in Pending' : e.at = k
    <3> TAKE k \in 1..produced'
    <3>1. k \in 1..produced /\ k \in Nat
      OBVIOUS
    <3>2. k <= seen \/ k \in reported \/ (\E e \in Pending' : e.at = k) \/ h.at = k
      BY <1>3, <3>1 DEF SeenStands
    <3> QED BY <1>4, <1>5, <3>1, <3>2
  <2> QED BY <1>4, <1>5, <2>1, <2>2, <2>3 DEF SeenStands
<1>12. ASSUME NEW e \in Pending', NEW f \in Pending, f \notin Pending' PROVE f.at < e.at
  <2>1. f = h /\ h \notin Foremost
    BY <1>2, <1>3, <1>12 DEF Pending
  <2>2. e \in Elems(dispatching)' \/ e \in Foremost \/ e \in Behindhand
    BY <1>2 DEF Pending
  <2>3. ~Within
    BY <1>1, <2>1, WalkedThrough
  <2> QED BY <1>1, <1>6, <1>7, <2>1, <2>2, <2>3
<1>13. ASSUME NEW f \in Pending, f \notin Unserved PROVE f.at < h.at
  <2>1. f \in Foremost \ Elems(dispatching) /\ Accepted
    BY <1>13 DEF Pending, Unserved
  <2> QED BY <1>1, <2>1, WalkedThrough DEF DispatchStands
<1>14. ASSUME NEW k \in seen + 1 .. h.at - 1 PROVE k \in reported
  <2>1. k \in 1..produced /\ ~(k <= seen) /\ k < h.at
    BY <1>4
  <2>2. ASSUME NEW e \in Pending, e.at = k PROVE FALSE
    <3>1. e \in Elems(dispatching) \/ e \in Foremost \/ e \in Behindhand
      BY DEF Pending
    <3>2. e \notin Elems(dispatching) /\ e \notin Behindhand
      BY <1>1, <1>4, <1>6, <2>1, <2>2
    <3> QED BY <1>4, <1>7, <2>1, <2>2, <3>1, <3>2, WalkedThrough
  <2> QED BY <2>1, <2>2 DEF SeenStands
<1>15. h.at > seen - MaxBatchSize
  <2>1. seen < h.at + MaxBatchSize
    BY <1>4 DEF SeenStands
  <2> QED BY <1>4, <2>1
<1>16. h \in Unserved
  BY <1>3
<1>17. OrderInv'
  BY <1>8, <1>9, <1>10, <1>11
<1> HIDE DEF OrderInv
<1> QED BY <1>1, <1>3, <1>4, <1>12, <1>13, <1>14, <1>15, <1>16, <1>17

LEMMA OrderBegins == RecordsInit => OrderInv
<1> SUFFICES ASSUME RecordsInit PROVE OrderInv
  OBVIOUS
<1>1. /\ produced = 0 /\ buffer = <<>> /\ shipments = <<>> /\ reported = {}
      /\ dispatching = <<>> /\ seen = 0 /\ MaxBatchSize \in Nat \ {0}
  BY RecordConstants DEF RecordsInit, Client!Init
<1>2. Pending = {} /\ Behindhand = {} /\ Elems(dispatching) = {} /\ ~Accepted
  BY <1>1, ElemsOfNone DEF Pending, Behindhand, Queued, Foremost, Accepted
<1>3. QueuesTypeOK
  BY <1>1 DEF QueuesTypeOK
<1>4. InOrder
  BY <1>1, <1>2 DEF InOrder, Run
<1>5. DispatchStands
  BY <1>2 DEF DispatchStands, Beyond
<1>6. SeenStands
  BY <1>1, <1>2 DEF SeenStands
<1> QED BY <1>3, <1>4, <1>5, <1>6 DEF OrderInv
-----------------------------------------------------------------------------
(* The roster.                                                             *)

(* What an event tells is one of four things.                              *)
LEMMA ToldApart ==
    ASSUME NEW w \in Told
    PROVE  \/ w = LeftEvent /\ w \notin Rosters
           \/ w # LeftEvent /\ "speaker" \in DOMAIN w /\ w.speaker \in People /\ w \notin Rosters
           \/ w # LeftEvent /\ "speaker" \notin DOMAIN w /\ "joined" \in DOMAIN w /\ w \in Rosters
           \/ /\ w # LeftEvent /\ "speaker" \notin DOMAIN w /\ "joined" \notin DOMAIN w
              /\ "chat" \in DOMAIN w /\ w \notin Rosters
<1>1. \A x \in Rosters : DOMAIN x = {"joined", "left"} /\ x # LeftEvent
  <2> TAKE x \in Rosters
  <2>1. x \in [joined : SUBSET People, left : SUBSET People] /\ DOMAIN LeftEvent = {"left"}
    BY DEF Rosters, LeftEvent
  <2>2. DOMAIN x = {"joined", "left"}
    BY <2>1
  <2>3. "joined" \notin DOMAIN LeftEvent
    BY <2>1
  <2> QED BY <2>2, <2>3
<1>2. CASE w \in [speaker : People]
  <2>1. DOMAIN w = {"speaker"} /\ w.speaker \in People
    BY <1>2
  <2>2. w # LeftEvent
    <3>1. DOMAIN LeftEvent = {"left"}
      BY DEF LeftEvent
    <3>2. "speaker" \notin DOMAIN LeftEvent
      BY <3>1
    <3> QED BY <2>1, <3>2
  <2>3. w \notin Rosters
    <3>1. \A x \in Rosters : "speaker" \notin DOMAIN x
      BY <1>1
    <3> QED BY <2>1, <3>1
  <2> QED BY <2>1, <2>2, <2>3
<1>3. CASE w \in Rosters
  BY <1>1, <1>3
<1>4. CASE w \in [chat : Chats]
  <2>1. DOMAIN w = {"chat"}
    BY <1>4
  <2>2. w # LeftEvent
    <3>1. DOMAIN LeftEvent = {"left"}
      BY DEF LeftEvent
    <3>2. "chat" \notin DOMAIN LeftEvent
      BY <3>1
    <3> QED BY <2>1, <3>2
  <2>3. w \notin Rosters
    <3>1. \A x \in Rosters : "chat" \notin DOMAIN x
      BY <1>1
    <3> QED BY <2>1, <3>1
  <2> QED BY <2>1, <2>2, <2>3
<1>5. CASE w = LeftEvent
  BY <1>1, <1>5
<1> QED BY <1>2, <1>3, <1>4, <1>5 DEF Told

(* The latest event on its way that speaks of somebody agrees with what    *)
(* the page last showed; of whom none speaks, the writer knows as much.    *)
SpeaksOf(e, p) == e.what \in Rosters /\ p \in e.what.joined \cup e.what.left
LatestTells ==
    \A p \in People, e \in Pending :
        SpeaksOf(e, p) /\ (\A f \in Pending : f.at > e.at => ~SpeaksOf(f, p)) =>
            (p \in e.what.joined <=> p \in previous)
SettledAgree ==
    \A p \in People : (\A e \in Unserved : ~SpeaksOf(e, p)) => (p \in participants <=> p \in previous)
Whole == ~missed /\ reported = {}
RosterInv == Whole => LatestTells /\ SettledAgree

LEMMA TellingKeepsRoster ==
    ASSUME OrderInv, RosterInv, previous \subseteq People, previous' \subseteq People,
           NEW what \in Told, Client!Enqueue(what),
           UNCHANGED <<dispatching, seen, missed, participants>>,
           \/ what \notin Rosters /\ previous' = previous
           \/ what = Client!RosterEvent(previous' \ previous, previous \ previous')
    PROVE  OrderInv' /\ RosterInv'
<1>1. OrderInv' /\ UNCHANGED reported
  BY EnqueueKeepsOrder
<1>2. PICK e \in Event : /\ e.what = what /\ e.at = produced + 1
                         /\ Pending' = Pending \cup {e} /\ Unserved' = Unserved \cup {e}
  BY EnqueueKeepsOrder
<1>3. \A f \in Pending : f.at \in Nat /\ f.at < e.at /\ ~(f.at > e.at)
  BY <1>2 DEF OrderInv, QueuesTypeOK, InOrder
<1>4. ~(e.at > e.at)
  BY <1>2 DEF OrderInv, QueuesTypeOK
<1>5. ASSUME NEW p \in People
      PROVE  IF SpeaksOf(e, p) THEN p \in e.what.joined <=> p \in previous'
                               ELSE p \in previous' <=> p \in previous
  <2>1. CASE what \notin Rosters /\ previous' = previous
    BY <1>2, <2>1 DEF SpeaksOf
  <2>2. CASE what = Client!RosterEvent(previous' \ previous, previous \ previous')
    <3>1. what.joined = previous' \ previous /\ what.left = previous \ previous' /\ what \in Rosters
      BY <2>2 DEF Client!RosterEvent, Rosters
    <3> QED BY <1>2, <3>1 DEF SpeaksOf
  <2> QED BY <2>1, <2>2
<1>6. ASSUME Whole, LatestTells, SettledAgree PROVE LatestTells' /\ SettledAgree'
  <2>1. ASSUME NEW p \in People, NEW f \in Pending', SpeaksOf(f, p),
               \A g \in Pending' : g.at > f.at => ~SpeaksOf(g, p)
        PROVE  p \in f.what.joined <=> p \in previous'
    <3>1. CASE f = e
      BY <1>5, <2>1, <3>1
    <3>2. CASE f # e
      <4>1. f \in Pending /\ ~SpeaksOf(e, p)
        BY <1>2, <1>3, <2>1, <3>2
      <4>2. p \in f.what.joined <=> p \in previous
        BY <1>2, <1>6, <2>1, <4>1 DEF LatestTells
      <4> QED BY <1>5, <4>1, <4>2
    <3> QED BY <3>1, <3>2
  <2>2. LatestTells'
    BY <2>1 DEF LatestTells, SpeaksOf
  <2>3. ASSUME NEW p \in People, \A f \in Unserved' : ~SpeaksOf(f, p)
        PROVE  p \in participants' <=> p \in previous'
    <3>1. ~SpeaksOf(e, p) /\ \A f \in Unserved : ~SpeaksOf(f, p)
      BY <1>2, <2>3
    <3> QED BY <1>5, <1>6, <3>1 DEF SettledAgree
  <2>4. SettledAgree'
    BY <2>3 DEF SettledAgree, SpeaksOf
  <2> QED BY <2>2, <2>4
<1> QED BY <1>1, <1>6 DEF RosterInv, Whole

(* Events leave in order, and none but what the writer has been told.      *)
LEMMA QuietKeepsRoster ==
    ASSUME RosterInv, Pending' \subseteq Pending,
           \A e \in Pending', f \in Pending \ Pending' : f.at < e.at,
           Unserved \subseteq Unserved', Pending \subseteq Event,
           Whole' => Whole, UNCHANGED <<previous, participants>>
    PROVE  RosterInv'
<1>1. ASSUME Whole, LatestTells, SettledAgree PROVE LatestTells' /\ SettledAgree'
  <2>1. ASSUME NEW p \in People, NEW e \in Pending', SpeaksOf(e, p),
               \A g \in Pending' : g.at > e.at => ~SpeaksOf(g, p)
        PROVE  p \in e.what.joined <=> p \in previous'
    <3>1. \A g \in Pending : g.at > e.at => ~SpeaksOf(g, p)
      <4> TAKE g \in Pending
      <4>1. CASE g \in Pending'
        BY <2>1, <4>1
      <4>2. CASE g \notin Pending'
        <5>1. g.at < e.at /\ g.at \in Nat /\ e.at \in Nat
          BY <4>2 DEF Event
        <5> QED BY <5>1
      <4> QED BY <4>1, <4>2
    <3> QED BY <1>1, <2>1, <3>1 DEF LatestTells
  <2>2. LatestTells'
    BY <2>1 DEF LatestTells, SpeaksOf
  <2>3. ASSUME NEW p \in People, \A f \in Unserved' : ~SpeaksOf(f, p)
        PROVE  p \in participants' <=> p \in previous'
    BY <1>1, <2>3 DEF SettledAgree
  <2>4. SettledAgree'
    BY <2>3 DEF SettledAgree, SpeaksOf
  <2> QED BY <2>2, <2>4
<1> QED BY <1>1 DEF RosterInv

(* What the router is handed is brought up to date in the writer's list.   *)
LEMMA DispatchKeepsRoster ==
    ASSUME OrderInv, RosterInv, dispatching # <<>>, dispatching' = Tail(dispatching),
           seen' = (IF Head(dispatching).at > seen THEN Head(dispatching).at ELSE seen),
           UNCHANGED <<produced, buffer, shipments, reported, previous>>,
           Whole' => /\ Whole
                     /\ IF Head(dispatching).what \in Rosters
                        THEN participants' = (participants \cup Head(dispatching).what.joined)
                                                 \ Head(dispatching).what.left
                        ELSE participants' = participants
    PROVE  OrderInv' /\ RosterInv'
<1> PICK h : h = Head(dispatching)
  OBVIOUS
<1>1. /\ OrderInv' /\ h \in Event /\ h \in Pending /\ h \in Unserved
      /\ Pending = Pending' \cup {h} /\ Unserved = Unserved' \cup {h}
      /\ \A e \in Pending', f \in Pending \ Pending' : f.at < e.at
      /\ \A f \in Pending \ Unserved : f.at < h.at
  BY DispatchKeepsOrder
<1>2. \A e \in Pending : e.at \in Nat
  BY ChainTyped DEF OrderInv
<1>3. ASSUME Whole', LatestTells, SettledAgree PROVE LatestTells' /\ SettledAgree'
  <2>1. ASSUME NEW p \in People, NEW e \in Pending', SpeaksOf(e, p),
               \A g \in Pending' : g.at > e.at => ~SpeaksOf(g, p)
        PROVE  p \in e.what.joined <=> p \in previous'
    <3>1. \A g \in Pending : g.at > e.at => ~SpeaksOf(g, p)
      <4> TAKE g \in Pending
      <4>1. CASE g \in Pending'
        BY <2>1, <4>1
      <4>2. CASE g \notin Pending'
        <5>1. g.at < e.at /\ g.at \in Nat /\ e.at \in Nat
          BY <1>1, <1>2, <4>2
        <5> QED BY <5>1
      <4> QED BY <4>1, <4>2
    <3> QED BY <1>1, <1>3, <2>1, <3>1 DEF LatestTells
  <2>2. LatestTells'
    BY <2>1 DEF LatestTells, SpeaksOf
  <2>3. ASSUME NEW p \in People, \A f \in Unserved' : ~SpeaksOf(f, p)
        PROVE  p \in participants' <=> p \in previous'
    <3>1. CASE SpeaksOf(h, p)
      <4>1. \A g \in Pending : g.at > h.at => ~SpeaksOf(g, p)
        <5> SUFFICES ASSUME NEW g \in Pending, g.at > h.at PROVE ~SpeaksOf(g, p)
          OBVIOUS
        <5>1. g \in Unserved
          <6>1. ~(g.at < h.at)
            BY <1>1, <1>2
          <6> QED BY <1>1, <6>1
        <5>2. g # h
          BY <1>1, <1>2
        <5> QED BY <1>1, <2>3, <5>1, <5>2
      <4>2. p \in h.what.joined <=> p \in previous
        BY <1>1, <1>3, <3>1, <4>1 DEF LatestTells
      <4>3. h.what \in Rosters /\ (p \in h.what.joined \/ p \in h.what.left)
            /\ ~(p \in h.what.joined /\ p \in h.what.left)
        BY <3>1 DEF SpeaksOf, Rosters
      <4>4. participants' = (participants \cup h.what.joined) \ h.what.left
        BY <1>3, <4>3
      <4> QED BY <4>2, <4>3, <4>4
    <3>2. CASE ~SpeaksOf(h, p)
      <4>1. p \in participants <=> p \in previous
        BY <1>1, <1>3, <2>3, <3>2 DEF SettledAgree
      <4>2. p \in participants' <=> p \in participants
        BY <1>3, <3>2 DEF SpeaksOf
      <4> QED BY <4>1, <4>2
    <3> QED BY <3>1, <3>2
  <2>4. SettledAgree'
    BY <2>3 DEF SettledAgree, SpeaksOf
  <2> QED BY <2>2, <2>4
<1> QED BY <1>1, <1>3 DEF RosterInv
-----------------------------------------------------------------------------
(* Every step.                                                             *)

PageStands == crowd \subseteq People /\ previous \subseteq People /\ posted \subseteq Chats
QueuesInv == PageStands /\ OrderInv /\ RosterInv

(* The daemon and its subscribers leave these alone.                       *)
LEMMA DaemonIdles ==
    ASSUME DaemonIdle
    PROVE  UNCHANGED <<session, dispatching, seen, repeats, missed, participants>>
BY DEF DaemonIdle, daemonVars, SubscribersIdle, Writer!Idle, Writer!writerVars

LEMMA NothingMoves ==
    ASSUME UNCHANGED <<produced, buffer, shipments, reported, dispatching, seen>>
    PROVE  /\ Pending' = Pending /\ Unserved' = Unserved /\ (OrderInv => OrderInv')
           /\ (UNCHANGED <<previous, participants>> /\ (Whole' => Whole) /\ RosterInv => RosterInv')
<1>1. Pending' = Pending /\ Unserved' = Unserved
  BY DEF Pending, Unserved, Foremost, Behindhand, Queued, Accepted, Shipped, Elems
<1>2. OrderInv => OrderInv'
  <2>1. QueuesTypeOK => QueuesTypeOK'
    BY DEF QueuesTypeOK
  <2>2. InOrder => InOrder'
    <3>1. Run(buffer)' = Run(buffer) /\ Run(dispatching)' = Run(dispatching)
      BY DEF Run
    <3>2. (\A i \in 1..Len(shipments) : Run(shipments[i].batch))'
           = \A i \in 1..Len(shipments) : Run(shipments[i].batch)
      BY DEF Run
    <3>3. Elems(buffer)' = Elems(buffer) /\ \A i : Shipped(i)' = Shipped(i)
      BY DEF Elems, Shipped
    <3> QED BY <1>1, <3>1, <3>2, <3>3 DEF InOrder
  <2>3. Behindhand' = Behindhand /\ Foremost' = Foremost /\ Elems(dispatching)' = Elems(dispatching)
    BY DEF Behindhand, Queued, Foremost, Shipped, Elems
  <2>4. DispatchStands => DispatchStands'
    BY <2>3 DEF DispatchStands, Within, Walked, Beyond, Accepted
  <2>5. SeenStands => SeenStands'
    BY <1>1, <2>3 DEF SeenStands
  <2> QED BY <2>1, <2>2, <2>4, <2>5 DEF OrderInv
<1>3. UNCHANGED <<previous, participants>> /\ (Whole' => Whole) /\ RosterInv => RosterInv'
  BY <1>1 DEF RosterInv, LatestTells, SettledAgree, SpeaksOf
<1> QED BY <1>1, <1>2, <1>3

(* What the scrapers tell, and what the page does under their hands.       *)
LEMMA PageKeepsQueues ==
    ASSUME QueuesInv, Page, DaemonIdle
    PROVE  QueuesInv'
<1> USE DEF QueuesInv, PageStands
<1>1. UNCHANGED <<dispatching, seen, missed, participants>>
  BY DaemonIdles
<1>2. CASE Client!Poll
  <2>1. UNCHANGED <<crowd, posted>>
    BY <1>2 DEF Client!Poll
  <2>2. PICK rows \in SUBSET crowd :
            \/ Client!Idle /\ previous' = previous
            \/ Client!Enqueue(Client!RosterEvent(rows \ previous, previous \ rows)) /\ previous' = rows
    BY <1>2 DEF Client!Poll, Client!Tells
  <2>3. CASE Client!Idle /\ previous' = previous
    <3>1. UNCHANGED <<produced, buffer, shipments, reported>>
      BY <2>3 DEF Client!Idle, Client!clientVars
    <3>2. Whole' => Whole
      BY <1>1, <3>1 DEF Whole
    <3> QED BY <1>1, <2>1, <2>3, <3>1, <3>2, NothingMoves
  <2>4. CASE Client!Enqueue(Client!RosterEvent(rows \ previous, previous \ rows)) /\ previous' = rows
    <3> PICK w : w = Client!RosterEvent(rows \ previous, previous \ rows)
      OBVIOUS
    <3>1. w \in Rosters /\ w \in Told
      BY DEF Client!RosterEvent, Rosters, Told
    <3>2. previous' \subseteq People /\ Client!Enqueue(w)
          /\ w = Client!RosterEvent(previous' \ previous, previous \ previous')
      BY <2>4
    <3> QED BY <1>1, <2>1, <3>1, <3>2, TellingKeepsRoster
  <2> QED BY <2>2, <2>3, <2>4
<1>3. CASE Client!HandleSnapshot
  <2>1. UNCHANGED <<crowd, posted, previous>>
    BY <1>3 DEF Client!HandleSnapshot, Client!pageVars
  <2>2. PICK p \in crowd : Client!Enqueue(Client!SpeakerEvent(p))
    BY <1>3 DEF Client!HandleSnapshot
  <2> PICK w : w = Client!SpeakerEvent(p)
    OBVIOUS
  <2>3. w \in [speaker : People] /\ w \in Told /\ DOMAIN w = {"speaker"}
    BY DEF Client!SpeakerEvent, Told
  <2>4. w \notin Rosters
    BY <2>3, ToldApart
  <2>5. Client!Enqueue(w) /\ previous' \subseteq People
    BY <2>1, <2>2
  <2> QED BY <1>1, <2>1, <2>3, <2>4, <2>5, TellingKeepsRoster
<1>4. CASE Client!ExtractRow
  <2>1. UNCHANGED <<crowd, posted, previous>>
    BY <1>4 DEF Client!ExtractRow
  <2>2. Client!Idle \/ \E m \in Chats : Client!Enqueue(Client!ChatEvent(m))
    BY <1>4 DEF Client!ExtractRow
  <2>3. CASE Client!Idle
    <3>1. UNCHANGED <<produced, buffer, shipments, reported>>
      BY <2>3 DEF Client!Idle, Client!clientVars
    <3>2. Whole' => Whole
      BY <1>1, <3>1 DEF Whole
    <3> QED BY <1>1, <2>1, <3>1, <3>2, NothingMoves
  <2>4. CASE \E m \in Chats : Client!Enqueue(Client!ChatEvent(m))
    <3>1. PICK m \in Chats : Client!Enqueue(Client!ChatEvent(m))
      BY <2>4
    <3> PICK w : w = Client!ChatEvent(m)
      OBVIOUS
    <3>2. w \in [chat : Chats] /\ w \in Told /\ DOMAIN w = {"chat"}
      BY DEF Client!ChatEvent, Told
    <3>3. w \notin Rosters
      BY <3>2, ToldApart
    <3>4. Client!Enqueue(w) /\ previous' \subseteq People
      BY <2>1, <3>1
    <3> QED BY <1>1, <2>1, <3>2, <3>3, <3>4, TellingKeepsRoster
  <2> QED BY <2>2, <2>3, <2>4
<1>5. CASE Client!PageGoesOn
  <2>1. /\ UNCHANGED <<produced, buffer, shipments, reported, previous>>
        /\ crowd' \subseteq People /\ posted' \subseteq Chats
    <3>1. CASE Client!SomebodyComesOrGoes
      BY <3>1 DEF Client!SomebodyComesOrGoes, Client!Changes, Client!Idle, Client!clientVars, Client!memory
    <3>2. CASE Client!PanelChanges
      BY <3>2 DEF Client!PanelChanges, Client!Changes, Client!Idle, Client!clientVars, Client!memory
    <3>3. CASE Client!SomebodyWrites
      BY <3>3 DEF Client!SomebodyWrites, Client!Idle, Client!clientVars, Client!memory
    <3> QED BY <1>5, <3>1, <3>2, <3>3 DEF Client!PageGoesOn
  <2>2. Whole' => Whole
    BY <1>1, <2>1 DEF Whole
  <2> QED BY <1>1, <2>1, <2>2, NothingMoves
<1> QED BY <1>2, <1>3, <1>4, <1>5 DEF Page, Client!Scrape

(* The client flushes, settles a batch or says that the bot leaves.        *)
LEMMA PostsKeepQueues ==
    ASSUME QueuesInv, Posts, DaemonIdle
    PROVE  QueuesInv'
<1> USE DEF QueuesInv, PageStands
<1>1. /\ UNCHANGED <<dispatching, seen, missed, participants>>
      /\ UNCHANGED <<crowd, previous, posted>>
  <2>1. UNCHANGED <<crowd, previous, posted>>
    BY DEF Posts, Client!ScrapersIdle, Client!scraperVars, Client!pageVars, Client!memory
  <2> QED BY <2>1, DaemonIdles
<1>2. Pending \subseteq Event
  BY ChainTyped DEF OrderInv
<1>3. CASE Client!Own
  <2>1. Client!Flush /\ UNCHANGED <<produced, reported>>
    BY <1>3 DEF Client!Own, Client!FlushTimerFires, Client!Stop
  <2>2. OrderInv' /\ Pending' = Pending /\ Unserved' = Unserved
    BY <1>1, <2>1, FlushKeepsOrder
  <2>3. Whole' => Whole
    BY <1>1, <2>1 DEF Whole
  <2>4. Pending' \subseteq Pending /\ Unserved \subseteq Unserved' /\ Pending \ Pending' = {}
    BY <2>2
  <2>5. RosterInv'
    BY <1>1, <1>2, <2>3, <2>4, QuietKeepsRoster
  <2> QED BY <1>1, <2>2, <2>5
<1>4. CASE Client!Enqueue(LeftEvent)
  <2>1. LeftEvent \in Told
    BY DEF Told
  <2>2. LeftEvent \notin Rosters
    BY <2>1, ToldApart
  <2> PICK w : w = LeftEvent
    OBVIOUS
  <2>3. w \in Told /\ w \notin Rosters /\ Client!Enqueue(w) /\ previous' \subseteq People
    BY <1>1, <1>4, <2>1, <2>2
  <2> QED BY <1>1, <2>3, TellingKeepsRoster
<1>5. CASE Client!Settle
  <2>1. PICK i \in DOMAIN shipments : Client!PostFails(i) \/ Client!PostSucceeds(i) \/ Client!PostIsRefused(i)
    BY <1>5 DEF Client!Settle
  <2>2. i = 1 /\ shipments # <<>> /\ UNCHANGED <<produced, buffer>> /\ 1 \in 1..Len(shipments)
    <3>1. i = 1 /\ shipments # <<>> /\ UNCHANGED <<produced, buffer>>
      BY <2>1 DEF Client!PostFails, Client!PostSucceeds, Client!PostIsRefused, Client!Turn, Client!Unbuffered
    <3> QED BY <3>1, ChainTyped DEF OrderInv
  <2>3. \/ Client!Retry(1) /\ shipments[1].attempt < Attempts
        \/ Client!GiveUp(1)
        \/ Client!Settled(1) /\ UNCHANGED reported /\ Accepted
    BY <2>1, <2>2 DEF Client!PostFails, Client!PostSucceeds, Client!PostIsRefused, Client!Retry, Accepted
  <2>4. CASE Client!Retry(1) /\ shipments[1].attempt < Attempts
    <3>1. /\ shipments' = [shipments EXCEPT ![1].at = "request", ![1].attempt = @ + 1]
          /\ UNCHANGED reported
      BY <2>4 DEF Client!Retry
    <3>2. shipments \in Seq(Shipments) /\ shipments[1] \in Shipments
      BY <2>2, ChainTyped DEF OrderInv, QueuesTypeOK
    <3>3. /\ Len(shipments') = Len(shipments) /\ shipments' \in Seq(Shipments)
          /\ \A j \in 2..Len(shipments) : shipments'[j] = shipments[j]
          /\ shipments'[1].batch = shipments[1].batch /\ shipments'[1].at = "request"
      <4> DEFINE t == [shipments[1] EXCEPT !.at = "request"]
                 u == [t EXCEPT !.attempt = @ + 1]
                 q == [shipments EXCEPT ![1] = t]
      <4>1. /\ t \in Shipments /\ t.batch = shipments[1].batch /\ t.at = "request"
            /\ u \in Shipments /\ u.batch = t.batch /\ u.at = "request"
        <5>1. t \in Shipments /\ t.batch = shipments[1].batch /\ t.at = "request"
          BY <3>2 DEF Shipments
        <5> HIDE DEF t
        <5>2. t.attempt + 1 \in Nat
          BY <5>1 DEF Shipments
        <5>3. u.batch = t.batch /\ u.at = t.at
          BY <5>1 DEF Shipments
        <5>4. u \in Shipments
          BY <5>1, <5>2 DEF Shipments
        <5> QED BY <5>1, <5>3, <5>4 DEF t
      <4>2. shipments' = [q EXCEPT ![1] = [q[1] EXCEPT !.attempt = @ + 1]]
        BY <3>1
      <4>3. /\ q \in Seq(Shipments) /\ Len(q) = Len(shipments) /\ q[1] = t
            /\ \A j \in 2..Len(shipments) : q[j] = shipments[j]
        <5> HIDE DEF t
        <5> QED BY <2>2, <3>2, <4>1, FirstChanged
      <4>4. shipments' = [q EXCEPT ![1] = u]
        BY <4>2, <4>3
      <4>5. q # <<>>
        BY <2>2, <4>3
      <4> HIDE DEF q, t, u
      <4> QED BY <2>2, <4>1, <4>3, <4>4, <4>5, FirstChanged
    <3>4. Accepted' => Accepted
      BY <3>3 DEF Accepted
    <3>5. OrderInv' /\ Pending' = Pending /\ Unserved \subseteq Unserved'
      BY <1>1, <2>2, <3>1, <3>3, <3>4, FirstMovesOn
    <3>6. Whole' => Whole
      BY <1>1, <3>1 DEF Whole
    <3>7. RosterInv'
      BY <1>1, <1>2, <3>5, <3>6, QuietKeepsRoster
    <3> QED BY <1>1, <3>5, <3>7
  <2>5. CASE Client!GiveUp(1)
    <3> DEFINE b == shipments[1].batch
    <3>1. Client!Settled(1) /\ reported' = reported \cup {b[k].at : k \in DOMAIN b}
      BY <2>5 DEF Client!GiveUp, Client!Numbers
    <3>2. b \in Seq(Event) /\ Len(b) >= 1 /\ Len(b) \in Nat /\ DOMAIN b = 1..Len(b) /\ Foremost = Elems(b)
      BY <2>2, ChainTyped DEF OrderInv, Foremost, Shipped
    <3> HIDE DEF b
    <3>3. \A k \in 1..Len(b) : b[k].at \in Nat
      <4>1. \A e \in Event : e.at \in Nat
        BY DEF Event
      <4> QED BY <3>2, <4>1
    <3>4. /\ reported' \subseteq Nat /\ reported \subseteq reported' /\ reported' # {}
          /\ \A e \in Foremost : e.at \in reported'
      <4>1. 1 \in 1..Len(b)
        BY <3>2
      <4>2. reported \subseteq Nat
        BY DEF OrderInv, QueuesTypeOK
      <4>3. \A e \in Foremost : e.at \in reported'
        BY <3>1, <3>2 DEF Elems
      <4> QED BY <3>1, <3>2, <3>3, <4>1, <4>2, <4>3
    <3>5. OrderInv'
      BY <1>1, <2>2, <3>1, <3>4, FirstLeaves
    <3> QED BY <1>1, <3>4, <3>5 DEF RosterInv, Whole
  <2>6. CASE Client!Settled(1) /\ UNCHANGED reported /\ Accepted
    <3>1. reported' \subseteq Nat /\ reported \subseteq reported'
      BY <2>6 DEF OrderInv, QueuesTypeOK
    <3>2. /\ OrderInv' /\ Pending' \subseteq Pending /\ Unserved' = Unserved
          /\ \A e \in Pending', f \in Pending \ Pending' : f.at < e.at
      BY <1>1, <2>2, <2>6, <3>1, FirstLeaves
    <3>3. Whole' => Whole
      BY <1>1, <2>6 DEF Whole
    <3>4. RosterInv'
      BY <1>1, <1>2, <3>2, <3>3, QuietKeepsRoster
    <3> QED BY <1>1, <3>2, <3>4
  <2> QED BY <2>3, <2>4, <2>5, <2>6
<1> QED BY <1>3, <1>4, <1>5 DEF Posts

(* What a handler is handed, and what it does with the list.               *)
LEMMA HandlersTold ==
    ASSUME NEW what \in Told, NEW at, Handed(what, at)
    PROVE  \/ what = LeftEvent /\ what \notin Rosters /\ Writer!OnLeft(at) /\ Resolver!Idle
           \/ /\ what.speaker \in People /\ what \notin Rosters
              /\ Writer!OnSpeakerChange(what.speaker, at) /\ Resolver!OnSpeakerChange(what.speaker)
           \/ what \in Rosters /\ Writer!OnParticipantChange(what.joined, what.left) /\ Resolver!Idle
           \/ what \notin Rosters /\ SubscribersIdle
<1>1. CASE what = LeftEvent
  <2>1. what \notin Rosters
    BY <1>1, ToldApart
  <2>2. Writer!OnLeft(at) /\ Resolver!Idle
    <3>1. DOMAIN what = {"left"}
      BY <1>1 DEF LeftEvent
    <3>2. "speaker" \notin DOMAIN what /\ "joined" \notin DOMAIN what /\ "chat" \notin DOMAIN what
      BY <3>1
    <3> QED BY <1>1, <3>2 DEF Handed
  <2> QED BY <1>1, <2>1, <2>2
<1>2. CASE what # LeftEvent /\ "speaker" \in DOMAIN what
  <2>1. what.speaker \in People /\ what \notin Rosters
    BY <1>2, ToldApart
  <2>2. Writer!OnSpeakerChange(what.speaker, at) /\ Resolver!OnSpeakerChange(what.speaker)
    <3>1. "joined" \notin DOMAIN what /\ "chat" \notin DOMAIN what
      <4>1. what \in [speaker : People]
        <5>1. \A x \in Rosters \cup [chat : Chats] : "speaker" \notin DOMAIN x
          BY DEF Rosters
        <5> QED BY <1>2, <5>1 DEF Told
      <4>2. DOMAIN what = {"speaker"}
        BY <4>1
      <4> QED BY <4>2
    <3> QED BY <1>2, <3>1 DEF Handed
  <2> QED BY <2>1, <2>2
<1>3. CASE what # LeftEvent /\ "speaker" \notin DOMAIN what /\ "joined" \in DOMAIN what
  <2>1. what \in Rosters
    BY <1>3, ToldApart
  <2>2. Writer!OnParticipantChange(what.joined, what.left) /\ Resolver!Idle
    <3>1. DOMAIN what = {"joined", "left"}
      BY <2>1 DEF Rosters
    <3>2. "chat" \notin DOMAIN what
      BY <3>1
    <3> QED BY <1>3, <3>2 DEF Handed
  <2> QED BY <2>1, <2>2
<1>4. CASE what # LeftEvent /\ "speaker" \notin DOMAIN what /\ "joined" \notin DOMAIN what
  <2>1. what \notin Rosters /\ "chat" \in DOMAIN what
    BY <1>4, ToldApart
  <2>2. SubscribersIdle
    BY <1>4, <2>1 DEF Handed
  <2> QED BY <2>1, <2>2
<1> QED BY <1>1, <1>2, <1>3, <1>4

(* A request is authenticated or refused, its batch goes to the router.    *)
LEMMA ServingKeepsQueues ==
    ASSUME QueuesInv, NEW i \in DOMAIN shipments, Authenticate(i) \/ DispatchBatch(i)
    PROVE  QueuesInv'
<1> USE DEF QueuesInv, PageStands
<1>1. PICK to \in {"refused", "authenticated", "ok"} :
          /\ \/ /\ to # "ok" /\ Client!Served(i, "request", to) /\ UNCHANGED dispatching
             \/ /\ to = "ok" /\ Client!Served(i, "authenticated", to) /\ dispatching' = shipments[i].batch
          /\ dispatching = <<>> /\ UNCHANGED <<seen, missed, participants, crowd, previous, posted>>
  <2>1. CASE Authenticate(i)
    <3> DEFINE to == IF session = "left" THEN "refused" ELSE "authenticated"
    <3>1. to \in {"refused", "authenticated", "ok"} /\ to # "ok"
      OBVIOUS
    <3>2. /\ Client!Served(i, "request", to) /\ dispatching = <<>>
          /\ UNCHANGED <<seen, missed, participants, dispatching>> /\ UNCHANGED <<crowd, previous, posted>>
      BY <2>1, DaemonIdles DEF Authenticate, Free, Client!ScrapersIdle, Client!scraperVars, Client!pageVars,
                               Client!memory
    <3> HIDE DEF to
    <3> QED BY <3>1, <3>2
  <2>2. CASE DispatchBatch(i)
    <3>1. /\ Client!Served(i, "authenticated", "ok") /\ dispatching = <<>> /\ dispatching' = shipments[i].batch
          /\ UNCHANGED <<seen, missed, participants>> /\ UNCHANGED <<crowd, previous, posted>>
      BY <2>2 DEF DispatchBatch, Free, SubscribersIdle, Writer!Idle, Writer!writerVars,
                  Client!ScrapersIdle, Client!scraperVars, Client!pageVars, Client!memory
    <3> QED BY <3>1
  <2> QED BY <2>1, <2>2
<1>2. /\ i = 1 /\ shipments # <<>> /\ 1 \in 1..Len(shipments) /\ shipments[1] \in Shipments
      /\ shipments' = [shipments EXCEPT ![1].at = to] /\ UNCHANGED <<produced, buffer, reported>>
      /\ ~Accepted
  <2>1. /\ i = 1 /\ shipments # <<>> /\ shipments' = [shipments EXCEPT ![i].at = to]
        /\ UNCHANGED <<produced, buffer, reported>>
        /\ (shipments[1].at = "request" \/ shipments[1].at = "authenticated")
    BY <1>1 DEF Client!Served, Client!Turn
  <2>2. 1 \in 1..Len(shipments) /\ shipments[1] \in Shipments
    BY <2>1, ChainTyped DEF OrderInv
  <2> QED BY <2>1, <2>2 DEF Accepted
<1>3. /\ shipments' \in Seq(Shipments) /\ Len(shipments') = Len(shipments)
      /\ shipments'[1].batch = shipments[1].batch /\ shipments'[1].at = to
      /\ \A k \in 2..Len(shipments) : shipments'[k] = shipments[k]
  <2> DEFINE t == [shipments[1] EXCEPT !.at = to]
  <2>1. t \in Shipments /\ t.batch = shipments[1].batch /\ t.at = to
    BY <1>2 DEF Shipments
  <2>2. shipments' = [shipments EXCEPT ![1] = t] /\ shipments \in Seq(Shipments)
    BY <1>2 DEF OrderInv, QueuesTypeOK
  <2> HIDE DEF t
  <2> QED BY <1>2, <2>1, <2>2, FirstChanged
<1>4. Accepted' <=> to = "ok"
  <2>1. shipments' # <<>>
    BY <1>2, <1>3
  <2> QED BY <1>3, <2>1 DEF Accepted
<1>5. OrderInv' /\ Pending' = Pending /\ Unserved \subseteq Unserved'
  <2>1. \/ UNCHANGED dispatching /\ (Accepted' => Accepted)
        \/ dispatching = <<>> /\ dispatching' = shipments[1].batch /\ ~Accepted /\ Accepted'
    BY <1>1, <1>2, <1>4
  <2> QED BY <1>1, <1>2, <1>3, <2>1, FirstMovesOn
<1>6. RosterInv'
  <2>1. Whole' => Whole
    BY <1>1, <1>2 DEF Whole
  <2>2. Pending \subseteq Event
    BY ChainTyped DEF OrderInv
  <2> QED BY <1>1, <1>5, <2>1, <2>2, QuietKeepsRoster
<1> QED BY <1>1, <1>5, <1>6

(* An event is handled, a line is said, the meeting begins or ends.        *)
LEMMA DaemonKeepsQueues ==
    ASSUME QueuesInv, DispatchEvent \/ TranscriptLine \/ JoinCompletes \/ LeaveMeeting
    PROVE  QueuesInv'
<1> USE DEF QueuesInv, PageStands
<1>1. UNCHANGED <<produced, buffer, shipments, reported>> /\ UNCHANGED <<crowd, previous, posted>>
  BY DEF DispatchEvent, TranscriptLine, JoinCompletes, LeaveMeeting, BotIdle, Client!Idle, Client!clientVars,
         Client!ScrapersIdle, Client!scraperVars, Client!pageVars, Client!memory
<1>2. CASE DispatchEvent
  <2> PICK h : h = Head(dispatching)
    OBVIOUS
  <2>1. /\ dispatching # <<>> /\ dispatching' = Tail(dispatching)
        /\ seen' = (IF Head(dispatching).at > seen THEN Head(dispatching).at ELSE seen)
    BY <1>2 DEF DispatchEvent, Free
  <2>2. h.what \in Told
    <3>1. h \in Event
      BY <2>1, ElemsOfTail, ChainTyped DEF OrderInv, QueuesTypeOK
    <3> QED BY <3>1 DEF Event
  <2>3. Whole' => /\ Whole
                  /\ IF h.what \in Rosters
                     THEN participants' = (participants \cup h.what.joined) \ h.what.left
                     ELSE participants' = participants
    <3> SUFFICES ASSUME Whole'
                 PROVE  /\ Whole
                        /\ IF h.what \in Rosters
                           THEN participants' = (participants \cup h.what.joined) \ h.what.left
                           ELSE participants' = participants
      OBVIOUS
    <3>1. session = "active" /\ Handed(h.what, h.at) /\ UNCHANGED missed
      BY <1>2 DEF DispatchEvent, Whole
    <3>2. \/ h.what \notin Rosters /\ Writer!OnLeft(h.at)
          \/ h.what \notin Rosters /\ Writer!OnSpeakerChange(h.what.speaker, h.at)
          \/ h.what \in Rosters /\ Writer!OnParticipantChange(h.what.joined, h.what.left)
          \/ h.what \notin Rosters /\ SubscribersIdle
      BY <2>2, <3>1, HandlersTold
    <3>3. IF h.what \in Rosters THEN participants' = (participants \cup h.what.joined) \ h.what.left
                                ELSE participants' = participants
      BY <3>2 DEF Writer!OnLeft, Writer!OnSpeakerChange, Writer!OnParticipantChange, Writer!Updated,
                  Writer!roster, SubscribersIdle, Writer!Idle, Writer!writerVars
    <3> QED BY <1>1, <3>1, <3>3 DEF Whole
  <2>4. OrderInv' /\ RosterInv'
    BY <1>1, <2>1, <2>3, DispatchKeepsRoster
  <2> QED BY <1>1, <2>4
<1>3. CASE TranscriptLine \/ JoinCompletes \/ LeaveMeeting
  <2>1. UNCHANGED <<dispatching, seen, missed, participants>>
    <3>1. CASE TranscriptLine
      BY <3>1 DEF TranscriptLine, daemonVars, Writer!OnTranscriptChunk, Writer!roster
    <3>2. CASE JoinCompletes
      BY <3>2 DEF JoinCompletes, Writer!Start, Writer!roster
    <3>3. CASE LeaveMeeting
      BY <3>3 DEF LeaveMeeting, Writer!LeaveAndStop, Writer!roster
    <3> QED BY <1>3, <3>1, <3>2, <3>3
  <2>2. Whole' => Whole
    BY <1>1, <2>1 DEF Whole
  <2> QED BY <1>1, <2>1, <2>2, NothingMoves
<1> QED BY <1>2, <1>3

LEMMA QueuesStart == RecordsInit => QueuesInv
<1> SUFFICES ASSUME RecordsInit PROVE QueuesInv
  OBVIOUS
<1>1. /\ crowd \subseteq People /\ posted = {} /\ previous = {} /\ participants = {}
      /\ shipments = <<>> /\ buffer = <<>> /\ dispatching = <<>>
  BY DEF RecordsInit, Client!ScrapersInit, Client!Init, Writer!Init
<1>2. Pending = {}
  BY <1>1, ElemsOfNone DEF Pending, Foremost, Behindhand, Queued
<1>3. RosterInv
  BY <1>1, <1>2 DEF RosterInv, LatestTells, SettledAgree
<1> QED BY <1>1, <1>3, OrderBegins DEF QueuesInv, PageStands

LEMMA QueuesStay == QueuesInv /\ [RecordsNext]_recordsVars => QueuesInv'
<1> SUFFICES ASSUME QueuesInv, [RecordsNext]_recordsVars PROVE QueuesInv'
  OBVIOUS
<1>1. CASE Bot
  BY <1>1, PageKeepsQueues, PostsKeepQueues DEF Bot
<1>2. CASE \E i \in DOMAIN shipments : Authenticate(i) \/ DispatchBatch(i)
  BY <1>2, ServingKeepsQueues
<1>3. CASE DispatchEvent \/ TranscriptLine \/ JoinCompletes \/ LeaveMeeting
  BY <1>3, DaemonKeepsQueues
<1>4. CASE UNCHANGED recordsVars
  <2>1. /\ UNCHANGED <<produced, buffer, shipments, reported, dispatching, seen>>
        /\ UNCHANGED <<crowd, previous, posted, participants, missed>>
    BY <1>4 DEF recordsVars, daemonVars, Client!clientVars, Client!scraperVars, Client!pageVars, Client!memory,
                Writer!writerVars
  <2>2. Whole' => Whole
    BY <2>1 DEF Whole
  <2> QED BY <2>1, <2>2, NothingMoves DEF QueuesInv, PageStands
<1> QED BY <1>1, <1>2, <1>3, <1>4 DEF RecordsNext

LEMMA QueuesHold == RecordsSpec => []QueuesInv
<1> QED BY QueuesStart, QueuesStay, PTL DEF RecordsSpec

(* SeenInOrder: an event reaches the router after all those before it but  *)
(* the ones that were reported, or in a repetition of the batch before.    *)
THEOREM EventsAreSeenInOrder == RecordsSpec => SeenInOrder
<1>1. QueuesInv /\ [RecordsNext]_recordsVars
      => [DispatchEvent =>
            LET at == Head(dispatching).at
            IN  /\ \A k \in seen + 1 .. at - 1 : k \in reported
                /\ at > seen - MaxBatchSize]_recordsVars
  <2> SUFFICES ASSUME QueuesInv, DispatchEvent
               PROVE  LET at == Head(dispatching).at
                      IN  /\ \A k \in seen + 1 .. at - 1 : k \in reported
                          /\ at > seen - MaxBatchSize
    OBVIOUS
  <2>1. /\ dispatching # <<>> /\ dispatching' = Tail(dispatching)
        /\ seen' = (IF Head(dispatching).at > seen THEN Head(dispatching).at ELSE seen)
        /\ UNCHANGED <<produced, buffer, shipments, reported>>
    BY DEF DispatchEvent, Free, BotIdle, Client!Idle, Client!clientVars
  <2> QED BY <2>1, DispatchKeepsOrder DEF QueuesInv
<1> QED BY <1>1, QueuesHold, PTL DEF RecordsSpec, SeenInOrder
-----------------------------------------------------------------------------
(* The records.                                                            *)

Segment == [start : Nat, end : Nat, speaker : People]
OpenSegment == [start : Nat, speaker : People]

Ordered(s) ==
    /\ \A i \in 1..Len(s) : s[i].start <= s[i].end
    /\ \A i \in 2..Len(s) : s[i - 1].end <= s[i].start
Before(s, t) == \A i \in 1..Len(s) : s[i].end <= t

RecordsTypeOK ==
    /\ openSegment \in OpenSegment \cup {Writer!NoSegment} /\ segments \in Seq(Segment)
    /\ {turns, faults} \subseteq Nat /\ repeats \in BOOLEAN /\ participants \subseteq People

(* The spans follow one another, up to the last event the router has seen. *)
Spans ==
    /\ Len(segments) + (IF openSegment = Writer!NoSegment THEN 0 ELSE 1) = turns
    /\ Ordered(segments) /\ (session # "left" => Before(segments, seen))
    /\ openSegment # Writer!NoSegment =>
          openSegment.start <= seen /\ Before(segments, openSegment.start)
WriterInv ==
    /\ RecordsTypeOK
    /\ faults = 0 /\ ~repeats => Spans
    /\ faults = 0 /\ session = "left" => openSegment = Writer!NoSegment /\ metaJson = transcriptLines
    /\ faults = 0 => participantsJson = participants

LEMMA SpanAdded ==
    ASSUME NEW s \in Seq(Segment), Ordered(s), NEW x \in Segment, x.start <= x.end, Before(s, x.start)
    PROVE  LET t == Append(s, x)
           IN  t \in Seq(Segment) /\ Len(t) = Len(s) + 1 /\ Ordered(t) /\ Before(t, x.end)
<1> DEFINE t == Append(s, x)
           n == Len(s)
<1>1. /\ t \in Seq(Segment) /\ n \in Nat /\ Len(t) = n + 1 /\ t[n + 1] = x
      /\ \A i \in 1..n : t[i] = s[i] /\ s[i] \in Segment
  OBVIOUS
<1>2. \A y \in Segment : y.start \in Nat /\ y.end \in Nat
  BY DEF Segment
<1> HIDE DEF t
<1>3. \A i \in 1..n + 1 : i \in 1..n \/ i = n + 1
  BY <1>1
<1>4. ASSUME NEW i \in 1..n + 1 PROVE t[i].start <= t[i].end /\ t[i].end <= x.end
  <2>1. CASE i \in 1..n
    <3>1. s[i].start <= s[i].end /\ s[i].end <= x.start
      BY <2>1 DEF Ordered, Before
    <3> QED BY <1>1, <1>2, <2>1, <3>1
  <2>2. CASE i = n + 1
    BY <1>1, <1>2, <2>2
  <2> QED BY <1>3, <2>1, <2>2
<1>5. ASSUME NEW i \in 2..n + 1 PROVE t[i - 1].end <= t[i].start
  <2>1. i - 1 \in 1..n
    BY <1>1
  <2>2. CASE i \in 2..n
    <3>1. i \in 1..n
      BY <2>2
    <3> QED BY <1>1, <2>1, <2>2, <3>1 DEF Ordered
  <2>3. CASE i = n + 1
    <3>1. t[i] = x /\ t[i - 1] = s[i - 1]
      BY <1>1, <2>1, <2>3
    <3>2. s[i - 1].end <= x.start
      BY <2>1 DEF Before
    <3> QED BY <3>1, <3>2
  <2>4. i \in 2..n \/ i = n + 1
    BY <1>1
  <2> QED BY <2>2, <2>3, <2>4
<1>6. Ordered(t) /\ Before(t, x.end)
  <2> HIDE DEF n
  <2> QED BY <1>1, <1>4, <1>5 DEF Ordered, Before
<1> QED BY <1>1, <1>6 DEF t

LEMMA OpenIsOpen ==
    ASSUME NEW x \in OpenSegment
    PROVE  x # Writer!NoSegment /\ x.start \in Nat /\ x.speaker \in People
<1>1. x.start \in Nat /\ x.speaker \in People
  BY DEF OpenSegment
<1>2. Writer!NoSegment.start = -1
  BY DEF Writer!NoSegment
<1> QED BY <1>1, <1>2

(* The open span ends with the event at hand.                              *)
LEMMA ClosingKeepsSpans ==
    ASSUME RecordsTypeOK, NEW stamp \in Nat, Writer!CloseOpenSegmentAt(stamp)
    PROVE  /\ segments' \in Seq(Segment)
           /\ session # "left" /\ Spans /\ seen \in Nat /\ seen <= stamp =>
                 Len(segments') = turns /\ Ordered(segments') /\ Before(segments', stamp)
<1>1. segments \in Seq(Segment) /\ turns \in Nat /\ Len(segments) \in Nat
  BY DEF RecordsTypeOK
<1>2. \A i \in 1..Len(segments) : segments[i].end \in Nat
  <2>1. \A y \in Segment : y.end \in Nat
    BY DEF Segment
  <2> QED BY <1>1, <2>1
<1>3. CASE openSegment = Writer!NoSegment
  <2>1. segments' = segments
    BY <1>3 DEF Writer!CloseOpenSegmentAt
  <2>2. Before(segments, seen) /\ seen \in Nat /\ seen <= stamp => Before(segments, stamp)
    <3> SUFFICES ASSUME Before(segments, seen), seen \in Nat, seen <= stamp, NEW i \in 1..Len(segments)
                 PROVE  segments[i].end <= stamp
      BY DEF Before
    <3>1. segments[i].end <= seen /\ segments[i].end \in Nat
      BY <1>2 DEF Before
    <3> QED BY <3>1
  <2>3. Spans => Len(segments) = turns /\ Ordered(segments) /\ (session # "left" => Before(segments, seen))
    <3>1. Spans => Len(segments) + 0 = turns
      BY <1>3 DEF Spans
    <3> QED BY <1>1, <3>1 DEF Spans
  <2> QED BY <1>1, <2>1, <2>2, <2>3
<1>4. CASE openSegment # Writer!NoSegment
  <2> DEFINE x == [start |-> openSegment.start, end |-> stamp, speaker |-> openSegment.speaker]
  <2>1. openSegment \in OpenSegment
    BY <1>4 DEF RecordsTypeOK
  <2>2. x \in Segment /\ x.start = openSegment.start /\ x.end = stamp /\ segments' = Append(segments, x)
    BY <1>4, <2>1, OpenIsOpen DEF Segment, Writer!CloseOpenSegmentAt
  <2> HIDE DEF x
  <2>3. segments' \in Seq(Segment)
    BY <1>1, <2>2
  <2>4. ASSUME Spans, seen \in Nat, seen <= stamp
        PROVE  Len(segments') = turns /\ Ordered(segments') /\ Before(segments', stamp)
    <3>1. Ordered(segments) /\ Before(segments, x.start) /\ Len(segments) + 1 = turns
      BY <1>4, <2>2, <2>4 DEF Spans
    <3>2. x.start <= x.end
      <4>1. openSegment.start <= seen /\ openSegment.start \in Nat
        BY <1>4, <2>1, <2>4, OpenIsOpen DEF Spans
      <4> QED BY <2>2, <2>4, <4>1
    <3> QED BY <1>1, <2>2, <3>1, <3>2, SpanAdded
  <2> QED BY <2>3, <2>4
<1> QED BY <1>3, <1>4

LEMMA WriterIdles ==
    ASSUME WriterInv, UNCHANGED Writer!writerVars, UNCHANGED session,
           repeats' \in BOOLEAN, repeats => repeats', seen \in Nat, seen' \in Nat, seen <= seen'
    PROVE  WriterInv'
<1>1. UNCHANGED <<openSegment, segments, transcriptLines, metaJson, participants, participantsJson, turns, faults>>
  BY DEF Writer!writerVars
<1>2. RecordsTypeOK'
  BY <1>1 DEF WriterInv, RecordsTypeOK
<1>3. Spans => Spans'
  <2>1. Before(segments, seen) => Before(segments, seen')
    <3> SUFFICES ASSUME Before(segments, seen), NEW i \in 1..Len(segments) PROVE segments[i].end <= seen'
      BY DEF Before
    <3>1. segments[i].end \in Nat
      <4>1. segments[i] \in Segment
        BY DEF WriterInv, RecordsTypeOK
      <4> QED BY <4>1 DEF Segment
    <3>2. segments[i].end <= seen
      BY DEF Before
    <3> QED BY <3>1, <3>2
  <2>2. openSegment # Writer!NoSegment /\ openSegment.start <= seen => openSegment.start <= seen'
    <3>1. openSegment # Writer!NoSegment => openSegment.start \in Nat
      BY OpenIsOpen DEF WriterInv, RecordsTypeOK
    <3> QED BY <3>1
  <2>3. Before(segments', seen') = Before(segments, seen')
    BY <1>1
  <2> QED BY <1>1, <2>1, <2>2 DEF Spans, Before, Ordered
<1> QED BY <1>1, <1>2, <1>3 DEF WriterInv

(* What the writer does with a turn, a change of the list or a farewell.   *)
LEMMA HandlingKeepsRecords ==
    ASSUME WriterInv, session = "active", UNCHANGED session, NEW stamp \in Nat, seen \in Nat,
           seen' = (IF stamp > seen THEN stamp ELSE seen), repeats' = (repeats \/ stamp <= seen),
           \/ Writer!OnLeft(stamp)
           \/ \E p \in People : Writer!OnSpeakerChange(p, stamp)
           \/ \E joined, left \in SUBSET People : Writer!OnParticipantChange(joined, left)
    PROVE  WriterInv'
<1> USE DEF WriterInv
<1>1. /\ repeats' \in BOOLEAN /\ turns \in Nat /\ faults \in Nat /\ seen' \in Nat /\ seen <= seen'
      /\ ~repeats' => ~repeats /\ seen' = stamp /\ seen <= stamp
  <2>1. turns \in Nat /\ faults \in Nat /\ repeats \in BOOLEAN
    BY DEF RecordsTypeOK
  <2>2. repeats' \in BOOLEAN /\ (~repeats' => ~repeats /\ ~(stamp <= seen))
    BY <2>1
  <2>3. seen' \in Nat /\ seen <= seen' /\ (~(stamp <= seen) => seen' = stamp /\ seen <= stamp)
    OBVIOUS
  <2> QED BY <2>1, <2>2, <2>3
<1>2. CASE Writer!OnLeft(stamp)
  <2>1. CASE Writer!CloseOpenSegmentAt(stamp) /\ openSegment' = Writer!NoSegment /\ faults' \in {faults, faults + 1}
    <3>0. UNCHANGED <<turns, participants, participantsJson>>
      BY <1>2 DEF Writer!OnLeft, Writer!roster
    <3>1. RecordsTypeOK'
      BY <1>1, <2>1, <3>0, ClosingKeepsSpans DEF RecordsTypeOK
    <3>2. ASSUME faults' = 0, ~repeats' PROVE Spans'
      <4>1. Spans /\ faults = 0
        BY <1>1, <2>1, <3>2
      <4>2. Len(segments') = turns /\ Ordered(segments') /\ Before(segments', seen')
        BY <1>1, <2>1, <3>2, <4>1, ClosingKeepsSpans
      <4>3. Len(segments') \in Nat
        BY <3>1 DEF RecordsTypeOK
      <4> QED BY <2>1, <3>0, <4>2, <4>3 DEF Spans, Ordered, Before
    <3>3. faults' = 0 => participantsJson' = participants'
      BY <1>1, <2>1, <3>0
    <3> QED BY <3>1, <3>2, <3>3
  <2>2. CASE Writer!AppendFails
    <3>0. UNCHANGED <<turns, participants, participantsJson, segments, openSegment>> /\ faults' = faults + 1
      BY <1>2, <2>2 DEF Writer!OnLeft, Writer!roster, Writer!AppendFails
    <3> QED BY <1>1, <3>0 DEF RecordsTypeOK
  <2> QED BY <1>2, <2>1, <2>2 DEF Writer!OnLeft
<1>3. CASE \E p \in People : Writer!OnSpeakerChange(p, stamp)
  <2> PICK p \in People : Writer!OnSpeakerChange(p, stamp)
    BY <1>3
  <2>0. UNCHANGED <<participants, participantsJson>> /\ turns' = turns + 1
    BY DEF Writer!OnSpeakerChange, Writer!roster
  <2>1. CASE Writer!CloseOpenSegmentAt(stamp) /\ openSegment' = [start |-> stamp, speaker |-> p] /\ UNCHANGED faults
    <3>1. openSegment' \in OpenSegment /\ openSegment'.start = stamp /\ openSegment' # Writer!NoSegment
      <4>1. openSegment' \in OpenSegment /\ openSegment'.start = stamp
        BY <2>1 DEF OpenSegment
      <4> QED BY <4>1, OpenIsOpen
    <3>2. RecordsTypeOK'
      BY <1>1, <2>0, <2>1, <3>1, ClosingKeepsSpans DEF RecordsTypeOK
    <3>3. ASSUME faults' = 0, ~repeats' PROVE Spans'
      <4>1. Len(segments') = turns /\ Ordered(segments') /\ Before(segments', stamp)
        BY <1>1, <2>1, <3>3, ClosingKeepsSpans
      <4>2. Ordered(segments)' /\ Before(segments, seen)' /\ Before(segments', openSegment'.start)
        BY <1>1, <3>1, <3>3, <4>1 DEF Ordered, Before
      <4>3. Len(segments') + 1 = turns'
        BY <2>0, <4>1
      <4>4. openSegment'.start <= seen'
        BY <1>1, <3>1, <3>3
      <4>5. Before(segments, openSegment.start)'
        BY <4>2 DEF Before
      <4> QED BY <3>1, <4>2, <4>3, <4>4, <4>5 DEF Spans
    <3>4. faults' = 0 => participantsJson' = participants'
      BY <2>0, <2>1
    <3> QED BY <3>2, <3>3, <3>4
  <2>2. CASE Writer!AppendFails
    <3>0. UNCHANGED <<segments, openSegment>> /\ faults' = faults + 1
      BY <2>2 DEF Writer!AppendFails
    <3> QED BY <1>1, <2>0, <3>0 DEF RecordsTypeOK
  <2> QED BY <2>1, <2>2 DEF Writer!OnSpeakerChange
<1>4. CASE \E joined, left \in SUBSET People : Writer!OnParticipantChange(joined, left)
  <2> PICK joined \in SUBSET People, left \in SUBSET People : Writer!OnParticipantChange(joined, left)
    BY <1>4
  <2>1. /\ UNCHANGED <<openSegment, segments, transcriptLines, metaJson, turns>>
        /\ participants' = (participants \cup joined) \ left
        /\ (participantsJson' = participants' /\ faults' = faults) \/ faults' = faults + 1
    BY DEF Writer!OnParticipantChange, Writer!Updated
  <2>2. RecordsTypeOK'
    BY <1>1, <2>1 DEF RecordsTypeOK
  <2>3. ASSUME faults' = 0, ~repeats' PROVE Spans'
    <3>1. Spans /\ faults = 0
      BY <1>1, <2>1, <2>3
    <3>2. Len(segments) = Len(segments') /\ Ordered(segments)'
      BY <2>1, <3>1 DEF Spans, Ordered
    <3>3. Before(segments, seen)'
      <4> SUFFICES ASSUME NEW i \in 1..Len(segments) PROVE segments[i].end <= seen'
        BY <2>1 DEF Before
      <4>1. segments[i] \in Segment /\ segments[i].end <= seen
        BY <3>1 DEF Spans, Before, RecordsTypeOK
      <4>2. segments[i].end \in Nat
        BY <4>1 DEF Segment
      <4> QED BY <1>1, <4>1, <4>2
    <3>4. openSegment # Writer!NoSegment => openSegment.start <= seen' /\ Before(segments, openSegment.start)'
      <4> SUFFICES ASSUME openSegment # Writer!NoSegment
                   PROVE  openSegment.start <= seen' /\ Before(segments, openSegment.start)'
        OBVIOUS
      <4>1. openSegment.start \in Nat
        BY OpenIsOpen DEF RecordsTypeOK
      <4>2. openSegment.start <= seen /\ Before(segments, openSegment.start)
        BY <3>1 DEF Spans
      <4> QED BY <1>1, <2>1, <4>1, <4>2 DEF Before
    <3> QED BY <2>1, <3>1, <3>2, <3>3, <3>4 DEF Spans
  <2> QED BY <1>1, <2>1, <2>2, <2>3
<1> QED BY <1>2, <1>3, <1>4

LEMMA WriterStarts == RecordsInit => WriterInv
<1> SUFFICES ASSUME RecordsInit PROVE WriterInv
  OBVIOUS
<1>1. /\ openSegment = Writer!NoSegment /\ segments = <<>> /\ turns = 0 /\ faults = 0 /\ repeats = FALSE
      /\ participants = {} /\ participantsJson = {} /\ session = "joining"
  BY DEF RecordsInit, Writer!Init
<1>2. RecordsTypeOK
  <2>1. <<>> \in Seq(Segment) /\ 0 \in Nat /\ FALSE \in BOOLEAN
    OBVIOUS
  <2>2. segments \in Seq(Segment) /\ turns \in Nat /\ faults \in Nat /\ repeats \in BOOLEAN
    BY <1>1, <2>1
  <2> QED BY <1>1, <2>2 DEF RecordsTypeOK
<1>3. Spans
  <2>1. Len(segments) = 0 /\ Len(segments) + 0 = turns
    BY <1>1
  <2> QED BY <1>1, <2>1 DEF Spans, Ordered, Before
<1> QED BY <1>1, <1>2, <1>3 DEF WriterInv

LEMMA WriterStays == QueuesInv /\ WriterInv /\ [RecordsNext]_recordsVars => WriterInv'
<1> SUFFICES ASSUME QueuesInv, WriterInv, [RecordsNext]_recordsVars PROVE WriterInv'
  OBVIOUS
<1>1. seen \in Nat /\ produced \in Nat /\ seen <= produced /\ repeats \in BOOLEAN
  BY DEF QueuesInv, OrderInv, SeenStands, QueuesTypeOK, WriterInv, RecordsTypeOK
<1>2. ASSUME UNCHANGED Writer!writerVars, UNCHANGED <<session, seen, repeats>> PROVE WriterInv'
  BY <1>1, <1>2, WriterIdles
<1>3. CASE Bot \/ (\E i \in DOMAIN shipments : Authenticate(i) \/ DispatchBatch(i)) \/ UNCHANGED recordsVars
  <2>1. UNCHANGED Writer!writerVars /\ UNCHANGED <<session, seen, repeats>>
    BY <1>3 DEF Bot, Authenticate, DispatchBatch, DaemonIdle, SubscribersIdle, Writer!Idle, daemonVars, recordsVars
  <2> QED BY <1>2, <2>1
<1>4. CASE DispatchEvent
  <2> PICK h : h = Head(dispatching)
    OBVIOUS
  <2>1. h \in Event /\ h.at \in Nat /\ h.what \in Told
    <3>1. h \in Event
      BY <1>4, ElemsOfTail, ChainTyped DEF DispatchEvent, Free, QueuesInv, OrderInv, QueuesTypeOK
    <3> QED BY <3>1 DEF Event
  <2>2. seen' = (IF h.at > seen THEN h.at ELSE seen) /\ UNCHANGED session
    BY <1>4 DEF DispatchEvent
  <2>3. seen' \in Nat /\ seen <= seen'
    BY <1>1, <2>1, <2>2
  <2>4. CASE session = "active"
    <3>1. Handed(h.what, h.at) /\ repeats' = (repeats \/ h.at <= seen)
      BY <1>4, <2>4 DEF DispatchEvent
    <3>2. \/ Writer!OnLeft(h.at)
          \/ \E p \in People : Writer!OnSpeakerChange(p, h.at)
          \/ \E joined, left \in SUBSET People : Writer!OnParticipantChange(joined, left)
          \/ SubscribersIdle
      <4>1. h.what \in Rosters => h.what.joined \in SUBSET People /\ h.what.left \in SUBSET People
        BY DEF Rosters
      <4> QED BY <2>1, <3>1, <4>1, HandlersTold
    <3>3. CASE SubscribersIdle
      <4>1. UNCHANGED Writer!writerVars /\ repeats' \in BOOLEAN /\ (repeats => repeats')
        BY <1>1, <3>1, <3>3 DEF SubscribersIdle, Writer!Idle
      <4> QED BY <1>1, <2>2, <2>3, <4>1, WriterIdles
    <3> QED BY <1>1, <2>1, <2>2, <2>4, <3>1, <3>2, <3>3, HandlingKeepsRecords
  <2>5. CASE session # "active"
    <3>1. UNCHANGED Writer!writerVars /\ UNCHANGED repeats
      BY <1>4, <2>5 DEF DispatchEvent, SubscribersIdle, Writer!Idle
    <3> QED BY <1>1, <2>2, <2>3, <3>1, WriterIdles
  <2> QED BY <2>4, <2>5
<1>5. CASE TranscriptLine
  <2>1. /\ UNCHANGED <<session, seen, repeats>> /\ session = "active"
        /\ UNCHANGED <<openSegment, segments, turns, participants, participantsJson>>
        /\ faults' \in {faults, faults + 1}
    BY <1>5 DEF TranscriptLine, daemonVars, Writer!OnTranscriptChunk, Writer!AppendFails, Writer!roster
  <2>2. faults' \in Nat /\ (faults' = 0 => faults = 0)
    BY <2>1 DEF WriterInv, RecordsTypeOK
  <2> QED BY <2>1, <2>2 DEF WriterInv, RecordsTypeOK, Spans, Ordered, Before
<1>6. CASE JoinCompletes
  <2>1. /\ UNCHANGED <<seen, repeats>> /\ session = "joining" /\ session' = "active"
        /\ UNCHANGED <<openSegment, segments, turns, participants, participantsJson, faults>>
    BY <1>6 DEF JoinCompletes, Writer!Start, Writer!roster
  <2> QED BY <2>1 DEF WriterInv, RecordsTypeOK, Spans, Ordered, Before
<1>7. CASE LeaveMeeting
  <2>0. /\ UNCHANGED <<seen, repeats, turns, participants, participantsJson, transcriptLines>>
        /\ session = "active" /\ session' = "left" /\ Writer!LeaveAndStop(produced) /\ faults \in Nat
    BY <1>7 DEF LeaveMeeting, Writer!LeaveAndStop, Writer!roster, WriterInv, RecordsTypeOK
  <2>1. CASE /\ Writer!CloseOpenSegmentAt(produced) /\ openSegment' = Writer!NoSegment
             /\ \/ UNCHANGED faults /\ metaJson' = transcriptLines
                \/ faults' = faults + 1
    <3>1. RecordsTypeOK'
      BY <1>1, <2>0, <2>1, ClosingKeepsSpans DEF WriterInv, RecordsTypeOK
    <3>2. ASSUME faults' = 0, ~repeats' PROVE Spans'
      <4>1. Spans /\ RecordsTypeOK
        BY <2>0, <2>1, <3>2 DEF WriterInv
      <4>2. Len(segments') = turns /\ Ordered(segments')
        BY <1>1, <2>0, <2>1, <4>1, ClosingKeepsSpans
      <4>3. Len(segments') \in Nat
        BY <3>1 DEF RecordsTypeOK
      <4> QED BY <2>0, <2>1, <4>2, <4>3 DEF Spans, Ordered
    <3>3. faults' = 0 => faults = 0 /\ metaJson' = transcriptLines'
      BY <2>0, <2>1
    <3> QED BY <2>0, <2>1, <3>1, <3>2, <3>3 DEF WriterInv
  <2>2. CASE UNCHANGED <<segments, openSegment>> /\ faults' = faults + 2
    BY <2>0, <2>2 DEF WriterInv, RecordsTypeOK
  <2> QED BY <2>0, <2>1, <2>2 DEF Writer!LeaveAndStop
<1> QED BY <1>3, <1>4, <1>5, <1>6, <1>7 DEF RecordsNext

LEMMA RecordsHold == RecordsSpec => [](QueuesInv /\ WriterInv)
<1>1. RecordsInit => QueuesInv /\ WriterInv
  BY QueuesStart, WriterStarts
<1>2. (QueuesInv /\ WriterInv) /\ [RecordsNext]_recordsVars => (QueuesInv /\ WriterInv)'
  BY QueuesStay, WriterStays
<1> QED BY <1>1, <1>2, PTL DEF RecordsSpec

(* RecordsTellTheMeeting: one span per turn, in order; none open and every *)
(* line counted after leave(); the list is the page's when all is settled. *)
THEOREM RecordsKeepTelling == RecordsSpec => []RecordsTellTheMeeting
<1>1. QueuesInv /\ WriterInv => RecordsTellTheMeeting
  <2> SUFFICES ASSUME QueuesInv, WriterInv PROVE RecordsTellTheMeeting
    OBVIOUS
  <2>1. segments \in Seq(Segment) /\ DOMAIN segments = 1..Len(segments)
    BY DEF WriterInv, RecordsTypeOK
  <2>2. ASSUME ~missed, reported = {}, NothingUnderway PROVE participants = previous
    <3>1. Unserved = {}
      <4>1. buffer = <<>> /\ shipments = <<>> /\ dispatching = <<>>
        BY <2>2 DEF NothingUnderway, Free
      <4>2. Queued = {}
        BY <4>1 DEF Queued
      <4> QED BY <4>1, <4>2, ElemsOfNone DEF Unserved, Foremost, Behindhand
    <3>2. \A p \in People : p \in participants <=> p \in previous
      BY <2>2, <3>1 DEF QueuesInv, RosterInv, Whole, SettledAgree
    <3>3. participants \subseteq People /\ previous \subseteq People
      BY DEF QueuesInv, PageStands, WriterInv, RecordsTypeOK
    <3> QED BY <3>2, <3>3
  <2> QED BY <2>1, <2>2 DEF RecordsTellTheMeeting, WriterInv, Spans, Ordered
<1> QED BY <1>1, RecordsHold, PTL
-----------------------------------------------------------------------------
(* Who said it.                                                            *)

Speaker == People \cup {Resolver!Unknown}
Mapping == [who : Speaker, disagreements : Nat, challenger : {s.id : s \in Speaker} \cup {"nobody"}]

ResolverTypeOK ==
    /\ activeSpeaker \in Speaker /\ labelMappings \in [Labels -> Mapping]
    /\ correlated \in [Labels -> Seq(Speaker)]

(* The last n speakers heard have this id, and none is this one.           *)
LastAre(s, n, id, x) ==
    n <= Len(s) /\ \A k \in (Len(s) - n) + 1 .. Len(s) : s[k].id = id /\ s[k] # x

(* A label's disagreements are what has been heard last for it.            *)
HeardStands(m, c) ==
    /\ Len(c) <= MappingReplaceThreshold /\ m.disagreements < MappingReplaceThreshold
    /\ LastAre(c, m.disagreements, m.challenger, m.who)
ResolverInv == ResolverTypeOK /\ \A l \in Labels : HeardStands(labelMappings[l], correlated[l])

LEMMA HeardTyped ==
    ASSUME NEW c \in Seq(Speaker), Len(c) <= MappingReplaceThreshold, NEW who \in Speaker
    PROVE  LET longer == Append(c, who)
               heard == IF Len(longer) > MappingReplaceThreshold THEN Tail(longer) ELSE longer
           IN  /\ heard \in Seq(Speaker) /\ Len(heard) <= MappingReplaceThreshold
               /\ \A id, x : LastAre(heard, 0, id, x)
<1> DEFINE a == Append(c, who)
<1>1. a \in Seq(Speaker) /\ Len(a) = Len(c) + 1 /\ Len(c) \in Nat /\ MappingReplaceThreshold \in Nat
  BY RecordConstants
<1>2. \A t \in Seq(Speaker) : \A id, x : LastAre(t, 0, id, x)
  <2> TAKE t \in Seq(Speaker)
  <2>1. Len(t) \in Nat
    OBVIOUS
  <2>2. 0 <= Len(t) /\ (Len(t) - 0) + 1 .. Len(t) = {}
    BY <2>1
  <2> QED BY <2>2 DEF LastAre
<1> HIDE DEF a
<1>3. CASE ~(Len(a) > MappingReplaceThreshold)
  <2>1. Len(a) <= MappingReplaceThreshold
    BY <1>1, <1>3
  <2> QED BY <1>1, <1>2, <1>3, <2>1 DEF a
<1>4. CASE Len(a) > MappingReplaceThreshold
  <2>1. a # <<>> /\ Len(a) - 1 <= MappingReplaceThreshold
    BY <1>1
  <2>2. Tail(a) \in Seq(Speaker) /\ Len(Tail(a)) = Len(a) - 1
    BY <1>1, <2>1, ElemsOfTail
  <2> QED BY <1>2, <1>4, <2>1, <2>2 DEF a
<1> QED BY <1>3, <1>4

LEMMA OneMoreHeard ==
    ASSUME NEW c \in Seq(Speaker), Len(c) <= MappingReplaceThreshold, NEW who \in Speaker, NEW x, who # x,
           NEW n \in Nat, n < MappingReplaceThreshold, LastAre(c, n, who.id, x)
    PROVE  LET longer == Append(c, who)
               heard == IF Len(longer) > MappingReplaceThreshold THEN Tail(longer) ELSE longer
           IN  LastAre(heard, n + 1, who.id, x)
<1> DEFINE a == Append(c, who)
           len == Len(c)
           T == MappingReplaceThreshold
<1>1. T \in Nat /\ T >= 1 /\ len \in Nat
  BY RecordConstants
<1>2. a \in Seq(Speaker) /\ Len(a) = len + 1 /\ a[len + 1] = who /\ \A k \in 1..len : a[k] = c[k]
  OBVIOUS
<1>3. n <= len /\ len <= T /\ n < T /\ \A k \in (len - n) + 1 .. len : c[k].id = who.id /\ c[k] # x
  BY DEF LastAre
<1> HIDE DEF a, len, T
<1>4. ASSUME NEW k \in (len + 1 - (n + 1)) + 1 .. len + 1 PROVE a[k].id = who.id /\ a[k] # x
  <2>1. CASE k = len + 1
    BY <1>2, <2>1
  <2>2. CASE k # len + 1
    <3>1. k \in (len - n) + 1 .. len /\ k \in 1..len
      BY <1>1, <1>3, <2>2
    <3> QED BY <1>2, <1>3, <3>1
  <2> QED BY <2>1, <2>2
<1>5. CASE ~(Len(a) > T)
  <2>1. n + 1 <= Len(a)
    BY <1>1, <1>2, <1>3
  <2>2. \A k \in (Len(a) - (n + 1)) + 1 .. Len(a) : a[k].id = who.id /\ a[k] # x
    <3>1. (Len(a) - (n + 1)) + 1 .. Len(a) = (len + 1 - (n + 1)) + 1 .. len + 1
      <4>1. Len(a) = len + 1 /\ len \in Nat
        BY <1>1, <1>2
      <4> QED BY <4>1
    <3> TAKE k \in (Len(a) - (n + 1)) + 1 .. Len(a)
    <3>2. k \in (len + 1 - (n + 1)) + 1 .. len + 1
      BY <3>1
    <3> QED BY <1>4, <3>2
  <2>3. LastAre(a, n + 1, who.id, x)
    BY <2>1, <2>2 DEF LastAre
  <2> QED BY <1>5, <2>3 DEF a, T
<1>6. CASE Len(a) > T
  <2> DEFINE t == Tail(a)
  <2>1. t \in Seq(Speaker) /\ Len(t) = len /\ \A k \in 1..len : t[k] = a[k + 1]
    <3>1. a # <<>>
      BY <1>1, <1>2
    <3>2. Len(a) - 1 = len
      BY <1>1, <1>2
    <3> QED BY <1>2, <3>1, <3>2, ElemsOfTail
  <2> HIDE DEF t
  <2>2. len = T /\ n + 1 <= len
    BY <1>1, <1>2, <1>3, <1>6
  <2>3. ASSUME NEW k \in (len - (n + 1)) + 1 .. len PROVE t[k].id = who.id /\ t[k] # x
    <3>1. k \in 1..len /\ k + 1 \in (len + 1 - (n + 1)) + 1 .. len + 1
      BY <1>1, <2>2
    <3> QED BY <1>4, <2>1, <3>1
  <2>4. LastAre(t, n + 1, who.id, x)
    BY <2>1, <2>2, <2>3 DEF LastAre
  <2> QED BY <1>6, <2>4 DEF t, a, T
<1> QED BY <1>5, <1>6

(* One correlated line for a label.                                        *)
LEMMA LineTeaches ==
    ASSUME ResolverInv, NEW label \in Labels, Resolver!ResolveWithLabelAndDom(label), UNCHANGED activeSpeaker
    PROVE  /\ ResolverInv'
           /\ \A l \in Labels :
                 labelMappings[l] # Resolver!NoMapping /\ labelMappings'[l].who # labelMappings[l].who =>
                    /\ Len(correlated'[l]) = MappingReplaceThreshold
                    /\ \A k \in DOMAIN correlated'[l] :
                          correlated'[l][k].id = labelMappings'[l].who.id
                          /\ correlated'[l][k] # labelMappings[l].who
<1> DEFINE T == MappingReplaceThreshold
           who == activeSpeaker
           m == labelMappings[label]
           c == correlated[label]
           longer == Append(c, who)
           heard == IF Len(longer) > T THEN Tail(longer) ELSE longer
           streak == IF m.challenger = who.id THEN m.disagreements + 1 ELSE 1
           new == IF m = Resolver!NoMapping THEN Resolver!Bind(who)
                  ELSE IF Resolver!SameAsMapped(m, who) THEN Resolver!Agreed(m)
                  ELSE Resolver!Challenged(m, who)
<1>1. /\ who \in Speaker /\ m \in Mapping /\ c \in Seq(Speaker) /\ HeardStands(m, c)
      /\ T \in Nat /\ T >= 1 /\ Len(c) \in Nat
  BY RecordConstants DEF ResolverInv, ResolverTypeOK
<1>2. /\ labelMappings' = [labelMappings EXCEPT ![label] = new]
      /\ correlated' = [correlated EXCEPT ![label] = heard]
  BY DEF Resolver!ResolveWithLabelAndDom
<1>3. ASSUME NEW s \in Speaker
      PROVE  /\ Resolver!Bind(s) \in Mapping /\ Resolver!Bind(s).who = s
             /\ Resolver!Bind(s).disagreements = 0
  <2>1. Resolver!Bind(s) = [who |-> s, disagreements |-> 0, challenger |-> "nobody"]
    BY DEF Resolver!Bind, Resolver!NoMapping
  <2> QED BY <2>1 DEF Mapping
<1>4. m.who \in Speaker /\ m.disagreements \in Nat /\ m.disagreements < T
      /\ LastAre(c, m.disagreements, m.challenger, m.who) /\ Len(c) <= T
  BY <1>1 DEF Mapping, HeardStands
<1>5. heard \in Seq(Speaker) /\ Len(heard) <= T /\ \A id, x : LastAre(heard, 0, id, x)
  BY <1>1, <1>4, HeardTyped
<1>6. ASSUME NEW s \in Speaker PROVE Resolver!Bind(s) \in Mapping /\ HeardStands(Resolver!Bind(s), heard)
  <2> HIDE DEF heard
  <2> QED BY <1>1, <1>3, <1>5 DEF HeardStands
<1>7. /\ new \in Mapping /\ HeardStands(new, heard)
      /\ m # Resolver!NoMapping /\ new.who # m.who =>
            Len(heard) = T /\ \A k \in 1..T : heard[k].id = new.who.id /\ heard[k] # m.who
  <2>1. CASE m = Resolver!NoMapping
    <3>1. new = Resolver!Bind(who)
      BY <2>1
    <3> HIDE DEF new, heard, m
    <3> QED BY <1>1, <1>6, <2>1, <3>1
  <2>2. CASE m # Resolver!NoMapping /\ m.who = who
    <3>1. new = Resolver!Bind(m.who)
      BY <2>2 DEF Resolver!SameAsMapped, Resolver!Agreed
    <3> HIDE DEF new, heard, m
    <3> QED BY <1>3, <1>4, <1>6, <3>1
  <2>3. CASE m # Resolver!NoMapping /\ m.who # who
    <3>1. new = IF streak >= T THEN Resolver!Bind(who)
                ELSE [m EXCEPT !.disagreements = streak, !.challenger = who.id]
      BY <2>3 DEF Resolver!SameAsMapped, Resolver!Challenged
    <3>2. PICK n \in Nat : n < T /\ LastAre(c, n, who.id, m.who) /\ streak = n + 1
      <4>1. CASE m.challenger = who.id
        BY <1>4, <4>1
      <4>2. CASE m.challenger # who.id
        <5>1. LastAre(c, 0, who.id, m.who)
          <6>1. 0 <= Len(c) /\ (Len(c) - 0) + 1 .. Len(c) = {}
            BY <1>1
          <6> QED BY <6>1 DEF LastAre
        <5> QED BY <1>1, <4>2, <5>1
      <4> QED BY <4>1, <4>2
    <3>3. LastAre(heard, n + 1, who.id, m.who)
      <4>1. who # m.who
        BY <2>3
      <4> HIDE DEF m, c, who
      <4>2. LET l == Append(c, who)
                h == IF Len(l) > MappingReplaceThreshold THEN Tail(l) ELSE l
            IN  LastAre(h, n + 1, who.id, m.who)
        BY <1>1, <1>4, <3>2, <4>1, OneMoreHeard
      <4> QED BY <4>2
    <3> HIDE DEF new, heard, longer, streak
    <3>4. CASE streak >= T
      <4>1. n + 1 = T /\ new = Resolver!Bind(who)
        BY <1>1, <3>1, <3>2, <3>4
      <4>2. T <= Len(heard) /\ \A k \in (Len(heard) - T) + 1 .. Len(heard) : heard[k].id = who.id /\ heard[k] # m.who
        BY <3>3, <4>1 DEF LastAre
      <4>3. Len(heard) = T /\ Len(heard) \in Nat
        BY <1>1, <1>5, <4>2
      <4>4. (Len(heard) - T) + 1 .. Len(heard) = 1..T
        BY <1>1, <4>3
      <4> QED BY <1>1, <1>3, <1>6, <4>1, <4>2, <4>3, <4>4
    <3>5. CASE ~(streak >= T)
      <4>1. new = [m EXCEPT !.disagreements = streak, !.challenger = who.id] /\ streak < T /\ streak \in Nat
        BY <1>1, <3>1, <3>2, <3>5
      <4>2. who.id \in {s.id : s \in Speaker} \cup {"nobody"}
        BY <1>1
      <4>3. /\ new \in Mapping /\ new.who = m.who /\ new.disagreements = streak /\ new.challenger = who.id
        <5> HIDE DEF m, who
        <5> QED BY <1>1, <4>1, <4>2 DEF Mapping
      <4>4. HeardStands(new, heard)
        BY <1>5, <3>2, <3>3, <4>1, <4>3 DEF HeardStands
      <4> QED BY <4>3, <4>4
    <3> QED BY <3>4, <3>5
  <2> QED BY <2>1, <2>2, <2>3
<1> HIDE DEF new, heard, streak, longer
<1>8. /\ labelMappings'[label] = new /\ correlated'[label] = heard
      /\ \A l \in Labels : l # label => labelMappings'[l] = labelMappings[l] /\ correlated'[l] = correlated[l]
      /\ labelMappings' \in [Labels -> Mapping] /\ correlated' \in [Labels -> Seq(Speaker)]
  BY <1>2, <1>5, <1>7 DEF ResolverInv, ResolverTypeOK
<1>9. ResolverInv'
  <2>1. \A l \in Labels : HeardStands(labelMappings'[l], correlated'[l])
    BY <1>7, <1>8 DEF ResolverInv
  <2> QED BY <1>8, <2>1 DEF ResolverInv, ResolverTypeOK
<1>10. DOMAIN heard = 1..Len(heard)
  BY <1>5
<1> QED BY <1>7, <1>8, <1>9, <1>10

(* Only a final line whose speaker the page has named teaches anything.    *)
LEMMA ResolverSteps ==
    ASSUME ResolverInv, QueuesInv, [RecordsNext]_recordsVars
    PROVE  /\ ResolverInv'
           /\ \/ UNCHANGED <<labelMappings, correlated>>
              \/ \E label \in Labels : Resolver!ResolveWithLabelAndDom(label) /\ UNCHANGED activeSpeaker
<1>1. ASSUME UNCHANGED Resolver!resolverVars
      PROVE  ResolverInv' /\ UNCHANGED <<labelMappings, correlated>>
  BY <1>1 DEF Resolver!resolverVars, ResolverInv, ResolverTypeOK
<1>2. CASE \/ Bot \/ JoinCompletes \/ LeaveMeeting \/ UNCHANGED recordsVars
           \/ \E i \in DOMAIN shipments : Authenticate(i) \/ DispatchBatch(i)
  <2>1. UNCHANGED Resolver!resolverVars
    BY <1>2 DEF Bot, JoinCompletes, LeaveMeeting, Authenticate, DispatchBatch, DaemonIdle, SubscribersIdle,
                Resolver!Idle, recordsVars
  <2> QED BY <1>1, <2>1
<1>3. CASE DispatchEvent
  <2> PICK h : h = Head(dispatching)
    OBVIOUS
  <2>1. h.what \in Told
    <3>1. h \in Event
      BY <1>3, ElemsOfTail, ChainTyped DEF DispatchEvent, Free, QueuesInv, OrderInv, QueuesTypeOK
    <3> QED BY <3>1 DEF Event
  <2>2. SubscribersIdle \/ Handed(h.what, h.at)
    BY <1>3 DEF DispatchEvent
  <2>3. Resolver!Idle \/ \E p \in People : Resolver!OnSpeakerChange(p)
    <3>1. Handed(h.what, h.at) => Resolver!Idle \/ (\E p \in People : Resolver!OnSpeakerChange(p)) \/ SubscribersIdle
      BY <2>1, HandlersTold
    <3> QED BY <2>2, <3>1 DEF SubscribersIdle
  <2>4. CASE Resolver!Idle
    BY <1>1, <2>4 DEF Resolver!Idle
  <2>5. CASE \E p \in People : Resolver!OnSpeakerChange(p)
    BY <2>5 DEF Resolver!OnSpeakerChange, ResolverInv, ResolverTypeOK, Speaker
  <2> QED BY <2>3, <2>4, <2>5
<1>4. CASE TranscriptLine
  <2>1. PICK label \in Labels, inWindow \in BOOLEAN : Resolver!HandleFinalTranscript(label, inWindow)
    BY <1>4 DEF TranscriptLine
  <2>2. /\ UNCHANGED activeSpeaker
        /\ Resolver!ResolveWithLabelAndDom(label) \/ UNCHANGED <<labelMappings, correlated>>
    BY <2>1 DEF Resolver!HandleFinalTranscript
  <2>3. CASE Resolver!ResolveWithLabelAndDom(label)
    BY <2>2, <2>3, LineTeaches
  <2>4. CASE UNCHANGED <<labelMappings, correlated>>
    BY <1>1, <2>2, <2>4 DEF Resolver!resolverVars
  <2> QED BY <2>2, <2>3, <2>4
<1> QED BY <1>2, <1>3, <1>4 DEF RecordsNext

LEMMA ResolverStarts == RecordsInit => ResolverInv
<1> SUFFICES ASSUME RecordsInit PROVE ResolverInv
  OBVIOUS
<1>1. /\ activeSpeaker = Resolver!Unknown /\ labelMappings = [label \in Labels |-> Resolver!NoMapping]
      /\ correlated = [label \in Labels |-> <<>>]
  BY DEF RecordsInit, Resolver!Init
<1>2. Resolver!NoMapping \in Mapping /\ Resolver!NoMapping.disagreements = 0
  BY DEF Resolver!NoMapping, Mapping, Speaker
<1>3. <<>> \in Seq(Speaker) /\ Len(<<>>) = 0 /\ MappingReplaceThreshold \in Nat /\ 0 < MappingReplaceThreshold
  BY RecordConstants
<1>4. \A id, x : LastAre(<<>>, 0, id, x)
  <2>1. 0 <= Len(<<>>) /\ (Len(<<>>) - 0) + 1 .. Len(<<>>) = {}
    BY <1>3
  <2> QED BY <2>1 DEF LastAre
<1>5. HeardStands(Resolver!NoMapping, <<>>)
  BY <1>2, <1>3, <1>4 DEF HeardStands
<1> QED BY <1>1, <1>2, <1>3, <1>5 DEF ResolverInv, ResolverTypeOK, Speaker

(* BindingIsEarned: a label changes hands only after the threshold's lines *)
(* in a row, all for one newcomer and none for whom it stood for.          *)
THEOREM BindingsAreEarned == RecordsSpec => BindingIsEarned
<1>1. RecordsInit => QueuesInv /\ ResolverInv
  BY QueuesStart, ResolverStarts
<1>2. (QueuesInv /\ ResolverInv) /\ [RecordsNext]_recordsVars => (QueuesInv /\ ResolverInv)'
  BY QueuesStay, ResolverSteps
<1>3. (QueuesInv /\ ResolverInv) /\ [RecordsNext]_recordsVars
      => [\A label \in Labels :
             LET old == labelMappings[label]
                 new == labelMappings'[label]
                 heard == correlated'[label]
             IN  old # Resolver!NoMapping /\ new.who # old.who =>
                     /\ Len(heard) = MappingReplaceThreshold
                     /\ \A k \in DOMAIN heard :
                            heard[k].id = new.who.id /\ heard[k] # old.who]_(Resolver!resolverVars)
  <2> SUFFICES ASSUME QueuesInv, ResolverInv, [RecordsNext]_recordsVars, NEW label \in Labels,
                      labelMappings[label] # Resolver!NoMapping,
                      labelMappings'[label].who # labelMappings[label].who
               PROVE  /\ Len(correlated'[label]) = MappingReplaceThreshold
                      /\ \A k \in DOMAIN correlated'[label] :
                             /\ correlated'[label][k].id = labelMappings'[label].who.id
                             /\ correlated'[label][k] # labelMappings[label].who
    OBVIOUS
  <2>1. PICK l \in Labels : Resolver!ResolveWithLabelAndDom(l) /\ UNCHANGED activeSpeaker
    BY ResolverSteps
  <2> QED BY <2>1, LineTeaches
<1> QED BY <1>1, <1>2, <1>3, PTL DEF RecordsSpec, BindingIsEarned, Resolver!BindingIsEarned
-----------------------------------------------------------------------------
(* What the page has shown.                                                *)

KeysStand ==
    reads \in [Chats -> Nat] /\ \A m \in Chats : reads[m] # 0 => KeyOf[m] \in seenMessageKeys

(* Only a poll of the list touches what is known of it, only a row that is *)
(* looked at in the chat is told.                                          *)
LEMMA ScrapersStep ==
    ASSUME KeysStand, [RecordsNext]_recordsVars
    PROVE  /\ KeysStand'
           /\ previous' # previous => panel' = "people"
           /\ \A m \in Chats : reads'[m] # reads[m] =>
                 panel = "chat" /\ \A n \in Chats : KeyOf[n] = KeyOf[m] => reads[n] = 0
<1>1. ASSUME UNCHANGED <<reads, seenMessageKeys>> PROVE KeysStand'
  BY <1>1 DEF KeysStand
<1>2. CASE Client!ExtractRow
  <2>1. UNCHANGED previous
    BY <1>2 DEF Client!ExtractRow
  <2>2. CASE UNCHANGED <<seenMessageKeys, reads>>
    BY <1>1, <2>1, <2>2
  <2>3. CASE ~UNCHANGED <<seenMessageKeys, reads>>
    <3>1. PICK m : /\ panel = "chat" /\ KeyOf[m] \notin seenMessageKeys
                   /\ seenMessageKeys' = seenMessageKeys \cup {KeyOf[m]}
                   /\ reads' = [reads EXCEPT ![m] = @ + 1]
      BY <1>2, <2>3 DEF Client!ExtractRow, Client!IsUnseen
    <3>2. /\ reads' \in [Chats -> Nat] /\ \A n \in Chats : n # m => reads'[n] = reads[n]
      <4>1. CASE m \in Chats
        <5>1. reads[m] \in Nat /\ reads[m] + 1 \in Nat
          BY <4>1 DEF KeysStand
        <5> QED BY <3>1, <5>1 DEF KeysStand
      <4>2. CASE m \notin Chats
        BY <3>1, <4>2 DEF KeysStand
      <4> QED BY <4>1, <4>2
    <3>3. \A n \in Chats : KeyOf[n] = KeyOf[m] => reads[n] = 0
      BY <3>1 DEF KeysStand
    <3> QED BY <2>1, <3>1, <3>2, <3>3 DEF KeysStand
  <2> QED BY <2>2, <2>3
<1>3. CASE Client!Poll
  <2>1. UNCHANGED <<reads, seenMessageKeys>>
    BY <1>3 DEF Client!Poll
  <2>2. previous' # previous => panel' = "people"
    BY <1>3 DEF Client!Poll, Client!Tells
  <2> QED BY <1>1, <2>1, <2>2
<1>4. CASE Client!HandleSnapshot \/ Client!PageGoesOn
  BY <1>1, <1>4 DEF Client!HandleSnapshot, Client!PageGoesOn, Client!SomebodyComesOrGoes, Client!PanelChanges,
                    Client!SomebodyWrites, Client!memory
<1>5. CASE Client!ScrapersIdle
  BY <1>1, <1>5 DEF Client!ScrapersIdle, Client!scraperVars, Client!memory
<1>6. \/ Page \/ Client!ScrapersIdle
  BY DEF RecordsNext, Bot, Posts, Authenticate, DispatchBatch, DispatchEvent, TranscriptLine, JoinCompletes,
         LeaveMeeting, BotIdle, recordsVars, Client!ScrapersIdle
<1> QED BY <1>2, <1>3, <1>4, <1>5, <1>6 DEF Page, Client!Scrape

(* PageIsTold: what is known of the list changes only while the list is    *)
(* there; a message is told once, however often its row appears.           *)
THEOREM PagesAreTold == RecordsSpec => PageIsTold
<1>1. RecordsInit => KeysStand
  BY DEF RecordsInit, Client!ScrapersInit, KeysStand
<1>2. KeysStand /\ [RecordsNext]_recordsVars => KeysStand'
  BY ScrapersStep
<1>3. KeysStand /\ [RecordsNext]_recordsVars
      => [/\ previous' # previous => panel' = "people"
          /\ \A m \in Chats : reads'[m] # reads[m] =>
                /\ panel = "chat"
                /\ \A n \in Chats : KeyOf[n] = KeyOf[m] => reads[n] = 0]_(Client!scraperVars)
  BY ScrapersStep
<1> QED BY <1>1, <1>2, <1>3, PTL DEF RecordsSpec, PageIsTold, Client!PageIsTold
=============================================================================
