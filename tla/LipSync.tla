------------------------------- MODULE LipSync -------------------------------
(***************************************************************************)
(* Lip-sync: the viseme buffer of TalkingHeadRenderer (bot, media/avatar)   *)
(* beside the playback of PlayAudio.                                        *)
(*                                                                         *)
(* The daemon's forwarder posts every viseme on its own, without waiting   *)
(* and with a time limit, so visemes reach the bot in any order, before or *)
(* after the POST of their audio, or not at all.  The renderer holds a     *)
(* viseme back until the playback clock reaches its timestamp; POST        *)
(* /play_audio resets that clock and drops what belongs to other           *)
(* utterances.  The renderer runs all the time; an utterance is the        *)
(* request that plays it, and timestamps are counted in chunks of audio.   *)
(***************************************************************************)
EXTENDS PlayAudio, Integers

CONSTANT Stamps     \* timestamps of the visemes of an utterance

ASSUME StampsAreNat == Stamps \subseteq Nat

VARIABLES
  visemeBuffer,     \* visemes held back, in order of arrival
  playbackTs,       \* currentPlaybackTimestamp (-1: no audio queued yet)
  posted,           \* visemes the forwarder has posted
  \* history, read by the properties only
  onTime,           \* visemes that arrived while their utterance was playing
  early             \* visemes sent to the avatar ahead of their own audio

rendererVars == <<visemeBuffer, playbackTs, posted, onTime, early>>
lipVars == <<playVars, rendererVars>>

Visemes == [of : Posts, ts : Stamps]

LipInit ==
  /\ PlayInit
  /\ visemeBuffer = <<>>
  /\ playbackTs = -1
  /\ posted = {}
  /\ onTime = {} /\ early = {}

\* How much of its audio utterance r has handed to pacat after this step,
\* the trailing silence included.
Reached(r) == sent'[r] + IF pc'[r] = "done" THEN 1 ELSE 0

\* flushBufferedVisemes: release from the head while it is due.
Due(buf, ts) ==
  CHOOSE n \in 0..Len(buf) :
    /\ \A i \in 1..n : buf[i].ts <= ts
    /\ n < Len(buf) => buf[n + 1].ts > ts

Release(buf, ts) ==
  LET n   == Due(buf, ts)
      out == {buf[i] : i \in 1..n}
  IN  /\ visemeBuffer' = SubSeq(buf, n + 1, Len(buf))
      /\ early' = early \cup {v \in out : v.ts > Reached(v.of)}

\* POST /avatar/viseme: push, then release what is due.
VisemeArrives(v) ==
  /\ Settled
  /\ v \notin posted
  /\ UNCHANGED playVars
  /\ posted' = posted \cup {v}
  /\ Release(Append(visemeBuffer, v), playbackTs)
  /\ onTime' = IF v.of \in Registered THEN onTime \cup {v} ELSE onTime
  /\ UNCHANGED playbackTs

\* notifyPlaybackTimestamp: the clock only moves forward.
Notify(ts) ==
  IF ts <= playbackTs
  THEN UNCHANGED rendererVars
  ELSE /\ playbackTs' = ts
       /\ Release(visemeBuffer, ts)
       /\ UNCHANGED <<posted, onTime>>

\* resetPlaybackTimestamp(streamId, utteranceId): keep the incoming
\* utterance's own visemes, in order.
BelongsToStream(v, r) == sid[v.of] = sid[r]   \* mutant: the stream id alone

BelongsTo(v, r) == v.of = r

\* What SelectSeq keeps, by its place: the kth among the places of r's own.
Kept(buf, r) ==
  LET own    == {i \in DOMAIN buf : BelongsTo(buf[i], r)}
      nth(k) == CHOOSE i \in own : Cardinality({j \in own : j <= i}) = k
  IN  [k \in 1..Cardinality(own) |-> buf[nth(k)]]

ResetRenderer(r) ==
  /\ playbackTs' = -1
  /\ visemeBuffer' = Kept(visemeBuffer, r)
  /\ UNCHANGED <<posted, onTime, early>>

-----------------------------------------------------------------------------
LipTypeOK ==
  /\ PlayTypeOK
  /\ visemeBuffer \in Seq(Visemes)
  /\ playbackTs \in -1..(MaxChunks + 1)
  /\ posted \subseteq Visemes
  /\ onTime \subseteq Visemes /\ early \subseteq Visemes

\* A viseme that arrives while its own utterance is playing never moves the
\* mouth ahead of the audio it belongs to, through any number of utterances
\* on the one pacat: not on a clock that went on counting, and not during a
\* later utterance because its own was cut short, also when the two share a
\* stream id ("every other viseme is prior-utterance debris").
NoEarlyMouth == LipTypeOK /\ onTime \cap early = {}

=============================================================================
