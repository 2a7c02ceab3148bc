------------------------------ MODULE BotMedia -------------------------------
(***************************************************************************)
(* The bot's voice and its face: LipSync's utterances and visemes, with    *)
(* the renderer that TalkingHead brings up and takes down under them, also *)
(* in the middle of an utterance.  The routes and the playback clock read  *)
(* the server's renderer when they need it; a new renderer begins with an  *)
(* empty buffer and no clock.                                              *)
(***************************************************************************)
EXTENDS LipSync, TalkingHead

CONSTANTS
    Before,     \* the call that brought the avatar up before
    Budget      \* bound: requests of a behaviour, an utterance counting twice

ASSUME MediaConstants == Before \in Starts /\ Budget \in Nat

avatarVars == <<headVars, tabVars>>
mediaVars == <<lipVars, avatarVars>>

MediaInit == LipInit /\ HeadInit(Before)

Spent ==
    2 * Cardinality({p \in Posts : pc[p] # "idle"})
      + Cardinality({c \in Calls \ {Before} : call[c] # "idle"})

(* Requests come in a fixed order: their names are interchangeable.        *)
First(x, S) == x \in S /\ x = CHOOSE y \in S : TRUE

HasFace == avatarRenderer # NoTab

(* The steps of an utterance: the reset and every tick of the clock go to  *)
(* the renderer of that moment, if there is one.                           *)
Speak(r) ==
    /\ \/ Start(r) /\ IF HasFace THEN ResetRenderer(r) ELSE UNCHANGED rendererVars
       \/ /\ WriteDone(r)
          /\ IF HasFace THEN Notify(clock'[handle[r]]) ELSE UNCHANGED rendererVars
       \/ /\ Finish(r)
          /\ IF HasFace /\ handle[r] \in alive
             THEN Notify(clock'[handle[r]]) ELSE UNCHANGED rendererVars
       \/ /\ \/ StartFails(r) \/ ReadChunk(r) \/ WriteToDead(r) \/ WriteFails(r)
             \/ BodyEnds(r) \/ SeeAbort(r)
          /\ UNCHANGED rendererVars
    /\ UNCHANGED avatarVars

PostArrives ==
    /\ Spent + 2 <= Budget /\ transcoding = {}
    /\ \E r \in Posts, s \in StreamIds :
         First(r, {p \in Posts : pc[p] = "idle"}) /\ Arrive(r, s)
    /\ UNCHANGED <<rendererVars, avatarVars>>

OthersOfAudio ==
    /\ PacatExits \/ \E s \in StreamIds : Delete(s)
    /\ UNCHANGED <<rendererVars, avatarVars>>

(* Without a renderer a viseme is answered and dropped. *)
VisemePosted(v) ==
    /\ IF HasFace THEN VisemeArrives(v)
       ELSE /\ Settled /\ v \notin posted
            /\ posted' = posted \cup {v}
            /\ UNCHANGED <<playVars, visemeBuffer, playbackTs, onTime, early>>
    /\ UNCHANGED avatarVars

(* A renderer that comes or goes takes its buffer and its clock with it.   *)
NewFace ==
    /\ visemeBuffer' = <<>> /\ playbackTs' = -1
    /\ UNCHANGED <<playVars, posted, onTime, early>>

FaceChanges(c) == (EnableAttaches(c) \/ DisableBegins(c)) /\ NewFace

CallArrives(c) ==
    /\ Spent < Budget
    /\ \E S \in {Starts, Disables} : First(c, {d \in S : call[d] = "idle"})
    /\ CallsAvatar(c) /\ UNCHANGED lipVars

(* A bound, here and above: frames are looked at while nothing is said;    *)
(* frames and visemes share nothing but the renderer.                      *)
Frames(s) ==
    /\ \A r \in Posts : pc[r] = "idle"
    /\ FrameArrives(s) \/ FrameDone(s)
    /\ UNCHANGED lipVars

MediaNext ==
    \/ PostArrives \/ OthersOfAudio
    \/ \E r \in Posts : Speak(r)
    \/ \E v \in Visemes : VisemePosted(v)
    \/ \E c \in Calls : \/ CallArrives(c) \/ FaceChanges(c)
                        \/ CallStep(c) /\ UNCHANGED lipVars
    \/ \E s \in Starts :
         \/ (Started(s) \/ AckTimeout(s) \/ TabStep(s)) /\ UNCHANGED lipVars
         \/ Frames(s)

(* Fairness: the event loop runs a handler whose await is over.  That a    *)
(* body ends and that pacat drains its stdin are assumptions on the caller *)
(* and on pulseaudio: neither await has a time limit.  Every await of the  *)
(* avatar's routes has one, or is local I/O.                               *)
MediaSpec ==
    /\ MediaInit /\ [][MediaNext]_mediaVars
    /\ \A r \in Posts : WF_mediaVars(Speak(r))
    /\ WF_mediaVars(\E c \in Calls : FaceChanges(c) \/ (CallStep(c) /\ UNCHANGED lipVars))
    /\ WF_mediaVars(\E s \in Starts : AckTimeout(s) /\ UNCHANGED lipVars)
-----------------------------------------------------------------------------
(* Properties. *)

(* No frame is written to a device that is being closed or is closed,      *)
(* however late ffmpeg delivers it; and once the routes and the extension  *)
(* are at rest, the tab of the renderer in use is up and no other one is,  *)
(* unless a command was lost or met the handler of another, or a page      *)
(* reported to a renderer that was not its own.                            *)
FaceIsClean ==
    /\ HeadTypeOK /\ ~lateWrite
    /\ Idle /\ avatarChain = <<>> /\ ~mishap => Up = {avatarRenderer} \ {NoTab}

(* Utterances are not mixed up, neither in the pipe (PlayAudio) nor by the  *)
(* mouth (LipSync).                                                         *)
SoundAndMouthAgree == UtterancesAreKeptApart /\ NoEarlyMouth

(* Every request is answered: an utterance (PlayAudio), and every call of  *)
(* the avatar's routes behind those before it, so the chain drains.        *)
RequestsAreAnswered ==
    /\ PostsAreAnswered
    /\ avatarChain # <<>> ~> avatarChain = <<>>
=============================================================================
