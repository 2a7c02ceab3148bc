---------------------------- MODULE AudioCapture ----------------------------
(***************************************************************************)
(* The bot's side of the audio path (audio-capture.ts): parec writes the   *)
(* meeting's sound, the capture frames it and writes it to a socket of the *)
(* ingest.  An attempt is one parec and one socket; when either dies both  *)
(* are put away and, while the budget lasts, another attempt follows.      *)
(***************************************************************************)
EXTENDS AudioIngest

CONSTANTS
    MaxReconnects,   \* MAX_RECONNECT_ATTEMPTS
    Stable           \* frames an attempt must write to reset the budget

VARIABLES
    capture,    \* off, attempt, backoff, fatal, stopped
    failures,   \* consecutiveFailures
    wrote       \* framesWritten of this attempt, counted up to Stable

captureVars == <<capture, failures, wrote>>

CaptureTypeOK ==
    /\ capture \in {"off", "attempt", "backoff", "fatal", "stopped"}
    /\ failures \in 0..(MaxReconnects + 1) /\ wrote \in 0..Stable

CaptureInit == capture = "off" /\ failures = 0 /\ wrote = 0

(* runLoop after an attempt: a stable one clears the count, this failure   *)
(* is then added to it, and one too many is fatal.                         *)
SpentResetsOnAnyFrame(frames) ==   \* mutant: one frame is enough to clear it
    (IF frames > 0 THEN 0 ELSE failures) + 1
Spent(frames) == (IF frames >= Stable THEN 0 ELSE failures) + 1
AttemptFails(frames) ==
    LET f == Spent(frames) IN
    /\ failures' = f
    /\ capture' = IF f > MaxReconnects THEN "fatal" ELSE "backoff"
    /\ wrote' = 0

(* runOneAttempt up to its race: parec cannot be spawned, the connection   *)
(* is refused, or both are there and the AUTH line is written.             *)
AttemptBegins ==
    /\ capture \in {"off", "backoff"}
    /\ \/ AttemptFails(0) /\ UNCHANGED ingestVars
       \/ /\ Connects("bot")
          /\ capture' = "attempt" /\ wrote' = 0 /\ UNCHANGED failures

(* pumpFrames: the frames of two seconds do not fit before the answer to   *)
(* the handshake, one does.                                                *)
WritesFrame ==
    /\ capture = "attempt"
    /\ wrote < (IF conn["bot"] = "accepted" THEN Stable ELSE 1)
    /\ wrote' = wrote + 1
    /\ UNCHANGED <<capture, failures>>

(* parec exits, or the socket errors or closes: the race is decided, both  *)
(* are killed and awaited.                                                 *)
ParecExits ==
    /\ capture = "attempt"
    /\ AttemptFails(wrote)
    /\ conn' = [conn EXCEPT !["bot"] = "none"]
    /\ UNCHANGED <<ingest, ready>>
SocketDies == conn["bot"] = "destroyed" /\ ParecExits

CaptureStops ==
    /\ capture' = IF capture \in {"fatal", "off"} THEN capture ELSE "stopped"
    /\ wrote' = 0
    /\ UNCHANGED failures
=============================================================================
