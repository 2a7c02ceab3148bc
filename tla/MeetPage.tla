------------------------------ MODULE MeetPage ------------------------------
(***************************************************************************)
(* The page under the bot's hands.  Meet heeds trusted events only, so the *)
(* extension asks the bot for each click and each text, and the bot runs   *)
(* them one xdotool process at a time (main.ts, enqueueXdotool).  A click  *)
(* on the chat or camera button toggles it, keys go into the composer if   *)
(* the panel is open, and the send button posts what the composer holds.   *)
(* The page shows one side panel at a time: the list of participants takes *)
(* the place of the chat.                                                  *)
(***************************************************************************)
EXTENDS Naturals, Sequences, SequencesExt

VARIABLES
    lane,       \* the operations the bot has not run yet: [op, by]
    slipped,    \* has an xdotool process failed?
    page,       \* prejoin, knocking, inside, refused
    panel,      \* is the chat panel open?
    composer,   \* the texts in the composer
    posted,     \* the messages of the meeting's chat: sequences of texts
    camera      \* is the camera on?

pageVars == <<lane, slipped, page, panel, composer, posted, camera>>

PageInit ==
    /\ lane = <<>> /\ composer = <<>> /\ posted = {}
    /\ page = "prejoin"
    /\ slipped = FALSE /\ panel = FALSE /\ camera = FALSE

Asks(op, c) == lane' = Append(lane, [op |-> op, by |-> c])
AsksNothing == UNCHANGED lane

(* Whether a draft survives the closing of the panel is up to Meet.        *)
ClosesChat == panel' = FALSE /\ composer' \in {composer, <<>>}

(* A click elsewhere than on a live button does nothing.                   *)
ClickAdmission ==
    /\ page' \in IF page = "prejoin" THEN {"prejoin", "knocking", "inside"} ELSE {page}
    /\ UNCHANGED <<panel, composer, posted, camera>>
ClickPanel ==
    /\ IF panel THEN ClosesChat
                ELSE panel' = (page = "inside") /\ UNCHANGED composer
    /\ UNCHANGED <<page, posted, camera>>
ClickCamera ==
    /\ camera' = (page = "inside" /\ ~camera)
    /\ UNCHANGED <<page, panel, composer, posted>>
ClickSend ==
    /\ IF panel /\ composer # <<>>
       THEN posted' = posted \cup {composer} /\ composer' = <<>>
       ELSE UNCHANGED <<posted, composer>>
    /\ UNCHANGED <<page, panel, camera>>
TypeText(c) ==
    /\ composer' = IF panel THEN Append(composer, c) ELSE composer
    /\ UNCHANGED <<page, panel, posted, camera>>

Effect(o) == CASE o.op = "admission" -> ClickAdmission
               [] o.op = "panel"     -> ClickPanel
               [] o.op = "camera"    -> ClickCamera
               [] o.op = "send"      -> ClickSend
               [] o.op = "type"      -> TypeText(o.by)

(* One xdotool at a time.  One may not be spawned, or exit with an error,  *)
(* or be killed; the lane goes on.                                         *)
LaneRunsAny ==   \* mutant: each operation is spawned as it comes
    \E i \in DOMAIN lane :
       /\ lane' = RemoveAt(lane, i)
       /\ Effect(lane[i])
       /\ UNCHANGED slipped
LaneRuns ==
    /\ lane # <<>>
    /\ lane' = Tail(lane)
    /\ \/ Effect(Head(lane)) /\ UNCHANGED slipped
       \/ slipped' = TRUE /\ UNCHANGED <<page, panel, composer, posted, camera>>

HostDecides ==
    /\ page = "knocking"
    /\ page' \in {"inside", "refused"}
    /\ UNCHANGED <<lane, slipped, panel, composer, posted, camera>>
=============================================================================
