-------------------------- MODULE MCMeetingRecords --------------------------
(***************************************************************************)
(* Two people come, speak and go; two messages with one text.              *)
(***************************************************************************)
EXTENDS MeetingRecords

Ann == [id |-> "a", name |-> "Ann"]
Bob == [id |-> "b", name |-> "Bob"]
AnnAndBob == {Ann, Bob}
Alike == [m \in Chats |-> "same"]

\* The page at its liveliest (panels, arrivals, messages), trouble on the
\* way (a retry, a repetition, a failed write, an event before its time) and
\* transcript lines are explored apart.
Trouble == \/ reported # {} \/ repeats \/ faults # 0 \/ missed
           \/ \E i \in DOMAIN shipments : shipments[i].attempt # 1
Lines == transcriptLines # 0
QuietPage ==
    /\ pageChanges = 0 /\ posted = {} /\ crowd = People
    /\ produced > 0 => panel = "people" /\ panelOpenAttempted /\ previous = crowd
InSession ==
    /\ lastSpeakerId # Bob.id   \* who speaks is told apart on the quiet page
    /\ produced + pageChanges > 0 \/ posted # {} \/ panel # "none" => session = "active" /\ ~stopped
    /\ \A i \in DOMAIN buffer : buffer[i].what # LeftEvent
    /\ \A i \in DOMAIN shipments : \A k \in DOMAIN shipments[i].batch :
           shipments[i].batch[k].what # LeftEvent
OneTrouble ==
    \/ QuietPage /\ (~Trouble \/ ~Lines)
    \/ InSession /\ ~Trouble /\ ~Lines
=============================================================================
