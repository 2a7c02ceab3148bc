---------------------------- MODULE MeetScrapers ----------------------------
(***************************************************************************)
(* The content script's scrapers (startMeetingSession) over the page:      *)
(* the participants list is polled, the speaker's tile and the chat list   *)
(* are observed.  Meet shows one side panel at a time, so whoever opens    *)
(* the chat closes the list of participants and the other way round.       *)
(* Each scraper tells a thing once; what it has told is its own memory,    *)
(* and nothing is ever told again.  An event goes straight to the bot's    *)
(* client.  The bot's own rows and messages are left out.                  *)
(***************************************************************************)
EXTENDS DaemonClient

CONSTANTS
    People,          \* participants: [id, name]
    Chats,           \* messages that may be posted
    KeyOf,           \* a message's key: its id, or sender, time and text
    MaxPageChanges   \* bound: arrivals, departures and panels that change

VARIABLES
    crowd,              \* who is in the meeting
    panel,              \* the side panel: "none", "people" or "chat"
    posted,             \* messages posted so far
    mounted,            \* rows of the chat list, while it is shown
    pageChanges,
    previous,           \* the participants of the last poll
    panelOpenAttempted,
    lastSpeakerId,
    seenMessageKeys,
    reads               \* history: how often each message was told

pageVars == <<crowd, panel, posted, mounted, pageChanges>>
memory == <<previous, panelOpenAttempted, lastSpeakerId, seenMessageKeys, reads>>
scraperVars == <<pageVars, memory>>

ScrapersInit ==
    /\ crowd \in SUBSET People /\ panel = "none" /\ posted = {} /\ mounted = {} /\ pageChanges = 0
    /\ previous = {} /\ lastSpeakerId = "nobody"
    /\ panelOpenAttempted = FALSE
    /\ seenMessageKeys = {} /\ reads = [m \in Chats |-> 0]

ScrapersIdle == UNCHANGED scraperVars

RosterEvent(joined, left) == [joined |-> joined, left |-> left]
SpeakerEvent(who) == [speaker |-> who]
ChatEvent(m) == [chat |-> m]
------------------------------------------------------------------------------
\* The meeting goes on.
Changes == pageChanges < MaxPageChanges /\ pageChanges' = pageChanges + 1 /\ Idle

SomebodyComesOrGoes ==
    /\ Changes
    /\ \E p \in People : crowd' = IF p \in crowd THEN crowd \ {p} ELSE crowd \cup {p}
    /\ UNCHANGED <<panel, posted, mounted, memory>>

\* The chat is opened (startChatReader, a chat to be sent) or a panel closed.
PanelChanges ==
    /\ Changes
    /\ panel' \in {"none", "chat"} \ {panel}
    /\ mounted' = {}
    /\ UNCHANGED <<crowd, posted, memory>>

SomebodyWrites ==
    /\ Idle
    /\ \E m \in Chats \ posted : posted' = posted \cup {m}
    /\ UNCHANGED <<crowd, panel, mounted, pageChanges, memory>>
------------------------------------------------------------------------------
\* mutant: a closed panel reads as an empty meeting
TellsEmpty(rows, listed) ==
    /\ previous' = rows
    /\ IF rows = previous THEN Idle
                          ELSE Enqueue(RosterEvent(rows \ previous, previous \ rows))
\* The diff with the poll before; without the list there is none.
Tells(rows, listed) ==
    IF ~listed \/ rows = previous
    THEN Idle /\ UNCHANGED previous
    ELSE Enqueue(RosterEvent(rows \ previous, previous \ rows)) /\ previous' = rows

\* One poll.  The click on the panel's button may come to nothing, the list
\* may take longer than the poll to appear, and rows may be missing from it.
Poll ==
    /\ \E shown \in IF panelOpenAttempted THEN {panel} ELSE {panel, "people"} :
          /\ panel' = shown
          /\ mounted' = IF shown = "chat" THEN mounted ELSE {}
          /\ \E listed \in IF shown = panel THEN {shown = "people"} ELSE BOOLEAN,
                rows \in SUBSET crowd :
                /\ listed \/ rows = {}
                /\ Tells(rows, listed)
                /\ panelOpenAttempted' = listed
    /\ UNCHANGED <<crowd, posted, pageChanges, lastSpeakerId, seenMessageKeys, reads>>

\* The tile of somebody is highlighted, a mutation the observer sees.
HandleSnapshot ==
    /\ \E p \in crowd :
          /\ p.id # lastSpeakerId /\ lastSpeakerId' = p.id
          /\ Enqueue(SpeakerEvent(p))
    /\ UNCHANGED <<pageVars, previous, panelOpenAttempted, seenMessageKeys, reads>>

\* mutant: a row of a chat list opened anew is a new message
IsNew(m) == TRUE
IsUnseen(m) == KeyOf[m] \notin seenMessageKeys

\* A row appears, of a new message or of one the list shows anew.  It is
\* looked at once: without its text yet it is not read.
ExtractRow ==
    /\ panel = "chat"
    /\ \E m \in posted \ mounted, hasText \in BOOLEAN :
          /\ mounted' = mounted \cup {m}
          /\ IF hasText /\ IsUnseen(m)
             THEN /\ seenMessageKeys' = seenMessageKeys \cup {KeyOf[m]}
                  /\ reads' = [reads EXCEPT ![m] = @ + 1]
                  /\ Enqueue(ChatEvent(m))
             ELSE Idle /\ UNCHANGED <<seenMessageKeys, reads>>
    /\ UNCHANGED <<crowd, panel, posted, pageChanges, previous, panelOpenAttempted, lastSpeakerId>>

Scrape == ~stopped /\ produced < MaxEvents /\ (Poll \/ HandleSnapshot \/ ExtractRow)
PageGoesOn == SomebodyComesOrGoes \/ PanelChanges \/ SomebodyWrites
------------------------------------------------------------------------------
\* What the scrapers tell, the page has shown: who is in the meeting changes
\* for them only while the list is there, although the chat closes it under
\* their hands; and a message is told once, however often its row appears.
PageIsTold ==
    [][/\ previous' # previous => panel' = "people"
       /\ \A m \in Chats : reads'[m] # reads[m] =>
             /\ panel = "chat"
             /\ \A n \in Chats : KeyOf[n] = KeyOf[m] => reads[n] = 0
      ]_scraperVars
==============================================================================
