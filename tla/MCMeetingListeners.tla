------------------------- MODULE MCMeetingListeners -------------------------
(***************************************************************************)
(* A meeting in which an objection may be spoken, written or said by the   *)
(* bot, and people greet, come and go.  The configuration keeps the        *)
(* proportions of the code's intervals: a unit is about seven seconds      *)
(* (debounce 8 s, tick 20 s, window 30 s, call and dedupe 5 s).            *)
(***************************************************************************)
EXTENDS MeetingListeners

Event(kind, text) == [kind |-> kind, text |-> text, own |-> FALSE, backfill |-> FALSE]

Talk ==
    {Event("speech", "stop"), Event("speech", "hello"), Event("chat", "stop"),
     Event("chat", "hello"), Event("joined", ""), Event("left", ""),
     [Event("chat", "hello") EXCEPT !.backfill = TRUE],
     [Event("speech", "hello") EXCEPT !.own = TRUE],
     [Event("joined", "") EXCEPT !.own = TRUE]}
\* The listeners share the stream and the clock and nothing else: each run of
\* the model has one of them at work.
MCInit == Init /\ (disposed \/ monitor = "decided")
MCSpec == MCInit /\ [][Next]_vars
=============================================================================
