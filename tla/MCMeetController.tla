-------------------------- MODULE MCMeetController ---------------------------
(***************************************************************************)
(* An instance of MeetController for TLC.                                  *)
(***************************************************************************)
EXTENDS MeetController, TLC

CONSTANTS c1, c2, a1, a2

MCCommands == Chats \cup AvatarCalls \cup {Join, Leave}
MCTypeOf == [c \in MCCommands |-> IF c = Join THEN "join" ELSE IF c = Leave THEN "leave"
                                  ELSE IF c \in Chats THEN "chat"
                                  ELSE IF c \in Enabling THEN "enable" ELSE "disable"]
\* The chats are interchangeable.
Callers == Permutations(Chats)
\* An xdotool that fails is explored apart from a tab that is missing and from a displaced chat.
OneFault == slipped => misses = 0 /\ displaced = {}
=============================================================================
