------------------------------- MODULE BotLink -------------------------------
(***************************************************************************)
(* The bot process and the extension's native port as one system: the bot  *)
(* has a client exactly when the link's server has one; what the extension *)
(* says is heard only while both ends hold the same shim.                  *)
(***************************************************************************)
EXTENDS BotMain, NativeLink

linkedVars == <<vars, linkVars>>

LinkedInit == Init /\ LinkInit

(* A step of the bot alone.  Stopping the server destroys the client; the  *)
(* extension's worker boots and dies with Chrome.                          *)
Follows ==
    /\ IF connected /\ ~connected' THEN Stop ELSE UNCHANGED <<client, sock>>
    /\ port' = IF "chrome" \in running' THEN port ELSE NoShim
    /\ retry' = ("chrome" \in running' /\ (retry \/ "chrome" \notin running))
    /\ UNCHANGED <<shim, unread, faults>>

BotAlone == OwnStep /\ Follows

ExtensionStep(s) ==
    /\ \/ Connect(s)
       \/ PortDisconnects(s)
       \/ ProtocolError(s) /\ ~ShuttingDown
    /\ UNCHANGED vars

(* A bound, here and above: nothing fails any more during the shutdown.    *)
ShimAlone(s) ==
    /\ \/ ShimSettles(s)
       \/ ShimFails(s) /\ ~ShuttingDown
    /\ UNCHANGED vars

ClientArrives(s) == ShimDials(s) /\ ShimConnects

ClientGoes(s) ==
    /\ SocketCloses(s)
    /\ IF client # NoShim /\ client' = NoShim THEN ShimCloses ELSE UNCHANGED vars

(* `ready` ends the boot's wait; later ones are logged. *)
ReadyHeard(s) ==
    /\ ReadyArrives(s)
    /\ IF boot = "ready" THEN ExtensionReady \/ JoinSendFails ELSE UNCHANGED vars

BotHears == Spoken /\ Heard /\ UNCHANGED linkVars

(* The container ends with the bot, and the link with its server. *)
LinkedNext ==
    \/ stage # "exited" /\ (BotAlone \/ BotHears)
    \/ /\ Listening
       /\ \E s \in Shims :
            \/ ExtensionStep(s) \/ ShimAlone(s)
            \/ ClientArrives(s) \/ ClientGoes(s) \/ ReadyHeard(s)

(* Besides the bot's own timeouts: a due dial is made, a shim dials, ends  *)
(* and is noticed at both ends, and `ready` is piped.                      *)
LinkedFairness ==
    /\ WF_linkedVars(BootStep /\ Follows /\ stage # "exited")
    /\ WF_linkedVars((\E i \in DOMAIN Stages : StageDone(i)) /\ Follows /\ stage # "flush")
    /\ WF_linkedVars(JoinDeadline /\ Follows)
    /\ \A r \in Requests : WF_linkedVars(ChatTimesOut(r) /\ Follows)
    /\ \A s \in Shims :
         WF_linkedVars(/\ Listening
                       /\ \/ /\ \/ Connect(s) \/ PortDisconnects(s)
                                \/ ShimSettles(s)
                             /\ UNCHANGED vars
                          \/ ClientArrives(s) \/ ClientGoes(s)
                          \/ ReadyHeard(s) /\ shim[s] = "piping")

LinkedSpec == LinkedInit /\ [][LinkedNext]_linkedVars /\ LinkedFairness
-----------------------------------------------------------------------------
(* Properties. *)

(* The server serves exactly the client whose socket is open: the late     *)
(* close of a client it has replaced never cuts off the new one, and no    *)
(* client it has forgotten stays open behind its back.                     *)
ServesTheOpenClient ==
    /\ LinkTypeOK /\ (connected <=> client # NoShim)
    /\ \A s \in Shims : sock[s] = "open" <=> client = s

(* The shutdown ends clean (BotMain), over a link whose two ends agree.    *)
BotAndLinkAgree == ShutdownEndsClean /\ ServesTheOpenClient

(* While Chrome and the server are up, a broken link is mended: whichever  *)
(* end fails, and however late the other learns of it, the bot comes to    *)
(* hear the extension again.                                               *)
Wanted == "chrome" \in running /\ Listening
LinkComesBack == Wanted ~> Linked \/ ~Wanted
=============================================================================
