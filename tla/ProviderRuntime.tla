--------------------------- MODULE ProviderRuntime ---------------------------
(***************************************************************************)
(* The hooks and the provider route over the runtime the configuration     *)
(* selects (provider-runtime.ts): the Vellum worker with its bots, or      *)
(* Recall's receiver with its tunnel.  The provider is chosen once: the    *)
(* stop of the runtime that never ran is a no-op, and a live switch from   *)
(* one provider to the other is not modelled.                              *)
(***************************************************************************)
EXTENDS BotFleet, RealtimeReceiver

VARIABLE provider   \* vellum, recall

providerVars == <<allVars, receiverVars, provider>>

ProviderInit ==
    /\ provider \in {"vellum", "recall"}
    /\ FleetInit
    /\ ReceiverInit

VellumRuntime(A) == provider = "vellum" /\ A /\ UNCHANGED <<receiverVars, provider>>
RecallRuntime(A) == provider = "recall" /\ A /\ UNCHANGED <<allVars, provider>>

ProviderNext == VellumRuntime(FleetNext) \/ RecallRuntime(ReceiverNext)

ProviderSpec ==
    /\ ProviderInit
    /\ [][ProviderNext]_providerVars
    /\ WF_providerVars(VellumRuntime(FleetMust) \/ RecallRuntime(ReceiverMust))

-----------------------------------------------------------------------------
(* provider-runtime.ts: "The plugin runs exactly one provider runtime at a *)
(* time".  While the calls come one at a time, the process it runs is the  *)
(* only one of its kind, is found by handle or PID file, and is gone after *)
(* the shutdown hook; and, however they overlap, the module never holds    *)
(* the handle of a process that has exited.                                *)
RuntimesInTurn == WorkersInTurn /\ NoStaleHandle /\ ReceiverInTurn /\ NoStaleServer

(* Calls of the hooks and the route return, whichever runtime they drive   *)
(* and however they overlap (none is in progress for ever), and what a     *)
(* dead worker left running is ended.                                      *)
RuntimesSettle ==
    /\ <>[](\A c \in Calls : ~InProgress(c) /\ ~Busy(c))
    /\ OrphansAreReaped
==============================================================================
