------------------------------- MODULE MCNode -------------------------------
(***************************************************************************)
(* What happens around one node: the ladder an incident climbs, and what   *)
(* its steps and the janitors do to the node and undo again -- the quiesce *)
(* of the accelerator stack, and the cordon.  The components share no      *)
(* state here: one is chosen at the start and takes all the steps.         *)
(***************************************************************************)
EXTENDS IncidentWalk, HostRestore, NodeCordon, TLC

VARIABLE part

MCBook == {"reset", "reboot"}
MCStep == {"quiesce", "resetGPU", "resetAll", "rebootNode"}
MCNeedsApproval == {"resetGPU", "resetAll"}
MCRebootClass == {"rebootNode"}
MCFull == ("reset" :> <<"quiesce", "resetGPU">>) @@ ("reboot" :> <<"rebootNode">>)
MCEdited == ("reset" :> <<"quiesce", "resetAll">>) @@ ("reboot" :> <<"rebootNode">>)
MCDropped == ("reboot" :> <<"rebootNode">>)
MCEngines == {MCFull, MCEdited, MCDropped}
MCEscalateTo == ("reset" :> "reboot") @@ ("reboot" :> "reboot")
MCPolicyBook == [i \in WalkIncident |-> "reset"]
MCOneLimit == {[MaxConcurrentRemediations |-> 1, MaxConcurrentReboots |-> 1]}

MCGpuOf == [i \in HsIncident |-> IF i = "a" THEN "g0" ELSE "g1"]

NodeInit ==
    /\ part \in {"walk", "host", "cordon"}
    /\ Init /\ HostInit /\ CordonInit
    /\ part = "host" \/ \A i \in HsIncident : hsInc[i].state = "active"

NodeNext ==
    /\ UNCHANGED part
    /\ IF part = "walk" THEN Next ELSE UNCHANGED vars
    /\ IF part = "host" THEN HostNext ELSE UNCHANGED hsVars
    /\ IF part = "cordon" THEN CordonNext ELSE UNCHANGED ncVars

NodeSpec == NodeInit /\ [][NodeNext]_<<part, vars, hsVars, ncVars>>
=============================================================================
