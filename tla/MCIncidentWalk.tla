--------------------------- MODULE MCIncidentWalk ---------------------------
(***************************************************************************)
(* Instances of IncidentWalk for TLC.  The reset ladder of the shipped     *)
(* playbooks, cut to the steps the properties tell apart: a quiesce, a     *)
(* reset that needs approval, and a reboot ladder to escalate to.  The     *)
(* other configurations edit the reset step, drop it, or drop the whole    *)
(* reset playbook.                                                         *)
(***************************************************************************)
EXTENDS IncidentWalk, TLC

MCBook == {"reset", "reboot"}
MCStep == {"quiesce", "resetGPU", "resetAll", "rebootNode"}
MCNeedsApproval == {"resetGPU", "resetAll"}
MCRebootClass == {"rebootNode"}
MCFull == ("reset" :> <<"quiesce", "resetGPU">>) @@ ("reboot" :> <<"rebootNode">>)
MCEdited == ("reset" :> <<"quiesce", "resetAll">>) @@ ("reboot" :> <<"rebootNode">>)
MCShort == ("reset" :> <<"quiesce">>) @@ ("reboot" :> <<"rebootNode">>)
MCDropped == ("reboot" :> <<"rebootNode">>)
MCEngines == {MCFull, MCEdited, MCDropped}
MCShortened == {MCFull, MCShort}
MCEscalateTo == ("reset" :> "reboot") @@ ("reboot" :> "reboot")
MCPolicyBook == [i \in WalkIncident |-> "reset"]
MCPolicyReboot == [i \in WalkIncident |-> "reboot"]
MCOne == [MaxConcurrentRemediations |-> 1, MaxConcurrentReboots |-> 1]
MCTwo == [MaxConcurrentRemediations |-> 2, MaxConcurrentReboots |-> 1]
MCOneLimit == {MCOne}
MCLimits == {MCOne, MCTwo}
MCOnly == {MCFull}
MCSymmetry == Permutations(WalkIncident) \cup Permutations(Target)

=============================================================================
