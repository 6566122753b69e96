---------------------------- MODULE MCAdmission ----------------------------
(***************************************************************************)
(* What may start: the action queue of the store, with a GPU reset stamped *)
(* with an incident and the unstamped host restore a janitor queues on one *)
(* node, and the slots of the safety gate, with two incidents on two       *)
(* targets that compete for them.  The two share no state: one is chosen   *)
(* at the start and takes all the steps.                                   *)
(***************************************************************************)
EXTENDS ActionQueue, IncidentWalk, TLC

CONSTANTS n1, reset, restore, i1

VARIABLE part

MCNode == {n1}
MCAction == {reset, restore}
MCNodeOf == [a \in MCAction |-> n1]
MCIncidentOf == [a \in MCAction |-> IF a = restore THEN NoIncident ELSE i1]
MCRestorative == {restore}

MCBook == {"reset", "reboot"}
MCStep == {"quiesce", "resetGPU", "resetAll", "rebootNode"}
MCRebootClass == {"rebootNode"}
MCFull == ("reset" :> <<"quiesce", "resetGPU">>) @@ ("reboot" :> <<"rebootNode">>)
MCOnly == {MCFull}
MCEscalateTo == ("reset" :> "reboot") @@ ("reboot" :> "reboot")
MCPolicyReboot == [i \in WalkIncident |-> "reboot"]
MCOne == [MaxConcurrentRemediations |-> 1, MaxConcurrentReboots |-> 1]
MCTwo == [MaxConcurrentRemediations |-> 2, MaxConcurrentReboots |-> 1]
MCLimits == {MCOne, MCTwo}
MCSymmetry == Permutations(WalkIncident) \cup Permutations(Target)

AdmissionInit ==
    /\ part \in {"queue", "gate"}
    /\ QueueInit /\ Init
    /\ part = "gate" \/ limits = MCOne

AdmissionNext ==
    /\ UNCHANGED part
    /\ IF part = "queue" THEN QueueNext ELSE UNCHANGED queueVars
    /\ IF part = "gate" THEN Next ELSE UNCHANGED vars

AdmissionSpec == AdmissionInit /\ [][AdmissionNext]_<<part, queueVars, vars>>
=============================================================================
