----------------------------- MODULE MCLiveness -----------------------------
(* An action that was queued settles, and a configuration that was written  *)
(* reaches the replica.  The two share no state: one is chosen at the start *)
(* and takes all the steps.                                                 *)
EXTENDS ActionDelivery, ConfigReload

CONSTANTS n1, reset, i1

VARIABLE part

MCNode == {n1}
MCAction == {reset}
MCNodeOf == [a \in Action |-> n1]
MCIncidentOf == [a \in Action |-> i1]
MCFits == {<<1, 1>>, <<3, 3>>, <<3, 1>>}

LivenessInit == part \in {"action", "reload"} /\ DeliveryInit /\ ReloadInit

LivenessNext ==
    /\ UNCHANGED part
    /\ IF part = "action" THEN CalmNext ELSE UNCHANGED vars
    /\ IF part = "reload" THEN ReloadNext ELSE UNCHANGED crVars

LivenessSpec == LivenessInit /\ [][LivenessNext]_<<part, vars, crVars>>
=============================================================================
