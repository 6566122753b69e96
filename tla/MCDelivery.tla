----------------------------- MODULE MCDelivery -----------------------------
(* What reaches a node and what is done there.  The parts share no state    *)
(* and one is chosen at the start: one action on one node without an        *)
(* emergency stop, but with a crash of the agent or a reboot under a new    *)
(* boot ID; the same with the stop and controller restarts, on one boot and *)
(* with an agent that does not die; the execution of actions by the agent;  *)
(* a drain; and the polled health series.                                   *)
EXTENDS MCActionDelivery, ActionExecutor, NodeDrain, HealthSeries

VARIABLE part

MCType == [i \in ExId |-> CASE i = "rst" -> "gpu_reset" [] i = "boot" -> "reboot" [] OTHER -> "restore"]
MCTarget == [i \in ExId |-> 0]
MCIndex == [i \in ExId |-> 0]
MCBootId == [i \in ExId |-> 1]
MCDelta == [v \in {"nvidia", "amd"} |-> IF v = "amd" THEN 2 ELSE 1]

SettingInit ==
    /\ part \in {"calm", "stop", "executor", "drain", "series"}
    /\ DeliveryInit /\ ExInit /\ DrInit /\ SeInit
    /\ part = "executor" \/ exArmed
    /\ part = "drain" \/ (drForce /\ \A p \in DrPod : drOwner[p] = "set" /\ drPod[p] = "here" /\ drOwn[p] = 1)
    /\ part = "series" \/ (seVendor = "nvidia" /\ seLevel = 0)

SettingNext ==
    /\ UNCHANGED part
    /\ \/ /\ part = "calm" /\ CalmNext
          /\ crashes' + boot'[n1] <= 2
       \/ part = "stop" /\ Next /\ UNCHANGED <<boot, crashes>>
       \/ part \notin {"calm", "stop"} /\ UNCHANGED vars
    /\ IF part = "executor" THEN ExNext ELSE UNCHANGED exVars
    /\ IF part = "drain" THEN DrNext \/ UNCHANGED drVars ELSE UNCHANGED drVars
    /\ IF part = "series" THEN SeNext \/ UNCHANGED seVars ELSE UNCHANGED seVars

SettingSpec == SettingInit /\ [][SettingNext]_<<part, vars, exVars, drVars, seVars>>
=============================================================================
