----------------------------- MODULE MCSettles -----------------------------
(* What must happen at last, for each component that waits for something.   *)
(* The components share no state here: one of them is chosen at the start   *)
(* and takes all the steps.  Every property has the fairness of its own     *)
(* component as a premise.                                                  *)
EXTENDS EventIntake, HostRestore, NodeCordon, DegradedTaint, Checkpoint, AutonomyRollout, HealthCheck

VARIABLE part

MCFaultAt == [b \in 0 .. MaxEvBoot |-> [s \in 1 .. MaxSeq |-> "ecc"]]
MCGpuOf == [i \in HsIncident |-> "g0"]
MCGrant == [p \in CkPod |-> 2]
MCSteps == <<2>>

\* A node cordoned by a controller that kept no owner record.
MCOldRecords == {{}}

SettlesInit ==
    /\ part \in {"events", "host", "cordon", "taint", "checkpoint", "rollout", "check"}
    /\ EventInit /\ HostInit /\ CordonInit /\ DtInit /\ CkInit /\ AuInit /\ HcInit
    /\ part = "host" \/ \A i \in HsIncident : hsInc[i].state = "active"
    /\ part = "cordon" \/ InitNew
    /\ part = "rollout" \/ auHardware

SettlesNext ==
    /\ UNCHANGED part
    /\ IF part = "events" THEN EventNext ELSE UNCHANGED eventVars
    /\ IF part = "host" THEN PromptNext ELSE UNCHANGED hsVars
    /\ IF part = "cordon" THEN CordonNext ELSE UNCHANGED ncVars
    /\ IF part = "taint" THEN DtNext ELSE UNCHANGED dtVars
    /\ IF part = "checkpoint" THEN CkNext ELSE UNCHANGED ckVars
    /\ IF part = "rollout" THEN AuNext ELSE UNCHANGED auVars
    /\ IF part = "check" THEN HcNext ELSE UNCHANGED hcVars

SettlesSpec ==
    SettlesInit /\ [][SettlesNext]_<<part, eventVars, hsVars, ncVars, dtVars, ckVars, auVars, hcVars>>
=============================================================================
