---------------------------- MODULE MCOperations ----------------------------
(***************************************************************************)
(* What people and the operator do to a running installation: staged       *)
(* autonomy, diagnostics, idempotent operator requests, runtime contracts, *)
(* the configuration from resource to process, its compilation, and the    *)
(* certificates.  The components share no state here: one is chosen at the *)
(* start and takes all the steps.                                          *)
(***************************************************************************)
EXTENDS AutonomyRollout, HealthCheck, OperationalRequests, RuntimeContract,
        ConfigReload, SnapshotCompile, OperatorPki

VARIABLE part

MCSteps == <<3>>

\* Playbooks of version 2 do not fit the policies of version 1.
MCFits == {<<1, 1>>, <<2, 2>>, <<2, 1>>}

\* The three requests of a contract are alike, so each starts after the one before it;
\* two are open at a time.
InTurn ==
    /\ \A k \in RcKey \ {1} :
          rcCall[k] = NoRequest /\ rcCall'[k] # NoRequest => k - 1 \in rcKeys \/ rcCall[k - 1] # NoRequest
    /\ \E k \in RcKey : rcCall'[k] = NoRequest

OperationsInit ==
    /\ part \in {"rollout", "check", "request", "contract", "reload", "compile", "pki"}
    /\ AuInit /\ HcInit /\ OrInit /\ RcInit /\ ReloadInit /\ ScInit /\ PkiInit
    /\ auHardware
    /\ part = "request" \/ orTopic = CHOOSE t \in OrTopics : TRUE
    /\ part = "compile" \/ scTopic = "windows"
    /\ part = "pki" \/ \A role \in PkRole : pkSecret[role] = PkAbsent

OperationsNext ==
    /\ UNCHANGED part
    /\ IF part = "rollout" THEN AuNext ELSE UNCHANGED auVars
    /\ IF part = "check" THEN HcNext ELSE UNCHANGED hcVars
    /\ IF part = "request" THEN OrNext ELSE UNCHANGED orVars
    /\ IF part = "contract" THEN RcNext /\ InTurn ELSE UNCHANGED rcVars
    /\ IF part = "reload" THEN ReloadNext ELSE UNCHANGED crVars
    /\ IF part = "compile" THEN ScNext ELSE UNCHANGED scVars
    /\ IF part = "pki" THEN PkiNext ELSE UNCHANGED pkVars

OperationsSpec ==
    OperationsInit
        /\ [][OperationsNext]_<<part, auVars, hcVars, orVars, rcVars, crVars, scVars, pkVars>>
=============================================================================
