----------------------------- MODULE MCRecords -----------------------------
(***************************************************************************)
(* What is written down and must be true when it is read back: the agent's *)
(* action journal and event spool as files, an event from the kernel log   *)
(* to the controller's outbox, the state file of bare-metal cordons, the   *)
(* degraded taint of a node and the checkpoint window on a pod.  The       *)
(* components share no state here: one is chosen at the start and takes    *)
(* all the steps.  The event path has two parts that only the archive      *)
(* connects: the node with its log, cursor and spool ("node"), and the     *)
(* outbox with two controllers and the deliveries of two lines ("drain").  *)
(***************************************************************************)
EXTENDS JournalFile, SpoolFile, EventIntake, BareMetalCordon, DegradedTaint, Checkpoint

VARIABLE part

MCMaxClaims == <<2, 1, 0>>
MCGrant == [p \in CkPod |-> 2]

\* "odd" opens no incident, "both" claims two identities and is rejected.
MCFaultAt ==
    [b \in 0 .. MaxEvBoot |->
        [s \in 1 .. MaxSeq |-> IF s = 2 THEN "odd" ELSE IF b = 1 THEN "both" ELSE "ecc"]]

NodePart ==
    \/ PrintLine \/ RingOverwrites \/ AgentNext
    \/ \E e \in wire : LateArrival(e) \/ RequestLost(e)

Steady == evBoot' = evBoot /\ ringLow' = ringLow /\ printed' <= 2 /\ (watch.open => watch'.open)

RecordsInit ==
    /\ part \in {"journal", "spool", "node", "drain", "metal", "taint", "checkpoint"}
    /\ JournalInit /\ SpoolInit /\ EventInit /\ BmInit /\ DtInit /\ CkInit

RecordsNext ==
    /\ UNCHANGED part
    /\ IF part = "journal" THEN JournalNext ELSE UNCHANGED vars
    /\ IF part = "spool" THEN SpoolNext ELSE UNCHANGED spVars
    /\ \/ part = "node" /\ NodePart
       \/ part = "drain" /\ EventNext /\ Steady
       \/ part \notin {"node", "drain"} /\ UNCHANGED eventVars
    /\ IF part = "metal" THEN BmNext ELSE UNCHANGED bmVars
    /\ IF part = "taint" THEN DtNext ELSE UNCHANGED dtVars
    /\ IF part = "checkpoint" THEN CkNext ELSE UNCHANGED ckVars

RecordsSpec ==
    RecordsInit /\ [][RecordsNext]_<<part, vars, spVars, eventVars, bmVars, dtVars, ckVars>>
=============================================================================
