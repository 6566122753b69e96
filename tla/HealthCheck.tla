---------------------------- MODULE HealthCheck ----------------------------
(***************************************************************************)
(* Operator-requested diagnostics of one node.  A request is answered from *)
(* its idempotency key or, under the manager's mutex, checked against the  *)
(* node's limit, reserved, recorded as a run and only then queued for the  *)
(* agent.  A reconciler observes the queued action, an operator may cancel *)
(* it, and the agent leases and runs it meanwhile.                         *)
(* Source: internal/operations/operations.go, CreateHealthCheck to         *)
(* ReconcileHealthChecks.                                                  *)
(***************************************************************************)
EXTENDS Naturals, FiniteSets

CONSTANTS HcKey,        \* idempotency keys of requests for the node, one run each
          HcPassive,    \* the keys whose profile is Passive
          HcTry,        \* handler threads
          MaxNodeActive,\* maxNodeActiveDiagnostics
          MaxHcLease,   \* bound: leases of an action before it is dead
          MaxHcTrouble  \* bound: crashes and failing calls

ASSUME HealthCheckAssumption ==
  IsFiniteSet(HcKey) /\ MaxNodeActive \in Nat /\ "free" \notin HcTry

VARIABLES hcKey,      \* key -> its reservation exists
          hcRun,      \* key -> state of its durable run
          hcAct,      \* key -> state of its queued action
          hcLeases,   \* key -> leases granted so far
          hcOverdue,  \* key -> the run's deadline has passed
          hcTry,      \* thread -> its place and key
          hcMu,       \* the thread holding diagnosticMu, or "free"
          hcRec,      \* the reconciler: place, key, whether its copy is current, verdict
          hcCancel,   \* the cancel handler: place, key, whether its copy is current
          hcTrouble,
          hcQueued,   \* key -> times an action was enqueued
          hcClaims    \* key -> the operator was told it ended "before agent claim"

hcVars == <<hcKey, hcRun, hcAct, hcLeases, hcOverdue, hcTry, hcMu, hcRec, hcCancel,
            hcTrouble, hcQueued, hcClaims>>

HcOff == [pc |-> "off", key |-> "-"]
HcRest == [pc |-> "off", key |-> "-", fresh |-> FALSE, verdict |-> "-"]

HcInit ==
  /\ hcKey = [k \in HcKey |-> FALSE] /\ hcRun = [k \in HcKey |-> "none"]
  /\ hcAct = [k \in HcKey |-> "none"] /\ hcLeases = [k \in HcKey |-> 0]
  /\ hcOverdue = [k \in HcKey |-> FALSE] /\ hcTry = [t \in HcTry |-> HcOff] /\ hcMu = "free"
  /\ hcRec = HcRest /\ hcCancel = HcRest /\ hcTrouble = 0
  /\ hcQueued = [k \in HcKey |-> 0] /\ hcClaims = [k \in HcKey |-> FALSE]

HcMishap == hcTrouble < MaxHcTrouble /\ hcTrouble' = hcTrouble + 1

(* A save of run k by one process makes the others' copies of it stale. *)
StaleFor(who, k) == IF who.key = k THEN [who EXCEPT !.fresh = FALSE] ELSE who

----------------------------------------------------------------------------
(* CreateHealthCheck.                                                      *)

(* The lookup before any work: a known key answers with its run. *)
HcLookup(t, k) ==
  /\ hcTry[t].pc = "off" /\ ~hcKey[k]
  /\ hcTry' = [hcTry EXCEPT ![t] = [pc |-> "snapshot", key |-> k]]
  /\ UNCHANGED <<hcKey, hcRun, hcAct, hcLeases, hcOverdue, hcMu, hcRec, hcCancel, hcTrouble,
                 hcQueued, hcClaims>>

(* Mutant: the queued runs are not counted once the mutex is held. *)
checkNothing(k) == TRUE

(* Queued runs of the node leave room for this one; Passive needs none. *)
checkDiagnosticConcurrency(k) ==
  k \in HcPassive \/ Cardinality({j \in HcKey : hcRun[j] = "queued"}) < MaxNodeActive

(* The mutex is taken and the key looked up again; a request that came     *)
(* second is answered by the first one's run, one without room is refused. *)
HcLocks(t) ==
  /\ hcTry[t].pc = "snapshot" /\ hcMu = "free"
  /\ LET k == hcTry[t].key IN
     IF ~hcKey[k] /\ checkDiagnosticConcurrency(k)
     THEN hcMu' = t /\ hcTry' = [hcTry EXCEPT ![t].pc = "reserve"]
     ELSE UNCHANGED hcMu /\ hcTry' = [hcTry EXCEPT ![t] = HcOff]
  /\ UNCHANGED <<hcKey, hcRun, hcAct, hcLeases, hcOverdue, hcRec, hcCancel, hcTrouble,
                 hcQueued, hcClaims>>

(* PutOperationalIdempotency, then the decision is captured, which may     *)
(* fail and leave the key with no run behind it.                           *)
HcReserves(t) ==
  LET k == hcTry[t].key IN
  /\ hcTry[t].pc = "reserve"
  /\ hcKey' = [hcKey EXCEPT ![k] = TRUE]
  /\ \/ /\ hcTry' = [hcTry EXCEPT ![t].pc = "create"]
        /\ UNCHANGED <<hcMu, hcTrouble>>
     \/ /\ HcMishap
        /\ hcTry' = [hcTry EXCEPT ![t] = HcOff] /\ hcMu' = "free"
  /\ UNCHANGED <<hcRun, hcAct, hcLeases, hcOverdue, hcRec, hcCancel, hcQueued, hcClaims>>

(* The run and its audit record come first: completed when Passive,        *)
(* blocked when the decision is no permit, queued otherwise.               *)
HcCreates(t) ==
  LET k == hcTry[t].key IN
  /\ hcTry[t].pc = "create"
  /\ \E state \in IF k \in HcPassive THEN {"completed"} ELSE {"blocked", "queued"} :
       \/ /\ hcRun' = [hcRun EXCEPT ![k] = state] /\ UNCHANGED hcTrouble
          /\ IF state = "queued"
             THEN hcTry' = [hcTry EXCEPT ![t].pc = "enqueue"] /\ UNCHANGED hcMu
             ELSE hcTry' = [hcTry EXCEPT ![t] = HcOff] /\ hcMu' = "free"
       \/ /\ HcMishap                         \* the create fails, or its audit record
          /\ hcRun' \in {hcRun, [hcRun EXCEPT ![k] = state]}
          /\ hcTry' = [hcTry EXCEPT ![t] = HcOff] /\ hcMu' = "free"
  /\ UNCHANGED <<hcKey, hcAct, hcLeases, hcOverdue, hcRec, hcCancel, hcQueued, hcClaims>>

(* EnqueueAction; a failure is written into the run, under its version.    *)
HcEnqueues(t) ==
  LET k == hcTry[t].key IN
  /\ hcTry[t].pc = "enqueue"
  /\ hcTry' = [hcTry EXCEPT ![t] = HcOff] /\ hcMu' = "free"
  /\ \/ /\ hcAct' = [hcAct EXCEPT ![k] = "pending"]
        /\ hcQueued' = [hcQueued EXCEPT ![k] = @ + 1]
        /\ UNCHANGED <<hcRun, hcRec, hcCancel, hcTrouble>>
     \/ /\ HcMishap
        /\ IF hcRun[k] = "queued"
           THEN /\ hcRun' = [hcRun EXCEPT ![k] = "failed"]
                /\ hcRec' = StaleFor(hcRec, k) /\ hcCancel' = StaleFor(hcCancel, k)
           ELSE UNCHANGED <<hcRun, hcRec, hcCancel>>
        /\ UNCHANGED <<hcAct, hcQueued>>
  /\ UNCHANGED <<hcKey, hcLeases, hcOverdue, hcClaims>>

----------------------------------------------------------------------------
(* CancelHealthCheckRequest: reserved for a queued run, the action is      *)
(* tombstoned only while it is pending, and the run follows.  A repeat of  *)
(* the request reads the run and changes nothing.                          *)

HcCancelReserves(k) ==
  /\ hcCancel.pc = "off" /\ hcRun[k] = "queued"
  /\ hcCancel' = [HcRest EXCEPT !.pc = "cancel", !.key = k, !.fresh = TRUE]
  /\ UNCHANGED <<hcKey, hcRun, hcAct, hcLeases, hcOverdue, hcTry, hcMu, hcRec, hcTrouble,
                 hcQueued, hcClaims>>

cancellable(a) == a = "pending"

HcCancelPendingAction ==
  LET k == hcCancel.key IN
  /\ hcCancel.pc = "cancel"
  /\ IF cancellable(hcAct[k]) /\ hcCancel.fresh
     THEN /\ hcAct' = [hcAct EXCEPT ![k] = "cancelled"]
          /\ hcCancel' = [hcCancel EXCEPT !.pc = "save"]
     ELSE UNCHANGED hcAct /\ hcCancel' = HcRest
  /\ UNCHANGED <<hcKey, hcRun, hcLeases, hcOverdue, hcTry, hcMu, hcRec, hcTrouble, hcQueued, hcClaims>>

HcCancelSaves ==
  LET k == hcCancel.key IN
  /\ hcCancel.pc = "save" /\ hcCancel' = HcRest
  /\ IF hcCancel.fresh
     THEN /\ hcRun' = [hcRun EXCEPT ![k] = "cancelled"]
          /\ hcClaims' = [hcClaims EXCEPT ![k] = TRUE]
          /\ hcRec' = StaleFor(hcRec, k)
     ELSE UNCHANGED <<hcRun, hcClaims, hcRec>>
  /\ UNCHANGED <<hcKey, hcAct, hcLeases, hcOverdue, hcTry, hcMu, hcTrouble, hcQueued>>

----------------------------------------------------------------------------
(* ReconcileHealthChecks: one queued run of the listing.                   *)

HcLists(k) ==
  /\ hcRec.pc = "off" /\ hcRun[k] = "queued"
  /\ hcRec' = [HcRest EXCEPT !.pc = "judge", !.key = k, !.fresh = TRUE]
  /\ UNCHANGED <<hcKey, hcRun, hcAct, hcLeases, hcOverdue, hcTry, hcMu, hcCancel, hcTrouble,
                 hcQueued, hcClaims>>

(* Mutant: a run whose action was never recorded is left for later. *)
verdictsIgnoringLoss(k) ==
  CASE hcAct[k] = "none"      -> {"-"}
    [] hcAct[k] = "cancelled" -> {"cancelled"}
    [] hcAct[k] = "done"      -> {"completed", "failed"}
    [] hcAct[k] = "dead"      -> {"failed"}
    [] OTHER -> {IF hcOverdue[k] THEN "timed_out" ELSE "-"}

(* What the action's state makes of the run; "-" leaves it queued. *)
verdicts(k) ==
  CASE hcAct[k] = "none"      -> {"failed"}       \* the record disappeared
    [] hcAct[k] = "cancelled" -> {"cancelled"}
    [] hcAct[k] = "done"      -> {"completed", "failed"}
    [] hcAct[k] = "dead"      -> {"failed"}
    [] OTHER -> {IF hcOverdue[k] THEN "timed_out" ELSE "-"}

(* An overdue action is cancelled if it is still pending. *)
HcJudges ==
  LET k == hcRec.key IN
  /\ hcRec.pc = "judge"
  /\ \E v \in verdicts(k) :
       /\ hcRec' = IF v = "-" THEN HcRest ELSE [hcRec EXCEPT !.pc = "write", !.verdict = v]
       /\ hcAct' = IF v = "timed_out" /\ hcAct[k] = "pending"
                   THEN [hcAct EXCEPT ![k] = "cancelled"] ELSE hcAct
  /\ UNCHANGED <<hcKey, hcRun, hcLeases, hcOverdue, hcTry, hcMu, hcCancel, hcTrouble,
                 hcQueued, hcClaims>>

HcWrites ==
  LET k == hcRec.key IN
  /\ hcRec.pc = "write" /\ hcRec' = HcRest
  /\ IF hcRec.fresh
     THEN hcRun' = [hcRun EXCEPT ![k] = hcRec.verdict] /\ hcCancel' = StaleFor(hcCancel, k)
     ELSE UNCHANGED <<hcRun, hcCancel>>
  /\ UNCHANGED <<hcKey, hcAct, hcLeases, hcOverdue, hcTry, hcMu, hcTrouble, hcQueued, hcClaims>>

----------------------------------------------------------------------------
(* The agent's side of the queue, the emergency stop, time and crashes.    *)

HcAgentClaims(k) ==
  /\ hcAct[k] \in {"pending", "lapsed"} /\ hcLeases[k] < MaxHcLease
  /\ hcAct' = [hcAct EXCEPT ![k] = "leased"] /\ hcLeases' = [hcLeases EXCEPT ![k] = @ + 1]
  /\ UNCHANGED <<hcKey, hcRun, hcOverdue, hcTry, hcMu, hcRec, hcCancel, hcTrouble, hcQueued, hcClaims>>

HcActMoves(k, from, to) ==
  /\ hcAct[k] = from /\ hcAct' = [hcAct EXCEPT ![k] = to]
  /\ UNCHANGED <<hcKey, hcRun, hcLeases, hcOverdue, hcTry, hcMu, hcRec, hcCancel, hcTrouble,
                 hcQueued, hcClaims>>

HcAgentReports(k) == HcActMoves(k, "leased", "done")
HcLeaseLapses(k)  == HcActMoves(k, "leased", "lapsed")
HcBuries(k)       == hcLeases[k] = MaxHcLease /\ HcActMoves(k, "lapsed", "dead")

(* CancelPendingActionsForSafetyStop spares only a live lease. *)
HcSafetyStop ==
  /\ \E k \in HcKey : hcAct[k] \in {"pending", "lapsed"}
  /\ HcMishap
  /\ hcAct' = [k \in HcKey |-> IF hcAct[k] \in {"pending", "lapsed"} THEN "cancelled" ELSE hcAct[k]]
  /\ UNCHANGED <<hcKey, hcRun, hcLeases, hcOverdue, hcTry, hcMu, hcRec, hcCancel, hcQueued, hcClaims>>

HcDeadlinePasses(k) ==
  /\ hcRun[k] = "queued" /\ ~hcOverdue[k] /\ hcOverdue' = [hcOverdue EXCEPT ![k] = TRUE]
  /\ UNCHANGED <<hcKey, hcRun, hcAct, hcLeases, hcTry, hcMu, hcRec, hcCancel, hcTrouble,
                 hcQueued, hcClaims>>

HcCrash ==
  /\ HcMishap
  /\ hcTry' = [t \in HcTry |-> HcOff] /\ hcMu' = "free" /\ hcRec' = HcRest /\ hcCancel' = HcRest
  /\ UNCHANGED <<hcKey, hcRun, hcAct, hcLeases, hcOverdue, hcQueued, hcClaims>>

HcHandlers(t) ==
  \/ \E k \in HcKey : HcLookup(t, k)
  \/ HcLocks(t) \/ HcReserves(t) \/ HcCreates(t) \/ HcEnqueues(t)

HcReconciles(k) == HcLists(k) \/ (hcRec.key = k /\ (HcJudges \/ HcWrites))

HcNext ==
  \/ \E t \in HcTry : HcHandlers(t)
  \/ HcCancelPendingAction \/ HcCancelSaves \/ HcSafetyStop \/ HcCrash
  \/ \E k \in HcKey : \/ HcCancelReserves(k) \/ HcReconciles(k)
                      \/ HcAgentClaims(k) \/ HcAgentReports(k) \/ HcLeaseLapses(k) \/ HcBuries(k)
                      \/ HcDeadlinePasses(k)

HcSpec == HcInit /\ [][HcNext]_hcVars

(* Every tick lists and judges every queued run, and deadlines pass. *)
HcFairness == \A k \in HcKey : SF_hcVars(HcReconciles(k)) /\ WF_hcVars(HcDeadlinePasses(k))

----------------------------------------------------------------------------
(* Runs and work are accounted for: the node never has more queued runs    *)
(* than the limit, however two handlers, a retry of the same key and the   *)
(* reconciler interleave (CreateHealthCheck holds diagnosticMu from the    *)
(* count to the record); no action is ever in the queue without the        *)
(* durable run that explains it, and a key queues at most one.             *)
RunsAreAccounted ==
  /\ Cardinality({k \in HcKey : hcRun[k] = "queued"}) <= MaxNodeActive
  /\ \A k \in HcKey : /\ hcQueued[k] <= 1
                      /\ hcAct[k] # "none" => hcKey[k] /\ hcRun[k] # "none"

(* A run its operator saw cancelled "before agent claim" was never leased  *)
(* by an agent (CancelHealthCheck tombstones only a pending action).       *)
CancelMeansUnclaimed ==
  \A k \in HcKey : hcClaims[k] => hcLeases[k] = 0

(* Every queued run ends: by its result, a cancellation, the retry budget  *)
(* or its deadline, also when its action was never queued                  *)
(* (ReconcileHealthChecks).                                                *)
DiagnosticEnds == HcFairness => \A k \in HcKey : hcRun[k] = "queued" ~> hcRun[k] # "queued"

=============================================================================
