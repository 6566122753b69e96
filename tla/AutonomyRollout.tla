--------------------------- MODULE AutonomyRollout ---------------------------
(***************************************************************************)
(* One GPU autonomy plan: its envelope (simulated, approved by distinct    *)
(* people, active, stopped), the rollout that admits it to nodes batch by  *)
(* batch with a bake after each, and the effect record that hands a node   *)
(* to the hardware executor.  Source: internal/operations/autonomy.go.     *)
(*                                                                         *)
(* Two controllers reconcile the plan while people pause, roll back and    *)
(* resume it.  Every record is saved with a version test; what matters of  *)
(* a version is only whether the copy a controller holds is still current, *)
(* so each controller has a "fresh" flag per record that every save by     *)
(* someone else clears.                                                    *)
(***************************************************************************)
EXTENDS Naturals, FiniteSets, FiniteSetsExt, Sequences

CONSTANTS Controller,      \* processes that run ReconcileAutonomy
          AuNode,          \* the nodes the selector matches: 1..n, in name order
          Person, Role,    \* who may approve, and the roles the plan requires
          CanaryNodes,     \* plan.Rollout.CanaryNodes
          ExpansionSteps,  \* plan.Rollout.ExpansionSteps
          MaxConcurrentNodes, MaxActionsPerHour, ErrorBudget,
          MaxHour,         \* bound: hours that pass while the plan lives
          MaxResume,       \* bound: how often the plan is resumed
          MaxAuTrouble     \* bound: crashes, failed reads and denied decisions

ASSUME AutonomyAssumption ==
  /\ AuNode \subseteq Nat /\ IsFiniteSet(AuNode)
  /\ CanaryNodes \in Nat /\ MaxConcurrentNodes \in Nat
  /\ ExpansionSteps \in Seq(Nat)
  /\ ErrorBudget \in Nat /\ MaxResume \in Nat /\ MaxAuTrouble \in Nat

VARIABLES auState,      \* the plan's durable state
          auApproval,   \* Role -> who approved it, or "nobody"
          auExpired,    \* the clock has passed plan.ExpiresAt
          auHardware,   \* a hardware-qualified executor is wired in
          auRollout,    \* the durable rollout record
          auHour,       \* the hour it is
          auEffect,     \* AuNode -> state of its durable effect record
          auRec,        \* Controller -> where it is and what it holds
          auNote,       \* a handler still owes the rollout its state update
          auResumes, auTrouble,
          auCalls,      \* AuNode -> times the executor was called for it
          auLate        \* executor calls since the plan was last stopped

auPlanVars  == <<auState, auApproval, auExpired, auHardware>>
auBoundVars == <<auHour, auResumes, auTrouble>>
auGhostVars == <<auCalls, auLate>>
auVars == <<auPlanVars, auBoundVars, auGhostVars, auRollout, auEffect, auRec, auNote>>

AuTerminal == {"RolledBack", "Expired"}
AuStopped  == {"Paused", "RolledBack", "Expired"}
AuAdmits   == {"Canary", "Expanding"}

EmptyRollout == [canary |-> {}, expanded |-> {}, bake |-> "none",
                 window |-> 0, spent |-> 0, failures |-> 0]
AuResting == [pc |-> "idle", seen |-> "-", planFresh |-> FALSE, rollout |-> EmptyRollout,
              rolloutFresh |-> FALSE, batch |-> {}, todo |-> {}, effectFresh |-> FALSE,
              target |-> "-"]

AuInit ==
  /\ auState = "Draft" /\ auApproval = [r \in Role |-> "nobody"] /\ auExpired = FALSE
  /\ auHardware \in BOOLEAN /\ auRollout = EmptyRollout /\ auHour = 0
  /\ auEffect = [n \in AuNode |-> "none"] /\ auRec = [c \in Controller |-> AuResting]
  /\ auNote = FALSE /\ auResumes = 0 /\ auTrouble = 0
  /\ auCalls = [n \in AuNode |-> 0] /\ auLate = 0

allRolesApproved == \A r \in Role : auApproval[r] # "nobody"

AuMishap == auTrouble < MaxAuTrouble /\ auTrouble' = auTrouble + 1

----------------------------------------------------------------------------
(* Saving a record: the writer goes on as `me', and whoever else holds a   *)
(* copy of the record holds a stale one from now on.                       *)

AuGoesOn(c, me) == auRec' = [auRec EXCEPT ![c] = me]

SavedPlan(c, me) ==
  auRec' = [d \in Controller |-> IF d = c THEN me ELSE [auRec[d] EXCEPT !.planFresh = FALSE]]

SavedRollout(c, me) ==
  auRec' = [d \in Controller |-> IF d = c THEN me ELSE [auRec[d] EXCEPT !.rolloutFresh = FALSE]]

Current(me) == Min(me.todo)

SavedEffect(c, me, n) ==
  auRec' = [d \in Controller |->
              IF d = c THEN me
              ELSE IF auRec[d].pc = "claim" /\ Current(auRec[d]) = n
              THEN [auRec[d] EXCEPT !.effectFresh = FALSE] ELSE auRec[d]]

(* A save of the rollout is refused unless the copy is the current version. *)
saveAutonomyRolloutOK(me) == me.rolloutFresh

(* Mutant: the plan that was listed is trusted to the end of its batch. *)
envelopeTrusted(me) == allRolesApproved

(* The last durable-state fence before an effect: the plan is the very     *)
(* revision that was listed, still admits work, has not expired and is     *)
(* approved.                                                               *)
ensureAutonomyEffectEnvelope(me) ==
  /\ me.planFresh /\ auState = me.seen /\ auState \in AuAdmits
  /\ ~auExpired /\ allRolesApproved

(* moveAutonomyPlan and transitionAutonomyPlan only change the revision    *)
(* the caller evaluated.                                                   *)
movableRevision(me) == me.planFresh

(* The first n nodes of a set, in name order. *)
FirstNodes(S, n) == {x \in S : Cardinality({y \in S : y < x}) < n}

Used(rollout) == rollout.canary \cup rollout.expanded

(* The first expansion step the nodes used so far do not reach; 0 if none. *)
nextAutonomyExpansionTarget(rollout) ==
  LET left == {i \in DOMAIN ExpansionSteps : Cardinality(Used(rollout)) < ExpansionSteps[i]}
  IN IF left = {} THEN 0 ELSE ExpansionSteps[Min(left)]

----------------------------------------------------------------------------
(* ReconcileAutonomy: what a listed plan calls for.                        *)

(* Mutant: a paused plan is skipped before its expiry is looked at. *)
ListSkipsPaused(c) ==
  /\ auRec[c].pc = "idle" /\ auState \notin AuTerminal \cup {"Paused"}
  /\ LET listed == [AuResting EXCEPT !.seen = auState, !.planFresh = TRUE]
     IN \/ /\ auExpired
           /\ AuGoesOn(c, [listed EXCEPT !.pc = "stop", !.target = "Expired"])
        \/ /\ ~auExpired /\ auState \in AuAdmits
           /\ AuGoesOn(c, [listed EXCEPT !.pc = "select"])
        \/ /\ ~auExpired /\ auState = "Baking"
           /\ AuGoesOn(c, [listed EXCEPT !.pc = "bake"])
  /\ UNCHANGED <<auPlanVars, auBoundVars, auGhostVars, auRollout, auEffect, auNote>>

ListAutonomyPlans(c) ==
  /\ auRec[c].pc = "idle" /\ auState \notin AuTerminal
  /\ LET listed == [AuResting EXCEPT !.seen = auState, !.planFresh = TRUE]
     IN \/ /\ auExpired
           /\ AuGoesOn(c, [listed EXCEPT !.pc = "stop", !.target = "Expired"])
        \/ /\ ~auExpired /\ auState \in AuAdmits
           /\ AuGoesOn(c, [listed EXCEPT !.pc = "select"])
        \/ /\ ~auExpired /\ auState = "Baking"
           /\ AuGoesOn(c, [listed EXCEPT !.pc = "bake"])
  /\ UNCHANGED <<auPlanVars, auBoundVars, auGhostVars, auRollout, auEffect, auNote>>

(* A pass that ends in an error: a canary is stopped, by rollback when its *)
(* failures passed the error budget; an expansion is left as it is.        *)
PassFails(me, failures) ==
  IF me.seen = "Canary"
  THEN [AuResting EXCEPT !.pc = "stop", !.seen = me.seen, !.planFresh = me.planFresh,
          !.target = IF failures > ErrorBudget THEN "RolledBack" ELSE "Paused"]
  ELSE AuResting

(* getAutonomyRollout at the head of admitAutonomyTargets; the hourly      *)
(* window is renewed in the copy.                                          *)
OpenedBatch(me, batch) ==
  [me EXCEPT !.pc = "target", !.batch = batch, !.todo = batch, !.rolloutFresh = TRUE,
     !.rollout = IF auHour > auRollout.window
                 THEN [auRollout EXCEPT !.window = auHour, !.spent = 0] ELSE auRollout]

admitAutonomyCanary(c) ==
  LET me == auRec[c] IN
  /\ me.pc = "select" /\ me.seen = "Canary"
  /\ \/ /\ Cardinality(AuNode) >= CanaryNodes
        /\ AuGoesOn(c, OpenedBatch(me, FirstNodes(AuNode, CanaryNodes)))
        /\ UNCHANGED auTrouble
     \/ /\ AuMishap                          \* no inventory, or too few nodes in it
        /\ AuGoesOn(c, PassFails(me, auRollout.failures))
  /\ UNCHANGED <<auPlanVars, auHour, auResumes, auGhostVars, auRollout, auEffect, auNote>>

(* The batch is chosen from one read of the rollout and opened on another. *)
admitAutonomyExpansion(c) ==
  LET me == auRec[c]
      target == nextAutonomyExpansionTarget(auRollout)
      free == AuNode \ Used(auRollout)
      need == target - Cardinality(Used(auRollout))
  IN
  /\ me.pc = "select" /\ me.seen = "Expanding"
  /\ \/ /\ target = 0
        /\ AuGoesOn(c, [me EXCEPT !.pc = "move", !.target = "Enabled"])
        /\ UNCHANGED auTrouble
     \/ /\ target # 0 /\ Cardinality(free) >= need
        /\ AuGoesOn(c, [me EXCEPT !.pc = "open",
                          !.batch = FirstNodes(free, Min({need, MaxConcurrentNodes}))])
        /\ UNCHANGED auTrouble
     \/ /\ target # 0 /\ AuMishap            \* no inventory, or too few nodes in it
        /\ AuGoesOn(c, AuResting)
  /\ UNCHANGED <<auPlanVars, auHour, auResumes, auGhostVars, auRollout, auEffect, auNote>>

openExpansion(c) ==
  /\ auRec[c].pc = "open"
  /\ AuGoesOn(c, OpenedBatch(auRec[c], auRec[c].batch))
  /\ UNCHANGED <<auPlanVars, auBoundVars, auGhostVars, auRollout, auEffect, auNote>>

(* admitAutonomyTargets, up to the executor: the envelope is read again, a *)
(* decision captured, and the hourly slot spent and saved.  A stop that    *)
(* lands between that read and that save is met by the later fence just as *)
(* one that lands right after the save, so the three are one step.         *)
admitAutonomyTarget(c) ==
  LET me == auRec[c]
      spent == [me.rollout EXCEPT !.spent = @ + 1]
  IN
  /\ me.pc = "target" /\ me.todo # {}
  /\ \/ /\ ~ensureAutonomyEffectEnvelope(me)
        /\ AuGoesOn(c, PassFails(me, auRollout.failures))
        /\ UNCHANGED <<auRollout, auTrouble>>
     \/ /\ ensureAutonomyEffectEnvelope(me)  \* the decision is not a permit
        /\ IF me.rollout.spent >= MaxActionsPerHour THEN UNCHANGED auTrouble ELSE AuMishap
        /\ IF saveAutonomyRolloutOK(me)
           THEN auRollout' = me.rollout /\ SavedRollout(c, PassFails(me, me.rollout.failures))
           ELSE UNCHANGED auRollout /\ AuGoesOn(c, PassFails(me, auRollout.failures))
     \/ /\ ensureAutonomyEffectEnvelope(me) /\ me.rollout.spent < MaxActionsPerHour
        /\ auHardware
        /\ IF saveAutonomyRolloutOK(me)
           THEN /\ auRollout' = spent
                /\ SavedRollout(c, [me EXCEPT !.pc = "effect", !.rollout = spent])
           ELSE UNCHANGED auRollout /\ AuGoesOn(c, PassFails(me, auRollout.failures))
        /\ UNCHANGED auTrouble
     \/ /\ ensureAutonomyEffectEnvelope(me) /\ me.rollout.spent < MaxActionsPerHour
        /\ ~auHardware                        \* the node is recorded as simulation-only
        /\ AuGoesOn(c, [me EXCEPT !.todo = @ \ {Current(me)}])
        /\ UNCHANGED <<auRollout, auTrouble>>
  /\ UNCHANGED <<auPlanVars, auHour, auResumes, auGhostVars, auEffect, auNote>>

----------------------------------------------------------------------------
(* executeAutonomyEffect: the durable hand-off of one node.                *)

NextTarget(me) == [me EXCEPT !.pc = "target", !.todo = @ \ {Current(me)}, !.effectFresh = FALSE]

(* Mutant: an uncertain dispatch is taken up again. *)
dispatchableAgain(state) == state \in {"admitted", "executing"}

(* Which recorded states a later attempt may take up and dispatch. *)
dispatchable(state) == state = "admitted"

loadAutonomyEffect(c) ==
  LET me == auRec[c]
      n == Current(me)
  IN
  /\ me.pc = "effect"
  /\ \/ /\ auEffect[n] = "none"
        /\ auEffect' = [auEffect EXCEPT ![n] = "admitted"]
        /\ \/ AuGoesOn(c, [me EXCEPT !.pc = "claim", !.effectFresh = TRUE]) /\ UNCHANGED auTrouble
           \/ AuGoesOn(c, [me EXCEPT !.pc = "fail"]) /\ AuMishap  \* its audit record fails
     \/ /\ dispatchable(auEffect[n])
        /\ UNCHANGED <<auEffect, auTrouble>>
        /\ AuGoesOn(c, [me EXCEPT !.pc = "claim", !.effectFresh = TRUE])
     \/ /\ auEffect[n] = "accepted"
        /\ UNCHANGED <<auEffect, auTrouble>>
        /\ AuGoesOn(c, NextTarget(me))
     \/ /\ auEffect[n] \notin {"none", "accepted"} /\ ~dispatchable(auEffect[n])
        /\ UNCHANGED <<auEffect, auTrouble>>  \* failed, blocked, or uncertain
        /\ AuGoesOn(c, [me EXCEPT !.pc = "fail"])
  /\ UNCHANGED <<auPlanVars, auHour, auResumes, auGhostVars, auRollout, auNote>>

(* The version test of the save that claims the dispatch. *)
claimOK(me) == me.effectFresh

claimAutonomyEffect(c) ==
  LET me == auRec[c]
      n == Current(me)
      claimed == [auEffect EXCEPT ![n] = "executing"]
  IN
  /\ me.pc = "claim"
  /\ \/ /\ claimOK(me)
        /\ auEffect' = claimed /\ SavedEffect(c, [me EXCEPT !.pc = "fence"], n)
        /\ UNCHANGED auTrouble
     \/ /\ claimOK(me) /\ AuMishap            \* claimed, but its audit record is not
        /\ auEffect' = claimed /\ SavedEffect(c, [me EXCEPT !.pc = "fail"], n)
     \/ /\ ~claimOK(me)
        /\ AuGoesOn(c, [me EXCEPT !.pc = "fail"])
        /\ UNCHANGED <<auEffect, auTrouble>>
  /\ UNCHANGED <<auPlanVars, auHour, auResumes, auGhostVars, auRollout, auNote>>

(* The last fence: the plan was not stopped, and the decision (blocked     *)
(* below as a mishap) has not run out.                                     *)
fenceAutonomyEffect(c) ==
  LET me == auRec[c] IN
  /\ me.pc = "fence"
  /\ \/ /\ ensureAutonomyEffectEnvelope(me)
        /\ AuGoesOn(c, [me EXCEPT !.pc = "call"])
        /\ UNCHANGED <<auEffect, auTrouble>>
     \/ /\ IF ensureAutonomyEffectEnvelope(me) THEN AuMishap ELSE UNCHANGED auTrouble
        /\ auEffect' = [auEffect EXCEPT ![Current(me)] = "blocked"]
        /\ AuGoesOn(c, [me EXCEPT !.pc = "fail"])
     \/ /\ AuMishap /\ UNCHANGED auEffect    \* and the block is not saved
        /\ AuGoesOn(c, [me EXCEPT !.pc = "fail"])
  /\ UNCHANGED <<auPlanVars, auHour, auResumes, auGhostVars, auRollout, auNote>>

(* The external executor is called; any answer that is not accepted or     *)
(* completed counts as failed.                                             *)
autonomyExecute(c) ==
  LET me == auRec[c]
      n == Current(me)
  IN
  /\ me.pc = "call"
  /\ \/ AuGoesOn(c, [me EXCEPT !.pc = "record", !.target = "accepted"]) /\ UNCHANGED auTrouble
     \/ AuGoesOn(c, [me EXCEPT !.pc = "record", !.target = "failed"]) /\ AuMishap
  /\ auCalls' = [auCalls EXCEPT ![n] = @ + 1]
  /\ auLate' = IF auState \in AuStopped THEN auLate + 1 ELSE auLate
  /\ UNCHANGED <<auPlanVars, auHour, auResumes, auRollout, auEffect, auNote>>

(* The answer is saved, unless the save fails; its audit record may.       *)
recordAutonomyEffect(c) ==
  LET me == auRec[c]
      recorded == [auEffect EXCEPT ![Current(me)] = me.target]
  IN
  /\ me.pc = "record"
  /\ \/ /\ auEffect' = recorded /\ UNCHANGED auTrouble
        /\ AuGoesOn(c, IF me.target = "accepted" THEN [NextTarget(me) EXCEPT !.target = "-"]
                                                 ELSE [me EXCEPT !.pc = "fail"])
     \/ /\ auEffect' \in {auEffect, recorded} /\ AuMishap
        /\ AuGoesOn(c, [me EXCEPT !.pc = "fail"])
  /\ UNCHANGED <<auPlanVars, auHour, auResumes, auGhostVars, auRollout, auNote>>

(* A failed hand-off is counted against the error budget (a save that is   *)
(* refused loses the count) before the pass fails.                         *)
countFailure(c) ==
  LET me == auRec[c]
      counted == [me.rollout EXCEPT !.failures = IF @ > ErrorBudget THEN @ ELSE @ + 1]
  IN
  /\ me.pc = "fail"
  /\ IF saveAutonomyRolloutOK(me)
     THEN auRollout' = counted /\ SavedRollout(c, PassFails(me, counted.failures))
     ELSE UNCHANGED auRollout /\ AuGoesOn(c, PassFails(me, auRollout.failures))
  /\ UNCHANGED <<auPlanVars, auBoundVars, auGhostVars, auEffect, auNote>>

(* Every node of the batch was admitted: the batch is recorded, its bake   *)
(* starts, and only then is the plan moved to Baking.                      *)
startBake(c) ==
  LET me == auRec[c]
      baking == [me.rollout EXCEPT
                   !.canary = IF me.seen = "Canary" THEN me.batch ELSE @,
                   !.expanded = IF me.seen = "Canary" THEN @ ELSE @ \cup me.batch,
                   !.bake = "running"]
  IN
  /\ me.pc = "target" /\ me.todo = {}
  /\ IF saveAutonomyRolloutOK(me)
     THEN /\ auRollout' = baking
          /\ SavedRollout(c, [AuResting EXCEPT !.pc = "move", !.seen = me.seen,
                                !.planFresh = me.planFresh, !.target = "Baking"])
     ELSE UNCHANGED auRollout /\ AuGoesOn(c, PassFails(me, auRollout.failures))
  /\ UNCHANGED <<auPlanVars, auBoundVars, auGhostVars, auEffect, auNote>>

----------------------------------------------------------------------------
(* The bake of the last batch.                                             *)

(* What a measured bake leads to. *)
BakeJudged(me, rollout) ==
  [AuResting EXCEPT !.seen = me.seen, !.planFresh = me.planFresh,
     !.pc = IF rollout.failures > ErrorBudget THEN "stop" ELSE "move",
     !.target = IF rollout.failures > ErrorBudget THEN "RolledBack"
                ELSE IF nextAutonomyExpansionTarget(rollout) = 0 THEN "Enabled" ELSE "Expanding"]

readAutonomyBake(c) ==
  LET me == auRec[c] IN
  /\ me.pc = "bake"
  /\ \/ /\ auRollout.failures > ErrorBudget
        /\ AuGoesOn(c, [me EXCEPT !.pc = "stop", !.target = "RolledBack"])
        /\ UNCHANGED auTrouble
     \/ /\ auRollout.failures <= ErrorBudget  \* the interval has not elapsed
        /\ AuGoesOn(c, AuResting)
        /\ UNCHANGED auTrouble
     \/ /\ auRollout.failures <= ErrorBudget /\ auRollout.bake = "running" /\ AuMishap
        /\ AuGoesOn(c, [me EXCEPT !.pc = "stop", !.target = "Paused"])
     \/ /\ auRollout.failures <= ErrorBudget /\ auRollout.bake = "running"
        /\ \E bad \in IF auHardware THEN {0, 1} ELSE {0} :
             /\ AuGoesOn(c, [me EXCEPT !.pc = "measured", !.rolloutFresh = TRUE,
                               !.rollout = [auRollout EXCEPT !.bake = "measured",
                                              !.failures = @ + bad]])
             /\ IF bad = 0 THEN UNCHANGED auTrouble ELSE AuMishap
     \/ /\ auRollout.failures <= ErrorBudget /\ auRollout.bake = "measured"
        /\ AuGoesOn(c, BakeJudged(me, auRollout))
        /\ UNCHANGED auTrouble
  /\ UNCHANGED <<auPlanVars, auHour, auResumes, auGhostVars, auRollout, auEffect, auNote>>

measureAutonomyBake(c) ==
  LET me == auRec[c] IN
  /\ me.pc = "measured"
  /\ IF saveAutonomyRolloutOK(me)
     THEN /\ auRollout' = me.rollout
          /\ SavedRollout(c, BakeJudged(me, me.rollout))
     ELSE UNCHANGED auRollout /\ AuGoesOn(c, AuResting)
  /\ UNCHANGED <<auPlanVars, auBoundVars, auCalls, auLate, auEffect, auNote>>

----------------------------------------------------------------------------
(* Changing the plan's state, and then the state its rollout shows.        *)

moveAutonomyPlan(c) ==
  LET me == auRec[c] IN
  /\ me.pc = "move"
  /\ IF movableRevision(me)
     THEN /\ auState' = me.target
          /\ SavedPlan(c, [AuResting EXCEPT !.pc = "mark"])
     ELSE UNCHANGED auState /\ AuGoesOn(c, AuResting)
  /\ UNCHANGED <<auApproval, auExpired, auHardware, auBoundVars, auGhostVars, auRollout,
                 auEffect, auNote>>

stopAutonomyPlan(c) ==
  LET me == auRec[c] IN
  /\ me.pc = "stop"
  /\ IF me.planFresh
     THEN /\ auState' = me.target
          /\ SavedPlan(c, [AuResting EXCEPT !.pc = "mark"])
     ELSE UNCHANGED auState /\ AuGoesOn(c, AuResting)
  /\ UNCHANGED <<auApproval, auExpired, auHardware, auBoundVars, auGhostVars, auRollout,
                 auEffect, auNote>>

updateAutonomyRollout(c) ==
  /\ auRec[c].pc = "mark"
  /\ SavedRollout(c, AuResting)
  /\ UNCHANGED <<auPlanVars, auBoundVars, auGhostVars, auRollout, auEffect, auNote>>

(* A handler's update of the rollout comes some time after its save of the *)
(* plan, or never.                                                         *)
noteRollout ==
  /\ auNote /\ auNote' = FALSE
  /\ \/ /\ auRec' = [c \in Controller |-> [auRec[c] EXCEPT !.rolloutFresh = FALSE]]
        /\ UNCHANGED auTrouble
     \/ AuMishap /\ UNCHANGED auRec
  /\ UNCHANGED <<auPlanVars, auHour, auResumes, auGhostVars, auRollout, auEffect>>

----------------------------------------------------------------------------
(* People.  A handler loads the plan, judges it and saves it under the     *)
(* version it loaded: a success is one atomic step, a conflict changes     *)
(* nothing.                                                                *)

PersonSaves(state) ==
  /\ auState' = state
  /\ auRec' = [c \in Controller |-> [auRec[c] EXCEPT !.planFresh = FALSE]]
  /\ auNote' = (auNote \/ allRolesApproved)   \* the plan has a rollout

AttachSimulation ==
  /\ auState = "Draft"
  /\ PersonSaves("Simulated")
  /\ UNCHANGED <<auApproval, auExpired, auHardware, auBoundVars, auGhostVars, auRollout, auEffect>>

(* Nobody satisfies two roles. *)
mayApprove(p, r) ==
  auApproval[r] = "nobody" /\ \A other \in Role : auApproval[other] # p

ApproveAutonomyPlan(p, r) ==
  /\ auState \in {"Simulated", "AwaitingApproval"}
  /\ mayApprove(p, r)
  /\ auApproval' = [auApproval EXCEPT ![r] = p]
  /\ auState' = IF \A other \in Role \ {r} : auApproval[other] # "nobody"
                THEN "Canary" ELSE "AwaitingApproval"
  /\ auRec' = [c \in Controller |-> [auRec[c] EXCEPT !.planFresh = FALSE]]
  /\ UNCHANGED <<auExpired, auHardware, auBoundVars, auGhostVars, auRollout, auEffect, auNote>>

PauseAutonomyPlan ==
  /\ auState \notin AuTerminal \cup {"Paused"}
  /\ PersonSaves("Paused")
  /\ UNCHANGED <<auApproval, auExpired, auHardware, auBoundVars, auGhostVars, auRollout, auEffect>>

RollbackAutonomyPlan ==
  /\ auState \notin AuTerminal
  /\ PersonSaves("RolledBack")
  /\ UNCHANGED <<auApproval, auExpired, auHardware, auBoundVars, auGhostVars, auRollout, auEffect>>

ResumeAutonomyPlan ==
  /\ auState = "Paused" /\ ~auExpired /\ allRolesApproved
  /\ auResumes < MaxResume /\ auResumes' = auResumes + 1
  /\ PersonSaves("Canary")
  /\ auLate' = 0
  /\ UNCHANGED <<auApproval, auExpired, auHardware, auHour, auTrouble, auCalls,
                 auRollout, auEffect>>

----------------------------------------------------------------------------
(* Time, crashes, and the whole.                                           *)

PlanExpiryElapses ==
  /\ ~auExpired /\ auExpired' = TRUE
  /\ UNCHANGED <<auState, auApproval, auHardware, auBoundVars, auGhostVars, auRollout, auEffect,
                 auRec, auNote>>

AnHourPasses ==
  /\ auHour < MaxHour /\ auHour' = auHour + 1
  /\ UNCHANGED <<auPlanVars, auResumes, auTrouble, auGhostVars, auRollout, auEffect, auRec, auNote>>

AuCrash(c) ==
  /\ auRec[c].pc # "idle" /\ AuMishap
  /\ AuGoesOn(c, AuResting)
  /\ UNCHANGED <<auPlanVars, auHour, auResumes, auGhostVars, auRollout, auEffect, auNote>>

AuPass(c) ==
  \/ ListAutonomyPlans(c)
  \/ admitAutonomyCanary(c) \/ admitAutonomyExpansion(c) \/ openExpansion(c)
  \/ admitAutonomyTarget(c) \/ loadAutonomyEffect(c) \/ claimAutonomyEffect(c)
  \/ fenceAutonomyEffect(c) \/ autonomyExecute(c) \/ recordAutonomyEffect(c)
  \/ countFailure(c) \/ startBake(c)
  \/ readAutonomyBake(c) \/ measureAutonomyBake(c)
  \/ moveAutonomyPlan(c) \/ stopAutonomyPlan(c) \/ updateAutonomyRollout(c)

AuNext ==
  \/ \E c \in Controller : AuPass(c) \/ AuCrash(c)
  \/ noteRollout \/ AttachSimulation
  \/ \E p \in Person, r \in Role : ApproveAutonomyPlan(p, r)
  \/ PauseAutonomyPlan \/ RollbackAutonomyPlan \/ ResumeAutonomyPlan
  \/ PlanExpiryElapses \/ AnHourPasses

AuSpec == AuInit /\ [][AuNext]_auVars

(* Every controller tick reconciles, and the clock reaches the expiry. *)
AuFairness == (\A c \in Controller : WF_auVars(AuPass(c))) /\ WF_auVars(PlanExpiryElapses)

----------------------------------------------------------------------------
(* An effect reaches the hardware at most once, whatever controllers race  *)
(* for it, crash in it or take the plan up again after a resume            *)
(* (executeAutonomyEffect claims the dispatch durably first); and two      *)
(* controllers are never between the fence and the record of an effect at  *)
(* once.                                                                   *)
EffectOnce ==
  /\ \A n \in AuNode : auCalls[n] <= 1
  /\ \A c, d \in Controller :
        auRec[c].pc \in {"call", "record"} /\ auRec[d].pc \in {"call", "record"} => c = d

(* A recorded stop is final for the machine: only a person's resume, a     *)
(* rollback or the expiry leaves Paused, and nothing leaves RolledBack or  *)
(* Expired (moveAutonomyPlan advances only the revision it evaluated).  And *)
(* at most one effect, the one already past its fence, reaches the hardware*)
(* after a pause, a rollback or an expiry was recorded, however many nodes *)
(* the batch had left (ensureAutonomyEffectEnvelope).                      *)
StopIsKept ==
  /\ [](auLate <= 1)
  /\ [][/\ auState \in AuTerminal => auState' = auState
        /\ auState = "Paused" /\ auState' # "Paused" /\ auResumes' = auResumes
             => auState' \in AuTerminal]_auVars

(* A plan whose expiry has passed ends, also when it was paused, crashed   *)
(* in the middle of a batch or never approved (ReconcileAutonomy).         *)
PlanEnds == AuFairness => <>[](auState \in AuTerminal)
=============================================================================
