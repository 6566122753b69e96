---------------------------- MODULE ActionQueue ----------------------------
(***************************************************************************)
(* The controller's durable action queue (internal/store/sqlcore) and the  *)
(* emergency stop that is serialized with it (internal/controller).        *)
(*                                                                         *)
(* One row per deterministic action ID.  A node's agent claims the oldest  *)
(* eligible row under a lease: a fresh token, an expiry and the boot ID of *)
(* the claiming agent.  The result is accepted only under that lease.      *)
(*                                                                         *)
(* Time is abstracted to the one fact every comparison reads: "live" is    *)
(* the set of lease tokens whose expiry has not been reached.  A token     *)
(* leaves the set at any moment (LeaseExpires) and never comes back.       *)
(***************************************************************************)
EXTENDS Naturals, FiniteSets

CONSTANTS
    Node,               \* nodes that run an agent
    Action,             \* deterministic action IDs
    Incident,           \* incidents actions are stamped with
    NoIncident,         \* the empty incident_id of an unstamped action
    NodeOf,             \* actions.node
    IncidentOf,         \* actions.incident_id
    Restorative,        \* the actions of type restore_accelerator_host
    MaxActionAttempts,  \* claims one row may be issued
    MaxBoot,            \* bound: boot IDs are 1..MaxBoot, 0 is the empty boot ID
    MaxToken            \* bound on the lease tokens ever issued

ASSUME QueueConstants ==
    /\ NoIncident \notin Incident
    /\ NodeOf \in [Action -> Node]
    /\ IncidentOf \in [Action -> Incident \cup {NoIncident}]
    /\ Restorative \subseteq Action
    /\ MaxActionAttempts \in Nat \ {0}
    /\ MaxBoot \in Nat
    /\ MaxToken \in Nat

VARIABLES
    rowState,     \* actions.state, or "absent" when there is no row
    rowToken,     \* actions.lease_token, 0 when empty
    rowBoot,      \* actions.executor_boot_id, 0 when empty
    rowAttempts,  \* actions.attempts
    rowResult,    \* actions.result, "none" when empty
    older,        \* <<a, b>>: row a precedes row b in (created_at, id) order
    lastToken,    \* the last lease token issued
    live,         \* tokens whose lease_expires_at_ns is in the future
    halted,       \* incidents in RESOLVED, EXPIRED or NEEDS_HUMAN
    paused,       \* the persisted global pause
    dryRun,       \* DryRun of the installed runtime configuration
    stopper,      \* who holds dispatchMu for writing, and how far it got
    stopMark,     \* history: lastToken when dispatch was last stopped
    haltMark,     \* history: lastToken when each incident halted
    duringStop    \* history: rows enqueued while dispatch was stopped

rowVars == <<rowState, rowToken, rowBoot, rowAttempts, rowResult, older>>
leaseVars == <<lastToken, live>>
haltVars == <<halted, haltMark>>
stopVars == <<paused, dryRun, stopper, stopMark>>
queueVars == <<rowVars, leaseVars, haltVars, stopVars, duringStop>>

RowState == {"absent", "pending", "leased", "done", "dead", "cancelled"}
Terminal == {"done", "dead", "cancelled"}
Result == {"ok", "failed", "unknown"}
Boot == 0 .. MaxBoot
Stopper == {"free", "pausing", "resuming", "entering", "leaving", "left"}

\* agentDispatchStopped: the pause or a DryRun configuration stops dispatch.
Stopped == paused \/ dryRun

QueueInit ==
    /\ rowState = [a \in Action |-> "absent"]
    /\ rowToken = [a \in Action |-> 0]
    /\ rowBoot = [a \in Action |-> 0]
    /\ rowAttempts = [a \in Action |-> 0]
    /\ rowResult = [a \in Action |-> "none"]
    /\ older = {}
    /\ lastToken = 0
    /\ live = {}
    /\ halted = {}
    /\ paused = FALSE
    /\ dryRun = FALSE
    /\ stopper = "free"
    /\ stopMark = 0
    /\ haltMark = [i \in Incident |-> 0]
    /\ duringStop = {}

(***************************************************************************)
(* The rows                                                                *)
(***************************************************************************)
Live(a) == rowState[a] = "leased" /\ rowToken[a] \in live

\* The predicate every claim and every cancellation shares: pending, or leased
\* under a lease that has expired.
Reclaimable(a) ==
    \/ rowState[a] = "pending"
    \/ rowState[a] = "leased" /\ rowToken[a] \notin live

\* EnqueueAction: INSERT ... ON CONFLICT(id) DO NOTHING.
EnqueueAction(a) ==
    /\ rowState[a] = "absent"
    /\ rowState' = [rowState EXCEPT ![a] = "pending"]
    /\ older' = older \cup ({b \in Action : rowState[b] # "absent"} \X {a})
    /\ duringStop' = IF Stopped THEN duringStop \cup {a} ELSE duringStop
    /\ UNCHANGED <<rowToken, rowBoot, rowAttempts, rowResult>>
    /\ UNCHANGED <<leaseVars, haltVars, stopVars>>

\* The rows a claim by node n looks at; only restores while dispatch is stopped.
InScope(a, n, onlyRestore) ==
    NodeOf[a] = n /\ (onlyRestore => a \in Restorative)

\* Variant: only pending rows are dead-lettered, not orphaned leases.
DeadLettersPending(n, onlyRestore) ==
    {a \in Action : /\ InScope(a, n, onlyRestore)
                    /\ rowAttempts[a] >= MaxActionAttempts
                    /\ rowState[a] = "pending"}

DeadLetters(n, onlyRestore) ==
    {a \in Action : /\ InScope(a, n, onlyRestore)
                    /\ rowAttempts[a] >= MaxActionAttempts
                    /\ Reclaimable(a)}

\* Variant: the node's live lease is looked for among the rows in scope only.
CandidatesLeaseInScope(n, onlyRestore) ==
    {a \in Action : /\ InScope(a, n, onlyRestore)
                    /\ Reclaimable(a)
                    /\ rowAttempts[a] < MaxActionAttempts
                    /\ \A h \in Action : InScope(h, n, onlyRestore) => ~Live(h)
                    /\ IncidentOf[a] \notin halted}

Candidates(n, onlyRestore) ==
    {a \in Action : /\ InScope(a, n, onlyRestore)
                    /\ Reclaimable(a)
                    /\ rowAttempts[a] < MaxActionAttempts
                    /\ \A h \in Action : NodeOf[h] = n => ~Live(h)
                    /\ IncidentOf[a] \notin halted}

\* ORDER BY created_at, id LIMIT 1.
Oldest(a, S) ==
    /\ a \in S
    /\ \A b \in S \ {a} : <<a, b>> \in older

\* claimNextAction finding a row: exhausted rows are dead-lettered, then the
\* oldest candidate is leased under a fresh token.
ClaimRow(n, boot, onlyRestore, a) ==
    LET dead == DeadLetters(n, onlyRestore) IN
    /\ Oldest(a, Candidates(n, onlyRestore))
    /\ lastToken < MaxToken
    /\ rowState' = [x \in Action |->
            IF x = a THEN "leased" ELSE IF x \in dead THEN "dead" ELSE rowState[x]]
    /\ lastToken' = lastToken + 1
    /\ live' = live \cup {lastToken + 1}
    /\ rowToken' = [x \in Action |->
            IF x = a THEN lastToken + 1 ELSE IF x \in dead THEN 0 ELSE rowToken[x]]
    /\ rowBoot' = [rowBoot EXCEPT ![a] = boot]
    /\ rowAttempts' = [rowAttempts EXCEPT ![a] = @ + 1]
    /\ UNCHANGED <<rowResult, older, haltVars, stopVars, duringStop>>

\* claimNextAction finding nothing: the dead-lettering still happens.
ClaimNothing(n, onlyRestore) ==
    LET dead == DeadLetters(n, onlyRestore) IN
    /\ Candidates(n, onlyRestore) = {}
    /\ rowState' = [x \in Action |-> IF x \in dead THEN "dead" ELSE rowState[x]]
    /\ rowToken' = [x \in Action |-> IF x \in dead THEN 0 ELSE rowToken[x]]
    /\ UNCHANGED <<rowBoot, rowAttempts, rowResult, older, leaseVars, haltVars, stopVars, duringStop>>

\* Variant: a poll does not wait for the holder of dispatchMu and acts on the
\* mode it read before.
NextActionUnlocked(n, boot, a) ==
    ClaimRow(n, boot, Stopped /\ stopper = "free", a)

\* Controller.NextAction under dispatchMu.RLock: a restorative claim while
\* dispatch is stopped, a normal one otherwise.
NextAction(n, boot, a) ==
    /\ stopper = "free"
    /\ ClaimRow(n, boot, Stopped, a)

NextActionEmpty(n) ==
    /\ stopper = "free"
    /\ ClaimNothing(n, Stopped)

\* CompleteClaimedAction's UPDATE matches: the lease is current and unexpired and
\* the completing boot is the claiming one (or the claim carried none).
CompletionMatches(a, token, boot) ==
    /\ rowState[a] = "leased"
    /\ rowToken[a] = token
    /\ token \in live
    /\ rowBoot[a] \in {0, boot}

\* Controller.CompleteAction, accepted.  A foreign node is refused first.
CompleteClaimedAction(a, n, token, boot, result) ==
    /\ NodeOf[a] = n
    /\ CompletionMatches(a, token, boot)
    /\ rowState' = [rowState EXCEPT ![a] = "done"]
    /\ rowToken' = [rowToken EXCEPT ![a] = 0]
    /\ rowResult' = [rowResult EXCEPT ![a] = result]
    /\ UNCHANGED <<rowBoot, rowAttempts, older, leaseVars, haltVars, stopVars, duringStop>>

\* The tombstoning UPDATE shared by the cancellations.
Cancel(S) ==
    /\ rowState' = [a \in Action |-> IF a \in S THEN "cancelled" ELSE rowState[a]]
    /\ rowToken' = [a \in Action |-> IF a \in S THEN 0 ELSE rowToken[a]]
    /\ UNCHANGED <<rowBoot, rowAttempts, rowResult, older>>

\* CancelPendingActionsForIncident, called by escalate and quarantine.
CancelPendingActionsForIncident(i) ==
    /\ Cancel({a \in Action : IncidentOf[a] = i /\ Reclaimable(a)})
    /\ UNCHANGED <<leaseVars, haltVars, stopVars, duringStop>>

\* CancelPendingActionsForSafetyStop: everything undelivered but restores.
CancelPendingActionsForSafetyStop ==
    Cancel({a \in Action \ Restorative : Reclaimable(a)})

\* CancelPendingAction: exactly one row, and only while it is pending.
CancelPendingAction(a) ==
    /\ rowState[a] = "pending"
    /\ Cancel({a})
    /\ UNCHANGED <<leaseVars, haltVars, stopVars, duringStop>>

\* DiscardCompletedAction: DELETE a terminal row.
DiscardCompletedAction(a) ==
    /\ rowState[a] \in Terminal
    /\ rowState' = [rowState EXCEPT ![a] = "absent"]
    /\ rowToken' = [rowToken EXCEPT ![a] = 0]
    /\ rowBoot' = [rowBoot EXCEPT ![a] = 0]
    /\ rowAttempts' = [rowAttempts EXCEPT ![a] = 0]
    /\ rowResult' = [rowResult EXCEPT ![a] = "none"]
    /\ older' = {p \in older : a \notin {p[1], p[2]}}
    /\ duringStop' = duringStop \ {a}
    /\ UNCHANGED <<leaseVars, haltVars, stopVars>>

\* An incident reaches RESOLVED, EXPIRED or NEEDS_HUMAN.  No code path leaves
\* that set.
IncidentHalts(i) ==
    /\ i \notin halted
    /\ halted' = halted \cup {i}
    /\ haltMark' = [haltMark EXCEPT ![i] = lastToken]
    /\ UNCHANGED <<rowVars, leaseVars, stopVars, duringStop>>

\* lease_expires_at_ns is reached.
LeaseExpires(token) ==
    /\ token \in live
    /\ live' = live \ {token}
    /\ UNCHANGED <<rowVars, lastToken, haltVars, stopVars, duringStop>>

(***************************************************************************)
(* The emergency stop.  SetPaused and InstallRuntimeConfigContext hold     *)
(* dispatchMu for writing across several store calls; "stopper" says how   *)
(* far the holder got.  Claims wait for it, the other operations do not.   *)
(***************************************************************************)
\* Dispatch becomes stopped (or stays so): remember the leases granted before.
MarkStop == stopMark' = IF Stopped THEN stopMark ELSE lastToken

\* SetPaused(true): the pause is persisted, then undelivered work is cancelled.
PauseBegins ==
    /\ stopper = "free"
    /\ paused' = TRUE
    /\ stopper' = "pausing"
    /\ MarkStop
    /\ UNCHANGED <<rowVars, leaseVars, haltVars, dryRun, duringStop>>

\* SetPaused(false): undelivered work is cancelled, then the pause is lifted.
ResumeBegins ==
    /\ stopper = "free"
    /\ CancelPendingActionsForSafetyStop
    /\ stopper' = "resuming"
    /\ UNCHANGED <<leaseVars, haltVars, paused, dryRun, stopMark, duringStop>>

ResumeEnds ==
    /\ stopper = "resuming"
    /\ paused' = FALSE
    /\ stopper' = "free"
    /\ UNCHANGED <<rowVars, leaseVars, haltVars, dryRun, stopMark, duringStop>>

\* InstallRuntimeConfigContext turning DryRun on: the snapshot first.
DryRunEntered ==
    /\ stopper = "free"
    /\ ~dryRun
    /\ dryRun' = TRUE
    /\ stopper' = "entering"
    /\ MarkStop
    /\ UNCHANGED <<rowVars, leaseVars, haltVars, paused, duringStop>>

\* ... and turning it off: the cancellation first.
DryRunLeaving ==
    /\ stopper = "free"
    /\ dryRun
    /\ CancelPendingActionsForSafetyStop
    /\ stopper' = "leaving"
    /\ UNCHANGED <<leaseVars, haltVars, paused, dryRun, stopMark, duringStop>>

DryRunLeft ==
    /\ stopper = "leaving"
    /\ dryRun' = FALSE
    /\ stopper' = IF paused THEN "left" ELSE "free"
    /\ UNCHANGED <<rowVars, leaseVars, haltVars, paused, stopMark, duringStop>>

\* An install that keeps DryRun as it is cancels too while the pause is active.
ReloadWhilePaused ==
    /\ stopper = "free"
    /\ paused
    /\ stopper' = "left"
    /\ UNCHANGED <<rowVars, leaseVars, haltVars, paused, dryRun, stopMark, duringStop>>

\* The cancellation that ends a stop, and the release of dispatchMu.
StopCancels ==
    /\ stopper \in {"pausing", "entering", "left"}
    /\ CancelPendingActionsForSafetyStop
    /\ stopper' = "free"
    /\ UNCHANGED <<leaseVars, haltVars, paused, dryRun, stopMark, duringStop>>

\* A store call of the holder fails and dispatchMu is released with the rest
\* undone.
StopFails ==
    /\ stopper \in {"pausing", "resuming", "entering", "left"}
    /\ stopper' = "free"
    /\ UNCHANGED <<rowVars, leaseVars, haltVars, paused, dryRun, stopMark, duringStop>>

\* The process dies and a new one starts: the lock is gone, the pause is restored
\* from the store, DryRun comes from the configuration mounted at start-up.
ControllerRestarts(configuredDryRun) ==
    /\ stopper' = "free"
    /\ dryRun' = configuredDryRun
    /\ MarkStop
    /\ UNCHANGED <<rowVars, leaseVars, haltVars, paused, duringStop>>

StopNext ==
    \/ PauseBegins \/ ResumeBegins \/ ResumeEnds
    \/ DryRunEntered \/ DryRunLeaving \/ DryRunLeft \/ ReloadWhilePaused
    \/ StopCancels \/ StopFails

(***************************************************************************)
(* The queue under an arbitrary client: any agent may post any token, from *)
(* any boot, at any time.                                                  *)
(***************************************************************************)
RowNext ==
    \/ \E a \in Action : EnqueueAction(a)
    \/ \E n \in Node, b \in Boot, a \in Action : NextAction(n, b, a)
    \/ \E n \in Node : NextActionEmpty(n)
    \/ \E a \in Action, n \in Node, t \in live, b \in Boot, r \in Result :
          CompleteClaimedAction(a, n, t, b, r)
    \/ \E i \in Incident : CancelPendingActionsForIncident(i)
    \/ \E a \in Action : CancelPendingAction(a)
    \/ \E a \in Action : DiscardCompletedAction(a)

QueueNext ==
    \/ RowNext
    \/ \E i \in Incident : IncidentHalts(i)
    \/ \E t \in live : LeaseExpires(t)
    \/ StopNext
    \/ \E d \in BOOLEAN : ControllerRestarts(d)

QueueSpec == QueueInit /\ [][QueueNext]_queueVars

(***************************************************************************)
(* Properties                                                              *)
(***************************************************************************)
\* Every variable has its type; no row is issued more claims than the limit and no
\* token is ahead of the last one issued.
QueueTypeOK ==
    /\ rowState \in [Action -> RowState]
    /\ rowToken \in [Action -> 0 .. lastToken]
    /\ rowBoot \in [Action -> Boot]
    /\ rowAttempts \in [Action -> 0 .. MaxActionAttempts]
    /\ rowResult \in [Action -> Result \cup {"none"}]
    /\ older \in SUBSET (Action \X Action)
    /\ lastToken \in 0 .. MaxToken
    /\ live \in SUBSET (1 .. lastToken)
    /\ halted \in SUBSET Incident
    /\ paused \in BOOLEAN
    /\ dryRun \in BOOLEAN
    /\ stopper \in Stopper
    /\ stopMark \in 0 .. lastToken
    /\ haltMark \in [Incident -> 0 .. lastToken]
    /\ duringStop \in SUBSET Action

\* claimNextAction's promise: at most one unexpired lease per node, whatever is
\* enqueued, cancelled, completed or reclaimed in between.
OneLeasePerNode ==
    \A a, b \in Action :
        NodeOf[a] = NodeOf[b] /\ Live(a) /\ Live(b) => a = b

\* A lease token authorizes one row: no two rows ever hold the same token, so a
\* late result can complete no other action.
TokenNamesOneRow ==
    \A a, b \in Action :
        rowState[a] = "leased" /\ rowState[b] = "leased" /\ rowToken[a] = rowToken[b]
            => a = b

\* The emergency stop: while dispatch is stopped (also between the two store calls
\* of SetPaused and of InstallRuntimeConfigContext) every live lease of an action
\* other than a host restore was granted before the stop.
StopHolds ==
    Stopped => \A a \in Action \ Restorative : Live(a) => rowToken[a] <= stopMark

\* The terminal-incident guard: a row of a halted incident is leased only under a
\* lease granted before the incident halted.
HaltHolds ==
    \A a \in Action : IncidentOf[a] \in halted => rowToken[a] <= haltMark[IncidentOf[a]]

\* A terminal row is final: it keeps its state and its result until it is deleted,
\* so a step that re-attaches to the action ID reads one answer.
TerminalIsFinal ==
    [][\A a \in Action : rowState[a] \in Terminal =>
          \/ rowState'[a] = rowState[a] /\ rowResult'[a] = rowResult[a]
          \/ rowState'[a] = "absent"]_queueVars

\* The comments of SetPaused and InstallRuntimeConfigContext: work enqueued while
\* dispatch was stopped is never handed out after the stop.
NothingAccumulatedIsDelivered ==
    \A a \in duringStop \ Restorative : rowState[a] # "leased"
=============================================================================
