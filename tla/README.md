# KubeNeuron: TLA+ models, checks and proofs

KubeNeuron finds failing accelerators on the nodes of a cluster and repairs them by walking
an incident through a playbook: cordon, drain, quiesce the vendor stack, reset the device,
reboot or recycle the node, verify. A wrong interleaving here resets a device twice, reboots
more nodes than an operator allowed, or runs a step nobody approved. This directory models the
parts where that is decided, checks them with TLC and proves the delivery of actions with TLAPS.

`PROJECT.json` lists components, runs, mutants, the map from definitions to source lines,
findings, hazards and theorems. Source paths below are relative to `src/`.

## The system

| Part | State | Operations | What is hard |
|---|---|---|---|
| Incident walk (`internal/controller/reconcile.go`, `execution.go`) | incident rows; in-memory set of incidents with a running step | tick, advance per state, admit a step, step goroutine, transition | five kinds of writers work from copies of the row; a step outlives many ticks |
| Playbook engine and state machine (`internal/playbook`) | the installed configuration | next step, escalation, policy binding | replaced under running incidents |
| Safety gate (`internal/safety`) | reference counts, cooldowns, pause | admit, done, release, change limits | counts are memory, rows are durable; failover |
| Approvals (`internal/approval`) | rounds, requests, decisions | park, decide, resume | a decision is given for one step and read later |
| Leadership and gate rebuild (`cmd/kubeneuron-controller`, `admission.go`) | lease, gate | elect, rebuild, lose | the API answers before the rebuild; the rebuild may fail |
| Action queue (`internal/store/sqlcore/core.go`) | action rows with lease, boot, attempts | enqueue, claim, complete, cancel, discard | leases expire while the action runs |
| Emergency stop (`operator_api.go`, `runtimeconfig.go`) | pause, dry-run | pause, resume, reload | races polls that are under way |
| Agent action loop (`internal/agent/agent.go`) | loop position, journal | poll, journal, execute, report, recover | crashes, reboots, lost answers |
| Action journal (`internal/agent/actionjournal`) | an append-only file | append, replay, compact | torn and failed writes, size limits |
| Janitors (`acceleratorstack.go`, `cordonjanitor.go`, `degradedtaint.go`) | cordons, taints, quiesce markers | rewind, close, restore, uncordon | run beside the walk on their own goroutine |
| Event intake (`internal/agent/spool`, event outbox, `ingestTx`) | spool file, archive, outbox | detect, spool, archive, claim, ingest | at-least-once delivery, dedup, leases |
| Checkpoint coordination (`internal/checkpoint`) | pod annotations | request, acknowledge, time out | restarts during a wait |
| Operations and autonomy (`internal/operations`) | versioned resources, idempotency records | plan, approve, roll out, roll back | replayed mutations, partial effects |
| Operator (`internal/operator`), PKI, notifications, HTTP sessions and limits | snapshots, certificates, queues | reconcile, rotate, send | level-triggered convergence, bounded queues |
| Telemetry, catalogues, configuration, platform and cloud adapters, CLI | none of their own | read, parse, call | I/O and data |

How they interact: the agent detects faults and spools events; the controller archives them and
ingests them as signals, which open incidents. The walk takes an incident to its next step,
passes the gate, perhaps asks for approval, and starts a goroutine that runs the step. Steps on
the node go through the action queue to the agent, whose journal makes them happen at most
once; the result comes back through the queue. Janitors repair what a crashed controller left.

## Modules

| Module | Models | Lines of code it stands for |
|---|---|---|
| `ActionQueue` | the durable queue and the emergency stop | `core.go` 1241-1600, `controller.go` NextAction, `operator_api.go` SetPaused, `runtimeconfig.go` |
| `ActionDelivery` | queue + network + agent loop + journal (EXTENDS `ActionQueue`) | `agent.go` 1073-1330 and 1859-1894, `actionjournal.go`, `agentrpc.go` |
| `ActionOnce` | abstract specification: started at most once, answered truthfully | implemented by `ActionDelivery` |
| `JournalFile` | the journal as bytes on a disk | `actionjournal.go` |
| `SafetyGate` | the gate's reference counts | `safety/limits.go` |
| `IncidentWalk` | walk, step goroutine, approvals, janitors, requests, reload, failover (EXTENDS `SafetyGate`) | `reconcile.go`, `execution.go`, `admission.go`, `operator_api.go`, `statemachine.go`, `engine.go`, `approval.go` |
| `ActionQueue_proofs`, `ActionDelivery_proofs` | theorems | |
| `MC*` | instances for TLC | |

### ActionQueue and ActionDelivery

A row of the table `actions` is `rowState`, `rowToken`, `rowBoot`, `rowAttempts`, `rowResult`
and its place in the `older` order. Lease tokens are numbers in the order of issue. Time is one
set, `live`: the tokens whose expiry has not come. A token leaves it at any moment
(`LeaseExpires`), which is all that the comparisons with `lease_expires_at_ns` can tell. So the
models have one clock. `claimStillValid` compares the controller's expiry with the agent's
clock, and an agent whose clock is behind is not covered.

`claimNextAction` is one action (`NextAction`): dead-letter, pick the oldest candidate, lease
it. The pause and dry-run switches hold `dispatchMu` over several store calls, so they are
several actions with `stopper` saying who holds the lock; polls wait for it, `EnqueueAction`
and results do not, as in the code.

The agent is a program counter per node (`agentPc`) through poll, journal, execute and report.
Requests may be lost or delayed past their timeout (`posts`, `stalePolls`), journal writes fail
without effect, the process crashes at any point, and a node reboots into a new boot ID.
Histories (`starts`, `ran`, `doneOn`, `stopMark`, `haltMark`, `duringStop`) record what really
happened; no action reads them. `ActionDelivery` leaves out `DiscardCompletedAction`: only the
host-restore janitor calls it, for the IDs of its own attempts, and that janitor is planned.
At-most-once is therefore said of IDs whose row is not discarded, which are those of all steps.

### JournalFile

The file is a sequence of lines and perhaps a fragment without newline; `synced` is what a
crash of the node keeps. Each append may be refused at a limit, compact first, fail before,
within or after its write, or be cut by a crash. `Open` replays, drops a torn tail and marks
interrupted executions. All lines have one size, so the byte limit is a number of lines.

### SafetyGate and IncidentWalk

Everyone who changes an incident row reads it, decides, and writes in a transaction. The model
has one record per writer ("holder"): the walk, the janitor goroutine, an operator request, an
approver request, and one step goroutine per incident. The record has the row copy, the state
it read, the configuration it pinned and where it is. Two flags stand for the comparisons of
`transition` and `UpdateIncident`: `fresh` (StateChangedAt has not moved since the read) and
`same` (the row version has not). Inputs of a decision that come from clocks, evidence, arming,
maintenance windows, cooldowns, pause or the flap detector are free choices, so every branch of
an advance function can be taken whenever its control allows it.

Merged: the two deferred calls of the step goroutine (`Finish`), and the rewind's in-flight
check with its read. A step that starts in between moves version and fence, so the rewind's
write fails either way. Left out: approval rounds without an epoch (rows from before the
upgrade), two replicas that lead at once, promotion of an incident's target (its gate key stays
the same), and the pause exception for a compensating restore, which reserves nothing.

`strayed` is a history: this or an earlier term's gate was not rebuilt from the rows as they
were, because the listing failed (`RebuildFails`; `Run` continues with a warning) or because a
request gave a slot back before the rebuild. `SlotsAreCounted` and `RemediationCap` say nothing
of such behaviours; the code accepts them knowingly for the first case, and the second is
listed as a hazard.

## Runs

| Run | Instance | Shows |
|---|---|---|
| `queue` | one node, a reset of an incident and a host restore, 2 attempts, 3 tokens, boots left to `delivery` | `OneLeasePerNode`, `StopHolds`, `HaltHolds`, `TerminalIsFinal` |
| `delivery` | one node, one action, 2 claims, 2 boots, 1 crash | `AtMostOnce`, `TruthfulAnswer`, `ResultFromClaimingBoot`, refinement `Promise` |
| `stop` | the same with pause, dry-run and restarts | `ExecutionPredatesStop` |
| `liveness` | the same as `delivery` with 1 boot, under fairness | `EveryActionSettles` |
| `journal` | 3 actions, room for 2 and for 10 lines, 1 crash, 1 failed write | `StartIsRemembered`, `OutcomeSurvives`, `AckIsFinal`, `CrashesAreRecovered` |
| `walk` | one incident, the reset ladder, 2 approval rounds, 2 interventions | `SlotsAreCounted`, `ApprovedIsWhatRuns`, `ProgressIsEarned`, `HaltedStays` |
| `gate` | two incidents, two targets, two sets of limits, 1 intervention | `SlotsAreCounted`, `RemediationCap`, `RebootCap` |
| `cancelled_ran`, `resume_delivers`, `journal_torn`, `stranded`, `ack_escalates` | | violated: the findings below |

Why the bounds are enough for what they are used for:

- Two attempts and tokens per row give a first claim, an expiry and a second claim with the
  first one's result still under way; with two actions, three tokens give each of them a
  claim and one a second. The theorems remove these bounds.
- Two boots and a crash give a result posted across a reboot and a restart in every loop
  position. With more than one node nothing is shared but the stop, which the theorems cover.
- In `journal`, three IDs with room for two make the third compact the others; ten lines are
  two full chains and a redelivery, so that both limits are met.
- An *intervention* is a failover, a reload (which edits the step that needs approval, or drops
  the whole playbook), an operator's resolve, a janitor pass, or the second decision of a round.
  Two of them, at any step of the walk, give every pair: a rewind racing a resolve, a reload
  between two rounds, a failover during a janitor pass. The late bind of `advanceObserving`
  needs two (a playbook dropped and installed again).
- In `gate` two incidents fill a limit of one. The run allows a reload from two slots to one
  and back, or a failover. Its playbook is the reboot ladder, so that both caps apply.
  Incidents and targets are symmetric there; both properties that are not invariants are
  formulas about single steps, for which the reduction is sound.

Deadlock is checked where the system always has something to do. In `journal`, `walk` and
`gate` it is not: the executor may be done with all actions, and all incidents may have ended.

Fairness (`liveness` only): the agent's goroutine keeps running and a dead agent is restarted
(the DaemonSet does it), leases expire (time passes), and a poll that is sent for ever is
answered at some time. The last is strong fairness: single polls and any number of results may
be lost. Nothing is assumed of the executor beyond its own timeout, of operators or of
cancellations.

Every property has a mutant in `PROJECT.json`: a variant of one modelled definition, next to
that definition in the module, under which TLC finds the property violated.

## Findings

1. `cancelled_ran`: a row whose lease has expired is cancelled and reported as "cancelled before
   delivery" although its action ran (`actuator/agentrpc/agentrpc.go:85`).
2. `resume_delivers`: work queued during a stop is delivered after it when the stop ends by a
   restart with another configuration, or when the enqueue falls between a resume's
   cancellation and its flag (`controller/controller.go:296`).
3. `journal_torn`: an append that fails half way, followed by one that succeeds, leaves a
   malformed line with a newline; no later `Open` accepts the file
   (`agent/actionjournal/actionjournal.go:603`).
4. `stranded`: a reload that shortens a playbook below an incident's step makes every tick plan
   EVALUATING to VERIFYING, an edge the state machine refuses; the incident keeps its slot
   (`controller/reconcile.go:296`).
5. `ack_escalates`: acknowledging an incident under verification moves UpdatedAt, which is
   taken for a recurred signal, and the incident escalates (`controller/operator_api.go:271`).

## Proofs

`ActionQueue_proofs` and `ActionDelivery_proofs` are checked by TLAPS for every set of nodes,
actions and incidents, and every limit, from the assumptions `QueueConstants` and
`DeliveryConstants` (maps have their types, one attempt at least, one boot at least).

*Queue.* `QueueInv` is `QueueTypeOK`, `TokensAreLeases` (a row has a token exactly while it is
leased), `TokenNamesOneRow` (no two rows share one), and the three properties. The
strengthening is needed because a claim issues `lastToken + 1`: only with every token in use
known to be at most `lastToken`, and held by one row, does an expiry or a claim leave the
other rows' liveness alone. From it follow `QueueOneLease`, `QueueStopHolds`, `QueueHaltHolds`
and the action property `QueueTerminalIsFinal`.

*Delivery.* `DeliveryInv` adds, to `QueueInv` and the types:
`JournalInv` (what an entry's state says about the executor: no start before "running", one
start from then on), `LoopInv` (where the loop can be with which entry), `AnswerInv` (every
result in flight or recorded is true), `BootInv` (a process sends its own boot or none),
`ClaimInv` (no claim of an agent is newer than the stop) and `SettledInv`. The last is the
heart: compaction forgets that an action ran, so at-most-once rests on the queue never handing
out again what the journal may have forgotten. An entry is "reported", or forgotten, only when
its row is done, and what an agent has fetched and not journaled cannot be completed by a
result in flight, since those carry older tokens. From it: `DeliveryAtMostOnce`,
`DeliveryTruthful`, `DeliveryBoot`, `DeliveryStop`, and `DeliveryImplementsOnce`, the
refinement `Spec => Promise` with `effect <- ran`, `answer <- rowResult`.

Only model-checked: `EveryActionSettles` (liveness under fairness is beyond the prover),
all of `JournalFile` (its replay is a fold over the file, and what it computes for every file
needs induction over sequences), and `SafetyGate` with `IncidentWalk`, so far.

## Plan

In this order; each with its own runs, and theorems where the module is a state machine.

1. Proofs about `IncidentWalk`: `ProgressIsEarned`, `HaltedStays` and `ApprovedIsWhatRuns`
   from an invariant that says what a fresh copy implies about its row; `SlotsAreCounted` from
   one that relates counts, slot bits and holders (cardinalities, so `FiniteSetTheorems`).
2. `EventIntake`: detection dedup, spool, archive with its unique event ID, leased outbox,
   ingest; abstract specification "every acknowledged event counts once or is dead-lettered".
   Proof of the outbox part along the lines of the queue.
3. `HostRestore`: quiesce marker, restore step, restore janitor and `restoreActionID` over the
   queue and the journal (the discard that `ActionDelivery` leaves out), the 64-attempt limit.
4. `NodeOwnership`: cordons, degraded taint and recycle with several incidents on a node, and
   the cordon janitor.
5. `Checkpoint`: request, deadline over a restart, acknowledgement of the request in force.
6. `WalkAndQueue`: `IncidentWalk` composed with `ActionQueue` by action IDs (same ID, other
   content after a reload).
7. `SafetyState`: flap detector, pause and cooldown persistence over a failover; two leaders.
8. `Operations`: idempotency records, plan versions, autonomy rollout and its effects.
9. `TwoClocks`: lease expiry with a skewed agent clock.
10. Small modules: notification queue, failure limiter, sessions, kernel log cursor, the
    operator's configuration snapshot.

Not planned: reading of vendor tools, fault catalogues, configuration parsing, metrics, HTTP
decoding, cloud and platform clients, the CLI. They hold no state that another part relies on,
or their behaviour is that of an external system.
