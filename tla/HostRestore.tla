---------------------------- MODULE HostRestore ----------------------------
(***************************************************************************)
(* Standing an accelerator stack down for a reset and putting it back:     *)
(* the quiesce and restore steps of a playbook and the janitor that        *)
(* restores what no playbook drives any more (controller/                  *)
(* acceleratorstack.go), the node's labels and marker (platform/kubernetes/*)
(* acceleratorstack.go) and the agent's half on the host (agent/executor). *)
(*                                                                         *)
(* One node.  A playbook is quiesce (step 0), reset (1), restore (2).  The *)
(* exactly-once queue between controller and agent is ActionDelivery's     *)
(* promise; here an action is a row that an agent settles at most once.    *)
(***************************************************************************)
EXTENDS Naturals, FiniteSets, FiniteSetsExt

CONSTANTS
    HsIncident,   \* incidents at the node
    Gpu,          \* its accelerators
    GpuOf,        \* target of each incident
    Component,    \* vendor components with a deploy label
    Monitor,      \* the component whose presence attests a report (dcgm)
    NoSnapshot,   \* no host state is recorded
    MaxRestoreId, \* bound on maxRestoreAttempts (64)
    MaxRewind,    \* bound on an incident's attempt counter
    MaxMishap,    \* bound on failures, restarts and expiries
    SiblingMishap \* the same when several incidents share the node

VARIABLES
    hsInc,      \* incident rows: state, step index and attempt
    hsRun,      \* step goroutines: where they are and what they were started with
    hsPins,     \* pinnedEvidence: incidents that own the quiesce, in memory
    hsReport,   \* whether the node's latest report carries an attestation
    hsNode,     \* node object: labels at "true", recorded components, marker
    hsHost,     \* host: daemon, GPUs with persistence mode, the agent's snapshot
    hsRow,      \* action rows
    hsJournal,  \* action IDs the agent has reported and will not claim again
    hsJan,      \* the janitor's pass
    hsLoose,    \* history: siblings share the node, or a pin was lost or expired
    hsMishap

hsVars == <<hsInc, hsRun, hsPins, hsReport, hsNode, hsHost, hsRow, hsJournal,
            hsJan, hsLoose, hsMishap>>

StepId == {"settle", "reset", "unsettle"} \X HsIncident \X (0 .. MaxRewind)
RestoreId == {"restore"} \X {"janitor"} \X (0 .. MaxRestoreId)
HsId == StepId \cup RestoreId

HsIdle == [pc |-> "idle", attempt |-> 0]
Rest == [pc |-> "idle", owners |-> {}, id |-> 0]

\* How the node looks before anyone touches it.
OriginalNode(on) == [deploy |-> on, recorded |-> {}, marker |-> FALSE]
OriginalHost == [daemon |-> TRUE, persist |-> Gpu, snap |-> NoSnapshot]

HostInit ==
    /\ \E busy \in SUBSET HsIncident :
          /\ hsInc = [i \in HsIncident |->
                        [state |-> IF i \in busy THEN "active" ELSE "halted", step |-> 0, attempt |-> 0]]
          /\ hsLoose = (Cardinality(busy) > 1)
          /\ hsMishap = IF Cardinality(busy) > 1 THEN MaxMishap - SiblingMishap ELSE 0
    /\ hsRun = [i \in HsIncident |-> HsIdle]
    /\ hsPins = {} /\ hsReport = TRUE
    /\ hsNode = OriginalNode(Component)
    /\ hsHost = OriginalHost
    /\ hsRow = [a \in HsId |-> "none"] /\ hsJournal = {}
    /\ hsJan = Rest

HsMishap ==
    /\ hsMishap < MaxMishap
    /\ hsMishap' = hsMishap + 1

Active(i) == hsInc[i].state # "halted"

\* agentrpc enqueues an action once; the queue refuses a halted incident's.
Enqueued(a) == IF hsRow[a] = "none" THEN [hsRow EXCEPT ![a] = "pending"] ELSE hsRow

HsAt(i, pc) == hsRun[i].pc = pc
Go(i, pc) == hsRun' = [hsRun EXCEPT ![i].pc = pc]

(* The quiesce step: pin, then mark, then let the host settle.             *)
(* quiesceAcceleratorStack up to the pin: without reset-grade evidence     *)
(* nothing is switched off.                                                *)
QuiescePins(i) ==
    /\ hsInc[i].state = "active" /\ hsInc[i].step = 0 /\ HsAt(i, "idle")
    /\ hsReport
    /\ hsPins' = hsPins \cup {i}
    /\ hsRun' = [hsRun EXCEPT ![i] = [pc |-> "pinned", attempt |-> hsInc[i].attempt]]
    /\ UNCHANGED <<hsInc, hsReport, hsNode, hsHost, hsRow, hsJournal, hsJan, hsLoose, hsMishap>>

\* QuiesceAcceleratorStack: merge what is switched off with what is recorded.
Quiesced(n) == [deploy |-> {}, recorded |-> n.recorded \cup n.deploy, marker |-> TRUE]

QuiesceMarks(i) ==
    /\ HsAt(i, "pinned")
    /\ hsNode' = Quiesced(hsNode)
    /\ Go(i, "marked")
    /\ UNCHANGED <<hsInc, hsPins, hsReport, hsHost, hsRow, hsJournal, hsJan, hsLoose, hsMishap>>

\* executeAgentStep of the host's half.
QuiesceSettles(i) ==
    /\ HsAt(i, "marked") /\ Active(i)
    /\ hsRow' = Enqueued(<<"settle", i, hsRun[i].attempt>>)
    /\ Go(i, "settling")
    /\ UNCHANGED <<hsInc, hsPins, hsReport, hsNode, hsHost, hsJournal, hsJan, hsLoose, hsMishap>>

(* The step's transition: fenced, so it loses against whatever changed the *)
(* incident since the goroutine started.                                   *)
Advanced(i, step) ==
    IF Active(i) THEN [hsInc EXCEPT ![i].step = step] ELSE hsInc

QuiesceDone(i) ==
    /\ HsAt(i, "settling") /\ hsRow[<<"settle", i, hsRun[i].attempt>>] = "ok"
    /\ hsInc' = Advanced(i, 1)
    /\ hsRun' = [hsRun EXCEPT ![i] = HsIdle]
    /\ UNCHANGED <<hsPins, hsReport, hsNode, hsHost, hsRow, hsJournal, hsJan, hsLoose, hsMishap>>

(* allowNVIDIAReset: the pinned report, or else a live attested one.       *)
ResetStarts(i) ==
    /\ hsInc[i].state = "active" /\ hsInc[i].step = 1 /\ HsAt(i, "idle")
    /\ i \in hsPins \/ hsReport
    /\ hsRow' = Enqueued(<<"reset", i, hsInc[i].attempt>>)
    /\ hsRun' = [hsRun EXCEPT ![i] = [pc |-> "resetting", attempt |-> hsInc[i].attempt]]
    /\ UNCHANGED <<hsInc, hsPins, hsReport, hsNode, hsHost, hsJournal, hsJan, hsLoose, hsMishap>>

ResetDone(i) ==
    /\ HsAt(i, "resetting") /\ hsRow[<<"reset", i, hsRun[i].attempt>>] = "ok"
    /\ hsInc' = Advanced(i, 2)
    /\ hsRun' = [hsRun EXCEPT ![i] = HsIdle]
    /\ UNCHANGED <<hsPins, hsReport, hsNode, hsHost, hsRow, hsJournal, hsJan, hsLoose, hsMishap>>

\* takePinnedAcceleratorEvidence drops a pin that is past its age.
PinExpires(i) ==
    /\ i \in hsPins /\ hsInc[i].step = 1 /\ HsAt(i, "idle")
    /\ HsMishap
    /\ hsPins' = hsPins \ {i}
    /\ hsLoose' = TRUE
    /\ UNCHANGED <<hsInc, hsRun, hsReport, hsNode, hsHost, hsRow, hsJournal, hsJan>>

\* RestoreAcceleratorStack switches on what is recorded, and unmarks.
HsRestored(n) ==
    IF n.recorded = {} /\ ~n.marker THEN n
    ELSE [deploy |-> n.deploy \cup n.recorded, recorded |-> {}, marker |-> FALSE]

(* restoreAcceleratorStackStep: first the host's half, through the agent.  *)
RestoreStarts(i) ==
    /\ hsInc[i].state = "active" /\ hsInc[i].step = 2 /\ HsAt(i, "idle")
    /\ hsRow' = Enqueued(<<"unsettle", i, hsInc[i].attempt>>)
    /\ hsRun' = [hsRun EXCEPT ![i] = [pc |-> "unsettling", attempt |-> hsInc[i].attempt]]
    /\ UNCHANGED <<hsInc, hsPins, hsReport, hsNode, hsHost, hsJournal, hsJan, hsLoose, hsMishap>>

RestoreUnmarks(i) ==
    /\ HsAt(i, "unsettling") /\ hsRow[<<"unsettle", i, hsRun[i].attempt>>] = "ok"
    /\ hsNode' = HsRestored(hsNode)
    /\ hsPins' = hsPins \ {i}
    /\ Go(i, "restored")
    /\ UNCHANGED <<hsInc, hsReport, hsHost, hsRow, hsJournal, hsJan, hsLoose, hsMishap>>

RestoreDone(i) ==
    /\ HsAt(i, "restored")
    /\ hsInc' = IF Active(i) THEN [hsInc EXCEPT ![i].state = "halted"] ELSE hsInc
    /\ hsRun' = [hsRun EXCEPT ![i] = HsIdle]
    /\ UNCHANGED <<hsPins, hsReport, hsNode, hsHost, hsRow, hsJournal, hsJan, hsLoose, hsMishap>>

(* A step fails: its action failed or was refused, or the platform call    *)
(* did.  The incident escalates to a playbook without a quiesce, or halts. *)
WaitsFor(i) ==
    CASE HsAt(i, "settling") -> {<<"settle", i, hsRun[i].attempt>>}
      [] HsAt(i, "resetting") -> {<<"reset", i, hsRun[i].attempt>>}
      [] HsAt(i, "unsettling") -> {<<"unsettle", i, hsRun[i].attempt>>}
      [] OTHER -> {}

StepFails(i) ==
    /\ ~HsAt(i, "idle")
    /\ \/ \E a \in WaitsFor(i) : hsRow[a] \in {"failed", "cancelled"}
       \/ HsAt(i, "marked") /\ ~Active(i)
    /\ hsRun' = [hsRun EXCEPT ![i] = HsIdle]
    /\ \/ hsInc' = [hsInc EXCEPT ![i].state = "halted"]
       \/ /\ hsInc[i].state = "active"
          /\ hsInc' = [hsInc EXCEPT ![i].state = "escalated"]
    /\ UNCHANGED <<hsPins, hsReport, hsNode, hsHost, hsRow, hsJournal, hsJan, hsLoose, hsMishap>>

(* An operator, a resolution or the end of the escalation ladder halts the *)
(* incident; its undelivered actions are cancelled.                        *)
Halts(i) ==
    /\ Active(i)
    /\ hsInc' = [hsInc EXCEPT ![i].state = "halted"]
    /\ hsRow' = [a \in HsId |->
                    IF a[2] = i /\ hsRow[a] = "pending" THEN "cancelled" ELSE hsRow[a]]
    /\ UNCHANGED <<hsRun, hsPins, hsReport, hsNode, hsHost, hsJournal, hsJan, hsLoose, hsMishap>>

\* The agent reports: with the monitor down there is no attestation.
ReportArrives ==
    /\ hsReport' = (Monitor \in hsNode.deploy)
    /\ hsReport' # hsReport
    /\ UNCHANGED <<hsInc, hsRun, hsPins, hsNode, hsHost, hsRow, hsJournal, hsJan, hsLoose, hsMishap>>

(* The agent's half.  It runs one action at a time; each stage of a        *)
(* quiesce or a restore may fail and end it there.                         *)
\* Variant: a retried quiesce records the host as it finds it.
SnapshotFresh(g) ==
    [gpu |-> g, daemon |-> hsHost.daemon, persist |-> g \in hsHost.persist]

\* saveAcceleratorHostState keeps the first snapshot.
SnapshotFor(g) ==
    IF hsHost.snap = NoSnapshot
    THEN [gpu |-> g, daemon |-> hsHost.daemon, persist |-> g \in hsHost.persist]
    ELSE hsHost.snap

\* quiesceAcceleratorHost: the states it can leave, and whether it is done.
HostSettled(g) ==
    LET s == SnapshotFor(g)
        saved == [hsHost EXCEPT !.snap = s]
        stopped == [saved EXCEPT !.daemon = FALSE]
        freed == [stopped EXCEPT !.persist = @ \ {g}]
    IN  IF s.gpu # g THEN {[host |-> hsHost, ok |-> FALSE]}
        ELSE {[host |-> freed, ok |-> TRUE]}
             \cup {[host |-> h, ok |-> FALSE] : h \in {saved, stopped, freed}}

\* restoreAcceleratorHost likewise.
HostUnsettled ==
    LET s == hsHost.snap
        held == [hsHost EXCEPT !.persist = IF s.persist THEN @ \cup {s.gpu} ELSE @]
        started == [held EXCEPT !.daemon = @ \/ s.daemon]
        cleared == [started EXCEPT !.snap = NoSnapshot]
    IN  IF s = NoSnapshot THEN {[host |-> hsHost, ok |-> TRUE]}
        ELSE {[host |-> cleared, ok |-> TRUE]}
             \cup {[host |-> h, ok |-> FALSE] : h \in {hsHost, held, started}}

HsOutcomes(a) ==
    CASE a[1] = "settle" -> HostSettled(GpuOf[a[2]])
      [] a[1] = "reset" -> {[host |-> hsHost, ok |-> TRUE], [host |-> hsHost, ok |-> FALSE]}
      [] OTHER -> HostUnsettled

AgentRuns(a) ==
    /\ hsRow[a] = "pending" /\ a \notin hsJournal
    /\ \E o \in HsOutcomes(a) :
          /\ hsHost' = o.host
          /\ hsRow' = [hsRow EXCEPT ![a] = IF o.ok THEN "ok" ELSE "failed"]
          /\ IF o.ok \/ Cardinality(HsOutcomes(a)) = 1 THEN UNCHANGED hsMishap ELSE HsMishap
    /\ hsJournal' = hsJournal \cup {a}
    /\ UNCHANGED <<hsInc, hsRun, hsPins, hsReport, hsNode, hsJan, hsLoose>>

(* The agent will not claim an ID it has reported, so the row is delivered *)
(* until its attempts are used up.                                         *)
AgentRefuses(a) ==
    /\ hsRow[a] = "pending" /\ a \in hsJournal
    /\ hsRow' = [hsRow EXCEPT ![a] = "failed"]
    /\ UNCHANGED <<hsInc, hsRun, hsPins, hsReport, hsNode, hsHost, hsJournal, hsJan, hsLoose, hsMishap>>

(* A pass of restoreAbandonedAcceleratorStacks.  The nodes are listed      *)
(* before the owners are: a pin is set before its marker.                  *)
JanitorLists ==
    /\ hsJan.pc = "idle" /\ hsNode.marker
    /\ hsJan' = [Rest EXCEPT !.pc = "listed"]
    /\ UNCHANGED <<hsInc, hsRun, hsPins, hsReport, hsNode, hsHost, hsRow, hsJournal, hsLoose, hsMishap>>

JanitorOwners ==
    /\ hsJan.pc = "listed"
    /\ hsJan' = [hsJan EXCEPT !.pc = "owners", !.owners = hsPins]
    /\ UNCHANGED <<hsInc, hsRun, hsPins, hsReport, hsNode, hsHost, hsRow, hsJournal, hsLoose, hsMishap>>

\* A pinned incident that is still driven owns the quiesce.
JanitorYields ==
    /\ hsJan.pc = "owners"
    /\ \E i \in hsJan.owners : Active(i)
    /\ hsJan' = Rest
    /\ UNCHANGED <<hsInc, hsRun, hsPins, hsReport, hsNode, hsHost, hsRow, hsJournal, hsLoose, hsMishap>>

\* rewindIncidentsToQuiesce
Rewindable == {i \in HsIncident : hsInc[i].state = "active" /\ hsInc[i].step > 0}
Rewound ==
    [i \in HsIncident |->
        IF i \in Rewindable /\ HsAt(i, "idle")
        THEN [hsInc[i] EXCEPT !.step = 0, !.attempt = @ + 1] ELSE hsInc[i]]

\* A goroutine in flight holds the restore back until a later pass.
JanitorRewinds ==
    /\ hsJan.pc = "owners" /\ hsJan.owners = {}
    /\ \A i \in Rewindable : hsInc[i].attempt < MaxRewind
    /\ hsInc' = Rewound
    /\ hsJan' = IF \E i \in HsIncident : Active(i) /\ ~HsAt(i, "idle")
                THEN Rest ELSE [hsJan EXCEPT !.pc = "clear"]
    /\ UNCHANGED <<hsRun, hsPins, hsReport, hsNode, hsHost, hsRow, hsJournal, hsLoose, hsMishap>>

JanitorDisowned ==
    /\ hsJan.pc = "owners" /\ hsJan.owners # {}
    /\ \A i \in hsJan.owners : ~Active(i)
    /\ hsJan' = [hsJan EXCEPT !.pc = "clear"]
    /\ UNCHANGED <<hsInc, hsRun, hsPins, hsReport, hsNode, hsHost, hsRow, hsJournal, hsLoose, hsMishap>>

RestoreAction(k) == <<"restore", "janitor", k>>
HsTerminal(a) == hsRow[a] \in {"ok", "collected", "failed", "cancelled"}

\* Variant: one ID for every attempt on a node.
RestoreIndexOnly == 0

(* restoreActionID: the first index whose row is absent or live, every     *)
(* finished row before it dropped.                                         *)
RestoreIndex == Min({k \in 0 .. MaxRestoreId : ~HsTerminal(RestoreAction(k))} \cup {MaxRestoreId})
Dropped(k) == [a \in HsId |-> IF a \in RestoreId /\ a[3] < k THEN "none" ELSE hsRow[a]]

JanitorDispatches ==
    LET k == RestoreIndex
    IN  /\ hsJan.pc = "clear"
        /\ ~HsTerminal(RestoreAction(k))
        /\ hsRow' = [Dropped(k) EXCEPT ![RestoreAction(k)] = "pending"]
        /\ hsJan' = [hsJan EXCEPT !.pc = "waiting", !.id = k]
        /\ UNCHANGED <<hsInc, hsRun, hsPins, hsReport, hsNode, hsHost, hsJournal, hsLoose, hsMishap>>

\* The wait budget of the pass ends, or the restore failed; both retry later.
JanitorGivesUp ==
    /\ hsJan.pc = "waiting"
    /\ hsRow[RestoreAction(hsJan.id)] # "ok"
    /\ hsJan' = Rest
    /\ UNCHANGED <<hsInc, hsRun, hsPins, hsReport, hsNode, hsHost, hsRow, hsJournal, hsLoose, hsMishap>>

JanitorUnmarks ==
    /\ hsJan.pc = "waiting"
    /\ hsRow[RestoreAction(hsJan.id)] = "ok"
    /\ hsNode' = HsRestored(hsNode)
    /\ hsPins' = hsPins \ hsJan.owners
    /\ hsRow' = [hsRow EXCEPT ![RestoreAction(hsJan.id)] = "collected"]
    /\ hsJan' = Rest
    /\ UNCHANGED <<hsInc, hsRun, hsReport, hsHost, hsJournal, hsLoose, hsMishap>>

(* The controller restarts: pins and goroutines are gone, the incidents'   *)
(* steps are evaluated again under the same action IDs.                    *)
HsRestarts ==
    /\ HsMishap
    /\ hsPins' = {} /\ hsJan' = Rest
    /\ hsRun' = [i \in HsIncident |-> HsIdle]
    /\ hsLoose' = TRUE
    /\ UNCHANGED <<hsInc, hsReport, hsNode, hsHost, hsRow, hsJournal>>

IncidentStep(i) ==
    \/ QuiescePins(i) \/ QuiesceMarks(i)
    \/ QuiesceSettles(i) \/ QuiesceDone(i)
    \/ ResetStarts(i) \/ ResetDone(i) \/ PinExpires(i)
    \/ RestoreStarts(i) \/ RestoreUnmarks(i) \/ RestoreDone(i)
    \/ StepFails(i) \/ Halts(i)

JanitorStep ==
    \/ JanitorLists \/ JanitorOwners \/ JanitorYields \/ JanitorRewinds
    \/ JanitorDisowned \/ JanitorDispatches \/ JanitorGivesUp \/ JanitorUnmarks

HostNext ==
    \/ \E i \in HsIncident : IncidentStep(i)
    \/ \E a \in HsId : AgentRuns(a) \/ AgentRefuses(a)
    \/ JanitorStep \/ ReportArrives \/ HsRestarts

HostSpec == HostInit /\ [][HostNext]_hsVars

(* The janitor and the agent keep going, and the agent answers within the  *)
(* janitor's wait; the incidents need not do anything.                     *)
Prompt == hsJan.pc = "waiting" /\ hsJan'.pc = "idle" => hsRow[RestoreAction(hsJan.id)] # "pending"

PromptNext == HostNext /\ Prompt
HostFairness ==
    /\ WF_hsVars(JanitorStep /\ Prompt)
    /\ \A a \in RestoreId : WF_hsVars(AgentRuns(a)) /\ WF_hsVars(AgentRefuses(a))

(* Nothing that a quiesce changed is ever forgotten: a component switched  *)
(* off is recorded on the node; a daemon stopped or a persistence mode     *)
(* cleared is in the agent's snapshot, as it was before the first attempt, *)
(* however often quiesce and restore fail half way and are retried.  And   *)
(* while the host is changed the node carries the marker by which a later  *)
(* janitor finds it ("Keep the platform's durable quiesce marker until the *)
(* node's own state is restored"), for an incident that has the node to    *)
(* itself, under a controller that keeps its pin.                          *)
NothingForgotten ==
    /\ hsNode.deploy \cup hsNode.recorded = Component
    /\ LET s == hsHost.snap IN
       IF s = NoSnapshot THEN hsHost.daemon /\ hsHost.persist = Gpu
       ELSE s.daemon /\ s.persist /\ Gpu \ {s.gpu} \subseteq hsHost.persist
    /\ ~hsLoose /\ hsHost.snap # NoSnapshot => hsNode.marker

(* Monitoring that no playbook drives any more comes back: a marked node   *)
(* without an active incident is restored, despite failed attempts and IDs *)
(* the agent refuses.                                                      *)
QuiesceIsUndone ==
    HostFairness => (hsNode.marker /\ \A i \in HsIncident : ~Active(i)) ~> ~hsNode.marker
=============================================================================
