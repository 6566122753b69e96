---------------------------- MODULE IncidentWalk ----------------------------
(***************************************************************************)
(* The incident state walk of the controller: the reconcile tick and its   *)
(* per-state advance functions, step admission and the step goroutine, the *)
(* approval rounds, the janitors that rewind or close incidents, operator  *)
(* requests, playbook reloads and leader failover, over the incident rows  *)
(* of the store and the safety gate (SafetyGate).                          *)
(*                                                                         *)
(* Everyone who changes a row first reads it, decides, and then writes in  *)
(* a transaction.  The writers ("holders") are the walk, the janitor       *)
(* goroutine, an operator's request, an approver's request and, per        *)
(* incident, its step goroutine.  A holder's local state is a record: the  *)
(* row copy it works on, the state it read, the configuration it pinned.   *)
(*                                                                         *)
(* StateChangedAt, the write fence, and the row version are only compared  *)
(* for equality with what was read, so a holder keeps two flags instead:   *)
(* fresh (nobody has moved StateChangedAt since) and same (nobody has      *)
(* written the row since; only the version-guarded writes, the late bind   *)
(* and the rewind, keep it past their read).  UpdatedAt matters only as    *)
(* "later than StateChangedAt", the field touched, tagged with what made   *)
(* it so.                                                                  *)
(*                                                                         *)
(* Clocks, windows, cooldowns, evidence, arming, confinement and the flap  *)
(* verdict are inputs: where the code branches on one, both branches are   *)
(* possible.                                                               *)
(***************************************************************************)
EXTENDS SafetyGate, Sequences

CONSTANTS
    WalkIncident, NoWalkIncident, NoTarget,
    Book, NoBook,           \* playbook names
    Step, NoStep,           \* what a step says: its stepContentHash
    NeedsApproval,          \* the steps that ask a human first
    RebootClass,            \* the steps the reboot cap counts
    QuiesceStep,            \* the step that stands the vendor stack down
    NotifySteps,            \* the notify.* steps: a one-step book of these only observes
    Engines,                \* the configurations a reload may install
    Engine0,                \* the one installed first
    EscalateTo,             \* OnFailure.EscalateTo of each playbook
    PolicyBook,             \* the playbook the policies bind an incident to
    MaxEscalationAttempts,
    MaxEpoch,               \* bound: approval rounds per incident
    MaxRewinds,             \* bound: attempts a rewind may add past the escalation cap
    MaxInterventions        \* bound: failovers, reloads, resolves, janitor passes, second decisions

ASSUME WalkConstants ==
    /\ NeedsApproval \subseteq Step
    /\ RebootClass \subseteq Step /\ NotifySteps \subseteq Step
    /\ QuiesceStep \in Step
    /\ NoStep \notin Step /\ NoBook \notin Book
    /\ NoTarget \notin Target /\ NoWalkIncident \notin WalkIncident
    /\ \A e \in Engines : DOMAIN e \subseteq Book /\ \A b \in DOMAIN e : e[b] \in Seq(Step)
    /\ EscalateTo \in [Book -> Book \cup {NoBook}]
    /\ PolicyBook \in [WalkIncident -> Book]
    /\ MaxEscalationAttempts \in Nat /\ MaxEpoch \in Nat /\ MaxRewinds \in Nat
    /\ MaxInterventions \in Nat
    /\ Engine0 \in Engines

VARIABLES
    row,        \* incident rows
    asked,      \* approvals: what each round asked
    decided,    \* approvals: the latest decision of each round
    consent,    \* history: rounds a human ever approved
    engine,     \* the installed configuration
    leader,     \* "down", "starting" (elected), "seeding" (slots listed) or "up"
    listed,     \* the slot-holding incidents RebuildGateOccupancy listed
    inFlight,   \* the controller's in-memory set of incidents with a running step
    recovered,  \* recoveredSlots: incidents whose reboot slot was seeded
    me,         \* the holders' local state
    strayed,    \* history: a term's gate was not rebuilt from the rows as they were
    interventions

walkVars == <<row, asked, decided, consent, engine, leader, listed, inFlight,
              recovered, me, strayed, interventions>>
vars == <<limits, gateVars, walkVars>>

Epoch == 1 .. MaxEpoch
Holder == {"walk", "janitor", "operator", "approver"} \cup WalkIncident

State == {"OPEN", "OBSERVING", "EVALUATING", "AWAITING_APPROVAL", "EXECUTING",
          "VERIFYING", "NEEDS_HUMAN", "RESOLVED", "EXPIRED"}
WalkTerminal == {"RESOLVED", "EXPIRED"}
Halted == WalkTerminal \cup {"NEEDS_HUMAN"}
Listed == State \ Halted

validTransitions ==
    [s \in State |->
        CASE s = "OPEN" -> {"OBSERVING", "EVALUATING", "NEEDS_HUMAN", "RESOLVED"}
          [] s = "OBSERVING" -> {"EVALUATING", "NEEDS_HUMAN", "RESOLVED"}
          [] s = "EVALUATING" -> {"EVALUATING", "EXECUTING", "AWAITING_APPROVAL",
                                  "OBSERVING", "NEEDS_HUMAN", "RESOLVED"}
          [] s = "AWAITING_APPROVAL" -> {"EXECUTING", "NEEDS_HUMAN", "EXPIRED", "RESOLVED"}
          [] s = "EXECUTING" -> {"VERIFYING", "NEEDS_HUMAN", "EVALUATING"}
          [] s = "VERIFYING" -> {"RESOLVED", "EVALUATING", "NEEDS_HUMAN"}
          [] s = "NEEDS_HUMAN" -> {"RESOLVED", "EVALUATING"}
          [] OTHER -> {}]

CanTransition(from, to) == to \in validTransitions[from]

NoRow == [state |-> "NONE", target |-> NoTarget, book |-> NoBook, step |-> 0,
          attempt |-> 0, held |-> FALSE, epoch |-> 0, touched |-> "no"]

\* What a running step is: the step, and the identity its action ID hashes.
NoDoing == [book |-> NoBook, step |-> 0, attempt |-> 0, content |-> NoStep]

NoEngine == <<>>

Idle == [pc |-> "idle", at |-> NoWalkIncident, from |-> "NONE", inc |-> NoRow, pin |-> NoEngine,
         slot |-> FALSE, fresh |-> FALSE, same |-> FALSE, doing |-> NoDoing]

NoAsk == <<NoBook, NoStep>>

-----------------------------------------------------------------------------
(***************************************************************************)
(* The playbook engine, as a holder's record m sees it: the pinned         *)
(* configuration, the bound book and the step index (from 0).              *)
(***************************************************************************)
Bound(m) == m.inc.book \in DOMAIN m.pin

Exhausted(m) == m.inc.step >= Len(m.pin[m.inc.book])

NextStep(m) == m.pin[m.inc.book][m.inc.step + 1]

Content(m) == <<m.inc.book, NextStep(m)>>

SelectFor(e, i) == IF PolicyBook[i] \in DOMAIN e THEN PolicyBook[i] ELSE NoBook

Escalation(m) ==
    IF Bound(m) /\ EscalateTo[m.inc.book] \in DOMAIN m.pin THEN EscalateTo[m.inc.book] ELSE NoBook

IsObservePlaybook(book) == Len(book) = 1 /\ book[1] \in NotifySteps

-----------------------------------------------------------------------------
(***************************************************************************)
(* What a pass decides.  Each operator maps a holder's record to the       *)
(* records it may become: Idle when the pass holds and retries, or one     *)
(* that has a write to make.                                               *)
(***************************************************************************)
To(m, to) == [m EXCEPT !.pc = "commit", !.inc.state = to, !.same = FALSE, !.pin = NoEngine]

Start(m) == [m EXCEPT !.pc = "start", !.same = FALSE]

Quarantine(m) == To(m, "NEEDS_HUMAN")

Escalate(m) ==
    IF m.inc.attempt >= MaxEscalationAttempts \/ Escalation(m) = NoBook
    THEN Quarantine(m)
    ELSE To([m EXCEPT !.inc.book = Escalation(m), !.inc.step = 0, !.inc.attempt = @ + 1],
            "EVALUATING")

ParkForApproval(m) ==
    IF m.inc.epoch < MaxEpoch THEN [m EXCEPT !.pc = "park", !.same = FALSE] ELSE Idle

AdvanceOpen(m) ==
    {Quarantine(m),                                             \* flapping target
     To(m, IF Bound(m) /\ ~IsObservePlaybook(m.pin[m.inc.book]) THEN "EVALUATING" ELSE "OBSERVING")}

ObserveThreshold(m) ==
    {Idle, To(m, "RESOLVED")} \cup (IF Bound(m) THEN {To(m, "EVALUATING")} ELSE {})

AdvanceObserving(m) ==
    IF m.inc.book = NoBook /\ SelectFor(m.pin, m.at) # NoBook
    THEN {[m EXCEPT !.pc = "bind", !.inc.book = SelectFor(m.pin, m.at)]}
    ELSE ObserveThreshold(m)

AdvanceEvaluating(m) ==
    {Idle} \cup                                                 \* paused, in a window, cooling down
    (IF ~Bound(m) THEN {To(m, "OBSERVING")}
     ELSE (IF m.inc.step = 0 THEN {Quarantine(m), Escalate(m)} ELSE {}) \cup
          (IF Exhausted(m) THEN {To(m, "VERIFYING")}
           ELSE {Escalate(m),                                   \* unrecyclable node, unarmed agent
                 IF NextStep(m) \in NeedsApproval THEN ParkForApproval(m)
                 ELSE Start(m)}))

\* Variant: an approval counts for whatever step is current.
AdvanceAwaitingUnmatched(m) ==
    LET decision == decided[m.at][m.inc.epoch]
    IN  IF decision = "none" THEN {Idle, To(m, "EXPIRED")}
        ELSE IF ~Bound(m) \/ Exhausted(m) THEN {Quarantine(m)}
        ELSE IF decision = "rejected" THEN {To(m, "NEEDS_HUMAN")}
        ELSE {Idle, Start(m)}

AdvanceAwaitingApproval(m) ==
    LET decision == decided[m.at][m.inc.epoch]
    IN  IF decision = "none" THEN {Idle, To(m, "EXPIRED")}
        ELSE IF ~Bound(m) \/ Exhausted(m) THEN {Quarantine(m)}
        ELSE IF decision = "rejected" THEN {To(m, "NEEDS_HUMAN")}
        ELSE IF asked[m.at][m.inc.epoch] # Content(m) THEN {ParkForApproval(m)}
        ELSE {Idle, Start(m)}                  \* hold in a window, or go

AdvanceVerifying(m) ==
    IF m.inc.touched # "no" THEN {Escalate(m)}
    ELSE {Idle, To(m, "NEEDS_HUMAN"), To(m, "RESOLVED")}        \* by evidence

RecoverOrphanedExecution(m) == {To(m, "EVALUATING")}

Plans(m) ==
    CASE m.from = "OPEN" -> AdvanceOpen(m)
      [] m.from = "OBSERVING" -> AdvanceObserving(m)
      [] m.from = "EVALUATING" -> AdvanceEvaluating(m)
      [] m.from = "AWAITING_APPROVAL" -> AdvanceAwaitingApproval(m)
      [] m.from = "EXECUTING" -> RecoverOrphanedExecution(m)
      [] m.from = "VERIFYING" -> AdvanceVerifying(m)

(***************************************************************************)
(* runStep: the step succeeded, failed, or was a guard that refused.       *)
(***************************************************************************)
Outcomes(m) ==
    LET n == [m EXCEPT !.inc.step = @ + 1]
    IN  {To(n, IF Exhausted(n) THEN "VERIFYING" ELSE "EVALUATING"), Escalate(m), Quarantine(m)}

-----------------------------------------------------------------------------
(***************************************************************************)
(* Reads and writes.  A committed write makes every other holder's copy of *)
(* the row out of date; it moves the fence unless it is an ingest or an    *)
(* acknowledgement.                                                        *)
(***************************************************************************)
Read(i, pc) ==
    [Idle EXCEPT !.pc = pc, !.at = i, !.from = row[i].state, !.inc = row[i],
                 !.fresh = TRUE, !.same = TRUE]

Write(h, i, new, mine, fence) ==
    /\ row' = [row EXCEPT ![i] = new]
    /\ me' = [g \in Holder |->
                IF g = h THEN mine
                ELSE IF me[g].at = i
                     THEN [me[g] EXCEPT !.same = FALSE, !.fresh = @ /\ ~fence]
                     ELSE me[g]]

Become(h, mine) == me' = [me EXCEPT ![h] = mine]

Intervene(h, mine) ==
    /\ interventions < MaxInterventions
    /\ me[h].pc = "idle"
    /\ Become(h, mine)
    /\ interventions' = interventions + 1

\* UpdatedAt moves and StateChangedAt does not; only advanceVerifying compares the two.
Touch(i, by) ==
    IF row[i].state = "VERIFYING" /\ row[i].touched # "signal"
    THEN [row[i] EXCEPT !.touched = by]
    ELSE row[i]

approvalVars == <<asked, decided, consent>>
termVars == <<limits, engine, leader, listed, interventions>>

\* The HTTP API answers from the moment the replica leads, before Run has rebuilt the gate.
Serving == leader # "down"

(***************************************************************************)
(* Ingest: open an incident for a signal, or attach the signal to the open *)
(* one.  Two incidents of different classes may share a target.            *)
(***************************************************************************)
Ingest(i, t) ==
    /\ Serving
    /\ \/ /\ row[i].state = "NONE"
          /\ Write(NoWalkIncident, i,
                   [NoRow EXCEPT !.state = "OPEN", !.target = t, !.book = SelectFor(engine, i)],
                   Idle, FALSE)
       \/ /\ row[i].state \notin WalkTerminal \cup {"NONE"}
          /\ row[i].target = t
          /\ Write(NoWalkIncident, i, Touch(i, "signal"), Idle, FALSE)
    /\ UNCHANGED <<gateVars, approvalVars, termVars, inFlight, recovered, strayed>>

(***************************************************************************)
(* The reconcile pass: list the rows, then take up each incident that has  *)
(* no step in flight, with the configuration installed at that moment.     *)
(***************************************************************************)
Tick(i) ==
    /\ leader = "up"
    /\ me["walk"].pc = "idle"
    /\ row[i].state \in Listed
    /\ Become("walk", Read(i, "read"))
    /\ UNCHANGED <<gateVars, row, approvalVars, termVars, inFlight, recovered, strayed>>

Advance ==
    /\ me["walk"].pc = "read"
    /\ IF me["walk"].at \in inFlight
       THEN Become("walk", Idle)
       ELSE \E plan \in Plans([me["walk"] EXCEPT !.pin = engine]) : Become("walk", plan)
    /\ UNCHANGED <<gateVars, row, approvalVars, termVars, inFlight, recovered, strayed>>

(***************************************************************************)
(* The late bind of advanceObserving: an optimistic update on the version, *)
(* after which the same pass goes on to the threshold.                     *)
(***************************************************************************)
Bind ==
    LET m == me["walk"]
        new == [m.inc EXCEPT !.touched = "no"]
    IN  /\ m.pc = "bind"
        /\ \/ /\ m.same
              /\ Write("walk", m.at, new, [m EXCEPT !.pc = "observe", !.inc = new], TRUE)
           \/ Become("walk", Idle) /\ UNCHANGED row
        /\ UNCHANGED <<gateVars, approvalVars, termVars, inFlight, recovered, strayed>>

Observe ==
    /\ me["walk"].pc = "observe"
    /\ \E plan \in ObserveThreshold(me["walk"]) : Become("walk", plan)
    /\ UNCHANGED <<gateVars, row, approvalVars, termVars, inFlight, recovered, strayed>>

(***************************************************************************)
(* The transaction of parkForApproval: the state, a new round and what the *)
(* round asks.                                                             *)
(***************************************************************************)
Park ==
    LET m == me["walk"]
        round == row[m.at].epoch + 1
    IN  /\ m.pc = "park"
        /\ \/ /\ m.fresh
              /\ Write("walk", m.at,
                       [m.inc EXCEPT !.state = "AWAITING_APPROVAL", !.epoch = round, !.touched = "no"],
                       Idle, TRUE)
              /\ asked' = [asked EXCEPT ![m.at][round] = Content(m)]
           \/ Become("walk", Idle) /\ UNCHANGED <<row, asked>>
        /\ UNCHANGED <<gateVars, decided, consent, termVars, inFlight, recovered, strayed>>

(***************************************************************************)
(* startStep.  The read lock on the configuration is held from the check   *)
(* against the installed one until the goroutine is started, so a reload   *)
(* waits while the walk is in "exec" or "spawn".  A pass that is refused   *)
(* (confinement, evidence, gate) holds, or quarantines past its deadline.  *)
(***************************************************************************)
StartStep ==
    LET m == me["walk"]
        t == m.inc.target
        reboot == NextStep(m) \in RebootClass
    IN  /\ m.pc = "start"
        /\ \/ Become("walk", Idle) /\ UNCHANGED gateVars
           \/ m.pin = engine /\ Become("walk", Quarantine(m)) /\ UNCHANGED gateVars
           \/ /\ m.pin = engine
              /\ IF m.inc.held THEN AllowHeld(t, reboot) ELSE Allow(t, reboot)
              /\ Become("walk", [m EXCEPT !.pc = "exec", !.inc.state = "EXECUTING",
                                          !.inc.held = TRUE, !.slot = ~m.inc.held])
        /\ UNCHANGED <<row, approvalVars, termVars, inFlight, recovered, strayed>>

\* Variant: a lost EXECUTING write keeps the slot the call took.
ExecFailsKeepingSlot ==
    LET m == me["walk"]
    IN  /\ m.pc = "exec"
        /\ StepDone(m.inc.target, NextStep(m) \in RebootClass)
        /\ Become("walk", Idle)
        /\ UNCHANGED <<active, row, approvalVars, termVars, inFlight, recovered, strayed>>

ExecFails ==
    LET m == me["walk"]
    IN  /\ m.pc = "exec"
        /\ StepDone(m.inc.target, NextStep(m) \in RebootClass)
        /\ IF m.slot THEN ReleaseRemediation(m.inc.target) ELSE UNCHANGED active
        /\ Become("walk", Idle)
        /\ UNCHANGED <<row, approvalVars, termVars, inFlight, recovered, strayed>>

Exec ==
    LET m == me["walk"]
        new == [m.inc EXCEPT !.touched = "no"]
    IN  /\ m.pc = "exec"
        /\ m.fresh
        /\ Write("walk", m.at, new, [m EXCEPT !.pc = "spawn", !.inc = new, !.slot = FALSE], TRUE)
        /\ UNCHANGED <<gateVars, approvalVars, termVars, inFlight, recovered, strayed>>

Spawn ==
    LET m == me["walk"]
        i == m.at
        doing == [book |-> m.inc.book, step |-> m.inc.step, attempt |-> m.inc.attempt,
                  content |-> NextStep(m)]
    IN  /\ m.pc = "spawn"
        /\ inFlight' = inFlight \cup {i}
        /\ me' = [me EXCEPT !["walk"] = Idle,
                            ![i] = [m EXCEPT !.pc = "run", !.from = "EXECUTING", !.doing = doing]]
        /\ UNCHANGED <<gateVars, row, approvalVars, termVars, recovered, strayed>>

RunStep(i) ==
    /\ me[i].pc = "run"
    /\ \E plan \in Outcomes(me[i]) : Become(i, plan)
    /\ UNCHANGED <<gateVars, row, approvalVars, termVars, inFlight, recovered, strayed>>

\* The goroutine's deferred calls, in their order: StepDone, then the in-flight mark.
Finish(i) ==
    /\ me[i].pc = "done"
    /\ StepDone(row[i].target, me[i].doing.content \in RebootClass)
    /\ inFlight' = inFlight \ {i}
    /\ Become(i, Idle)
    /\ UNCHANGED <<active, row, approvalVars, termVars, recovered, strayed>>

(***************************************************************************)
(* transition: the transaction re-reads the row and gives up if the state  *)
(* or the fence moved; a halting one clears the durable slot bit.          *)
(***************************************************************************)
Afterwards(h, m) ==
    IF h \in WalkIncident THEN [Idle EXCEPT !.pc = "done", !.at = m.at, !.doing = m.doing] ELSE Idle

\* Variant: the transaction writes the holder's copy without re-reading the row.
CommitBlind(h) ==
    LET m == me[h]
        halts == m.inc.state \in Halted
        new == [m.inc EXCEPT !.touched = "no", !.held = @ /\ ~halts]
        slot == halts /\ m.inc.held /\ row[m.at].held
    IN  /\ m.pc = "commit"
        /\ CanTransition(m.from, m.inc.state)
        /\ Write(h, m.at, new, [m EXCEPT !.pc = "after", !.inc = new, !.slot = slot], TRUE)
        /\ strayed' = (strayed \/ (slot /\ leader # "up"))
        /\ UNCHANGED <<gateVars, approvalVars, termVars, inFlight, recovered>>

Commit(h) ==
    LET m == me[h]
        halts == m.inc.state \in Halted
        new == [m.inc EXCEPT !.touched = "no", !.held = @ /\ ~halts]
        slot == halts /\ m.inc.held /\ row[m.at].held
    IN  /\ m.pc = "commit"
        /\ CanTransition(m.from, m.inc.state)
        /\ row[m.at].state = m.from /\ m.fresh
        /\ Write(h, m.at, new, [m EXCEPT !.pc = "after", !.inc = new, !.slot = slot], TRUE)
        /\ strayed' = (strayed \/ (slot /\ leader # "up"))
        /\ UNCHANGED <<gateVars, approvalVars, termVars, inFlight, recovered>>

\* An illegal edge, a conflict or a store error.
CommitFails(h) ==
    /\ me[h].pc = "commit"
    /\ Become(h, Afterwards(h, me[h]))
    /\ UNCHANGED <<gateVars, row, approvalVars, termVars, inFlight, recovered, strayed>>

(***************************************************************************)
(* What transition does after its commit: hand back the reboot slot seeded *)
(* for a recovered incident, then the remediation slot.  The janitor that  *)
(* closes an orphaned EXECUTING incident goes on to its second transition. *)
(***************************************************************************)
After(h) ==
    LET m == me[h]
        t == m.inc.target
        hands == m.from = "EXECUTING" /\ m.at \in recovered
    IN  /\ m.pc = "after"
        /\ StepDone(t, hands)
        /\ recovered' = IF hands THEN recovered \ {m.at} ELSE recovered
        /\ IF m.slot THEN ReleaseRemediation(t) ELSE UNCHANGED active
        /\ Become(h, IF h = "janitor" /\ m.inc.state = "EVALUATING"
                     THEN To([m EXCEPT !.from = "EVALUATING"], "RESOLVED")
                     ELSE Afterwards(h, m))
        /\ UNCHANGED <<row, approvalVars, termVars, inFlight, strayed>>

-----------------------------------------------------------------------------
(***************************************************************************)
(* Requests of operators.                                                  *)
(***************************************************************************)
ResolveIncident(i) ==
    /\ Serving
    /\ row[i].state # "NONE"
    /\ CanTransition(row[i].state, "RESOLVED")
    /\ Intervene("operator", To(Read(i, "read"), "RESOLVED"))
    /\ UNCHANGED <<gateVars, row, approvalVars, limits, engine, leader, listed,
                   inFlight, recovered, strayed>>

AcknowledgeIncident(i) ==
    /\ Serving
    /\ row[i].state \notin WalkTerminal \cup {"NONE"}
    /\ Write(NoWalkIncident, i, Touch(i, "ack"), Idle, FALSE)
    /\ UNCHANGED <<gateVars, approvalVars, termVars, inFlight, recovered, strayed>>

(***************************************************************************)
(* DecideApproval takes the round from the row, then Manager.Decide reads  *)
(* the row again and records the decision for that round if the incident   *)
(* still awaits one: the read and the record are not one transaction.  A   *)
(* round that has its decision may be decided again.                       *)
(***************************************************************************)
DecideApproval(i) ==
    LET mine == [Idle EXCEPT !.pc = "decide", !.at = i, !.inc.epoch = row[i].epoch]
    IN  /\ Serving
        /\ row[i].epoch > 0
        /\ \/ /\ me["approver"].pc = "idle"
              /\ decided[i][row[i].epoch] = "none"
              /\ Become("approver", mine)
              /\ UNCHANGED interventions
           \/ /\ decided[i][row[i].epoch] # "none"
              /\ Intervene("approver", mine)
        /\ UNCHANGED <<gateVars, row, approvalVars, limits, engine, leader, listed,
                       inFlight, recovered, strayed>>

Decide(decision) ==
    LET m == me["approver"]
        round == m.inc.epoch
    IN  /\ m.pc = "decide"
        /\ IF row[m.at].state = "AWAITING_APPROVAL"
           THEN /\ decided' = [decided EXCEPT ![m.at][round] = decision]
                /\ consent' = IF decision = "approved" THEN consent \cup {<<m.at, round>>}
                              ELSE consent
           ELSE UNCHANGED <<decided, consent>>
        /\ Become("approver", Idle)
        /\ UNCHANGED <<gateVars, row, asked, termVars, inFlight, recovered, strayed>>

-----------------------------------------------------------------------------
(***************************************************************************)
(* The janitor goroutine.  Its in-flight check is taken with its read: any *)
(* step that starts in between moves the version and the fence.            *)
(***************************************************************************)
QuiesceIndex(book) == {k \in DOMAIN book : book[k] = QuiesceStep}

RewindTo(i) ==
    LET book == engine[row[i].book]
    IN  CHOOSE k \in QuiesceIndex(book) : \A l \in QuiesceIndex(book) : k <= l

RewindIncidentsToQuiesce(i) ==
    /\ leader = "up"
    /\ row[i].state \in {"EVALUATING", "EXECUTING", "AWAITING_APPROVAL"}
    /\ i \notin inFlight
    /\ row[i].book \in DOMAIN engine
    /\ QuiesceIndex(engine[row[i].book]) # {}
    /\ row[i].step > RewindTo(i) - 1
    /\ row[i].attempt < MaxEscalationAttempts + MaxRewinds
    /\ Intervene("janitor", [Read(i, "rewind") EXCEPT !.inc.step = RewindTo(i) - 1,
                                                   !.inc.attempt = @ + 1])
    /\ UNCHANGED <<gateVars, row, approvalVars, limits, engine, leader, listed,
                   inFlight, recovered, strayed>>

\* Variant: the rewind does not move StateChangedAt.
RewindUnfenced ==
    LET m == me["janitor"]
    IN  /\ m.pc = "rewind"
        /\ \/ /\ m.same
              /\ Write("janitor", m.at, m.inc, Idle, FALSE)
           \/ Become("janitor", Idle) /\ UNCHANGED row
        /\ UNCHANGED <<gateVars, approvalVars, termVars, inFlight, recovered, strayed>>

Rewind ==
    LET m == me["janitor"]
    IN  /\ m.pc = "rewind"
        /\ \/ /\ m.same
              /\ Write("janitor", m.at, [m.inc EXCEPT !.touched = "no"], Idle, TRUE)
           \/ Become("janitor", Idle) /\ UNCHANGED row
        /\ UNCHANGED <<gateVars, approvalVars, termVars, inFlight, recovered, strayed>>

ResolveIncidentsOnVanishedNodes(i) ==
    /\ leader = "up"
    /\ row[i].state \in Listed \cup {"NEEDS_HUMAN"}
    /\ i \notin inFlight
    /\ Intervene("janitor", To(Read(i, "read"),
                            IF row[i].state = "EXECUTING" THEN "EVALUATING" ELSE "RESOLVED"))
    /\ UNCHANGED <<gateVars, row, approvalVars, limits, engine, leader, listed,
                   inFlight, recovered, strayed>>

-----------------------------------------------------------------------------
(***************************************************************************)
(* Configuration and leadership.                                           *)
(***************************************************************************)
InstallRuntimeConfig(e, l) ==
    /\ interventions < MaxInterventions
    /\ <<e, l>> # <<engine, limits>>
    /\ me["walk"].pc \notin {"exec", "spawn"}
    /\ engine' = e
    /\ ApplyLimits(l)
    /\ interventions' = interventions + 1
    /\ UNCHANGED <<gateVars, row, approvalVars, leader, listed, inFlight, recovered, me, strayed>>

Crash ==
    /\ interventions < MaxInterventions
    /\ leader # "down"
    /\ leader' = "down"
    /\ interventions' = interventions + 1
    /\ active' = GateEmpty
    /\ reboots' = GateEmpty
    /\ inFlight' = {}
    /\ recovered' = {}
    /\ listed' = {}
    /\ me' = [h \in Holder |-> Idle]
    /\ UNCHANGED <<row, approvalVars, limits, engine, strayed>>

Elect ==
    /\ leader = "down"
    /\ leader' = "starting"
    /\ UNCHANGED <<gateVars, row, approvalVars, limits, engine, listed, inFlight,
                   recovered, me, strayed, interventions>>

RebuildLists ==
    /\ leader = "starting"
    /\ leader' = "seeding"
    /\ listed' = {i \in WalkIncident : row[i].state \in Listed /\ row[i].held}
    /\ UNCHANGED <<gateVars, row, approvalVars, limits, engine, inFlight, recovered, me, strayed, interventions>>

RebuildFails ==
    /\ leader = "starting"
    /\ leader' = "up"
    /\ strayed' = TRUE
    /\ UNCHANGED <<gateVars, row, approvalVars, limits, engine, listed, inFlight,
                   recovered, me, interventions>>

\* The step an orphaned EXECUTING row is at, by the configuration installed now.
AtReboot(i) ==
    /\ row[i].state = "EXECUTING"
    /\ row[i].book \in DOMAIN engine
    /\ row[i].step < Len(engine[row[i].book])
    /\ engine[row[i].book][row[i].step + 1] \in RebootClass

\* Until the walk starts, no listed row moves but by an operator's resolve.
RebuildOccupies ==
    LET seeded == {i \in listed : AtReboot(i)}
    IN  /\ leader = "seeding"
        /\ leader' = "up"
        /\ listed' = {}
        /\ active' = [t \in Target |-> active[t] + Cardinality({i \in listed : row[i].target = t})]
        /\ reboots' = [t \in Target |-> reboots[t] + Cardinality({i \in seeded : row[i].target = t})]
        /\ recovered' = seeded
        /\ UNCHANGED <<row, approvalVars, limits, engine, inFlight, me, strayed, interventions>>

-----------------------------------------------------------------------------
Init ==
    /\ GateInit
    /\ row = [i \in WalkIncident |-> NoRow]
    /\ asked = [i \in WalkIncident |-> [e \in Epoch |-> NoAsk]]
    /\ decided = [i \in WalkIncident |-> [e \in Epoch |-> "none"]]
    /\ consent = {}
    /\ engine = Engine0
    /\ leader = "up"
    /\ listed = {}
    /\ inFlight = {}
    /\ recovered = {}
    /\ me = [h \in Holder |-> Idle]
    /\ strayed = FALSE
    /\ interventions = 0

Walk ==
    \/ \E i \in WalkIncident : Tick(i)
    \/ Advance
    \/ Bind
    \/ Observe
    \/ Park
    \/ StartStep
    \/ Exec
    \/ ExecFails
    \/ Spawn

StepGoroutine(i) == RunStep(i) \/ Finish(i)

Transition(h) == Commit(h) \/ CommitFails(h) \/ After(h)

Requests ==
    \/ \E i \in WalkIncident, t \in Target : Ingest(i, t)
    \/ \E i \in WalkIncident : ResolveIncident(i) \/ AcknowledgeIncident(i) \/ DecideApproval(i)
    \/ \E d \in {"approved", "rejected"} : Decide(d)

Janitors ==
    \/ \E i \in WalkIncident : RewindIncidentsToQuiesce(i) \/ ResolveIncidentsOnVanishedNodes(i)
    \/ Rewind

Process ==
    \/ \E e \in Engines, l \in Limits : InstallRuntimeConfig(e, l)
    \/ Crash
    \/ Elect
    \/ RebuildLists
    \/ RebuildFails
    \/ RebuildOccupies

Next ==
    \/ Walk
    \/ \E i \in WalkIncident : StepGoroutine(i)
    \/ \E h \in Holder : Transition(h)
    \/ Requests
    \/ Janitors
    \/ Process

Spec == Init /\ [][Next]_vars

-----------------------------------------------------------------------------
HeldOn(t) == {i \in WalkIncident : row[i].held /\ row[i].target = t}

\* Holders between a slot's count and the row: an admission not committed, a release not made.
PendingOn(t) == {h \in Holder : me[h].slot /\ me[h].inc.target = t}

(***************************************************************************)
(* The gate counts, for every target, exactly the incidents whose durable  *)
(* row holds a slot there, plus the slots that are on their way in or out: *)
(* no path of startStep, transition or RebuildGateOccupancy loses a slot,  *)
(* leaks one or gives it back twice, whichever two holders race, and after *)
(* a failover as before it.  The exceptions the code leaves open are a     *)
(* rebuild whose listing failed, and a slot given back by a request before *)
(* the rebuild (the API answers before Run rebuilds).                      *)
(***************************************************************************)
SlotsAreCounted ==
    (leader = "up" /\ ~strayed) =>
        \A t \in Target : active[t] = Cardinality(HeldOn(t)) + Cardinality(PendingOn(t))

Remediated == {row[i].target : i \in {j \in WalkIncident : row[j].held}}

Rebooting ==
    {me[i].inc.target : i \in {j \in WalkIncident :
         me[j].pc = "run" /\ me[j].doing.content \in RebootClass}}

\* A target comes under remediation, by the durable rows, only within the limit then in force:
\* not past it after a failover (what RebuildGateOccupancy is for), and not past a limit that a
\* reload lowered between the admission and its commit (the runtimeMu lock of startStep).  And
\* a reboot-class step starts only within the reboot limit then in force, whether its incident
\* was admitted by Allow or, holding its slot already, by AllowHeld.
CapsHold ==
    [][/\ (~strayed /\ Remediated' \ Remediated # {}) =>
              Cardinality(Remediated') <= limits.MaxConcurrentRemediations
       /\ (Rebooting' \ Rebooting # {}) =>
              Cardinality(Rebooting') <= limits.MaxConcurrentReboots]_vars

\* A step that needs approval runs only if a human approved exactly this step of this playbook
\* in the round the incident was parked in: no reload, rewind or re-park in between lends the
\* approval to another step (requestMismatch, ApprovalEpoch).
ApprovedIsWhatRuns ==
    \A i \in WalkIncident :
        LET m == me[i]
        IN  (m.pc = "run" /\ m.doing.content \in NeedsApproval) =>
                /\ <<i, m.inc.epoch>> \in consent
                /\ asked[i][m.inc.epoch] = <<m.doing.book, m.doing.content>>

\* An incident moves past a step only on the word of the goroutine that ran that very step, of
\* that playbook, in that attempt: a stale copy never undoes a rewind or an escalation (the
\* StateChangedAt fence of transition).
ProgressIsEarned ==
    [][\A i \in WalkIncident :
          row'[i].step > row[i].step =>
              /\ row[i].state = "EXECUTING"
              /\ me[i].doing.book = row[i].book
              /\ me[i].doing.step = row[i].step
              /\ me[i].doing.attempt = row[i].attempt]_vars

\* What has halted stays halted: no late walk, goroutine or janitor write revives a resolved,
\* expired or quarantined incident; only a resolve moves it.
HaltedStays ==
    [][\A i \in WalkIncident :
          row[i].state \in Halted =>
              \/ row'[i].state = row[i].state
              \/ row[i].state = "NEEDS_HUMAN" /\ row'[i].state = "RESOLVED"]_vars

\* Every transition the walk or a step goroutine sets out to make is an edge of the state
\* machine, as engine.go:98-100 has it for an exhausted playbook.
PlansAreLegal ==
    \A h \in {"walk"} \cup WalkIncident :
        me[h].pc = "commit" => CanTransition(me[h].from, me[h].inc.state)

\* An incident under verification goes back up the ladder only because a signal recurred: an
\* acknowledgement takes custody "without changing its remediation state" (operator_api.go:208).
AcknowledgementIsCustody ==
    [][\A i \in WalkIncident :
          (row[i].state = "VERIFYING" /\ row'[i].state = "EVALUATING")
              => row[i].touched = "signal"]_vars

=============================================================================
