-------------------------- MODULE RuntimeContract --------------------------
(***************************************************************************)
(* Coverage of a node by its runtime profile, and the qualifications that  *)
(* gather coverage as evidence (config/runtime_contract_coverage.go,       *)
(* controller/runtime_contract.go,                                         *)
(* operations/runtime_contract_qualification.go).  An observation reads the*)
(* stored qualification, then the inventory, then builds coverage, and     *)
(* commits in one transaction; nodes are replaced, agents register and     *)
(* report, profiles are edited and other observers commit in between.      *)
(***************************************************************************)
EXTENDS Naturals, Sequences, FiniteSets

CONSTANTS
    RcNode,        \* the cohort
    RcKey,         \* idempotency keys, one request each
    MinSamples, MinDuration, ExpiresAt,
    MaxReportAge, AgentMaxAge,
    MaxRcTime,     \* bound on the clock
    MaxRcChange    \* bound on replaced nodes, edits, failed reads and writes

ASSUME ContractAssumption == MinSamples \in Nat /\ MinDuration \in Nat

VARIABLES
    rcTime,
    rcLive,      \* the identity of the platform's Node objects
    rcRow,       \* the store's node rows, written by agent registration
    rcReport,    \* the retained accelerator report of each node
    rcConfig,    \* the runtime configuration: profile generation and digest
    rcQ,         \* the qualification
    rcKeys,      \* committed idempotency keys
    rcCall,      \* the request of each key
    rcChange,
    rcGood       \* the committed successful samples

rcWorld == <<rcTime, rcLive, rcRow, rcReport, rcConfig>>
rcVars == <<rcWorld, rcQ, rcKeys, rcCall, rcChange, rcGood>>

NoReport == [uid |-> 0, gen |-> 0, at |-> 0, ready |-> FALSE]
NoQ == [state |-> "none", uid |-> [n \in RcNode |-> 0], gen |-> 0, digest |-> 0, samples |-> 0,
        first |-> 0, readyAt |-> 0, version |-> 0]
NoRequest == [pc |-> "idle", op |-> "none", now |-> 0, q |-> NoQ, uid |-> [n \in RcNode |-> 0],
              result |-> "none", from |-> [n \in RcNode |-> 0]]

RcInit ==
    /\ rcTime = 1
    /\ rcLive = [n \in RcNode |-> 1]
    /\ rcRow = [n \in RcNode |-> [uid |-> 1, seen |-> 1]]
    /\ rcReport = [n \in RcNode |-> NoReport]
    /\ rcConfig = [gen |-> 1, digest |-> 1]
    /\ rcQ = NoQ
    /\ rcKeys = {}
    /\ rcCall = [k \in RcKey |-> NoRequest]
    /\ rcChange = 0
    /\ rcGood = <<>>

RcChange ==
    /\ rcChange < MaxRcChange
    /\ rcChange' = rcChange + 1

-----------------------------------------------------------------------------
(* The world                                                               *)

RcTick ==
    /\ rcTime < MaxRcTime
    /\ rcTime' = rcTime + 1
    /\ UNCHANGED <<rcLive, rcRow, rcReport, rcConfig, rcQ, rcKeys, rcCall, rcChange, rcGood>>

\* The node is deleted and created again under its name.
NodeReplaced(n) ==
    /\ RcChange
    /\ rcLive' = [rcLive EXCEPT ![n] = @ + 1]
    /\ UNCHANGED <<rcTime, rcRow, rcReport, rcConfig, rcQ, rcKeys, rcCall, rcGood>>

\* RegisterNode and UpsertAgentRegistration: identity and heartbeat.  The
\* labels column stays empty, so the scope labels of a cohort are empty too and
\* never drift.
RegisterNode(n) ==
    LET row == [rcRow[n] EXCEPT !.uid = rcLive[n], !.seen = rcTime]
    IN  /\ row # rcRow[n]
        /\ rcRow' = [rcRow EXCEPT ![n] = row]
        /\ UNCHANGED <<rcTime, rcLive, rcReport, rcConfig, rcQ, rcKeys, rcCall, rcChange, rcGood>>

\* handleAcceleratorReport stamps the authenticated identity;
\* UpsertAcceleratorReport keeps only a newer observation.
HandleAcceleratorReport(n) ==
    \E ready \in BOOLEAN :
        /\ rcTime > rcReport[n].at
        /\ rcReport' = [rcReport EXCEPT ![n] =
               [uid |-> rcLive[n], gen |-> rcConfig.gen, at |-> rcTime, ready |-> ready]]
        /\ UNCHANGED <<rcTime, rcLive, rcRow, rcConfig, rcQ, rcKeys, rcCall, rcChange, rcGood>>

\* The profile, or another part of the configuration, is edited and compiled.
ConfigEdited ==
    /\ RcChange
    /\ \E gen \in {rcConfig.gen, rcConfig.gen + 1} :
           rcConfig' = [gen |-> gen, digest |-> rcConfig.digest + 1]
    /\ UNCHANGED <<rcTime, rcLive, rcRow, rcReport, rcQ, rcKeys, rcCall, rcGood>>

-----------------------------------------------------------------------------
(* AssessRuntimeContractCoverage                                           *)

\* assessRuntimeContractHeartbeat
agentHealthy(row) == row.seen > 0 /\ rcTime - row.seen <= AgentMaxAge

\* assessRuntimeContractAttestation, with CheckReport's rules
attestation(row, report) ==
    IF report = NoReport THEN "Missing"
    ELSE IF report.uid # row.uid \/ report.gen # rcConfig.gen \/ ~report.ready THEN "Mismatch"
    ELSE IF rcTime - report.at > MaxReportAge THEN "Stale"
    ELSE "FreshCompatible"

AssessRuntimeContractCoverage(n) ==
    LET fresh == attestation(rcRow[n], rcReport[n]) = "FreshCompatible"
        alive == agentHealthy(rcRow[n])
    IN  IF ~alive THEN "Unavailable" ELSE IF fresh THEN "Full" ELSE "Reduced"

-----------------------------------------------------------------------------
(* Requests                                                                *)

Req(k, pc) == rcCall[k].pc = pc
Become(k, r) == rcCall' = [rcCall EXCEPT ![k] = r]
Returned(k) == Become(k, NoRequest)

\* CreateRuntimeContractQualification up to the inventory: UIDs and scope come
\* from the store's rows.
CreateReads(k) ==
    /\ Req(k, "idle") /\ rcQ = NoQ
    /\ Become(k, [NoRequest EXCEPT !.pc = "capture", !.op = "create", !.now = rcTime,
                                   !.uid = [n \in RcNode |-> rcRow[n].uid]])
    /\ UNCHANGED <<rcWorld, rcQ, rcKeys, rcChange, rcGood>>

\* A key that is committed is answered from the store; a final state is refused;
\* expiry is decided by the clock alone.
ObserveReads(k) ==
    /\ Req(k, "idle") /\ rcQ # NoQ
    /\ IF k \in rcKeys \/ rcQ.state \in {"Invalidated", "Expired"} THEN Returned(k)
       ELSE Become(k, [NoRequest EXCEPT !.op = "observe", !.now = rcTime, !.q = rcQ, !.uid = rcQ.uid,
                                !.pc = IF rcTime >= ExpiresAt THEN "commit" ELSE "inventory",
                                !.result = IF rcTime >= ExpiresAt THEN "expired" ELSE "none"])
    /\ UNCHANGED <<rcWorld, rcQ, rcKeys, rcChange, rcGood>>

\* observeQualificationCohort, the inventory: a UID or a scope that changed is drift.
ObserveInventory(k) ==
    LET c == rcCall[k]
        drifted == \E n \in RcNode : rcRow[n].uid # c.uid[n]
    IN  /\ Req(k, "inventory")
        /\ Become(k, IF drifted THEN [c EXCEPT !.pc = "commit", !.result = "drift"]
                     ELSE [c EXCEPT !.pc = "capture"])
        /\ UNCHANGED <<rcWorld, rcQ, rcKeys, rcChange, rcGood>>

\* captureQualificationCoverage: the builder must answer for the frozen UIDs.
captureSameUID(k) == \A n \in RcNode : rcRow[n].uid = rcCall[k].uid[n]

\* Coverage is built and classified.
CaptureCoverage(k) ==
    LET c == rcCall[k]
        moved == c.op = "observe" /\ (rcConfig.digest # c.q.digest \/ rcConfig.gen # c.q.gen)
        full == \A n \in RcNode : AssessRuntimeContractCoverage(n) = "Full"
    IN  /\ Req(k, "capture")
        /\ IF ~captureSameUID(k) THEN Returned(k)
           ELSE Become(k, [c EXCEPT
                       !.pc = "commit",
                       !.result = IF moved THEN "drift" ELSE IF full THEN "full" ELSE "not-full",
                       !.from = [n \in RcNode |-> rcReport[n].uid],
                       !.q = IF c.op = "observe" THEN @
                             ELSE [NoQ EXCEPT !.state = "Observing", !.uid = c.uid, !.version = 1,
                                              !.gen = rcConfig.gen, !.digest = rcConfig.digest]])
        /\ UNCHANGED <<rcWorld, rcQ, rcKeys, rcChange, rcGood>>

\* Variant: the sample count alone qualifies.
qualifiedByCount(q, now) == q.samples >= MinSamples

\* Both evidence bars are met.
qualified(q, now) == q.samples >= MinSamples /\ q.first > 0 /\ now - q.first >= MinDuration

\* A full observation is one more sample; the first one starts the clock.
counted(q, now) == [q EXCEPT !.samples = @ + 1, !.first = IF @ = 0 THEN now ELSE @]

\* The lifecycle step, computed from the snapshot that was read.
Stepped(c) ==
    LET q == c.q
        more == counted(q, c.now)
    IN  IF c.op = "create" THEN q
        ELSE IF c.result = "expired" THEN [q EXCEPT !.state = "Expired"]
        ELSE IF c.result = "drift" \/ (c.result = "not-full" /\ q.state = "ReadyForApproval")
             THEN [q EXCEPT !.state = "Invalidated"]
        ELSE IF c.result # "full" THEN q
        ELSE IF q.state = "Observing" /\ qualified(more, c.now)
             THEN [more EXCEPT !.state = "ReadyForApproval", !.readyAt = c.now]
        ELSE more

\* saveRuntimeContractQualification: guarded by the version of the snapshot.
saveVersioned(c) == c.op = "create" \/ rcQ.version = c.q.version

\* WithOperationalTx: the key, the guarded write and the audit event together,
\* or none of them.
RcCommits(k) ==
    LET c == rcCall[k]
    IN  /\ Req(k, "commit")
        /\ Returned(k)
        /\ IF k \in rcKeys \/ (c.op = "create" /\ rcQ # NoQ) \/ ~saveVersioned(c)
           THEN UNCHANGED <<rcQ, rcKeys, rcGood>>
           ELSE /\ rcQ' = IF c.op = "create" THEN Stepped(c)
                          ELSE [Stepped(c) EXCEPT !.version = rcQ.version + 1]
                /\ rcKeys' = rcKeys \cup {k}
                /\ rcGood' = IF c.op = "observe" /\ c.result = "full"
                             THEN Append(rcGood, [at |-> c.now, from |-> c.from]) ELSE rcGood
        /\ UNCHANGED <<rcWorld, rcChange>>

\* A read or the transaction fails, or the client goes away.
RcFails(k) ==
    /\ ~Req(k, "idle")
    /\ RcChange
    /\ Returned(k)
    /\ UNCHANGED <<rcWorld, rcQ, rcKeys, rcGood>>

RcNext ==
    \/ RcTick \/ ConfigEdited
    \/ \E n \in RcNode : NodeReplaced(n) \/ RegisterNode(n) \/ HandleAcceleratorReport(n)
    \/ \E k \in RcKey : \/ CreateReads(k) \/ ObserveReads(k) \/ ObserveInventory(k)
                        \/ CaptureCoverage(k) \/ RcCommits(k) \/ RcFails(k)

RcSpec == RcInit /\ [][RcNext]_rcVars

-----------------------------------------------------------------------------
(* Properties                                                              *)

(* Readiness is earned: a qualification that is ReadyForApproval has       *)
(* MinSamples committed samples spread over MinDuration, every one built   *)
(* from reports of exactly the nodes that were frozen at creation --       *)
(* although nodes are replaced and other observers commit between the      *)
(* inventory read, the coverage and the write.                             *)
ReadyIsEarned ==
    rcQ.state = "ReadyForApproval" =>
        /\ Len(rcGood) >= MinSamples
        /\ rcQ.readyAt - rcGood[1].at >= MinDuration
        /\ \A i \in 1..Len(rcGood) : rcGood[i].from = rcQ.uid

(* Invalidated and Expired are final and readiness is never taken back to  *)
(* observing, whichever observer commits last.                             *)
LifecycleIsForward ==
    [][/\ rcQ.state \in {"Invalidated", "Expired"} => rcQ'.state = rcQ.state
       /\ rcQ.state = "ReadyForApproval" => rcQ'.state # "Observing"
       /\ rcQ # NoQ => rcQ'.uid = rcQ.uid /\ rcQ'.samples >= rcQ.samples]_rcVars

=============================================================================
