----------------------- MODULE ActionDelivery_proofs -----------------------
(***************************************************************************)
(* The delivery path's safety for any number of nodes, actions, crashes    *)
(* and boots: an action is executed at most once, its recorded result is   *)
(* the truth, and the whole path implements ActionOnce.                    *)
(*                                                                         *)
(* None of the properties is inductive: they need what the journal state   *)
(* says about the executor (JournalInv), where the loop can be with which  *)
(* entry (LoopInv), that every result in flight is true (AnswerInv) and    *)
(* that the queue never delivers again what the journal may have forgotten *)
(* (SettledInv).                                                           *)
(***************************************************************************)
EXTENDS ActionDelivery, ActionQueue_proofs

\* The points of the loop at which it works on an action.
Busy == {"fetched", "recorded", "process", "execute", "executed", "post", "sent", "acked"}

\* A node's loop works on its own actions; while the executor runs the entry is
\* marked running, and only a settled entry is posted.
LoopAt(n) ==
    /\ agentPc[n] \in Busy => cur[n] \in Action /\ NodeOf[cur[n]] = n
    /\ \A a \in todo[n] : NodeOf[a] = n
    /\ agentPc[n] = "execute" => jState[cur[n]] = "running" /\ ran[cur[n]] = "started"
    /\ agentPc[n] = "executed" =>
          jState[cur[n]] = "running" /\ got[n] \in {"ok", "failed"} /\ ran[cur[n]] = got[n]
    /\ agentPc[n] \in {"post", "sent", "acked"} => jState[cur[n]] \in {"known", "unknown"}

LoopInv == \A n \in Node : LoopAt(n)

\* The write-ahead discipline: the executor was started exactly for the entries past
\* "received" and for those compacted away, and a known outcome is what it did.
JournalInv ==
    \A a \in Action :
        /\ jState[a] = "none" => \/ starts[a] = 0 /\ ran[a] = "no"
                                 \/ starts[a] = 1 /\ ran[a] # "no"
        /\ jState[a] = "received" => starts[a] = 0 /\ ran[a] = "no"
        /\ jState[a] \notin {"none", "received"} => starts[a] = 1 /\ ran[a] # "no"
        /\ jState[a] = "known" => jResult[a] \in {"ok", "failed"} /\ ran[a] = jResult[a]

\* Result r is a true statement about action a.
Truthful(a, r) ==
    /\ r \in {"ok", "failed"} => ran[a] = r
    /\ r = "unknown" => ran[a] # "no"

\* Every result in flight and every recorded one is true, and only a finished row has
\* one.
AnswerInv ==
    /\ \A m \in posts : Truthful(m.action, m.result)
    /\ \A a \in Action : Truthful(a, rowResult[a])
    /\ \A a \in Action : rowState[a] # "done" => rowResult[a] = "none"

\* A process sends its own boot ID or none.
BootInv ==
    /\ \A n \in Node : agentPc[n] # "down" => header[n] \in {0, boot[n]}
    /\ \A m \in posts : m.boot \in {0, m.on}
    /\ ResultFromClaimingBoot

\* While dispatch is stopped, no claim an agent holds for anything but a restore is
\* newer than the stop.
ClaimInv ==
    Stopped =>
        /\ \A a \in Action \ Restorative : jToken[a] <= stopMark
        /\ \A n \in Node : agentPc[n] \in {"fetched", "recorded"} /\ cur[n] \notin Restorative
                             => held[n] <= stopMark

\* The action a node has fetched and not yet processed cannot be finished by a result
\* that is still in flight: all of those carry older lease tokens.
FreshClaim(n) ==
    /\ rowState[cur[n]] # "done"
    /\ rowState[cur[n]] = "leased" => held[n] <= rowToken[cur[n]]
    /\ \A m \in posts : m.action = cur[n] => m.token < held[n]

\* Compaction is safe: an entry is forgotten only after its row is done, and an action
\* the agent is about to journal is not done.
SettledInv ==
    /\ \A a \in Action : jState[a] = "reported" \/ (jState[a] = "none" /\ starts[a] # 0)
                            => rowState[a] = "done"
    /\ \A n \in Node : agentPc[n] = "acked" => rowState[cur[n]] = "done"
    /\ \A m \in posts : m.token <= lastToken
    /\ \A n \in Node : agentPc[n] \in {"fetched", "recorded"} => FreshClaim(n)

DeliveryInv ==
    /\ QueueInv
    /\ DeliveryTypeOK
    /\ LoopInv
    /\ JournalInv
    /\ AnswerInv
    /\ BootInv
    /\ ClaimInv
    /\ SettledInv

\* The initial states satisfy the invariant.
LEMMA DeliveryInitEstablishes == DeliveryInit => DeliveryInv
  <1> SUFFICES ASSUME DeliveryInit PROVE DeliveryInv
    OBVIOUS
  <1>1. QueueInv
    BY InitEstablishes, Zenon DEF DeliveryInit
  <1>2. DeliveryTypeOK
    BY QueueConstants, DeliveryConstants
       DEF DeliveryInit, QueueInit, DeliveryTypeOK, JState, Pc, Boot
  <1>3. LoopInv /\ JournalInv /\ AnswerInv
    BY Zenon DEF DeliveryInit, QueueInit, LoopInv, LoopAt, JournalInv, AnswerInv, Truthful, Busy
  <1>4. BootInv
    BY Zenon DEF DeliveryInit, QueueInit, BootInv, ResultFromClaimingBoot
  <1>5. ClaimInv
    BY Zenon DEF DeliveryInit, QueueInit, ClaimInv, Stopped
  <1>6. SettledInv
    BY Zenon DEF DeliveryInit, QueueInit, SettledInv, FreshClaim
  <1>7. QED BY <1>1, <1>2, <1>3, <1>4, <1>5, <1>6, Zenon DEF DeliveryInv

\* The queue's part of a step of the composition is a step of the queue.
LEMMA StepIsQueueStep ==
    ASSUME DeliveryTypeOK, QueueTypeOK, Next
    PROVE  [QueueNext]_queueVars
  <1>1. CASE EmergencyNext
    BY <1>1, Zenon DEF EmergencyNext, QueueNext
  <1>2. CASE ControlNext
    BY <1>2, Zenon DEF ControlNext, QueueNext, RowNext
  <1>3. CASE \E a \in Action : Execute(a)
    BY <1>3, Zenon DEF Execute, QueueNext, RowNext
  <1>4. CASE NetNext
    <2>1. CASE \E p \in stalePolls : StalePollServed(p)
      BY <2>1, Zenon DEF StalePollServed, DeliveryTypeOK, QueueNext, RowNext
    <2>2. CASE \E m \in posts : ResultAccepted(m)
      <3> PICK m \in posts : ResultAccepted(m)
        BY <2>2, Zenon
      <3>1. m \in Post BY Zenon DEF DeliveryTypeOK
      <3>2. /\ m.action \in Action /\ m.boot \in Boot /\ m.result \in Result
            /\ NodeOf[m.action] \in Node
        BY <3>1, QueueConstants, Zenon DEF Post
      <3>3. m.token \in live
        BY Zenon DEF ResultAccepted, CompleteClaimedAction, CompletionMatches
      <3>4. QED BY <3>2, <3>3, Zenon DEF ResultAccepted, QueueNext, RowNext
    <2>3. CASE \/ \E p \in stalePolls : StalePollLost(p)
               \/ \E m \in posts : ResultRefused(m) \/ PostLost(m)
      BY <2>3, Zenon DEF StalePollLost, ResultRefused, PostLost
    <2>4. QED BY <1>4, <2>1, <2>2, <2>3, Zenon DEF NetNext
  <1>5. CASE \E n \in Node : CrashNext(n)
    BY <1>5, Zenon DEF CrashNext, AgentCrashes, NodeReboots, AgentStarts
  <1>6. CASE \E n \in Node : LoopNext(n)
    <2> PICK n \in Node : LoopNext(n)
      BY <1>6, Zenon
    <2>1. CASE PollEmpty(n)
      BY <2>1, Zenon DEF PollEmpty, QueueNext, RowNext
    <2>2. CASE \E a \in Action : PollServed(n, a)
      BY <2>2, Zenon DEF PollServed, DeliveryTypeOK, QueueNext, RowNext
    <2>3. CASE \/ Tick(n) \/ RecoveryEnds(n) \/ PollSent(n) \/ PollTimesOut(n)
               \/ RecordReceived(n) \/ SetClaim(n) \/ FetchAbandoned(n)
               \/ \E a \in Action : SkipExpired(n, a) \/ ResumeEntry(n, a)
      BY <2>3, Zenon DEF Tick, RecoveryEnds, PollSent, PollTimesOut, RecordReceived, SetClaim,
         FetchAbandoned, SkipExpired, ResumeEntry
    <2>4. CASE \/ StartExecution(n) \/ InterruptedEntry(n) \/ SettledEntry(n)
               \/ ProcessFails(n) \/ RecordOutcome(n) \/ MarkOutcomeUnknown(n)
               \/ OutcomeUnrecorded(n) \/ \E r \in {"ok", "failed"} : ExecutorReturns(n, r)
      BY <2>4, Zenon DEF StartExecution, InterruptedEntry, SettledEntry, ProcessFails,
         RecordOutcome, MarkOutcomeUnknown, OutcomeUnrecorded, ExecutorReturns
    <2>5. CASE \/ PostResult(n) \/ ReportFails(n) \/ MarkReported(n)
               \/ \E a \in Action : CompactReported(n, a)
      BY <2>5, Zenon DEF PostResult, ReportFails, MarkReported, CompactReported
    <2>6. QED BY <2>1, <2>2, <2>3, <2>4, <2>5, Zenon DEF LoopNext
  <1>7. QED
    BY <1>1, <1>2, <1>3, <1>4, <1>5, <1>6, Zenon DEF Next, CalmNext

\* The steps that touch the journal or the executor's history, and nothing else does.
JournalStep ==
    \E n \in Node :
        \/ RecordReceived(n) \/ SetClaim(n) \/ StartExecution(n) \/ InterruptedEntry(n)
        \/ RecordOutcome(n) \/ MarkOutcomeUnknown(n) \/ MarkReported(n)
        \/ \E a \in Action : CompactReported(n, a)
        \/ \E r \in {"ok", "failed"} : ExecutorReturns(n, r)
        \/ \E h \in Boot : AgentStarts(n, h)

\* Every other step leaves the journal and the executor's history alone.
LEMMA OnlyJournalSteps ==
    Next => JournalStep \/ UNCHANGED <<jState, jToken, jResult, starts, ran>>
  <1> SUFFICES ASSUME Next PROVE JournalStep \/ UNCHANGED <<jState, jToken, jResult, starts, ran>>
    OBVIOUS
  <1> USE DEF journalVars, histVars, agentVars
  <1>1. CASE EmergencyNext \/ ControlNext \/ \E a \in Action : Execute(a)
    BY <1>1, Zenon DEF EmergencyNext, ControlNext, Execute
  <1>2. CASE NetNext
    BY <1>2, Zenon DEF NetNext, StalePollServed, StalePollLost, ResultAccepted, ResultRefused,
       PostLost
  <1>3. CASE \E n \in Node : CrashNext(n)
    BY <1>3, Zenon DEF CrashNext, AgentCrashes, NodeReboots, JournalStep
  <1>4. CASE \E n \in Node : LoopNext(n)
    <2> PICK n \in Node : LoopNext(n)
      BY <1>4, Zenon
    <2>1. CASE \/ Tick(n) \/ RecoveryEnds(n) \/ PollSent(n) \/ PollEmpty(n) \/ PollTimesOut(n)
               \/ FetchAbandoned(n)
               \/ \E a \in Action : SkipExpired(n, a) \/ ResumeEntry(n, a) \/ PollServed(n, a)
      BY <2>1, Zenon DEF Tick, RecoveryEnds, PollSent, PollEmpty, PollTimesOut, FetchAbandoned,
         SkipExpired, ResumeEntry, PollServed
    <2>2. CASE SettledEntry(n) \/ ProcessFails(n) \/ OutcomeUnrecorded(n)
               \/ PostResult(n) \/ ReportFails(n)
      BY <2>2, Zenon DEF SettledEntry, ProcessFails, OutcomeUnrecorded, PostResult, ReportFails
    <2>3. QED BY <2>1, <2>2, Zenon DEF LoopNext, JournalStep
  <1>5. QED
    BY <1>1, <1>2, <1>3, <1>4, Zenon DEF Next, CalmNext

\* Every step keeps the write-ahead discipline.
LEMMA JournalPreserved ==
    ASSUME DeliveryInv, Next
    PROVE  JournalInv'
  <1> USE DEF Goto
  <1>0. /\ jState \in [Action -> JState] /\ starts \in [Action -> Nat]
        /\ jResult \in [Action -> {"none", "ok", "failed"}]
        /\ ran \in [Action -> {"no", "started", "ok", "failed"}]
        /\ cur \in [Node -> Action \cup {NoAction}]
    BY Zenon DEF DeliveryInv, DeliveryTypeOK
  <1>1. CASE UNCHANGED <<jState, jToken, jResult, starts, ran>>
    BY <1>1, Zenon DEF DeliveryInv, JournalInv
  <1>2. CASE JournalStep
    <2> PICK n \in Node :
        \/ RecordReceived(n) \/ SetClaim(n) \/ StartExecution(n) \/ InterruptedEntry(n)
        \/ RecordOutcome(n) \/ MarkOutcomeUnknown(n) \/ MarkReported(n)
        \/ \E a \in Action : CompactReported(n, a)
        \/ \E r \in {"ok", "failed"} : ExecutorReturns(n, r)
        \/ \E h \in Boot : AgentStarts(n, h)
      BY <1>2, Zenon DEF JournalStep
    <2>0. agentPc[n] \in Busy => cur[n] \in Action
      BY Zenon DEF DeliveryInv, LoopInv, LoopAt
    <2>1. CASE RecordReceived(n)
      <3>1. cur[n] \in Action BY <2>0, <2>1, Zenon DEF RecordReceived, Busy
      <3>2. rowState[cur[n]] # "done"
        BY <2>1, Zenon DEF RecordReceived, DeliveryInv, SettledInv, FreshClaim
      <3>3. jState[cur[n]] = "none" => starts[cur[n]] = 0
        BY <3>1, <3>2, Zenon DEF DeliveryInv, SettledInv
      <3>4. QED BY <1>0, <2>1, <3>1, <3>3 DEF RecordReceived, DeliveryInv, JournalInv, histVars
    <2>2. CASE SetClaim(n)
      BY <2>2, Zenon DEF SetClaim, DeliveryInv, JournalInv, histVars
    <2>3. CASE StartExecution(n)
      <3>1. cur[n] \in Action BY <2>0, <2>3, Zenon DEF StartExecution, Busy
      <3>2. QED BY <1>0, <2>3, <3>1 DEF StartExecution, DeliveryInv, JournalInv
    <2>4. CASE InterruptedEntry(n)
      BY <1>0, <2>4, Zenon DEF InterruptedEntry, DeliveryInv, JournalInv, histVars
    <2>5. CASE RecordOutcome(n)
      <3>1. jState[cur[n]] = "running" /\ got[n] \in {"ok", "failed"} /\ ran[cur[n]] = got[n]
        BY <2>5, Zenon DEF RecordOutcome, DeliveryInv, LoopInv, LoopAt
      <3>2. QED BY <1>0, <2>5, <3>1, Zenon DEF RecordOutcome, DeliveryInv, JournalInv, histVars
    <2>6. CASE MarkOutcomeUnknown(n)
      <3>1. jState[cur[n]] = "running"
        BY <2>6, Zenon DEF MarkOutcomeUnknown, DeliveryInv, LoopInv, LoopAt
      <3>2. QED BY <1>0, <2>6, <3>1, Zenon DEF MarkOutcomeUnknown, DeliveryInv, JournalInv, histVars
    <2>7. CASE MarkReported(n)
      <3>1. jState[cur[n]] \in {"known", "unknown"}
        BY <2>7, Zenon DEF MarkReported, DeliveryInv, LoopInv, LoopAt
      <3>2. QED BY <1>0, <2>7, <3>1, Zenon DEF MarkReported, DeliveryInv, JournalInv, histVars
    <2>8. ASSUME NEW r \in {"ok", "failed"}, ExecutorReturns(n, r) PROVE JournalInv'
      <3>1. jState[cur[n]] = "running"
        BY <2>8, Zenon DEF ExecutorReturns, DeliveryInv, LoopInv, LoopAt
      <3>2. QED BY <1>0, <2>8, <3>1, Zenon DEF ExecutorReturns, DeliveryInv, JournalInv, journalVars
    <2>9. ASSUME NEW h \in Boot, AgentStarts(n, h) PROVE JournalInv'
      BY <1>0, <2>9, Zenon DEF AgentStarts, DeliveryInv, JournalInv, histVars
    <2>10. ASSUME NEW a \in Action, CompactReported(n, a) PROVE JournalInv'
      BY <1>0, <2>10, Zenon DEF CompactReported, DeliveryInv, JournalInv, histVars
    <2>11. QED
      BY <2>1, <2>2, <2>3, <2>4, <2>5, <2>6, <2>7, <2>8, <2>9, <2>10, Zenon
  <1>3. QED BY <1>1, <1>2, OnlyJournalSteps, Zenon

\* A step of node n's loop disturbs no other node's loop.
LEMMA LoopFrame ==
    ASSUME LoopInv, NEW n \in Node, LoopAt(n)',
           \A k \in Node \ {n} : /\ agentPc'[k] = agentPc[k] /\ cur'[k] = cur[k]
                                 /\ todo'[k] = todo[k] /\ got'[k] = got[k],
           \A a \in Action : NodeOf[a] # n => jState'[a] = jState[a] /\ ran'[a] = ran[a]
    PROVE  LoopInv'
  <1> SUFFICES ASSUME NEW k \in Node \ {n} PROVE LoopAt(k)'
    BY Zenon DEF LoopInv
  <1>1. LoopAt(k) BY Zenon DEF LoopInv
  <1>2. QED BY <1>1 DEF LoopAt, Busy

\* Return drops the action and keeps the recovery list the node's own.
LEMMA ReturnKeepsLoop ==
    ASSUME DeliveryTypeOK, LoopInv, NEW n \in Node, NEW ok \in BOOLEAN, Return(n, ok),
           \A a \in Action : NodeOf[a] # n => jState'[a] = jState[a] /\ ran'[a] = ran[a]
    PROVE  LoopInv'
  <1>1. agentPc'[n] \in {"recover", "poll", "idle"} /\ todo'[n] \subseteq todo[n]
    BY Zenon DEF Return, DeliveryTypeOK
  <1>2. LoopAt(n)'
    BY <1>1 DEF LoopInv, LoopAt, Busy
  <1>3. \A k \in Node \ {n} : /\ agentPc'[k] = agentPc[k] /\ cur'[k] = cur[k]
                               /\ todo'[k] = todo[k] /\ got'[k] = got[k]
    BY Zenon DEF Return, DeliveryTypeOK
  <1>4. QED BY <1>2, <1>3, LoopFrame, Zenon

\* Every step keeps each node's loop in step with its journal.
LEMMA LoopPreserved ==
    ASSUME DeliveryInv, Next
    PROVE  LoopInv'
  <1> USE DEF Goto
  <1>0. /\ agentPc \in [Node -> Pc] /\ cur \in [Node -> Action \cup {NoAction}]
        /\ got \in [Node -> {"none", "ok", "failed"}] /\ todo \in [Node -> SUBSET Action]
        /\ jState \in [Action -> JState]
        /\ ran \in [Action -> {"no", "started", "ok", "failed"}]
        /\ LoopInv /\ DeliveryTypeOK
    BY Zenon DEF DeliveryInv, DeliveryTypeOK
  <1>1. CASE UNCHANGED <<agentPc, cur, got, todo, jState, ran>>
    BY <1>0, <1>1, Zenon DEF LoopInv, LoopAt
  <1>2. CASE EmergencyNext \/ ControlNext \/ \E a \in Action : Execute(a)
    BY <1>1, <1>2, Zenon DEF EmergencyNext, ControlNext, Execute, agentVars, journalVars,
       loopVars, histVars
  <1>3. CASE NetNext
    <2>1. CASE \/ \E p \in stalePolls : StalePollServed(p) \/ StalePollLost(p)
               \/ \E m \in posts : PostLost(m)
      BY <1>1, <2>1, Zenon DEF StalePollServed, StalePollLost, PostLost, journalVars, loopVars,
         histVars
    <2>2. ASSUME NEW m \in posts, ResultAccepted(m) PROVE LoopInv'
      <3> DEFINE n == NodeOf[m.action]
      <3>1. n \in Node
        BY QueueConstants, Zenon DEF DeliveryInv, DeliveryTypeOK, Post
      <3>2. CASE AwaitsAnswer(m)
        <4>1. /\ agentPc[n] = "sent" /\ agentPc' = [agentPc EXCEPT ![n] = "acked"]
              /\ UNCHANGED <<cur, got, todo, jState, ran>>
          BY <2>2, <3>2, Zenon DEF ResultAccepted, AwaitsAnswer, journalVars
        <4>2. LoopAt(n)'
          BY <1>0, <3>1, <4>1 DEF LoopInv, LoopAt, Busy
        <4>3. QED BY <1>0, <3>1, <4>1, <4>2, LoopFrame, Zenon
      <3>3. CASE ~AwaitsAnswer(m)
        BY <1>1, <2>2, <3>3, Zenon DEF ResultAccepted, journalVars
      <3>4. QED BY <3>2, <3>3, Zenon
    <2>3. ASSUME NEW m \in posts, ResultRefused(m) PROVE LoopInv'
      <3> DEFINE n == NodeOf[m.action]
      <3>1. n \in Node
        BY QueueConstants, Zenon DEF DeliveryInv, DeliveryTypeOK, Post
      <3>2. CASE AwaitsAnswer(m)
        BY <1>0, <2>3, <3>1, <3>2, ReturnKeepsLoop, Zenon DEF ResultRefused, journalVars, histVars
      <3>3. CASE ~AwaitsAnswer(m)
        BY <1>1, <2>3, <3>3, Zenon DEF ResultRefused, journalVars, histVars, loopVars
      <3>4. QED BY <3>2, <3>3, Zenon
    <2>4. QED BY <1>3, <2>1, <2>2, <2>3, Zenon DEF NetNext
  <1>4. ASSUME NEW n \in Node, CrashNext(n) PROVE LoopInv'
    <2>1. CASE AgentCrashes(n) \/ NodeReboots(n)
      <3>1. LoseProcess(n) /\ UNCHANGED <<jState, ran>>
        BY <2>1, Zenon DEF AgentCrashes, NodeReboots, journalVars, histVars
      <3>2. LoopAt(n)'
        BY <1>0, <3>1, Zenon DEF LoseProcess, LoopAt, Busy
      <3>3. QED BY <1>0, <3>1, <3>2, LoopFrame, Zenon DEF LoseProcess
    <2>2. ASSUME NEW h \in Boot, AgentStarts(n, h) PROVE LoopInv'
      <3>1. LoopAt(n)'
        BY <1>0, <2>2, Zenon DEF AgentStarts, Recoverable, LoopAt, Busy
      <3>2. QED BY <1>0, <2>2, <3>1, LoopFrame, Zenon DEF AgentStarts, histVars
    <2>3. QED BY <1>4, <2>1, <2>2, Zenon DEF CrashNext
  <1>5. ASSUME NEW n \in Node, LoopNext(n) PROVE LoopInv'
    <2>0. LoopAt(n) BY <1>0, Zenon DEF LoopInv
    <2>1. CASE Tick(n)
      <3>1. LoopAt(n)' BY <1>0, <2>0, <2>1, Zenon DEF Tick, Recoverable, LoopAt, Busy
      <3>2. QED BY <1>0, <2>1, <3>1, LoopFrame, Zenon DEF Tick, journalVars, histVars
    <2>2. CASE RecoveryEnds(n) \/ PollSent(n) \/ PollEmpty(n) \/ PollTimesOut(n)
      <3>1. /\ \E pc \in {"poll", "wait", "idle"} : agentPc' = [agentPc EXCEPT ![n] = pc]
            /\ UNCHANGED <<cur, got, todo, jState, ran>>
        BY <2>2, Zenon DEF RecoveryEnds, PollSent, PollEmpty, PollTimesOut, journalVars, histVars
      <3>2. LoopAt(n)' BY <1>0, <2>0, <3>1, Zenon DEF LoopAt, Busy
      <3>3. QED BY <1>0, <3>1, <3>2, LoopFrame, Zenon
    <2>3. ASSUME NEW a \in Action, SkipExpired(n, a) PROVE LoopInv'
      <3>1. LoopAt(n)' BY <1>0, <2>0, <2>3, Zenon DEF SkipExpired, LoopAt, Busy, journalVars,
            histVars
      <3>2. QED BY <1>0, <2>3, <3>1, LoopFrame, Zenon DEF SkipExpired, journalVars, histVars
    <2>4. ASSUME NEW a \in Action, ResumeEntry(n, a) PROVE LoopInv'
      <3>1. LoopAt(n)' BY <1>0, <2>0, <2>4, Zenon DEF ResumeEntry, LoopAt, Busy, journalVars,
            histVars
      <3>2. QED BY <1>0, <2>4, <3>1, LoopFrame, Zenon DEF ResumeEntry, journalVars, histVars
    <2>5. ASSUME NEW a \in Action, PollServed(n, a) PROVE LoopInv'
      <3>1. NodeOf[a] = n
        BY <2>5, Zenon DEF PollServed, NextAction, ClaimRow, Oldest, Candidates, InScope
      <3>2. LoopAt(n)'
        BY <1>0, <2>0, <2>5, <3>1, Zenon DEF PollServed, LoopAt, Busy, journalVars, histVars
      <3>3. QED BY <1>0, <2>5, <3>2, LoopFrame, Zenon DEF PollServed, journalVars, histVars
    <2>6. CASE RecordReceived(n)
      <3>1. cur[n] \in Action /\ NodeOf[cur[n]] = n BY <2>0, <2>6, Zenon DEF RecordReceived,
            LoopAt, Busy
      <3>2. LoopAt(n)' BY <1>0, <2>0, <2>6, <3>1, Zenon DEF RecordReceived, LoopAt, Busy, histVars
      <3>3. QED BY <1>0, <2>6, <3>1, <3>2, LoopFrame, Zenon DEF RecordReceived, histVars
    <2>7. CASE SetClaim(n)
      <3>1. LoopAt(n)' BY <1>0, <2>0, <2>7, Zenon DEF SetClaim, LoopAt, Busy, histVars
      <3>2. QED BY <1>0, <2>7, <3>1, LoopFrame, Zenon DEF SetClaim, histVars
    <2>8. CASE FetchAbandoned(n) \/ ProcessFails(n) \/ OutcomeUnrecorded(n) \/ ReportFails(n)
      BY <1>0, <2>8, ReturnKeepsLoop, Zenon DEF FetchAbandoned, ProcessFails, OutcomeUnrecorded,
         ReportFails, journalVars, histVars
    <2>9. CASE StartExecution(n)
      <3>1. cur[n] \in Action /\ NodeOf[cur[n]] = n BY <2>0, <2>9, Zenon DEF StartExecution,
            LoopAt, Busy
      <3>2. LoopAt(n)' BY <1>0, <2>0, <2>9, <3>1, Zenon DEF StartExecution, LoopAt, Busy
      <3>3. QED BY <1>0, <2>9, <3>1, <3>2, LoopFrame, Zenon DEF StartExecution
    <2>10. CASE InterruptedEntry(n)
      <3>1. cur[n] \in Action /\ NodeOf[cur[n]] = n BY <2>0, <2>10, Zenon DEF InterruptedEntry,
            LoopAt, Busy
      <3>2. LoopAt(n)' BY <1>0, <2>0, <2>10, <3>1, Zenon DEF InterruptedEntry, LoopAt, Busy,
            histVars
      <3>3. QED BY <1>0, <2>10, <3>1, <3>2, LoopFrame, Zenon DEF InterruptedEntry, histVars
    <2>11. CASE SettledEntry(n)
      <3>1. LoopAt(n)' BY <1>0, <2>0, <2>11, Zenon DEF SettledEntry, LoopAt, Busy, journalVars,
            histVars
      <3>2. QED BY <1>0, <2>11, <3>1, LoopFrame, Zenon DEF SettledEntry, journalVars, histVars
    <2>12. ASSUME NEW r \in {"ok", "failed"}, ExecutorReturns(n, r) PROVE LoopInv'
      <3>1. cur[n] \in Action /\ NodeOf[cur[n]] = n BY <2>0, <2>12, Zenon DEF ExecutorReturns,
            LoopAt, Busy
      <3>2. LoopAt(n)' BY <1>0, <2>0, <2>12, <3>1, Zenon DEF ExecutorReturns, LoopAt, Busy,
            journalVars
      <3>3. QED BY <1>0, <2>12, <3>1, <3>2, LoopFrame, Zenon DEF ExecutorReturns, journalVars
    <2>13. CASE RecordOutcome(n) \/ MarkOutcomeUnknown(n)
      <3>1. cur[n] \in Action /\ NodeOf[cur[n]] = n
        BY <2>0, <2>13, Zenon DEF RecordOutcome, MarkOutcomeUnknown, LoopAt, Busy
      <3>2. LoopAt(n)'
        BY <1>0, <2>0, <2>13, <3>1 DEF RecordOutcome, MarkOutcomeUnknown, LoopAt, Busy, histVars
      <3>3. QED
        BY <1>0, <2>13, <3>1, <3>2, LoopFrame, Zenon DEF RecordOutcome, MarkOutcomeUnknown, histVars
    <2>14. CASE PostResult(n)
      <3>1. LoopAt(n)' BY <1>0, <2>0, <2>14, Zenon DEF PostResult, LoopAt, Busy, journalVars,
            histVars
      <3>2. QED BY <1>0, <2>14, <3>1, LoopFrame, Zenon DEF PostResult, journalVars, histVars
    <2>15. CASE MarkReported(n)
      <3>1. cur[n] \in Action /\ NodeOf[cur[n]] = n BY <2>0, <2>15, Zenon DEF MarkReported,
            LoopAt, Busy
      <3>2. QED BY <1>0, <2>15, <3>1, ReturnKeepsLoop, Zenon DEF MarkReported, histVars
    <2>16. ASSUME NEW a \in Action, CompactReported(n, a) PROVE LoopInv'
      <3>1. LoopAt(n)' BY <1>0, <2>0, <2>16 DEF CompactReported, LoopAt, loopVars, histVars
      <3>2. QED BY <1>0, <2>16, <3>1, LoopFrame, Zenon DEF CompactReported, loopVars, histVars
    <2>17. QED
      BY <1>5, <2>1, <2>2, <2>3, <2>4, <2>5, <2>6, <2>7, <2>8, <2>9, <2>10, <2>11, <2>12,
         <2>13, <2>14, <2>15, <2>16, Zenon DEF LoopNext
  <1>6. QED
    BY <1>2, <1>3, <1>4, <1>5, Zenon DEF Next, CalmNext

\* Finished rows are left alone: only an accepted result finishes a row.
DoneRowsKept ==
    /\ UNCHANGED <<rowResult, doneOn>>
    /\ \A a \in Action : /\ rowState'[a] = "done" <=> rowState[a] = "done"
                         /\ rowState[a] = "done" => rowBoot'[a] = rowBoot[a]

\* Every step but an accepted result leaves the finished rows alone.
LEMMA OnlyResultsFinishRows ==
    ASSUME QueueTypeOK, Next
    PROVE  DoneRowsKept \/ \E m \in posts : ResultAccepted(m)
  <1>0. \A a \in Action : rowState[a] = "done" => ~Reclaimable(a)
    BY Zenon DEF Reclaimable
  <1>1. ASSUME UNCHANGED <<rowVars, doneOn>> PROVE DoneRowsKept
    BY <1>1, Zenon DEF DoneRowsKept, rowVars
  <1>2. ASSUME NEW S \in SUBSET Action, \A a \in S : Reclaimable(a), Cancel(S), doneOn' = doneOn
        PROVE  DoneRowsKept
    BY <1>0, <1>2, Zenon DEF Cancel, DoneRowsKept
  <1>3. ASSUME NEW n, NEW b, NEW a \in Action, NextAction(n, b, a), doneOn' = doneOn
        PROVE  DoneRowsKept
    BY <1>0, <1>3, Zenon DEF NextAction, ClaimRow, Oldest, Candidates, DeadLetters, DoneRowsKept,
       QueueTypeOK
  <1>4. ASSUME NEW n, NextActionEmpty(n), doneOn' = doneOn
        PROVE  DoneRowsKept
    BY <1>0, <1>4, Zenon DEF NextActionEmpty, ClaimNothing, DeadLetters, DoneRowsKept
  <1>5. CASE \E a \in Action : Execute(a)
    BY <1>5, Zenon DEF Execute, EnqueueAction, DoneRowsKept, QueueTypeOK, agentVars, histVars
  <1>6. CASE ControlNext
    <2>0. doneOn' = doneOn BY <1>6, Zenon DEF ControlNext, agentVars, histVars
    <2>1. ASSUME NEW i \in Incident, CancelPendingActionsForIncident(i) PROVE DoneRowsKept
      BY <1>2, <2>0, <2>1, Zenon DEF CancelPendingActionsForIncident
    <2>2. ASSUME NEW a \in Action, CancelPendingAction(a) PROVE DoneRowsKept
      BY <1>2, <2>0, <2>2, Zenon DEF CancelPendingAction, Reclaimable
    <2>3. CASE UNCHANGED rowVars
      BY <1>1, <2>0, <2>3, Zenon
    <2>4. QED
      BY <1>6, <2>1, <2>2, <2>3, Zenon DEF ControlNext, IncidentHalts, LeaseExpires
  <1>7. CASE EmergencyNext
    <2>0. doneOn' = doneOn BY <1>7, Zenon DEF EmergencyNext, agentVars, histVars
    <2>1. CASE CancelPendingActionsForSafetyStop
      BY <1>2, <2>0, <2>1, Zenon DEF CancelPendingActionsForSafetyStop
    <2>2. CASE UNCHANGED rowVars
      BY <1>1, <2>0, <2>2, Zenon
    <2>3. CancelPendingActionsForSafetyStop \/ UNCHANGED rowVars
      BY <1>7, Zenon DEF EmergencyNext, StopNext, ControllerRestarts, PauseBegins, ResumeBegins,
         ResumeEnds, DryRunEntered, DryRunLeaving, DryRunLeft, ReloadWhilePaused, StopCancels,
         StopFails
    <2>4. QED BY <2>1, <2>2, <2>3, Zenon
  <1>8. CASE NetNext
    <2>1. CASE \E p \in stalePolls : StalePollServed(p)
      BY <1>3, <1>4, <2>1, Zenon DEF StalePollServed, histVars
    <2>2. CASE \/ \E p \in stalePolls : StalePollLost(p)
               \/ \E m \in posts : ResultRefused(m) \/ PostLost(m)
      BY <1>1, <2>2, Zenon DEF StalePollLost, ResultRefused, PostLost, queueVars, histVars
    <2>3. QED BY <1>8, <2>1, <2>2, Zenon DEF NetNext
  <1>9. CASE \E n \in Node : CrashNext(n)
    BY <1>1, <1>9, Zenon DEF CrashNext, AgentCrashes, NodeReboots, AgentStarts, queueVars, histVars
  <1>10. ASSUME NEW n \in Node, LoopNext(n) PROVE DoneRowsKept
    <2>1. CASE PollEmpty(n)
      BY <1>4, <2>1, Zenon DEF PollEmpty, histVars
    <2>2. CASE \E a \in Action : PollServed(n, a)
      BY <1>3, <2>2, Zenon DEF PollServed, histVars
    <2>3. CASE \/ Tick(n) \/ RecoveryEnds(n) \/ PollSent(n) \/ PollTimesOut(n)
               \/ RecordReceived(n) \/ SetClaim(n) \/ FetchAbandoned(n)
               \/ \E a \in Action : SkipExpired(n, a) \/ ResumeEntry(n, a)
      BY <1>1, <2>3, Zenon DEF Tick, RecoveryEnds, PollSent, PollTimesOut, RecordReceived, SetClaim,
         FetchAbandoned, SkipExpired, ResumeEntry, queueVars, histVars
    <2>4. CASE \/ StartExecution(n) \/ InterruptedEntry(n) \/ SettledEntry(n)
               \/ ProcessFails(n) \/ RecordOutcome(n) \/ MarkOutcomeUnknown(n)
               \/ OutcomeUnrecorded(n) \/ \E r \in {"ok", "failed"} : ExecutorReturns(n, r)
      BY <1>1, <2>4, Zenon DEF StartExecution, InterruptedEntry, SettledEntry, ProcessFails,
         RecordOutcome, MarkOutcomeUnknown, OutcomeUnrecorded, ExecutorReturns, queueVars, histVars
    <2>5. CASE \/ PostResult(n) \/ ReportFails(n) \/ MarkReported(n)
               \/ \E a \in Action : CompactReported(n, a)
      BY <1>1, <2>5, Zenon DEF PostResult, ReportFails, MarkReported, CompactReported, queueVars,
         histVars
    <2>6. QED BY <1>10, <2>1, <2>2, <2>3, <2>4, <2>5, Zenon DEF LoopNext
  <1>11. QED
    BY <1>5, <1>6, <1>7, <1>8, <1>9, <1>10, Zenon DEF Next, CalmNext

\* Requests in flight come from PostResult only.
LEMMA OnlyPostsAddRequests ==
    Next => posts' \subseteq posts \/ \E n \in Node : PostResult(n)
  <1> SUFFICES ASSUME Next PROVE posts' \subseteq posts \/ \E n \in Node : PostResult(n)
    OBVIOUS
  <1> USE DEF netVars, agentVars
  <1>1. CASE EmergencyNext \/ ControlNext \/ \E a \in Action : Execute(a)
    BY <1>1, Zenon DEF EmergencyNext, ControlNext, Execute
  <1>2. CASE NetNext
    BY <1>2, Zenon DEF NetNext, StalePollServed, StalePollLost, ResultAccepted, ResultRefused,
       PostLost
  <1>3. CASE \E n \in Node : CrashNext(n)
    BY <1>3, Zenon DEF CrashNext, AgentCrashes, NodeReboots, AgentStarts
  <1>4. ASSUME NEW n \in Node, LoopNext(n) PROVE posts' = posts \/ PostResult(n)
    <2>1. CASE \/ Tick(n) \/ RecoveryEnds(n) \/ PollSent(n) \/ PollEmpty(n) \/ PollTimesOut(n)
               \/ RecordReceived(n) \/ SetClaim(n) \/ FetchAbandoned(n)
               \/ \E a \in Action : SkipExpired(n, a) \/ ResumeEntry(n, a) \/ PollServed(n, a)
      BY <2>1, Zenon DEF Tick, RecoveryEnds, PollSent, PollEmpty, PollTimesOut, RecordReceived,
         SetClaim,
         FetchAbandoned, SkipExpired, ResumeEntry, PollServed
    <2>2. CASE \/ StartExecution(n) \/ InterruptedEntry(n) \/ SettledEntry(n) \/ ProcessFails(n)
               \/ RecordOutcome(n) \/ MarkOutcomeUnknown(n) \/ OutcomeUnrecorded(n)
               \/ ReportFails(n) \/ MarkReported(n) \/ \E a \in Action : CompactReported(n, a)
               \/ \E r \in {"ok", "failed"} : ExecutorReturns(n, r)
      BY <2>2, Zenon DEF StartExecution, InterruptedEntry, SettledEntry, ProcessFails,
         RecordOutcome,
         MarkOutcomeUnknown, OutcomeUnrecorded, ExecutorReturns, ReportFails, MarkReported,
         CompactReported
    <2>3. QED BY <1>4, <2>1, <2>2, Zenon DEF LoopNext
  <1>5. QED
    BY <1>1, <1>2, <1>3, <1>4, Zenon DEF Next, CalmNext

\* What the executor did to an action is never unsaid.
LEMMA TruthIsStable ==
    ASSUME DeliveryInv, Next, NEW a \in Action, NEW r, Truthful(a, r)
    PROVE  Truthful(a, r)'
  <1>0. /\ ran \in [Action -> {"no", "started", "ok", "failed"}]
        /\ cur \in [Node -> Action \cup {NoAction}]
    BY Zenon DEF DeliveryInv, DeliveryTypeOK
  <1>1. CASE UNCHANGED ran
    BY <1>1, Zenon DEF Truthful
  <1>2. ASSUME NEW n \in Node, StartExecution(n) PROVE Truthful(a, r)'
    <2>1. cur[n] \in Action
      BY <1>2, Zenon DEF StartExecution, DeliveryInv, LoopInv, LoopAt, Busy
    <2>2. ran[cur[n]] = "no"
      BY <1>2, <2>1, Zenon DEF StartExecution, DeliveryInv, JournalInv
    <2>3. QED BY <1>0, <1>2, <2>1, <2>2, Zenon DEF StartExecution, Truthful
  <1>3. ASSUME NEW n \in Node, NEW v \in {"ok", "failed"}, ExecutorReturns(n, v)
        PROVE  Truthful(a, r)'
    <2>1. cur[n] \in Action /\ ran[cur[n]] = "started"
      BY <1>3, Zenon DEF ExecutorReturns, DeliveryInv, LoopInv, LoopAt, Busy
    <2>2. QED BY <1>0, <1>3, <2>1, Zenon DEF ExecutorReturns, Truthful
  <1>4. JournalStep => \/ UNCHANGED ran
                       \/ \E n \in Node : StartExecution(n)
                       \/ \E n \in Node, v \in {"ok", "failed"} : ExecutorReturns(n, v)
    BY Zenon DEF JournalStep, RecordReceived, SetClaim, InterruptedEntry, RecordOutcome,
       MarkOutcomeUnknown, MarkReported, CompactReported, AgentStarts, histVars
  <1>5. QED BY <1>1, <1>2, <1>3, <1>4, OnlyJournalSteps, Zenon

\* Every step keeps the answers true.
LEMMA AnswerPreserved ==
    ASSUME DeliveryInv, Next
    PROVE  AnswerInv'
  <1>0. posts \subseteq Post /\ QueueTypeOK /\ AnswerInv
    BY Zenon DEF DeliveryInv, DeliveryTypeOK, QueueInv
  <1>1. \A m \in posts' : Truthful(m.action, m.result)'
    <2>1. ASSUME NEW m \in posts PROVE Truthful(m.action, m.result)'
      <3>1. m.action \in Action /\ Truthful(m.action, m.result)
        BY <1>0, Zenon DEF AnswerInv, Post
      <3>2. QED BY <3>1, TruthIsStable, Zenon
    <2>2. ASSUME NEW n \in Node, PostResult(n)
          PROVE  \A m \in posts' : Truthful(m.action, m.result)'
      <3>1. cur[n] \in Action /\ jState[cur[n]] \in {"known", "unknown"}
        BY <2>2, Zenon DEF PostResult, DeliveryInv, LoopInv, LoopAt, Busy
      <3>2. ran[cur[n]] # "no" /\ (jState[cur[n]] = "known" => ran[cur[n]] = jResult[cur[n]])
        BY <3>1, Zenon DEF DeliveryInv, JournalInv
      <3> DEFINE m == Report(cur[n])
      <3>3. m.action = cur[n] /\ m.result = IF jState[cur[n]] = "known" THEN jResult[cur[n]] ELSE "unknown"
        BY Zenon DEF Report
      <3>4. Truthful(cur[n], m.result)
        BY <3>1, <3>2, <3>3, Zenon DEF Truthful, DeliveryInv, JournalInv
      <3>5. Truthful(cur[n], m.result)'
        BY <2>2, <3>4, Zenon DEF Truthful, PostResult, Report, journalVars, histVars, nodeVars
      <3>6. posts' = posts \cup {m} BY <2>2, Zenon DEF PostResult
      <3>7. UNCHANGED <<jState, jResult, jToken, header, boot, cur>>
        BY <2>2, Zenon DEF PostResult, journalVars, nodeVars
      <3>8. \A x \in posts : Truthful(x.action, x.result)' BY <2>1, Zenon
      <3>9. QED BY <3>3, <3>5, <3>6, <3>7, <3>8, Zenon DEF Truthful, Report
    <2>3. QED BY <2>1, <2>2, OnlyPostsAddRequests, Zenon
  <1>2. CASE DoneRowsKept
    <2>1. \A a \in Action : Truthful(a, rowResult[a])'
      <3> SUFFICES ASSUME NEW a \in Action PROVE Truthful(a, rowResult[a])'
        OBVIOUS
      <3>1. PICK r : r = rowResult[a] OBVIOUS
      <3>2. Truthful(a, r) BY <1>0, <3>1, Zenon DEF AnswerInv
      <3>3. rowResult'[a] = r BY <1>2, <3>1, Zenon DEF DoneRowsKept
      <3>4. Truthful(a, r)' BY <3>2, TruthIsStable, Zenon
      <3>5. QED BY <3>3, <3>4, Zenon DEF Truthful
    <2>2. \A a \in Action : rowState'[a] # "done" => rowResult'[a] = "none"
      BY <1>0, <1>2, Zenon DEF DoneRowsKept, AnswerInv
    <2>3. QED BY <1>1, <2>1, <2>2, Zenon DEF AnswerInv
  <1>3. ASSUME NEW m \in posts, ResultAccepted(m) PROVE AnswerInv'
    <2>1. m.action \in Action /\ Truthful(m.action, m.result) /\ UNCHANGED ran
      BY <1>0, <1>3, Zenon DEF AnswerInv, Post, ResultAccepted
    <2>2. /\ rowState' = [rowState EXCEPT ![m.action] = "done"]
          /\ rowResult' = [rowResult EXCEPT ![m.action] = m.result]
      BY <1>3, Zenon DEF ResultAccepted, CompleteClaimedAction
    <2>3. \A a \in Action : Truthful(a, rowResult[a])'
      BY <1>0, <2>1, <2>2, Zenon DEF Truthful, AnswerInv, QueueTypeOK
    <2>4. \A a \in Action : rowState'[a] # "done" => rowResult'[a] = "none"
      BY <1>0, <2>1, <2>2, Zenon DEF AnswerInv, QueueTypeOK
    <2>5. QED BY <1>1, <2>3, <2>4, Zenon DEF AnswerInv
  <1>4. QED BY <1>0, <1>2, <1>3, OnlyResultsFinishRows, Zenon

\* Only a crash, a reboot or a start changes boot IDs or wakes a dead agent.
LEMMA OnlyStartsWake ==
    ASSUME DeliveryTypeOK, Next
    PROVE  \/ \E n \in Node : CrashNext(n)
           \/ /\ UNCHANGED <<boot, header>>
              /\ \A k \in Node : agentPc[k] = "down" => agentPc'[k] = "down"
  <1> DEFINE Asleep == /\ UNCHANGED <<boot, header>>
                       /\ \A k \in Node : agentPc[k] = "down" => agentPc'[k] = "down"
  <1> USE DEF nodeVars, agentVars, loopVars, Goto, Return, DeliveryTypeOK
  <1>1. CASE EmergencyNext \/ ControlNext \/ \E a \in Action : Execute(a)
    BY <1>1, Zenon DEF EmergencyNext, ControlNext, Execute
  <1>2. CASE NetNext
    <2>1. CASE \/ \E p \in stalePolls : StalePollServed(p) \/ StalePollLost(p)
               \/ \E m \in posts : PostLost(m)
      BY <2>1, Zenon DEF StalePollServed, StalePollLost, PostLost
    <2>2. ASSUME NEW m \in posts, ResultAccepted(m) \/ ResultRefused(m) PROVE Asleep
      BY <2>2, Zenon DEF ResultAccepted, ResultRefused, AwaitsAnswer
    <2>3. QED BY <1>2, <2>1, <2>2, Zenon DEF NetNext
  <1>3. ASSUME NEW n \in Node, LoopNext(n) PROVE Asleep
    <2>1. CASE \/ Tick(n) \/ RecoveryEnds(n) \/ PollSent(n) \/ PollEmpty(n) \/ PollTimesOut(n)
               \/ \E a \in Action : SkipExpired(n, a) \/ ResumeEntry(n, a) \/ PollServed(n, a)
      BY <2>1, Zenon DEF Tick, RecoveryEnds, PollSent, PollEmpty, PollTimesOut, SkipExpired,
         ResumeEntry, PollServed
    <2>2. CASE RecordReceived(n) \/ SetClaim(n) \/ FetchAbandoned(n)
      BY <2>2, Zenon DEF RecordReceived, SetClaim, FetchAbandoned
    <2>3. CASE StartExecution(n) \/ InterruptedEntry(n) \/ SettledEntry(n) \/ ProcessFails(n)
      BY <2>3, Zenon DEF StartExecution, InterruptedEntry, SettledEntry, ProcessFails
    <2>4. CASE \/ RecordOutcome(n) \/ MarkOutcomeUnknown(n) \/ OutcomeUnrecorded(n)
               \/ \E r \in {"ok", "failed"} : ExecutorReturns(n, r)
      BY <2>4, Zenon DEF RecordOutcome, MarkOutcomeUnknown, OutcomeUnrecorded, ExecutorReturns
    <2>5. CASE \/ PostResult(n) \/ ReportFails(n) \/ MarkReported(n)
               \/ \E a \in Action : CompactReported(n, a)
      BY <2>5, Zenon DEF PostResult, ReportFails, MarkReported, CompactReported
    <2>6. QED BY <1>3, <2>1, <2>2, <2>3, <2>4, <2>5, Zenon DEF LoopNext
  <1>4. QED
    BY <1>1, <1>2, <1>3, Zenon DEF Next, CalmNext

\* Every step keeps the boot IDs honest.
LEMMA BootPreserved ==
    ASSUME DeliveryInv, Next
    PROVE  BootInv'
  <1>0. /\ posts \subseteq Post /\ QueueTypeOK /\ BootInv /\ DeliveryTypeOK
        /\ boot \in [Node -> 1 .. MaxBoot] /\ header \in [Node -> Boot]
        /\ agentPc \in [Node -> Pc] /\ doneOn \in [Action -> Boot]
    BY Zenon DEF DeliveryInv, DeliveryTypeOK, QueueInv
  <1>1. \A n \in Node : agentPc'[n] # "down" => header'[n] \in {0, boot'[n]}
    <2>1. ASSUME NEW n \in Node, CrashNext(n)
          PROVE  \A k \in Node : agentPc'[k] # "down" => header'[k] \in {0, boot'[k]}
      <3>1. CASE AgentCrashes(n) \/ NodeReboots(n)
        BY <1>0, <3>1, Zenon DEF BootInv, AgentCrashes, NodeReboots, LoseProcess
      <3>2. CASE \E h \in Boot : AgentStarts(n, h)
        BY <1>0, <3>2, Zenon DEF BootInv, AgentStarts, Goto
      <3>3. QED BY <2>1, <3>1, <3>2, Zenon DEF CrashNext
    <2>2. QED BY <1>0, <2>1, OnlyStartsWake, Zenon DEF BootInv
  <1>2. \A m \in posts' : m.boot \in {0, m.on}
    <2>1. ASSUME NEW n \in Node, PostResult(n) PROVE \A m \in posts' : m.boot \in {0, m.on}
      <3>1. cur[n] \in Action /\ NodeOf[cur[n]] = n /\ agentPc[n] # "down"
        BY <2>1, Zenon DEF PostResult, DeliveryInv, LoopInv, LoopAt, Busy
      <3>2. Report(cur[n]).boot \in {0, Report(cur[n]).on}
        BY <1>0, <3>1, Zenon DEF Report, BootInv
      <3>3. QED BY <1>0, <2>1, <3>2, Zenon DEF PostResult, BootInv
    <2>2. QED BY <1>0, <2>1, OnlyPostsAddRequests, Zenon DEF BootInv
  <1>3. ResultFromClaimingBoot'
    <2>1. CASE DoneRowsKept
      BY <1>0, <2>1, Zenon DEF DoneRowsKept, BootInv, ResultFromClaimingBoot
    <2>2. ASSUME NEW m \in posts, ResultAccepted(m) PROVE ResultFromClaimingBoot'
      <3>1. m.action \in Action /\ m.boot \in {0, m.on}
        BY <1>0, Zenon DEF BootInv, Post
      <3>2. /\ rowState' = [rowState EXCEPT ![m.action] = "done"]
            /\ rowBoot' = rowBoot /\ rowBoot[m.action] \in {0, m.boot}
            /\ doneOn' = [doneOn EXCEPT ![m.action] = m.on]
        BY <2>2, Zenon DEF ResultAccepted, CompleteClaimedAction, CompletionMatches
      <3>3. QED BY <1>0, <3>1, <3>2, Zenon DEF BootInv, ResultFromClaimingBoot, QueueTypeOK
    <2>3. QED BY <1>0, <2>1, <2>2, OnlyResultsFinishRows, Zenon
  <1>4. QED BY <1>1, <1>2, <1>3, Zenon DEF BootInv

\* Dispatch becomes stopped only under a mark that covers every token issued.
LEMMA StopIsMarked ==
    ASSUME QueueTypeOK, EmergencyNext
    PROVE  /\ UNCHANGED agentVars
           /\ Stopped' => stopMark' = lastToken \/ (Stopped /\ stopMark' = stopMark)
  <1>1. UNCHANGED agentVars BY Zenon DEF EmergencyNext
  <1>2. CASE PauseBegins \/ DryRunEntered \/ \E d \in BOOLEAN : ControllerRestarts(d)
    BY <1>1, <1>2, Zenon DEF PauseBegins, DryRunEntered, ControllerRestarts, MarkStop
  <1>3. CASE \/ ResumeBegins \/ ResumeEnds \/ DryRunLeaving \/ DryRunLeft \/ ReloadWhilePaused
             \/ StopCancels \/ StopFails
    <2>1. stopMark' = stopMark /\ (Stopped' => Stopped)
      BY <1>3 DEF QueueTypeOK, ResumeBegins, ResumeEnds, DryRunLeaving, DryRunLeft,
         ReloadWhilePaused, StopCancels, StopFails, Stopped
    <2>2. QED BY <1>1, <2>1, Zenon
  <1>4. QED BY <1>2, <1>3, Zenon DEF EmergencyNext, StopNext

\* Every step keeps the agents' claims behind the stop mark.
LEMMA ClaimPreserved ==
    ASSUME DeliveryInv, Next
    PROVE  ClaimInv'
  <1>0. /\ QueueTypeOK /\ DeliveryTypeOK /\ ClaimInv /\ stopMark \in Nat /\ lastToken \in Nat
        /\ agentPc \in [Node -> Pc] /\ cur \in [Node -> Action \cup {NoAction}]
        /\ jToken \in [Action -> Nat] /\ held \in [Node -> Nat]
    BY DEF DeliveryInv, DeliveryTypeOK, QueueInv, QueueTypeOK
  <1>1. ASSUME EmergencyNext PROVE ClaimInv'
    <2>1. /\ \A a \in Action : jToken[a] <= lastToken
          /\ \A n \in Node : held[n] <= lastToken
      BY <1>0 DEF DeliveryTypeOK
    <2>2. UNCHANGED <<jToken, agentPc, cur, held>>
      BY <1>0, <1>1, StopIsMarked, Zenon DEF agentVars, journalVars, loopVars
    <2>3. QED BY <1>0, <1>1, <2>1, <2>2, StopIsMarked, Zenon DEF ClaimInv
  <1>2. ASSUME UNCHANGED <<stopVars, jToken, held, cur>>,
               \A n \in Node : agentPc'[n] \in {"fetched", "recorded"} =>
                                   agentPc[n] \in {"fetched", "recorded"}
        PROVE  ClaimInv'
    BY <1>0, <1>2, Zenon DEF ClaimInv, Stopped, stopVars
  <1>3. ASSUME UNCHANGED <<stopVars, jToken>>, NEW n \in Node,
               agentPc'[n] \notin {"fetched", "recorded"},
               \A k \in Node \ {n} : agentPc'[k] = agentPc[k] /\ held'[k] = held[k] /\ cur'[k] = cur[k]
        PROVE  ClaimInv'
    BY <1>0, <1>3, Zenon DEF ClaimInv, Stopped, stopVars
  <1>4. CASE ControlNext \/ \E a \in Action : Execute(a)
    <2>1. UNCHANGED <<stopVars, jToken, held, cur, agentPc>>
      BY <1>4, Zenon DEF ControlNext, Execute, EnqueueAction, CancelPendingActionsForIncident,
         CancelPendingAction, IncidentHalts, LeaseExpires, agentVars, journalVars, loopVars
    <2>2. QED BY <1>2, <2>1, Zenon
  <1>5. CASE NetNext
    <2>1. ASSUME NEW p \in stalePolls, StalePollServed(p) \/ StalePollLost(p) PROVE ClaimInv'
      <3>1. UNCHANGED <<stopVars, jToken, held, cur, agentPc>>
        BY <2>1, Zenon DEF StalePollServed, StalePollLost, NextAction, ClaimRow, NextActionEmpty,
           ClaimNothing, queueVars, journalVars, loopVars
      <3>2. QED BY <1>2, <3>1, Zenon
    <2>2. ASSUME NEW m \in posts, PostLost(m) PROVE ClaimInv'
      BY <1>2, <2>2, Zenon DEF PostLost, queueVars, journalVars, loopVars
    <2>3. ASSUME NEW m \in posts, ResultAccepted(m) PROVE ClaimInv'
      <3>1. UNCHANGED <<stopVars, jToken, held, cur>>
        BY <2>3, Zenon DEF ResultAccepted, CompleteClaimedAction, journalVars
      <3>2. \A n \in Node : agentPc'[n] \in {"fetched", "recorded"} =>
                                agentPc[n] \in {"fetched", "recorded"}
        BY <1>0, <2>3, Zenon DEF ResultAccepted, Goto
      <3>3. QED BY <1>2, <3>1, <3>2, Zenon
    <2>4. ASSUME NEW m \in posts, ResultRefused(m) PROVE ClaimInv'
      <3> DEFINE n == NodeOf[m.action]
      <3>1. n \in Node
        BY <1>0, QueueConstants, Zenon DEF DeliveryTypeOK, Post
      <3>2. UNCHANGED <<stopVars, jToken>>
        BY <2>4, Zenon DEF ResultRefused, queueVars, journalVars
      <3>3. CASE AwaitsAnswer(m)
        BY <1>0, <1>3, <2>4, <3>1, <3>2, <3>3, Zenon DEF ResultRefused, Return
      <3>4. CASE ~AwaitsAnswer(m)
        BY <1>2, <2>4, <3>2, <3>4, Zenon DEF ResultRefused, loopVars
      <3>5. QED BY <3>3, <3>4, Zenon
    <2>5. QED BY <1>5, <2>1, <2>2, <2>3, <2>4, Zenon DEF NetNext
  <1>6. ASSUME NEW n \in Node, CrashNext(n) PROVE ClaimInv'
    BY <1>0, <1>3, <1>6, Zenon DEF CrashNext, AgentCrashes, NodeReboots, AgentStarts, LoseProcess,
       Goto,
       queueVars, journalVars
  <1>7. ASSUME NEW n \in Node, LoopNext(n) PROVE ClaimInv'
    <2>1. CASE \/ Tick(n) \/ RecoveryEnds(n) \/ PollSent(n) \/ PollTimesOut(n)
               \/ \E a \in Action : SkipExpired(n, a) \/ ResumeEntry(n, a)
      BY <1>0, <1>3, <2>1, Zenon DEF Tick, RecoveryEnds, PollSent, PollTimesOut, SkipExpired,
         ResumeEntry, Goto, queueVars, journalVars
    <2>2. CASE PollEmpty(n)
      BY <1>0, <1>3, <2>2, Zenon DEF PollEmpty, NextActionEmpty, ClaimNothing, Goto, journalVars
    <2>3. ASSUME NEW a \in Action, PollServed(n, a) PROVE ClaimInv'
      <3>1. Stopped => a \in Restorative
        BY <2>3, Zenon DEF PollServed, NextAction, ClaimRow, Oldest, Candidates, InScope
      <3>2. UNCHANGED <<stopVars, jToken>> /\ cur' = [cur EXCEPT ![n] = a]
        BY <2>3, Zenon DEF PollServed, NextAction, ClaimRow, journalVars
      <3>3. \A k \in Node \ {n} : agentPc'[k] = agentPc[k] /\ held'[k] = held[k]
        BY <1>0, <2>3, Zenon DEF PollServed, Goto
      <3>4. QED BY <1>0, <3>1, <3>2, <3>3, Zenon DEF ClaimInv, Stopped, stopVars
    <2>4. CASE RecordReceived(n)
      BY <1>0, <1>2, <2>4, Zenon DEF RecordReceived, Goto, queueVars
    <2>5. CASE SetClaim(n)
      BY <1>0, <2>5, Zenon DEF SetClaim, Goto, ClaimInv, Stopped, queueVars, stopVars
    <2>6. CASE FetchAbandoned(n) \/ ProcessFails(n) \/ OutcomeUnrecorded(n) \/ ReportFails(n)
      BY <1>0, <1>3, <2>6, Zenon DEF FetchAbandoned, ProcessFails, OutcomeUnrecorded, ReportFails,
         Return,
         queueVars, journalVars
    <2>7. CASE StartExecution(n) \/ InterruptedEntry(n) \/ SettledEntry(n) \/ PostResult(n)
      BY <1>0, <1>3, <2>7, Zenon DEF StartExecution, InterruptedEntry, SettledEntry, PostResult,
         Goto,
         queueVars, journalVars
    <2>8. CASE \/ RecordOutcome(n) \/ MarkOutcomeUnknown(n)
               \/ \E r \in {"ok", "failed"} : ExecutorReturns(n, r)
      BY <1>0, <1>3, <2>8, Zenon DEF RecordOutcome, MarkOutcomeUnknown, ExecutorReturns, Goto,
         queueVars, journalVars
    <2>9. CASE MarkReported(n)
      BY <1>0, <2>9 DEF MarkReported, Return, ClaimInv, Stopped, queueVars, stopVars
    <2>10. CASE \E a \in Action : CompactReported(n, a)
      BY <1>2, <2>10, Zenon DEF CompactReported, queueVars, loopVars
    <2>11. QED
      BY <1>7, <2>1, <2>2, <2>3, <2>4, <2>5, <2>6, <2>7, <2>8, <2>9, <2>10, Zenon DEF LoopNext
  <1>8. QED
    BY <1>1, <1>4, <1>5, <1>6, <1>7, Zenon DEF Next, CalmNext

\* Lease tokens only grow.
LEMMA TokensGrow ==
    ASSUME QueueTypeOK, [QueueNext]_queueVars
    PROVE  lastToken \in Nat /\ lastToken' \in Nat /\ lastToken <= lastToken'
  <1>0. lastToken \in Nat BY DEF QueueTypeOK
  <1>1. lastToken' = lastToken \/ lastToken' = lastToken + 1
    <2>1. CASE RowNext
      BY <2>1, Zenon DEF RowNext, EnqueueAction, NextAction, ClaimRow, NextActionEmpty,
         ClaimNothing,
         CompleteClaimedAction, CancelPendingActionsForIncident, CancelPendingAction,
         DiscardCompletedAction, leaseVars
    <2>2. CASE StopNext \/ \E d \in BOOLEAN : ControllerRestarts(d)
      BY <2>2, Zenon DEF StopNext, ControllerRestarts, PauseBegins, ResumeBegins, ResumeEnds,
         DryRunEntered, DryRunLeaving, DryRunLeft, ReloadWhilePaused, StopCancels, StopFails,
         leaseVars
    <2>3. CASE \/ \E i \in Incident : IncidentHalts(i)
               \/ \E t \in live : LeaseExpires(t)
               \/ UNCHANGED queueVars
      BY <2>3, Zenon DEF IncidentHalts, LeaseExpires, leaseVars, queueVars
    <2>4. QED BY <2>1, <2>2, <2>3, Zenon DEF QueueNext
  <1>2. QED BY <1>0, <1>1

\* The types of the variables one node's loop moves.
LoopTypeOK ==
    /\ agentPc \in [Node -> Pc]
    /\ cur \in [Node -> Action \cup {NoAction}]
    /\ held \in [Node -> 0 .. lastToken]
    /\ got \in [Node -> {"none", "ok", "failed"}]
    /\ todo \in [Node -> SUBSET Action]

\* Return keeps those types.
LEMMA ReturnTypes ==
    ASSUME DeliveryTypeOK, NEW n \in Node, NEW ok \in BOOLEAN, Return(n, ok),
           lastToken' \in Nat, lastToken \in Nat, lastToken <= lastToken'
    PROVE  LoopTypeOK'
  BY DEF DeliveryTypeOK, Return, LoopTypeOK, Pc

\* Every step keeps the types.
LEMMA TypePreserved ==
    ASSUME DeliveryInv, Next
    PROVE  DeliveryTypeOK'
  <1> USE DEF Goto
  <1>0. /\ QueueTypeOK /\ DeliveryTypeOK
        /\ lastToken \in Nat /\ lastToken' \in Nat /\ lastToken <= lastToken'
    BY StepIsQueueStep, TokensGrow, Zenon DEF DeliveryInv, QueueInv
  <1>1. CASE EmergencyNext \/ ControlNext \/ \E a \in Action : Execute(a)
    <2>1. UNCHANGED agentVars
      BY <1>1, Zenon DEF EmergencyNext, ControlNext, Execute
    <2>2. QED
      BY <1>0, <2>1 DEF DeliveryTypeOK, agentVars, journalVars, loopVars, nodeVars, netVars,
         histVars
  <1>2. CASE NetNext
    <2>1. CASE \/ \E p \in stalePolls : StalePollServed(p) \/ StalePollLost(p)
               \/ \E m \in posts : PostLost(m)
      BY <1>0, <2>1 DEF StalePollServed, StalePollLost, PostLost, DeliveryTypeOK, journalVars,
         loopVars, nodeVars, histVars
    <2>2. ASSUME NEW m \in posts, ResultAccepted(m) \/ ResultRefused(m) PROVE DeliveryTypeOK'
      <3> DEFINE n == NodeOf[m.action]
      <3>1. n \in Node /\ m.action \in Action /\ m.on \in Boot
        BY <1>0, QueueConstants, Zenon DEF DeliveryTypeOK, Post
      <3>2. LoopTypeOK'
        <4>0. CASE UNCHANGED loopVars
          BY <1>0, <4>0, SMTT(30) DEF DeliveryTypeOK, LoopTypeOK, loopVars
        <4>1. CASE ResultAccepted(m) /\ AwaitsAnswer(m)
          BY <1>0, <3>1, <4>1 DEF ResultAccepted, DeliveryTypeOK, LoopTypeOK, Pc
        <4>2. CASE ResultRefused(m) /\ AwaitsAnswer(m)
          BY <1>0, <3>1, <4>2, ReturnTypes, Zenon DEF ResultRefused
        <4>3. QED BY <2>2, <4>0, <4>1, <4>2, Zenon DEF ResultAccepted, ResultRefused, loopVars
      <3>3. posts' \in SUBSET Post
        BY <1>0, <2>2, Zenon DEF ResultAccepted, ResultRefused, DeliveryTypeOK
      <3>4. doneOn' \in [Action -> Boot]
        BY <1>0, <2>2, <3>1, Zenon DEF ResultAccepted, ResultRefused, DeliveryTypeOK, histVars
      <3>5. UNCHANGED <<jState, jToken, jResult, boot, header, crashes, stalePolls, starts, ran>>
        BY <2>2, Zenon DEF ResultAccepted, ResultRefused, journalVars, nodeVars, histVars
      <3>6. QED BY <1>0, <3>2, <3>3, <3>4, <3>5 DEF DeliveryTypeOK, LoopTypeOK
    <2>3. QED BY <1>2, <2>1, <2>2, Zenon DEF NetNext
  <1>3. ASSUME NEW n \in Node, CrashNext(n) PROVE DeliveryTypeOK'
    <2>1. CASE AgentCrashes(n) \/ NodeReboots(n)
      <3>1. LoopTypeOK'
        BY <1>0, <2>1, SMTT(30) DEF AgentCrashes, NodeReboots, LoseProcess, DeliveryTypeOK,
           LoopTypeOK, Pc
      <3>2. /\ boot' \in [Node -> 1 .. MaxBoot] /\ crashes' \in 0 .. MaxCrashes
            /\ header' \in [Node -> Boot]
        BY <1>0, <2>1, QueueConstants, DeliveryConstants, SMTT(30)
           DEF AgentCrashes, NodeReboots, DeliveryTypeOK
      <3>3. QED
        BY <1>0, <2>1, <3>1, <3>2, SMTT(30) DEF AgentCrashes, NodeReboots, DeliveryTypeOK,
           LoopTypeOK,
           journalVars, netVars, histVars
    <2>2. ASSUME NEW h \in Boot, AgentStarts(n, h) PROVE DeliveryTypeOK'
      <3>1. jState' \in [Action -> JState]
        BY <1>0, <2>2, Zenon DEF AgentStarts, DeliveryTypeOK, JState
      <3>2. LoopTypeOK' /\ header' \in [Node -> Boot]
        BY <1>0, <2>2 DEF AgentStarts, Recoverable, DeliveryTypeOK, LoopTypeOK, Pc
      <3>3. UNCHANGED <<jToken, jResult, boot, crashes, stalePolls, posts, starts, ran, doneOn>>
        BY <2>2, Zenon DEF AgentStarts, netVars, histVars
      <3>4. QED BY <1>0, <3>1, <3>2, <3>3 DEF DeliveryTypeOK, LoopTypeOK
    <2>3. QED BY <1>3, <2>1, <2>2, Zenon DEF CrashNext
  <1>4. ASSUME NEW n \in Node, LoopNext(n) PROVE DeliveryTypeOK'
    <2>1. CASE \/ Tick(n) \/ RecoveryEnds(n) \/ PollSent(n)
               \/ \E a \in Action : SkipExpired(n, a) \/ ResumeEntry(n, a)
      <3>1. LoopTypeOK'
        BY <1>0, <2>1, SMTT(30) DEF Tick, Recoverable, RecoveryEnds, PollSent, SkipExpired,
           ResumeEntry,
           DeliveryTypeOK, LoopTypeOK, Pc
      <3>2. UNCHANGED <<journalVars, nodeVars, netVars, histVars>>
        BY <2>1, Zenon DEF Tick, RecoveryEnds, PollSent, SkipExpired, ResumeEntry
      <3>3. QED
        BY <1>0, <3>1, <3>2, SMTT(30) DEF DeliveryTypeOK, LoopTypeOK, journalVars, nodeVars,
           netVars, histVars
    <2>2. CASE PollEmpty(n) \/ PollTimesOut(n)
      <3>1. LoopTypeOK' /\ stalePolls' \in SUBSET (Node \X Boot)
        BY <1>0, <2>2 DEF PollEmpty, PollTimesOut, DeliveryTypeOK, LoopTypeOK, Pc, netVars
      <3>2. QED
        BY <1>0, <2>2, <3>1, SMTT(30) DEF PollEmpty, PollTimesOut, DeliveryTypeOK, LoopTypeOK,
           journalVars,
           nodeVars, netVars, histVars
    <2>3. ASSUME NEW a \in Action, PollServed(n, a) PROVE DeliveryTypeOK'
      <3>1. LoopTypeOK'
        BY <1>0, <2>3 DEF PollServed, DeliveryTypeOK, LoopTypeOK, Pc
      <3>2. UNCHANGED <<journalVars, nodeVars, netVars, histVars>>
        BY <2>3, Zenon DEF PollServed
      <3>3. QED
        BY <1>0, <3>1, <3>2 DEF DeliveryTypeOK, LoopTypeOK, journalVars, nodeVars, netVars, histVars
    <2>4. CASE FetchAbandoned(n) \/ ProcessFails(n) \/ OutcomeUnrecorded(n) \/ ReportFails(n)
      <3>1. LoopTypeOK'
        BY <1>0, <2>4, ReturnTypes, Zenon DEF FetchAbandoned, ProcessFails, OutcomeUnrecorded,
           ReportFails
      <3>2. UNCHANGED <<journalVars, nodeVars, netVars, histVars>>
        BY <2>4, Zenon DEF FetchAbandoned, ProcessFails, OutcomeUnrecorded, ReportFails
      <3>3. QED
        BY <1>0, <3>1, <3>2 DEF DeliveryTypeOK, LoopTypeOK, journalVars, nodeVars, netVars, histVars
    <2>5. CASE RecordReceived(n) \/ SetClaim(n) \/ InterruptedEntry(n) \/ SettledEntry(n)
      <3>1. LoopTypeOK'
        BY <1>0, <2>5, SMTT(30) DEF RecordReceived, SetClaim, InterruptedEntry, SettledEntry,
           DeliveryTypeOK, LoopTypeOK, Pc
      <3>2. jState' \in [Action -> JState] /\ jToken' \in [Action -> 0 .. lastToken']
        BY <1>0, <2>5, SMTT(30) DEF RecordReceived, SetClaim, InterruptedEntry, SettledEntry,
           DeliveryTypeOK, JState, journalVars
      <3>3. UNCHANGED <<jResult, nodeVars, netVars, histVars>>
        BY <2>5, Zenon DEF RecordReceived, SetClaim, InterruptedEntry, SettledEntry, journalVars
      <3>4. QED
        BY <1>0, <3>1, <3>2, <3>3, Zenon DEF DeliveryTypeOK, LoopTypeOK, nodeVars, netVars, histVars
    <2>6. CASE StartExecution(n)
      <3>0. cur[n] \in Action
        BY <2>6, Zenon DEF StartExecution, DeliveryInv, LoopInv, LoopAt, Busy
      <3>1. LoopTypeOK' /\ jState' \in [Action -> JState]
        BY <1>0, <2>6, <3>0, SMTT(30) DEF StartExecution, DeliveryTypeOK, LoopTypeOK, Pc, JState
      <3>2. starts' \in [Action -> Nat] /\ ran' \in [Action -> {"no", "started", "ok", "failed"}]
        BY <1>0, <2>6, <3>0 DEF StartExecution, DeliveryTypeOK
      <3>3. UNCHANGED <<jToken, jResult, nodeVars, netVars, doneOn>>
        BY <2>6, Zenon DEF StartExecution
      <3>4. QED
        BY <1>0, <3>1, <3>2, <3>3 DEF DeliveryTypeOK, LoopTypeOK, nodeVars, netVars
    <2>7. ASSUME NEW r \in {"ok", "failed"}, ExecutorReturns(n, r) PROVE DeliveryTypeOK'
      <3>0. cur[n] \in Action
        BY <2>7, Zenon DEF ExecutorReturns, DeliveryInv, LoopInv, LoopAt, Busy
      <3>1. LoopTypeOK' /\ ran' \in [Action -> {"no", "started", "ok", "failed"}]
        BY <1>0, <2>7, <3>0 DEF ExecutorReturns, DeliveryTypeOK, LoopTypeOK, Pc
      <3>2. UNCHANGED <<journalVars, nodeVars, netVars, starts, doneOn>>
        BY <2>7, Zenon DEF ExecutorReturns
      <3>3. QED
        BY <1>0, <3>1, <3>2 DEF DeliveryTypeOK, LoopTypeOK, journalVars, nodeVars, netVars
    <2>8. CASE RecordOutcome(n) \/ MarkOutcomeUnknown(n)
      <3>1. LoopTypeOK' /\ jState' \in [Action -> JState]
        BY <1>0, <2>8, SMTT(30) DEF RecordOutcome, MarkOutcomeUnknown, DeliveryTypeOK, LoopTypeOK,
           Pc, JState
      <3>2. jResult' \in [Action -> {"none", "ok", "failed"}]
        BY <1>0, <2>8, Zenon DEF RecordOutcome, MarkOutcomeUnknown, DeliveryTypeOK
      <3>3. UNCHANGED <<jToken, nodeVars, netVars, histVars>>
        BY <2>8, Zenon DEF RecordOutcome, MarkOutcomeUnknown
      <3>4. QED
        BY <1>0, <3>1, <3>2, <3>3, SMTT(30) DEF DeliveryTypeOK, LoopTypeOK, nodeVars, netVars,
           histVars
    <2>9. CASE PostResult(n)
      <3>1. LoopTypeOK'
        BY <1>0, <2>9 DEF PostResult, DeliveryTypeOK, LoopTypeOK, Pc
      <3>2. cur[n] \in Action /\ NodeOf[cur[n]] = n
        BY <2>9, Zenon DEF PostResult, DeliveryInv, LoopInv, LoopAt, Busy
      <3>3. jState[cur[n]] = "known" => jResult[cur[n]] \in {"ok", "failed"}
        BY <3>2, Zenon DEF DeliveryInv, JournalInv
      <3>4. Report(cur[n]) \in Post
        <4>1. jToken[cur[n]] \in Nat /\ header[n] \in Boot /\ boot[n] \in Boot
          BY <1>0, <3>2, QueueConstants DEF DeliveryTypeOK, Boot
        <4>2. QED BY <3>2, <3>3, <4>1, Zenon DEF Report, Post, Result
      <3>5. posts' \in SUBSET Post
        BY <1>0, <2>9, <3>4, Zenon DEF PostResult, DeliveryTypeOK
      <3>6. UNCHANGED <<journalVars, nodeVars, stalePolls, histVars>>
        BY <2>9, Zenon DEF PostResult
      <3>7. QED
        BY <1>0, <3>1, <3>5, <3>6 DEF DeliveryTypeOK, LoopTypeOK, journalVars, nodeVars, histVars
    <2>10. CASE MarkReported(n)
      <3>0. cur[n] \in Action
        BY <2>10, Zenon DEF MarkReported, DeliveryInv, LoopInv, LoopAt, Busy
      <3>1. LoopTypeOK'
        BY <1>0, <2>10, ReturnTypes, Zenon DEF MarkReported
      <3>2. jState' \in [Action -> JState] /\ jToken' \in [Action -> 0 .. lastToken']
        BY <1>0, <2>10, <3>0 DEF MarkReported, DeliveryTypeOK, JState
      <3>3. UNCHANGED <<jResult, nodeVars, netVars, histVars>>
        BY <2>10, Zenon DEF MarkReported
      <3>4. QED
        BY <1>0, <3>1, <3>2, <3>3, Zenon DEF DeliveryTypeOK, LoopTypeOK, nodeVars, netVars, histVars
    <2>11. ASSUME NEW a \in Action, CompactReported(n, a) PROVE DeliveryTypeOK'
      <3>1. /\ jState' \in [Action -> JState]
            /\ jResult' \in [Action -> {"none", "ok", "failed"}]
        BY <1>0, <2>11, Zenon DEF CompactReported, DeliveryTypeOK, JState
      <3>2. UNCHANGED <<jToken, loopVars, nodeVars, netVars, histVars>>
        BY <2>11, Zenon DEF CompactReported
      <3>3. QED
        BY <1>0, <3>1, <3>2 DEF DeliveryTypeOK, loopVars, nodeVars, netVars, histVars
    <2>12. QED
      BY <1>4, <2>1, <2>2, <2>3, <2>4, <2>5, <2>6, <2>7, <2>8, <2>9, <2>10, <2>11, Zenon
         DEF LoopNext
  <1>5. QED
    BY <1>1, <1>2, <1>3, <1>4, Zenon DEF Next, CalmNext

\* A claim is kept under its token or replaced by the newest one.
LEMMA ClaimsGrow ==
    ASSUME QueueTypeOK, [QueueNext]_queueVars, NEW a \in Action, rowState'[a] = "leased"
    PROVE  (rowState[a] = "leased" /\ rowToken'[a] = rowToken[a]) \/ rowToken'[a] = lastToken + 1
  <1> USE DEF QueueTypeOK
  <1>1. ASSUME NEW S \in SUBSET Action, Cancel(S)
        PROVE  rowState[a] = "leased" /\ rowToken'[a] = rowToken[a]
    BY <1>1, Zenon DEF Cancel
  <1>2. CASE UNCHANGED rowVars
    BY <1>2, Zenon DEF rowVars
  <1>3. CASE RowNext
    <2>1. CASE \E n \in Node, b \in Boot, k \in Action : NextAction(n, b, k)
      BY <2>1, Zenon DEF NextAction, ClaimRow
    <2>2. CASE \E n \in Node : NextActionEmpty(n)
      BY <2>2, Zenon DEF NextActionEmpty, ClaimNothing
    <2>3. CASE \E k \in Action : EnqueueAction(k) \/ DiscardCompletedAction(k)
      BY <2>3, Zenon DEF EnqueueAction, DiscardCompletedAction
    <2>4. CASE \/ \E i \in Incident : CancelPendingActionsForIncident(i)
               \/ \E k \in Action : CancelPendingAction(k)
      BY <1>1, <2>4, Zenon DEF CancelPendingActionsForIncident, CancelPendingAction
    <2>5. CASE \E k \in Action, n \in Node, t \in live, b \in Boot, r \in Result :
                   CompleteClaimedAction(k, n, t, b, r)
      BY <2>5, Zenon DEF CompleteClaimedAction
    <2>6. QED BY <1>3, <2>1, <2>2, <2>3, <2>4, <2>5, Zenon DEF RowNext
  <1>4. CASE StopNext \/ \E d \in BOOLEAN : ControllerRestarts(d)
    <2>1. CASE CancelPendingActionsForSafetyStop
      BY <1>1, <2>1, Zenon DEF CancelPendingActionsForSafetyStop
    <2>2. CancelPendingActionsForSafetyStop \/ UNCHANGED rowVars
      BY <1>4, Zenon DEF StopNext, ControllerRestarts, PauseBegins, ResumeBegins,
         ResumeEnds, DryRunEntered, DryRunLeaving, DryRunLeft, ReloadWhilePaused, StopCancels,
         StopFails
    <2>3. QED BY <1>2, <2>1, <2>2, Zenon
  <1>5. CASE \/ \E i \in Incident : IncidentHalts(i)
             \/ \E t \in live : LeaseExpires(t)
             \/ UNCHANGED queueVars
    BY <1>2, <1>5, Zenon DEF IncidentHalts, LeaseExpires, queueVars
  <1>6. QED BY <1>3, <1>4, <1>5, Zenon DEF QueueNext

\* How a loop comes to hold a fetched action or an acknowledgement.
LoopMoves(k) ==
    /\ agentPc'[k] \in {"fetched", "recorded"} =>
          \/ agentPc[k] \in {"fetched", "recorded"} /\ cur'[k] = cur[k] /\ held'[k] = held[k]
          \/ \E a \in Action : PollServed(k, a)
    /\ agentPc'[k] = "acked" =>
          \/ agentPc[k] = "acked" /\ cur'[k] = cur[k]
          \/ \E m \in posts : ResultAccepted(m) /\ cur'[k] = m.action

\* Every step moves every loop that way.
LEMMA OnlyFetchesClaim ==
    ASSUME DeliveryTypeOK, Next, NEW k \in Node
    PROVE  LoopMoves(k)
  <1> USE DEF Goto, Return, loopVars, agentVars
  <1>0. /\ agentPc \in [Node -> Pc] /\ cur \in [Node -> Action \cup {NoAction}]
        /\ held \in [Node -> 0 .. lastToken]
    BY Zenon DEF DeliveryTypeOK
  <1>1. ASSUME UNCHANGED <<agentPc, cur, held>> PROVE LoopMoves(k)
    BY <1>1, Zenon DEF LoopMoves
  <1>2. CASE EmergencyNext \/ ControlNext \/ \E a \in Action : Execute(a)
    BY <1>1, <1>2, Zenon DEF EmergencyNext, ControlNext, Execute
  <1>3. CASE NetNext
    <2>1. CASE \/ \E p \in stalePolls : StalePollServed(p) \/ StalePollLost(p)
               \/ \E m \in posts : PostLost(m)
      BY <1>1, <2>1, Zenon DEF StalePollServed, StalePollLost, PostLost
    <2>2. ASSUME NEW m \in posts, ResultAccepted(m) \/ ResultRefused(m) PROVE LoopMoves(k)
      BY <1>0, <2>2, Zenon DEF ResultAccepted, ResultRefused, AwaitsAnswer, LoopMoves
    <2>3. QED BY <1>3, <2>1, <2>2, Zenon DEF NetNext
  <1>4. ASSUME NEW n \in Node, CrashNext(n) PROVE LoopMoves(k)
    BY <1>0, <1>4, Zenon DEF CrashNext, AgentCrashes, NodeReboots, AgentStarts, LoseProcess,
       LoopMoves
  <1>5. ASSUME NEW n \in Node, LoopNext(n) PROVE LoopMoves(k)
    <2>1. CASE \/ Tick(n) \/ RecoveryEnds(n) \/ PollSent(n) \/ PollEmpty(n) \/ PollTimesOut(n)
               \/ \E a \in Action : SkipExpired(n, a) \/ ResumeEntry(n, a)
      BY <1>0, <2>1, Zenon DEF Tick, RecoveryEnds, PollSent, PollEmpty, PollTimesOut, SkipExpired,
         ResumeEntry, LoopMoves
    <2>2. ASSUME NEW a \in Action, PollServed(n, a) PROVE LoopMoves(k)
      <3>1. CASE k = n
        BY <1>0, <2>2, <3>1, Zenon DEF PollServed, LoopMoves
      <3>2. CASE k # n
        BY <1>0, <2>2, <3>2, Zenon DEF PollServed, LoopMoves
      <3>3. QED BY <3>1, <3>2, Zenon
    <2>3. CASE RecordReceived(n) \/ SetClaim(n) \/ FetchAbandoned(n)
      BY <1>0, <2>3, Zenon DEF RecordReceived, SetClaim, FetchAbandoned, LoopMoves
    <2>4. CASE StartExecution(n) \/ InterruptedEntry(n) \/ SettledEntry(n) \/ ProcessFails(n)
      BY <1>0, <2>4, Zenon DEF StartExecution, InterruptedEntry, SettledEntry, ProcessFails,
         LoopMoves
    <2>5. CASE \/ RecordOutcome(n) \/ MarkOutcomeUnknown(n) \/ OutcomeUnrecorded(n)
               \/ \E r \in {"ok", "failed"} : ExecutorReturns(n, r)
      BY <1>0, <2>5, Zenon DEF RecordOutcome, MarkOutcomeUnknown, OutcomeUnrecorded,
         ExecutorReturns,
         LoopMoves
    <2>6. CASE PostResult(n) \/ ReportFails(n) \/ MarkReported(n)
      BY <1>0, <2>6, Zenon DEF PostResult, ReportFails, MarkReported, LoopMoves
    <2>7. CASE \E a \in Action : CompactReported(n, a)
      BY <1>1, <2>7, Zenon DEF CompactReported
    <2>8. QED BY <1>5, <2>1, <2>2, <2>3, <2>4, <2>5, <2>6, <2>7, Zenon DEF LoopNext
  <1>6. QED BY <1>2, <1>3, <1>4, <1>5, Zenon DEF Next, CalmNext

\* Every step keeps compaction safe.
LEMMA SettledPreserved ==
    ASSUME DeliveryInv, Next
    PROVE  SettledInv'
  <1>0. /\ QueueTypeOK /\ DeliveryTypeOK /\ SettledInv /\ [QueueNext]_queueVars
        /\ lastToken \in Nat /\ lastToken' \in Nat /\ lastToken <= lastToken'
        /\ posts \subseteq Post
    BY StepIsQueueStep, TokensGrow, Zenon DEF DeliveryInv, DeliveryTypeOK, QueueInv
  <1>1. \A a \in Action : rowState[a] = "done" => rowState'[a] = "done"
    <2>1. CASE DoneRowsKept
      BY <2>1, Zenon DEF DoneRowsKept
    <2>2. CASE \E m \in posts : ResultAccepted(m)
      BY <1>0, <2>2, Zenon DEF ResultAccepted, CompleteClaimedAction, QueueTypeOK
    <2>3. QED BY <1>0, <2>1, <2>2, OnlyResultsFinishRows, Zenon
  <1>2. ASSUME NEW a \in Action, jState'[a] = "reported" \/ (jState'[a] = "none" /\ starts'[a] # 0)
        PROVE  rowState'[a] = "done"
    <2>0. /\ jState \in [Action -> JState] /\ starts \in [Action -> Nat]
          /\ jState[a] = "reported" \/ (jState[a] = "none" /\ starts[a] # 0)
                => rowState[a] = "done"
      BY <1>0, Zenon DEF SettledInv, DeliveryTypeOK
    <2>1. CASE UNCHANGED <<jState, jToken, jResult, starts, ran>>
      BY <1>1, <1>2, <2>0, <2>1, Zenon
    <2>2. CASE JournalStep
      <3> PICK n \in Node :
          \/ RecordReceived(n) \/ SetClaim(n) \/ StartExecution(n) \/ InterruptedEntry(n)
          \/ RecordOutcome(n) \/ MarkOutcomeUnknown(n) \/ MarkReported(n)
          \/ \E k \in Action : CompactReported(n, k)
          \/ \E r \in {"ok", "failed"} : ExecutorReturns(n, r)
          \/ \E h \in Boot : AgentStarts(n, h)
        BY <2>2, Zenon DEF JournalStep
      <3>1. CASE MarkReported(n)
        <4>1. rowState[cur[n]] = "done" /\ UNCHANGED starts
          BY <1>0, <3>1, Zenon DEF MarkReported, SettledInv, histVars
        <4>2. QED BY <1>1, <1>2, <2>0, <3>1, <4>1, Zenon DEF MarkReported
      <3>2. CASE \/ RecordReceived(n) \/ SetClaim(n) \/ InterruptedEntry(n)
                 \/ RecordOutcome(n) \/ MarkOutcomeUnknown(n)
                 \/ \E h \in Boot : AgentStarts(n, h)
        BY <1>1, <1>2, <2>0, <3>2, Zenon DEF RecordReceived, SetClaim, InterruptedEntry,
           RecordOutcome,
           MarkOutcomeUnknown, AgentStarts, histVars
      <3>3. CASE StartExecution(n)
        BY <1>1, <1>2, <2>0, <3>3, Zenon DEF StartExecution
      <3>4. CASE \E r \in {"ok", "failed"} : ExecutorReturns(n, r)
        BY <1>1, <1>2, <2>0, <3>4, Zenon DEF ExecutorReturns, journalVars
      <3>5. CASE \E k \in Action : CompactReported(n, k)
        BY <1>1, <1>2, <2>0, <3>5, Zenon DEF CompactReported, histVars
      <3>6. QED BY <3>1, <3>2, <3>3, <3>4, <3>5, Zenon
    <2>3. QED BY <2>1, <2>2, OnlyJournalSteps, Zenon
  <1>3. ASSUME NEW n \in Node, agentPc'[n] = "acked" PROVE rowState'[cur'[n]] = "done"
    <2>1. CASE agentPc[n] = "acked" /\ cur'[n] = cur[n]
      <3>1. cur[n] \in Action /\ rowState[cur[n]] = "done"
        BY <1>0, <2>1, Zenon DEF SettledInv, DeliveryInv, LoopInv, LoopAt, Busy
      <3>2. QED BY <1>1, <2>1, <3>1, Zenon
    <2>2. ASSUME NEW m \in posts, ResultAccepted(m), cur'[n] = m.action PROVE rowState'[cur'[n]] = "done"
      BY <1>0, <2>2, Zenon DEF ResultAccepted, CompleteClaimedAction, QueueTypeOK, Post
    <2>3. QED BY <1>0, <1>3, <2>1, <2>2, OnlyFetchesClaim, Zenon DEF LoopMoves
  <1>4. \A m \in posts' : m.token <= lastToken'
    <2>1. \A m \in posts : m.token \in Nat /\ m.token <= lastToken'
      BY <1>0 DEF SettledInv, Post
    <2>2. ASSUME NEW n \in Node, PostResult(n) PROVE \A m \in posts' : m.token <= lastToken'
      <3>1. cur[n] \in Action
        BY <2>2, Zenon DEF PostResult, DeliveryInv, LoopInv, LoopAt, Busy
      <3>2. jToken[cur[n]] <= lastToken'
        BY <1>0, <3>1 DEF DeliveryTypeOK
      <3>3. Report(cur[n]).token = jToken[cur[n]]
        BY Zenon DEF Report
      <3>4. QED BY <2>1, <2>2, <3>2, <3>3, Zenon DEF PostResult
    <2>3. QED BY <2>1, <2>2, OnlyPostsAddRequests, Zenon
  <1>5. ASSUME NEW n \in Node, agentPc'[n] \in {"fetched", "recorded"} PROVE FreshClaim(n)'
    <2>1. ASSUME NEW a \in Action, PollServed(n, a) PROVE FreshClaim(n)'
      <3>1. /\ cur'[n] = a /\ held'[n] = lastToken + 1 /\ posts' = posts
            /\ rowState'[a] = "leased" /\ rowToken'[a] = lastToken + 1
        BY <1>0, <2>1, Zenon DEF PollServed, NextAction, ClaimRow, DeliveryTypeOK, QueueTypeOK,
           netVars,
           Oldest, Candidates
      <3>2. ASSUME NEW m \in posts PROVE m.token < lastToken + 1
        <4>1. m.token \in Nat BY <1>0, Zenon DEF Post
        <4>2. m.token <= lastToken BY <1>0, Zenon DEF SettledInv
        <4>3. QED BY <1>0, <4>1, <4>2
      <3>3. QED BY <1>0, <3>1, <3>2 DEF FreshClaim
    <2>2. CASE agentPc[n] \in {"fetched", "recorded"} /\ cur'[n] = cur[n] /\ held'[n] = held[n]
      <3>0. cur[n] \in Action /\ NodeOf[cur[n]] = n
        BY <2>2, Zenon DEF DeliveryInv, LoopInv, LoopAt, Busy
      <3>1. /\ cur[n] \in Action /\ NodeOf[cur[n]] = n /\ FreshClaim(n)
            /\ held[n] \in Nat /\ held[n] <= lastToken
        <4>1. FreshClaim(n) BY <1>0, <2>2, Zenon DEF SettledInv
        <4>2. held[n] \in 0 .. lastToken BY <1>0, Zenon DEF DeliveryTypeOK
        <4>3. lastToken \in Nat BY <1>0, Zenon
        <4>4. QED BY <3>0, <4>1, <4>2, <4>3
      <3>2. rowState'[cur[n]] # "done"
        <4>1. CASE DoneRowsKept
          BY <3>1, <4>1, Zenon DEF DoneRowsKept, FreshClaim
        <4>2. ASSUME NEW m \in posts, ResultAccepted(m) PROVE rowState'[cur[n]] # "done"
          <5>1. /\ m.action \in Action /\ m.token \in Nat
                /\ rowState[m.action] = "leased" /\ rowToken[m.action] = m.token
                /\ rowState' = [rowState EXCEPT ![m.action] = "done"]
            BY <1>0, <4>2, Zenon DEF ResultAccepted, CompleteClaimedAction, CompletionMatches, Post
          <5>2. m.action # cur[n]
            BY <3>1, <5>1, SMTT(30) DEF FreshClaim
          <5>3. QED BY <1>0, <3>1, <5>1, <5>2, Zenon DEF FreshClaim, QueueTypeOK
        <4>3. QED BY <1>0, <4>1, <4>2, OnlyResultsFinishRows, Zenon
      <3>3. rowState'[cur[n]] = "leased" => held[n] <= rowToken'[cur[n]]
        BY <1>0, <3>1, ClaimsGrow DEF FreshClaim
      <3>4. \A m \in posts' : m.action = cur[n] => m.token < held[n]
        <4>1. ASSUME NEW k \in Node, PostResult(k)
              PROVE  \A m \in posts' : m.action = cur[n] => m.token < held[n]
          <5>1. cur[k] \in Action /\ NodeOf[cur[k]] = k /\ agentPc[k] = "post"
            BY <4>1, Zenon DEF PostResult, DeliveryInv, LoopInv, LoopAt, Busy
          <5>2. cur[k] # cur[n]
            BY <2>2, <3>1, <5>1, Zenon
          <5>3. Report(cur[k]).action = cur[k]
            BY Zenon DEF Report
          <5>4. QED BY <3>1, <4>1, <5>2, <5>3, Zenon DEF PostResult, FreshClaim
        <4>2. QED BY <3>1, <4>1, OnlyPostsAddRequests, Zenon DEF FreshClaim
      <3>5. cur'[n] = cur[n] /\ held'[n] = held[n] BY <2>2, Zenon
      <3>6. QED BY <3>2, <3>3, <3>4, <3>5 DEF FreshClaim
    <2>3. QED BY <1>0, <1>5, <2>1, <2>2, OnlyFetchesClaim, Zenon DEF LoopMoves
  <1>6. QED BY <1>2, <1>3, <1>4, <1>5, Zenon DEF SettledInv

\* The invariant is inductive.
LEMMA DeliveryStepPreserves == DeliveryInv /\ [Next]_vars => DeliveryInv'
  <1> SUFFICES ASSUME DeliveryInv, [Next]_vars PROVE DeliveryInv'
    OBVIOUS
  <1>1. CASE Next
    <2>1. QueueInv'
      BY <1>1, StepIsQueueStep, QueueStepPreserves, Zenon DEF DeliveryInv, QueueInv
    <2>2. QED
      BY <1>1, <2>1, TypePreserved, LoopPreserved, JournalPreserved, AnswerPreserved,
         BootPreserved, ClaimPreserved, SettledPreserved, Zenon DEF DeliveryInv
  <1>2. CASE UNCHANGED vars
    <2> USE <1>2 DEF vars, queueVars, agentVars, journalVars, loopVars, nodeVars, netVars, histVars,
                rowVars, leaseVars, haltVars, stopVars
    <2>1. QueueInv'
      BY QueueStepPreserves, Zenon DEF DeliveryInv
    <2>2. DeliveryTypeOK'
      BY Zenon DEF DeliveryInv, DeliveryTypeOK
    <2>3. LoopInv' /\ JournalInv' /\ AnswerInv'
      <3>1. LoopInv'
        BY Zenon DEF DeliveryInv, LoopInv, LoopAt
      <3>2. JournalInv'
        BY Zenon DEF DeliveryInv, JournalInv
      <3>3. AnswerInv'
        BY Zenon DEF DeliveryInv, AnswerInv, Truthful
      <3>4. QED BY <3>1, <3>2, <3>3, Zenon
    <2>4. BootInv' /\ ClaimInv'
      BY Zenon DEF DeliveryInv, BootInv, ResultFromClaimingBoot, ClaimInv, Stopped
    <2>5. SettledInv'
      BY Zenon DEF DeliveryInv, SettledInv, FreshClaim
    <2>6. QED BY <2>1, <2>2, <2>3, <2>4, <2>5, Zenon DEF DeliveryInv
  <1>3. QED BY <1>1, <1>2, Zenon

\* The inductive invariant holds in every reachable state of the delivery path.
THEOREM DeliveryInvariant == Spec => []DeliveryInv
  BY DeliveryInitEstablishes, DeliveryStepPreserves, PTL DEF Spec

\* The composed system is well typed.
THEOREM DeliveryTypeCorrect == Spec => []DeliveryTypeOK
  BY DeliveryInvariant, PTL DEF DeliveryInv

\* The agent's executor is started at most once for an action ID, whatever the queue,
\* the network and the crashes do: the journal's running marker is written first, and
\* compacted only once the row is done and can never be delivered again.
THEOREM DeliveryAtMostOnce == Spec => []AtMostOnce
  <1>1. DeliveryInv => AtMostOnce
    <2> SUFFICES ASSUME DeliveryInv, NEW a \in Action PROVE starts[a] <= 1
      BY Zenon DEF AtMostOnce
    <2>1. starts[a] = 0 \/ starts[a] = 1
      BY Zenon DEF DeliveryInv, JournalInv
    <2>2. QED BY <2>1
  <1>2. QED BY <1>1, DeliveryInvariant, PTL

\* The result the controller records is what the executor did.
THEOREM DeliveryTruthful == Spec => []TruthfulAnswer
  <1>1. DeliveryInv => TruthfulAnswer
    BY Zenon DEF DeliveryInv, AnswerInv, Truthful, TruthfulAnswer
  <1>2. QED BY <1>1, DeliveryInvariant, PTL

\* CompleteClaimedAction's boot comparison: the accepted result comes from the boot
\* that claimed the action.
THEOREM DeliveryBoot == Spec => []ResultFromClaimingBoot
  <1>1. DeliveryInv => ResultFromClaimingBoot
    BY Zenon DEF DeliveryInv, BootInv
  <1>2. QED BY <1>1, DeliveryInvariant, PTL

\* The emergency stop reaches the node: what executes while dispatch is stopped, other
\* than a restore, was claimed before.
THEOREM DeliveryStop == Spec => []ExecutionPredatesStop
  <1>1. DeliveryInv => ExecutionPredatesStop
    <2> SUFFICES ASSUME DeliveryInv, Stopped, NEW n \in Node, agentPc[n] = "execute",
                        cur[n] \notin Restorative
                 PROVE  jToken[cur[n]] <= stopMark
      BY Zenon DEF ExecutionPredatesStop
    <2>1. cur[n] \in Action
      BY Zenon DEF DeliveryInv, LoopInv, LoopAt, Busy
    <2>2. QED BY <2>1, Zenon DEF DeliveryInv, ClaimInv
  <1>2. QED BY <1>1, DeliveryInvariant, PTL

\* A step of the delivery path is a step of ActionOnce, or changes neither the effects
\* nor the answers.
LEMMA StepIsOnceStep ==
    ASSUME DeliveryInv, Next
    PROVE  [Once!OnceNext]_(Once!onceVars)
  <1>0. /\ ran \in [Action -> {"no", "started", "ok", "failed"}]
        /\ posts \subseteq Post /\ QueueTypeOK /\ AnswerInv
    BY Zenon DEF DeliveryInv, DeliveryTypeOK, QueueInv
  <1>1. CASE UNCHANGED <<ran, rowResult>>
    BY <1>1, Zenon DEF Once!onceVars
  <1>2. ASSUME NEW m \in posts, ResultAccepted(m) PROVE Once!OnceNext
    <2>1. m.action \in Action /\ m.result \in Result /\ Truthful(m.action, m.result)
      BY <1>0, Zenon DEF Post, AnswerInv
    <2>2. /\ rowState[m.action] = "leased" /\ UNCHANGED ran
          /\ rowResult' = [rowResult EXCEPT ![m.action] = m.result]
      BY <1>2, Zenon DEF ResultAccepted, CompleteClaimedAction, CompletionMatches
    <2>3. rowResult[m.action] = "none"
      BY <1>0, <2>1, <2>2, Zenon DEF AnswerInv
    <2>4. ran[m.action] # "no" /\ m.result \in {"unknown"} \cup ({ran[m.action]} \ {"started"})
      BY <2>1, Zenon DEF Truthful, Result
    <2>5. Once!Answer(m.action)
      BY <2>2, <2>3, <2>4, Zenon DEF Once!Answer
    <2>6. QED BY <2>1, <2>5, Zenon DEF Once!OnceNext
  <1>3. ASSUME NEW n \in Node, StartExecution(n) PROVE Once!OnceNext
    <2>1. cur[n] \in Action
      BY <1>3, Zenon DEF StartExecution, DeliveryInv, LoopInv, LoopAt, Busy
    <2>2. ran[cur[n]] = "no"
      BY <1>3, <2>1, Zenon DEF StartExecution, DeliveryInv, JournalInv
    <2>3. Once!Start(cur[n])
      BY <1>3, <2>2, Zenon DEF StartExecution, Once!Start, queueVars, rowVars
    <2>4. QED BY <2>1, <2>3, Zenon DEF Once!OnceNext
  <1>4. ASSUME NEW n \in Node, NEW r \in {"ok", "failed"}, ExecutorReturns(n, r)
        PROVE  Once!OnceNext
    <2>1. cur[n] \in Action /\ ran[cur[n]] = "started"
      BY <1>4, Zenon DEF ExecutorReturns, DeliveryInv, LoopInv, LoopAt, Busy
    <2>2. Once!Finish(cur[n])
      BY <1>4, <2>1, Zenon DEF ExecutorReturns, Once!Finish, queueVars, rowVars
    <2>3. QED BY <2>1, <2>2, Zenon DEF Once!OnceNext
  <1>5. CASE DoneRowsKept
    <2>1. JournalStep => \/ UNCHANGED ran
                         \/ \E n \in Node : StartExecution(n)
                         \/ \E n \in Node, r \in {"ok", "failed"} : ExecutorReturns(n, r)
      BY Zenon DEF JournalStep, RecordReceived, SetClaim, InterruptedEntry, RecordOutcome,
         MarkOutcomeUnknown, MarkReported, CompactReported, AgentStarts, histVars
    <2>2. rowResult' = rowResult BY <1>5, Zenon DEF DoneRowsKept
    <2>3. QED BY <1>1, <1>3, <1>4, <2>1, <2>2, OnlyJournalSteps, Zenon
  <1>6. QED BY <1>0, <1>2, <1>5, OnlyResultsFinishRows, Zenon

\* The delivery path (queue, network, agent loop and journal) implements the
\* at-most-once, truthful-answer specification ActionOnce.
THEOREM DeliveryImplementsOnce == Spec => Promise
  <1>1. DeliveryInit => Once!OnceInit
    BY Zenon DEF DeliveryInit, QueueInit, Once!OnceInit
  <1>2. DeliveryInv /\ [Next]_vars => [Once!OnceNext]_(Once!onceVars)
    <2>1. UNCHANGED vars => UNCHANGED Once!onceVars
      BY Zenon DEF vars, queueVars, rowVars, agentVars, histVars, Once!onceVars
    <2>2. QED BY <2>1, StepIsOnceStep, Zenon
  <1>3. QED
    BY <1>1, <1>2, DeliveryInvariant, PTL DEF Spec, Promise, Once!OnceSpec
===========================================================================
