-------------------------- MODULE ActionDelivery --------------------------
(***************************************************************************)
(* The whole path of a node action: the controller step that waits for it  *)
(* (actuator/agentrpc), the durable queue (ActionQueue), the HTTP exchange *)
(* that may lose or delay either direction, the agent's sequential action  *)
(* loop (internal/agent) and its write-ahead journal                       *)
(* (internal/agent/actionjournal).  Agents crash at any step and nodes     *)
(* reboot; the journal and the queue survive, everything else is lost.     *)
(*                                                                         *)
(* A journal write either is durable when the call returns or fails with   *)
(* no effect; JournalFile looks below that abstraction.                    *)
(***************************************************************************)
EXTENDS ActionQueue

CONSTANTS
    NoAction,    \* the agent works on no action
    MaxCrashes   \* bound on the agent crashes of one behaviour

ASSUME DeliveryConstants ==
    /\ NoAction \notin Action
    /\ MaxCrashes \in Nat
    /\ MaxBoot > 0

VARIABLES
    jState,      \* journal entry state, "none" when there is no entry
    jToken,      \* journal entry lease token, 0 when empty
    jResult,     \* journal entry result, "none" when empty
    agentPc,     \* where the agent's action loop is
    cur,         \* the action the loop works on
    held,        \* lease token of a fetched action not yet journaled
    got,         \* executor result not yet journaled
    todo,        \* entries the recovery pass has still to look at
    boot,        \* the node's current boot ID
    header,      \* boot ID the agent process sends, 0 if it could not be read
    crashes,     \* agent crashes so far
    posts,       \* result requests in flight
    stalePolls,  \* polls the agent has given up on but the controller may serve
    starts,      \* history: how often the executor was started for each action
    ran,         \* history: what the executor really did for each action
    doneOn       \* history: the boot that posted the accepted result

journalVars == <<jState, jToken, jResult>>
loopVars == <<agentPc, cur, held, got, todo>>
nodeVars == <<boot, header, crashes>>
netVars == <<posts, stalePolls>>
histVars == <<starts, ran, doneOn>>
agentVars == <<journalVars, loopVars, nodeVars, netVars, histVars>>
vars == <<queueVars, agentVars>>

JState == {"none", "received", "running", "known", "unknown", "reported"}
Pc == {"down", "idle", "recover", "poll", "wait", "fetched", "recorded",
       "process", "execute", "executed", "post", "sent", "acked"}
Post == [action : Action, token : Nat, boot : Boot, on : Boot, result : Result]

DeliveryInit ==
    /\ QueueInit
    /\ jState = [a \in Action |-> "none"]
    /\ jToken = [a \in Action |-> 0]
    /\ jResult = [a \in Action |-> "none"]
    /\ agentPc = [n \in Node |-> "idle"]
    /\ cur = [n \in Node |-> NoAction]
    /\ held = [n \in Node |-> 0]
    /\ got = [n \in Node |-> "none"]
    /\ todo = [n \in Node |-> {}]
    /\ boot = [n \in Node |-> 1]
    /\ header = [n \in Node |-> 1]
    /\ crashes = 0
    /\ posts = {}
    /\ stalePolls = {}
    /\ starts = [a \in Action |-> 0]
    /\ ran = [a \in Action |-> "no"]
    /\ doneOn = [a \in Action |-> 0]

(***************************************************************************)
(* agentrpc.Execute: enqueue idempotently, then poll the row until it says *)
(* something.  The step may give up earlier; the row stays, and a replay   *)
(* with the same ID re-attaches to it.                                     *)
(***************************************************************************)
Execute(a) ==
    /\ EnqueueAction(a)
    /\ UNCHANGED agentVars

ExecuteVerdict(a) ==
    CASE rowState[a] = "cancelled" -> "cancelled before delivery"
      [] rowState[a] = "dead" -> "dead-lettered"
      [] rowState[a] = "done" -> IF rowResult[a] = "ok" THEN "ok" ELSE "failed"
      [] rowState[a] = "absent" -> "error"
      [] OTHER -> "waiting"

(***************************************************************************)
(* The agent's action loop                                                 *)
(***************************************************************************)
\* ListRecoverable: every entry the controller has not acknowledged.
Recoverable(n) ==
    {a \in Action : NodeOf[a] = n /\ jState[a] \notin {"none", "reported"}}

ClaimStillValid(a) == jToken[a] \in live

\* processJournaledAction returns: the recovery pass goes on after a success and
\* ends after a failure, the drain loop polls again or sleeps.
Return(n, ok) ==
    LET recovering == cur[n] \in todo[n] IN
    /\ agentPc' = [agentPc EXCEPT ![n] =
            IF recovering THEN IF ok THEN "recover" ELSE "poll"
                          ELSE IF ok THEN "poll" ELSE "idle"]
    /\ todo' = [todo EXCEPT ![n] = IF ok THEN @ \ {cur[n]} ELSE {}]
    /\ cur' = [cur EXCEPT ![n] = NoAction]
    /\ held' = [held EXCEPT ![n] = 0]
    /\ got' = [got EXCEPT ![n] = "none"]

Goto(n, pc) == agentPc' = [agentPc EXCEPT ![n] = pc]

\* actionLoop's ticker fires: a recovery pass first.
Tick(n) ==
    /\ agentPc[n] = "idle"
    /\ Goto(n, "recover")
    /\ todo' = [todo EXCEPT ![n] = Recoverable(n)]
    /\ UNCHANGED <<queueVars, journalVars, cur, held, got, nodeVars, netVars, histVars>>

\* recoverQueuedActions leaves an entry whose lease has expired untouched.
SkipExpired(n, a) ==
    /\ agentPc[n] = "recover"
    /\ a \in todo[n]
    /\ ~ClaimStillValid(a)
    /\ todo' = [todo EXCEPT ![n] = @ \ {a}]
    /\ UNCHANGED <<queueVars, journalVars, agentPc, cur, held, got>>
    /\ UNCHANGED <<nodeVars, netVars, histVars>>

ResumeEntry(n, a) ==
    /\ agentPc[n] = "recover"
    /\ a \in todo[n]
    /\ ClaimStillValid(a)
    /\ Goto(n, "process")
    /\ cur' = [cur EXCEPT ![n] = a]
    /\ UNCHANGED <<queueVars, journalVars, held, got, todo, nodeVars, netVars, histVars>>

RecoveryEnds(n) ==
    /\ agentPc[n] = "recover"
    /\ todo[n] = {}
    /\ Goto(n, "poll")
    /\ UNCHANGED <<queueVars, journalVars, cur, held, got, todo>>
    /\ UNCHANGED <<nodeVars, netVars, histVars>>

\* fetchAction: the request goes out with the boot ID header.
PollSent(n) ==
    /\ agentPc[n] = "poll"
    /\ Goto(n, "wait")
    /\ UNCHANGED <<queueVars, journalVars, cur, held, got, todo>>
    /\ UNCHANGED <<nodeVars, netVars, histVars>>

PollServed(n, a) ==
    /\ agentPc[n] = "wait"
    /\ NextAction(n, header[n], a)
    /\ Goto(n, "fetched")
    /\ cur' = [cur EXCEPT ![n] = a]
    /\ held' = [held EXCEPT ![n] = lastToken']
    /\ UNCHANGED <<journalVars, got, todo, nodeVars, netVars, histVars>>

PollEmpty(n) ==
    /\ agentPc[n] = "wait"
    /\ NextActionEmpty(n)
    /\ Goto(n, "idle")
    /\ UNCHANGED <<journalVars, cur, held, got, todo, nodeVars, netVars, histVars>>

\* The agent gives up on a poll the controller may still serve.
PollTimesOut(n) ==
    /\ agentPc[n] = "wait"
    /\ Goto(n, "idle")
    /\ stalePolls' = stalePolls \cup {<<n, header[n]>>}
    /\ UNCHANGED <<queueVars, journalVars, cur, held, got, todo>>
    /\ UNCHANGED <<nodeVars, posts, histVars>>

\* ... and when it does, the row is leased to nobody.
StalePollServed(p) ==
    /\ p \in stalePolls
    /\ \/ \E a \in Action : NextAction(p[1], p[2], a)
       \/ NextActionEmpty(p[1])
    /\ stalePolls' = stalePolls \ {p}
    /\ UNCHANGED <<journalVars, loopVars, nodeVars, posts, histVars>>

StalePollLost(p) ==
    /\ p \in stalePolls
    /\ stalePolls' = stalePolls \ {p}
    /\ UNCHANGED <<queueVars, journalVars, loopVars, nodeVars, posts, histVars>>

\* RecordReceived: idempotent for an entry that exists.
RecordReceived(n) ==
    /\ agentPc[n] = "fetched"
    /\ held[n] \in live
    /\ Goto(n, "recorded")
    /\ jState' = [jState EXCEPT ![cur[n]] = IF @ = "none" THEN "received" ELSE @]
    /\ UNCHANGED <<queueVars, jToken, jResult, cur, held, got, todo>>
    /\ UNCHANGED <<nodeVars, netVars, histVars>>

\* SetClaim: refused for a reported entry, replaces any other claim.
SetClaim(n) ==
    /\ agentPc[n] = "recorded"
    /\ jState[cur[n]] # "reported"
    /\ Goto(n, "process")
    /\ jToken' = [jToken EXCEPT ![cur[n]] = held[n]]
    /\ held' = [held EXCEPT ![n] = 0]
    /\ UNCHANGED <<queueVars, jState, jResult, cur, got, todo>>
    /\ UNCHANGED <<nodeVars, netVars, histVars>>

\* The response is lost or its lease already expired, a journal write fails, or
\* SetClaim refuses: runQueuedAction returns false and leaves the lease.
FetchAbandoned(n) ==
    /\ agentPc[n] \in {"fetched", "recorded"}
    /\ Return(n, FALSE)
    /\ UNCHANGED <<queueVars, journalVars, nodeVars, netVars, histVars>>

\* executeQueuedAction: the running marker is durable before the executor starts.
StartExecution(n) ==
    LET a == cur[n] IN
    /\ agentPc[n] = "process"
    /\ ClaimStillValid(a)
    /\ jState[a] = "received"
    /\ Goto(n, "execute")
    /\ jState' = [jState EXCEPT ![a] = "running"]
    /\ starts' = [starts EXCEPT ![a] = @ + 1]
    /\ ran' = [ran EXCEPT ![a] = "started"]
    /\ UNCHANGED <<queueVars, jToken, jResult, cur, held, got, todo>>
    /\ UNCHANGED <<nodeVars, netVars, doneOn>>

\* A running marker met by a live process becomes an unknown outcome.
InterruptedEntry(n) ==
    /\ agentPc[n] = "process"
    /\ ClaimStillValid(cur[n])
    /\ jState[cur[n]] = "running"
    /\ Goto(n, "post")
    /\ jState' = [jState EXCEPT ![cur[n]] = "unknown"]
    /\ UNCHANGED <<queueVars, jToken, jResult, cur, held, got, todo>>
    /\ UNCHANGED <<nodeVars, netVars, histVars>>

\* A durable outcome is reported again, never executed again.
SettledEntry(n) ==
    /\ agentPc[n] = "process"
    /\ ClaimStillValid(cur[n])
    /\ jState[cur[n]] \in {"known", "unknown"}
    /\ Goto(n, "post")
    /\ UNCHANGED <<queueVars, journalVars, cur, held, got, todo>>
    /\ UNCHANGED <<nodeVars, netVars, histVars>>

\* The claim is no longer valid, or the marker could not be written.
ProcessFails(n) ==
    /\ agentPc[n] = "process"
    /\ ~ClaimStillValid(cur[n]) \/ jState[cur[n]] \in {"received", "running"}
    /\ Return(n, FALSE)
    /\ UNCHANGED <<queueVars, journalVars, nodeVars, netVars, histVars>>

\* Executor.Execute returns.  A refusal (not armed, not idle) is a failure too.
ExecutorReturns(n, r) ==
    /\ agentPc[n] = "execute"
    /\ Goto(n, "executed")
    /\ got' = [got EXCEPT ![n] = r]
    /\ ran' = [ran EXCEPT ![cur[n]] = r]
    /\ UNCHANGED <<queueVars, journalVars, cur, held, todo>>
    /\ UNCHANGED <<nodeVars, netVars, starts, doneOn>>

RecordOutcome(n) ==
    /\ agentPc[n] = "executed"
    /\ Goto(n, "post")
    /\ jState' = [jState EXCEPT ![cur[n]] = "known"]
    /\ jResult' = [jResult EXCEPT ![cur[n]] = got[n]]
    /\ got' = [got EXCEPT ![n] = "none"]
    /\ UNCHANGED <<queueVars, jToken, cur, held, todo>>
    /\ UNCHANGED <<nodeVars, netVars, histVars>>

\* RecordOutcome fails and the explicit unknown marker is written instead.
MarkOutcomeUnknown(n) ==
    /\ agentPc[n] = "executed"
    /\ Goto(n, "post")
    /\ jState' = [jState EXCEPT ![cur[n]] = "unknown"]
    /\ got' = [got EXCEPT ![n] = "none"]
    /\ UNCHANGED <<queueVars, jToken, jResult, cur, held, todo>>
    /\ UNCHANGED <<nodeVars, netVars, histVars>>

\* Neither can be written: the running marker stays.
OutcomeUnrecorded(n) ==
    /\ agentPc[n] = "executed"
    /\ Return(n, FALSE)
    /\ UNCHANGED <<queueVars, journalVars, nodeVars, netVars, histVars>>

\* reportJournaledAction posts the durable outcome under the journaled lease.
Report(a) ==
    LET n == NodeOf[a] IN
    [action |-> a, token |-> jToken[a], boot |-> header[n], on |-> boot[n],
     result |-> IF jState[a] = "known" THEN jResult[a] ELSE "unknown"]

PostResult(n) ==
    /\ agentPc[n] = "post"
    /\ Goto(n, "sent")
    /\ posts' = posts \cup {Report(cur[n])}
    /\ UNCHANGED <<queueVars, journalVars, cur, held, got, todo>>
    /\ UNCHANGED <<nodeVars, stalePolls, histVars>>

\* The agent is still waiting for the answer to this very request.
AwaitsAnswer(m) ==
    LET n == NodeOf[m.action] IN
    agentPc[n] = "sent" /\ cur[n] = m.action /\ Report(m.action) = m

ResultAccepted(m) ==
    LET n == NodeOf[m.action] IN
    /\ m \in posts
    /\ CompleteClaimedAction(m.action, n, m.token, m.boot, m.result)
    /\ posts' = posts \ {m}
    /\ doneOn' = [doneOn EXCEPT ![m.action] = m.on]
    /\ IF AwaitsAnswer(m) THEN Goto(n, "acked") ELSE UNCHANGED agentPc
    /\ UNCHANGED <<journalVars, cur, held, got, todo, nodeVars, stalePolls, starts, ran>>

\* 403 or 503: the agent retries on a later tick.
ResultRefused(m) ==
    LET n == NodeOf[m.action] IN
    /\ m \in posts
    /\ ~CompletionMatches(m.action, m.token, m.boot)
    /\ posts' = posts \ {m}
    /\ IF AwaitsAnswer(m) THEN Return(n, FALSE) ELSE UNCHANGED loopVars
    /\ UNCHANGED <<queueVars, journalVars, nodeVars, stalePolls, histVars>>

PostLost(m) ==
    /\ m \in posts
    /\ posts' = posts \ {m}
    /\ UNCHANGED <<queueVars, journalVars, loopVars, nodeVars, stalePolls, histVars>>

\* The request times out, the answer is lost, or MarkReported cannot be written.
ReportFails(n) ==
    /\ agentPc[n] \in {"sent", "acked"}
    /\ Return(n, FALSE)
    /\ UNCHANGED <<queueVars, journalVars, nodeVars, netVars, histVars>>

MarkReported(n) ==
    /\ agentPc[n] = "acked"
    /\ jState' = [jState EXCEPT ![cur[n]] = "reported"]
    /\ jToken' = [jToken EXCEPT ![cur[n]] = 0]
    /\ Return(n, TRUE)
    /\ UNCHANGED <<queueVars, jResult, nodeVars, netVars, histVars>>

\* compactReportedLocked: an append that finds the journal full forgets acknowledged
\* entries; which ones are old enough is any choice.
CompactReported(n, a) ==
    /\ agentPc[n] # "down"
    /\ NodeOf[a] = n
    /\ jState[a] = "reported"
    /\ jState' = [jState EXCEPT ![a] = "none"]
    /\ jResult' = [jResult EXCEPT ![a] = "none"]
    /\ UNCHANGED <<queueVars, jToken, loopVars, nodeVars, netVars, histVars>>

(***************************************************************************)
(* Crashes                                                                 *)
(***************************************************************************)
LoseProcess(n) ==
    /\ agentPc' = [agentPc EXCEPT ![n] = "down"]
    /\ cur' = [cur EXCEPT ![n] = NoAction]
    /\ held' = [held EXCEPT ![n] = 0]
    /\ got' = [got EXCEPT ![n] = "none"]
    /\ todo' = [todo EXCEPT ![n] = {}]

AgentCrashes(n) ==
    /\ agentPc[n] # "down"
    /\ crashes < MaxCrashes
    /\ crashes' = crashes + 1
    /\ LoseProcess(n)
    /\ UNCHANGED <<queueVars, journalVars, boot, header, netVars, histVars>>

NodeReboots(n) ==
    /\ boot[n] < MaxBoot
    /\ boot' = [boot EXCEPT ![n] = @ + 1]
    /\ LoseProcess(n)
    /\ UNCHANGED <<queueVars, journalVars, header, crashes, netVars, histVars>>

\* Variant: an interrupted action is queued for another run at start-up.
AgentStartsAndReruns(n, h) ==
    LET interrupted == {a \in Action : NodeOf[a] = n /\ jState[a] = "running"} IN
    /\ agentPc[n] = "down"
    /\ Goto(n, "recover")
    /\ h \in {0, boot[n]}
    /\ header' = [header EXCEPT ![n] = h]
    /\ jState' = [a \in Action |-> IF a \in interrupted THEN "received" ELSE jState[a]]
    /\ todo' = [todo EXCEPT ![n] = Recoverable(n)]
    /\ UNCHANGED <<queueVars, jToken, jResult, cur, held, got, boot, crashes>>
    /\ UNCHANGED <<netVars, histVars>>

\* actionjournal.Open turns every running marker into an unknown outcome, then the
\* loop starts with a recovery pass.
AgentStarts(n, h) ==
    LET interrupted == {a \in Action : NodeOf[a] = n /\ jState[a] = "running"} IN
    /\ agentPc[n] = "down"
    /\ Goto(n, "recover")
    /\ h \in {0, boot[n]}
    /\ header' = [header EXCEPT ![n] = h]
    /\ jState' = [a \in Action |-> IF a \in interrupted THEN "unknown" ELSE jState[a]]
    /\ todo' = [todo EXCEPT ![n] = Recoverable(n)]
    /\ UNCHANGED <<queueVars, jToken, jResult, cur, held, got, boot, crashes>>
    /\ UNCHANGED <<netVars, histVars>>

(***************************************************************************)
(* The composed system                                                     *)
(***************************************************************************)
LoopNext(n) ==
    \/ Tick(n) \/ RecoveryEnds(n) \/ PollSent(n) \/ PollEmpty(n) \/ PollTimesOut(n)
    \/ RecordReceived(n) \/ SetClaim(n) \/ FetchAbandoned(n)
    \/ StartExecution(n) \/ InterruptedEntry(n) \/ SettledEntry(n) \/ ProcessFails(n)
    \/ RecordOutcome(n) \/ MarkOutcomeUnknown(n) \/ OutcomeUnrecorded(n)
    \/ PostResult(n) \/ ReportFails(n) \/ MarkReported(n)
    \/ \E a \in Action : SkipExpired(n, a) \/ ResumeEntry(n, a) \/ PollServed(n, a)
    \/ \E a \in Action : CompactReported(n, a)
    \/ \E r \in {"ok", "failed"} : ExecutorReturns(n, r)

NetNext ==
    \/ \E p \in stalePolls : StalePollServed(p) \/ StalePollLost(p)
    \/ \E m \in posts : ResultAccepted(m) \/ ResultRefused(m) \/ PostLost(m)

CrashNext(n) ==
    \/ AgentCrashes(n) \/ NodeReboots(n)
    \/ \E h \in Boot : AgentStarts(n, h)

\* Incidents and operators around the queue.
ControlNext ==
    /\ \/ \E i \in Incident : CancelPendingActionsForIncident(i) \/ IncidentHalts(i)
       \/ \E a \in Action : CancelPendingAction(a)
       \/ \E t \in live : LeaseExpires(t)
    /\ UNCHANGED <<agentVars>>

\* The emergency stop and controller restarts.
EmergencyNext ==
    /\ StopNext \/ \E d \in BOOLEAN : ControllerRestarts(d)
    /\ UNCHANGED agentVars

CalmNext ==
    \/ \E a \in Action : Execute(a)
    \/ \E n \in Node : LoopNext(n) \/ CrashNext(n)
    \/ NetNext
    \/ ControlNext

Next == CalmNext \/ EmergencyNext

Spec == DeliveryInit /\ [][Next]_vars

\* The same system with no emergency stop and no controller restart.
CalmSpec == DeliveryInit /\ [][CalmNext]_vars

\* A poll reaches the controller and its answer reaches the agent.
PollAnswered(n) == PollEmpty(n) \/ \E a \in Action : PollServed(n, a)

\* The agent's goroutine keeps running and is restarted when it dies, time passes,
\* and a poll that is sent again and again is answered in the end.
Fairness ==
    /\ \A n \in Node : /\ WF_vars(LoopNext(n))
                       /\ WF_vars(\E h \in Boot : AgentStarts(n, h))
                       /\ SF_vars(PollAnswered(n))
    /\ \A t \in 1 .. MaxToken : WF_vars(LeaseExpires(t) /\ UNCHANGED agentVars)

(***************************************************************************)
(* Properties                                                              *)
(***************************************************************************)
\* Every variable has its type.
DeliveryTypeOK ==
    /\ jState \in [Action -> JState]
    /\ jToken \in [Action -> 0 .. lastToken]
    /\ jResult \in [Action -> {"none", "ok", "failed"}]
    /\ agentPc \in [Node -> Pc]
    /\ cur \in [Node -> Action \cup {NoAction}]
    /\ held \in [Node -> 0 .. lastToken]
    /\ got \in [Node -> {"none", "ok", "failed"}]
    /\ todo \in [Node -> SUBSET Action]
    /\ boot \in [Node -> 1 .. MaxBoot]
    /\ header \in [Node -> Boot]
    /\ crashes \in 0 .. MaxCrashes
    /\ posts \in SUBSET Post
    /\ stalePolls \in SUBSET (Node \X Boot)
    /\ starts \in [Action -> Nat]
    /\ ran \in [Action -> {"no", "started", "ok", "failed"}]
    /\ doneOn \in [Action -> Boot]

\* The journal's purpose: whatever is lost, delayed, reclaimed or restarted, the
\* executor is started at most once for an action ID.
AtMostOnce == \A a \in Action : starts[a] <= 1

\* The recorded result is the truth: ok and failed are what the executor did, and
\* an unknown outcome is reported only for an action that was started.
TruthfulAnswer ==
    \A a \in Action : rowState[a] = "done" =>
        /\ rowResult[a] \in {"ok", "failed"} => ran[a] = rowResult[a]
        /\ rowResult[a] = "unknown" => ran[a] # "no"

\* The boot guard: a result is accepted only from the node boot that claimed the
\* action, also when the request was delayed across a reboot.
ResultFromClaimingBoot ==
    \A a \in Action :
        rowState[a] = "done" /\ rowBoot[a] # 0 => doneOn[a] = rowBoot[a]

\* The emergency stop reaches the node: while dispatch is stopped, an executing
\* action other than a host restore runs under a lease granted before the stop.
ExecutionPredatesStop ==
    Stopped => \A n \in Node :
        agentPc[n] = "execute" /\ cur[n] \notin Restorative => jToken[cur[n]] <= stopMark

\* agentrpc.Execute's comment on a cancelled row: no agent claimed the entry and
\* the step fails without executing; so no such action has taken effect.
CancelledNeverRan ==
    \A a \in Action : ExecuteVerdict(a) = "cancelled before delivery" => ran[a] # "ok"

\* No action hangs: a queued action is completed, cancelled or dead-lettered in the
\* end, though results are lost, leases expire and agents crash, unless its
\* incident halts (its row is then left for the audit retention).
EveryActionSettles ==
    Fairness =>
    \A a \in Action :
        rowState[a] = "pending" ~>
            rowState[a] \in Terminal \/ IncidentOf[a] \in halted

\* The delivery path implements the at-most-once promise.
Once == INSTANCE ActionOnce WITH effect <- ran, answer <- rowResult
Promise == Once!OnceSpec
=============================================================================
