------------------------ MODULE ActionQueue_proofs ------------------------
(***************************************************************************)
(* The action queue's invariants, for any number of nodes, actions,        *)
(* incidents, attempts and tokens.                                         *)
(*                                                                         *)
(* OneLeasePerNode, StopHolds and HaltHolds are not inductive alone: each  *)
(* needs to know that a fresh token is larger than every token in use,     *)
(* which the type invariant says, and that only leased rows hold one.      *)
(***************************************************************************)
EXTENDS ActionQueue, TLAPS

\* A row holds a lease token exactly while it is leased.
TokensAreLeases == \A a \in Action : rowState[a] = "leased" <=> rowToken[a] # 0

QueueInv ==
    /\ QueueTypeOK
    /\ TokensAreLeases
    /\ TokenNamesOneRow
    /\ OneLeasePerNode
    /\ StopHolds
    /\ HaltHolds

\* The initial states satisfy the invariant.
LEMMA InitEstablishes == QueueInit => QueueInv
  <1> SUFFICES ASSUME QueueInit PROVE QueueInv
    OBVIOUS
  <1>0. paused \in BOOLEAN /\ dryRun \in BOOLEAN
    BY Zenon DEF QueueInit
  <1>1. QueueTypeOK
    BY <1>0, QueueConstants DEF QueueInit, QueueTypeOK, RowState, Boot, Stopper
  <1>2. TokensAreLeases /\ TokenNamesOneRow /\ OneLeasePerNode /\ StopHolds /\ HaltHolds
    BY DEF QueueInit, TokensAreLeases, TokenNamesOneRow, OneLeasePerNode, StopHolds,
       HaltHolds, Live, Stopped
  <1>3. QED BY <1>1, <1>2 DEF QueueInv

\* What every tombstoning UPDATE preserves, whatever set of unterminated rows it hits.
LEMMA CancelPreserves ==
    ASSUME QueueInv, NEW S \in SUBSET Action, Cancel(S),
           UNCHANGED <<leaseVars, haltVars, duringStop>>,
           paused' = paused, dryRun' = dryRun, stopMark' = stopMark,
           stopper' \in Stopper
    PROVE  QueueInv'
  <1> USE DEF Cancel, leaseVars, haltVars
  <1>1. QueueTypeOK'
    BY DEF QueueInv, QueueTypeOK, RowState
  <1>2. TokensAreLeases' /\ TokenNamesOneRow'
    BY DEF QueueInv, QueueTypeOK, TokensAreLeases, TokenNamesOneRow
  <1>3. OneLeasePerNode' /\ StopHolds' /\ HaltHolds'
    BY QueueConstants DEF QueueInv, QueueTypeOK, TokensAreLeases, OneLeasePerNode,
       StopHolds, HaltHolds, Live, Stopped
  <1>4. QED BY <1>1, <1>2, <1>3 DEF QueueInv

\* The part of the invariant that only rows and leases can disturb, when neither the
\* mode nor the incidents change.
LEMMA RowStepPreserves ==
    ASSUME QueueInv, UNCHANGED <<haltVars, stopVars>>,
           QueueTypeOK', TokensAreLeases', TokenNamesOneRow', OneLeasePerNode',
           \A a \in Action : rowToken'[a] # 0 =>
               \/ rowToken'[a] = rowToken[a] /\ (rowToken[a] \in live' => rowToken[a] \in live)
               \/ (Stopped => a \in Restorative) /\ IncidentOf[a] \notin halted
    PROVE  QueueInv'
  <1>1. StopHolds'
    <2> SUFFICES ASSUME Stopped', NEW a \in Action \ Restorative, Live(a)'
                 PROVE  rowToken'[a] <= stopMark'
      BY DEF StopHolds
    <2>1. rowToken'[a] # 0 BY DEF Live, TokensAreLeases
    <2>2. Stopped BY DEF Stopped, stopVars
    <2>3. rowToken'[a] = rowToken[a] /\ rowToken[a] \in live
      BY <2>1, <2>2 DEF Live
    <2>4. Live(a)
      BY <2>1, <2>3 DEF Live, QueueInv, TokensAreLeases
    <2>5. QED BY <2>2, <2>3, <2>4 DEF QueueInv, StopHolds, stopVars
  <1>2. HaltHolds'
    <2> SUFFICES ASSUME NEW a \in Action, IncidentOf[a] \in halted'
                 PROVE  rowToken'[a] <= haltMark'[IncidentOf[a]]
      BY DEF HaltHolds
    <2>1. IncidentOf[a] \in halted /\ haltMark' = haltMark
      BY DEF haltVars
    <2>2. haltMark[IncidentOf[a]] \in Nat
      BY <2>1 DEF QueueInv, QueueTypeOK
    <2>3. CASE rowToken'[a] = 0
      BY <2>1, <2>2, <2>3
    <2>4. CASE rowToken'[a] # 0
      BY <2>1, <2>4 DEF QueueInv, HaltHolds
    <2>5. QED BY <2>3, <2>4
  <1>3. QED BY <1>1, <1>2 DEF QueueInv

\* EnqueueAction adds a pending row and leases nothing.
LEMMA EnqueuePreserves ==
    ASSUME QueueInv, NEW a \in Action, EnqueueAction(a)
    PROVE  QueueInv'
  <1> USE DEF EnqueueAction, leaseVars
  <1>1. QueueTypeOK'
    BY DEF QueueInv, QueueTypeOK, RowState, haltVars, stopVars
  <1>2. TokensAreLeases' /\ TokenNamesOneRow'
    BY DEF QueueInv, QueueTypeOK, TokensAreLeases, TokenNamesOneRow
  <1>3. OneLeasePerNode'
    BY DEF QueueInv, QueueTypeOK, OneLeasePerNode, Live
  <1>4. QED BY <1>1, <1>2, <1>3, RowStepPreserves

\* A claim on a node that has no live lease adds exactly one, under a token no row
\* and no live lease has.
LEMMA ClaimRowPreserves ==
    ASSUME QueueInv, NEW n \in Node, NEW b \in Boot, NEW a \in Action,
           ClaimRow(n, b, Stopped, a)
    PROVE  QueueInv'
  <1> DEFINE dead == DeadLetters(n, Stopped)
  <1>1. /\ InScope(a, n, Stopped)
        /\ rowAttempts[a] < MaxActionAttempts
        /\ \A h \in Action : NodeOf[h] = n => ~Live(h)
        /\ IncidentOf[a] \notin halted
    BY DEF ClaimRow, Oldest, Candidates
  <1>2. dead \subseteq Action
    BY DEF DeadLetters
  <1>3. /\ lastToken < MaxToken /\ lastToken' = lastToken + 1
        /\ live' = live \cup {lastToken + 1}
        /\ rowState' = [x \in Action |->
             IF x = a THEN "leased" ELSE IF x \in dead THEN "dead" ELSE rowState[x]]
        /\ rowToken' = [x \in Action |->
             IF x = a THEN lastToken + 1 ELSE IF x \in dead THEN 0 ELSE rowToken[x]]
        /\ rowBoot' = [rowBoot EXCEPT ![a] = b]
        /\ rowAttempts' = [rowAttempts EXCEPT ![a] = @ + 1]
        /\ UNCHANGED <<rowResult, older, haltVars, stopVars, duringStop>>
    BY DEF ClaimRow
  <1> HIDE DEF dead
  <1>4. /\ lastToken \in Nat /\ live \subseteq 1 .. lastToken
        /\ \A x \in Action : rowToken[x] \in 0 .. lastToken
    BY QueueConstants DEF QueueInv, QueueTypeOK
  <1>5. QueueTypeOK'
    <2>1. /\ rowState' \in [Action -> RowState]
          /\ rowToken' \in [Action -> 0 .. lastToken']
      BY <1>3, <1>4 DEF QueueInv, QueueTypeOK, RowState
    <2>2. rowBoot' \in [Action -> Boot]
      BY <1>3 DEF QueueInv, QueueTypeOK
    <2>3. rowAttempts' \in [Action -> 0 .. MaxActionAttempts]
      BY <1>1, <1>3, QueueConstants DEF QueueInv, QueueTypeOK
    <2>4. lastToken' \in 0 .. MaxToken /\ live' \in SUBSET (1 .. lastToken')
      <3>1. lastToken' \in 0 .. MaxToken BY <1>3, <1>4, QueueConstants
      <3>2. \A t \in live' : t \in 1 .. lastToken' BY <1>3, <1>4
      <3>3. QED BY <3>1, <3>2
    <2>5. stopMark' \in 0 .. lastToken' /\ haltMark' \in [Incident -> 0 .. lastToken']
      BY <1>3, <1>4 DEF QueueInv, QueueTypeOK, stopVars, haltVars
    <2>6. QED
      BY <1>3, <2>1, <2>2, <2>3, <2>4, <2>5 DEF QueueInv, QueueTypeOK, stopVars, haltVars
  <1>6. TokensAreLeases'
    BY <1>3, <1>4 DEF QueueInv, TokensAreLeases
  <1>7. TokenNamesOneRow'
    BY <1>3, <1>4 DEF QueueInv, TokenNamesOneRow
  <1>8. OneLeasePerNode'
    <2>1. \A x \in Action : x # a /\ Live(x)' => Live(x)
      BY <1>3, <1>4 DEF Live
    <2>2. NodeOf[a] = n
      BY <1>1 DEF InScope
    <2>3. QED BY <1>1, <2>1, <2>2 DEF QueueInv, OneLeasePerNode
  <1>9. \A x \in Action : rowToken'[x] # 0 =>
            \/ rowToken'[x] = rowToken[x] /\ (rowToken[x] \in live' => rowToken[x] \in live)
            \/ (Stopped => x \in Restorative) /\ IncidentOf[x] \notin halted
    BY <1>1, <1>3, <1>4 DEF InScope
  <1>10. QED
    BY <1>3, <1>5, <1>6, <1>7, <1>8, <1>9, RowStepPreserves

\* A poll that finds nothing still dead-letters, and nothing more.
LEMMA ClaimNothingPreserves ==
    ASSUME QueueInv, NEW n \in Node, ClaimNothing(n, Stopped)
    PROVE  QueueInv'
  <1> DEFINE dead == DeadLetters(n, Stopped)
  <1>1. /\ rowState' = [x \in Action |-> IF x \in dead THEN "dead" ELSE rowState[x]]
        /\ rowToken' = [x \in Action |-> IF x \in dead THEN 0 ELSE rowToken[x]]
        /\ UNCHANGED <<rowBoot, rowAttempts, rowResult, older>>
        /\ UNCHANGED <<leaseVars, haltVars, stopVars, duringStop>>
    BY DEF ClaimNothing
  <1> HIDE DEF dead
  <1>2. QueueTypeOK'
    BY <1>1 DEF QueueInv, QueueTypeOK, RowState, leaseVars, haltVars, stopVars
  <1>3. TokensAreLeases' /\ TokenNamesOneRow'
    BY <1>1 DEF QueueInv, QueueTypeOK, TokensAreLeases, TokenNamesOneRow
  <1>4. OneLeasePerNode'
    BY <1>1 DEF QueueInv, OneLeasePerNode, Live, leaseVars
  <1>5. QED BY <1>1, <1>2, <1>3, <1>4, RowStepPreserves DEF leaseVars

\* CompleteClaimedAction ends a lease and grants none.
LEMMA CompletePreserves ==
    ASSUME QueueInv, NEW a \in Action, NEW n, NEW t, NEW b, NEW r \in Result,
           CompleteClaimedAction(a, n, t, b, r)
    PROVE  QueueInv'
  <1> USE DEF CompleteClaimedAction, leaseVars
  <1>1. QueueTypeOK'
    BY DEF QueueInv, QueueTypeOK, RowState, haltVars, stopVars
  <1>2. TokensAreLeases' /\ TokenNamesOneRow'
    BY DEF QueueInv, QueueTypeOK, TokensAreLeases, TokenNamesOneRow
  <1>3. OneLeasePerNode'
    BY DEF QueueInv, QueueTypeOK, OneLeasePerNode, Live
  <1>4. QED BY <1>1, <1>2, <1>3, RowStepPreserves DEF QueueInv, QueueTypeOK

\* DiscardCompletedAction removes a finished row.
LEMMA DiscardPreserves ==
    ASSUME QueueInv, NEW a \in Action, DiscardCompletedAction(a)
    PROVE  QueueInv'
  <1> USE DEF DiscardCompletedAction, leaseVars
  <1>1. QueueTypeOK'
    BY QueueConstants DEF QueueInv, QueueTypeOK, RowState, Boot, haltVars, stopVars
  <1>2. TokensAreLeases' /\ TokenNamesOneRow'
    BY DEF QueueInv, QueueTypeOK, TokensAreLeases, TokenNamesOneRow
  <1>3. OneLeasePerNode'
    BY DEF QueueInv, QueueTypeOK, OneLeasePerNode, Live
  <1>4. QED BY <1>1, <1>2, <1>3, RowStepPreserves DEF QueueInv, QueueTypeOK

\* A halting incident is marked with the leases granted so far.
LEMMA HaltPreserves ==
    ASSUME QueueInv, NEW i \in Incident, IncidentHalts(i)
    PROVE  QueueInv'
  <1> USE DEF IncidentHalts, rowVars, leaseVars, stopVars
  <1>1. QueueTypeOK'
    BY DEF QueueInv, QueueTypeOK
  <1>2. HaltHolds'
    BY DEF QueueInv, QueueTypeOK, HaltHolds
  <1>3. QED
    BY <1>1, <1>2 DEF QueueInv, TokensAreLeases, TokenNamesOneRow, OneLeasePerNode,
       StopHolds, Live, Stopped

\* An expiring lease can only end conflicts.
LEMMA ExpiryPreserves ==
    ASSUME QueueInv, NEW t, LeaseExpires(t)
    PROVE  QueueInv'
  <1> USE DEF LeaseExpires, rowVars
  <1>1. QueueTypeOK'
    BY DEF QueueInv, QueueTypeOK, haltVars, stopVars
  <1>2. TokensAreLeases' /\ TokenNamesOneRow' /\ OneLeasePerNode'
    BY DEF QueueInv, TokensAreLeases, TokenNamesOneRow, OneLeasePerNode, Live
  <1>3. QED BY <1>1, <1>2, RowStepPreserves

\* A step of the emergency stop that touches no row: dispatch may become stopped
\* only under a mark that covers every lease granted so far.
LEMMA ModeStepPreserves ==
    ASSUME QueueInv, UNCHANGED <<rowVars, leaseVars, haltVars, duringStop>>,
           paused' \in BOOLEAN, dryRun' \in BOOLEAN, stopper' \in Stopper,
           \/ stopMark' = lastToken
           \/ stopMark' = stopMark /\ (Stopped' => Stopped)
    PROVE  QueueInv'
  <1> USE DEF rowVars, leaseVars, haltVars
  <1>1. QueueTypeOK'
    <2>1. stopMark' \in 0 .. lastToken'
      BY DEF QueueInv, QueueTypeOK
    <2>2. QED BY <2>1 DEF QueueInv, QueueTypeOK
  <1>2. TokensAreLeases' /\ TokenNamesOneRow' /\ OneLeasePerNode' /\ HaltHolds'
    BY DEF QueueInv, TokensAreLeases, TokenNamesOneRow, OneLeasePerNode, HaltHolds, Live
  <1>3. StopHolds'
    BY DEF QueueInv, QueueTypeOK, StopHolds, Live
  <1>4. QED BY <1>1, <1>2, <1>3 DEF QueueInv

\* The steps of pause, resume, DryRun and reload.
LEMMA StopPreserves ==
    ASSUME QueueInv, StopNext
    PROVE  QueueInv'
  <1> DEFINE undelivered == {a \in Action \ Restorative : Reclaimable(a)}
  <1>0. paused \in BOOLEAN /\ dryRun \in BOOLEAN /\ stopper \in Stopper
    BY DEF QueueInv, QueueTypeOK
  <1>1. CASE PauseBegins
    <2>1. paused' \in BOOLEAN
      BY <1>1 DEF PauseBegins
    <2>2. stopper' \in Stopper /\ dryRun' \in BOOLEAN
      BY <1>0, <1>1 DEF PauseBegins, Stopper
    <2>3. stopMark' = lastToken \/ (stopMark' = stopMark /\ Stopped)
      BY <1>1 DEF PauseBegins, MarkStop
    <2>4. QED BY <1>1, <2>1, <2>2, <2>3, ModeStepPreserves DEF PauseBegins
  <1>2. CASE ResumeBegins
    <2>1. Cancel(undelivered) /\ stopper' \in Stopper
      BY <1>2 DEF ResumeBegins, CancelPendingActionsForSafetyStop, Stopper
    <2>2. QED BY <1>2, <2>1, CancelPreserves DEF ResumeBegins
  <1>3. CASE ResumeEnds
    <2>1. paused' \in BOOLEAN /\ dryRun' \in BOOLEAN /\ (Stopped' => Stopped)
      BY <1>0, <1>3, Zenon DEF ResumeEnds, Stopped
    <2>2. stopper' \in Stopper BY <1>3 DEF ResumeEnds, Stopper
    <2>3. QED BY <1>3, <2>1, <2>2, ModeStepPreserves DEF ResumeEnds
  <1>4. CASE DryRunEntered
    <2>1. dryRun' \in BOOLEAN
      BY <1>4 DEF DryRunEntered
    <2>2. stopper' \in Stopper /\ paused' \in BOOLEAN
      BY <1>0, <1>4 DEF DryRunEntered, Stopper
    <2>3. stopMark' = lastToken \/ (stopMark' = stopMark /\ Stopped)
      BY <1>4 DEF DryRunEntered, MarkStop
    <2>4. QED BY <1>4, <2>1, <2>2, <2>3, ModeStepPreserves DEF DryRunEntered
  <1>5. CASE DryRunLeaving
    <2>1. Cancel(undelivered) /\ stopper' \in Stopper
      BY <1>5 DEF DryRunLeaving, CancelPendingActionsForSafetyStop, Stopper
    <2>2. QED BY <1>5, <2>1, CancelPreserves DEF DryRunLeaving
  <1>6. CASE DryRunLeft
    <2>1. dryRun' \in BOOLEAN /\ paused' \in BOOLEAN /\ (Stopped' => Stopped)
      BY <1>0, <1>6, Zenon DEF DryRunLeft, Stopped
    <2>2. stopper' \in Stopper BY <1>6 DEF DryRunLeft, Stopper
    <2>3. QED BY <1>6, <2>1, <2>2, ModeStepPreserves DEF DryRunLeft
  <1>7. CASE ReloadWhilePaused \/ StopFails
    <2>1. stopper' \in Stopper /\ (Stopped' => Stopped)
      BY <1>7 DEF ReloadWhilePaused, StopFails, Stopper, Stopped
    <2>2. QED BY <1>0, <1>7, <2>1, ModeStepPreserves DEF ReloadWhilePaused, StopFails
  <1>8. CASE StopCancels
    <2>1. Cancel(undelivered) /\ stopper' \in Stopper
      BY <1>8 DEF StopCancels, CancelPendingActionsForSafetyStop, Stopper
    <2>2. QED BY <1>8, <2>1, CancelPreserves DEF StopCancels
  <1>9. QED
    BY <1>1, <1>2, <1>3, <1>4, <1>5, <1>6, <1>7, <1>8 DEF StopNext

\* A restart with any mounted configuration.
LEMMA RestartPreserves ==
    ASSUME QueueInv, NEW d \in BOOLEAN, ControllerRestarts(d)
    PROVE  QueueInv'
  <1>1. paused' \in BOOLEAN /\ dryRun' \in BOOLEAN
    BY DEF ControllerRestarts, QueueInv, QueueTypeOK
  <1>2. stopper' \in Stopper
    BY DEF ControllerRestarts, Stopper
  <1>3. stopMark' = lastToken \/ (stopMark' = stopMark /\ Stopped)
    BY DEF ControllerRestarts, MarkStop
  <1>4. QED BY <1>1, <1>2, <1>3, ModeStepPreserves DEF ControllerRestarts

\* Every step of the queue preserves the invariant; composed systems cite this for
\* the queue's part of their steps.
LEMMA QueueStepPreserves == QueueInv /\ [QueueNext]_queueVars => QueueInv'
  <1> SUFFICES ASSUME QueueInv, [QueueNext]_queueVars PROVE QueueInv'
    OBVIOUS
  <1>0. stopVars' = stopVars => stopper' \in Stopper
    BY DEF QueueInv, QueueTypeOK, stopVars
  <1>1. CASE \E a \in Action : EnqueueAction(a)
    BY <1>1, EnqueuePreserves
  <1>2. CASE \E n \in Node, b \in Boot, a \in Action : NextAction(n, b, a)
    BY <1>2, ClaimRowPreserves DEF NextAction
  <1>3. CASE \E n \in Node : NextActionEmpty(n)
    BY <1>3, ClaimNothingPreserves DEF NextActionEmpty
  <1>4. CASE \E a \in Action, n \in Node, t \in live, b \in Boot, r \in Result :
                CompleteClaimedAction(a, n, t, b, r)
    BY <1>4, CompletePreserves
  <1>5. CASE \E i \in Incident : CancelPendingActionsForIncident(i)
    <2> PICK i \in Incident : CancelPendingActionsForIncident(i)
      BY <1>5
    <2> DEFINE S == {a \in Action : IncidentOf[a] = i /\ Reclaimable(a)}
    <2>1. Cancel(S) /\ UNCHANGED <<leaseVars, haltVars, stopVars, duringStop>>
      BY DEF CancelPendingActionsForIncident
    <2>2. QED BY <1>0, <2>1, CancelPreserves DEF stopVars
  <1>6. CASE \E a \in Action : CancelPendingAction(a)
    BY <1>0, <1>6, CancelPreserves DEF CancelPendingAction, stopVars
  <1>7. CASE \E a \in Action : DiscardCompletedAction(a)
    BY <1>7, DiscardPreserves
  <1>8. CASE \E i \in Incident : IncidentHalts(i)
    BY <1>8, HaltPreserves
  <1>9. CASE \E t \in live : LeaseExpires(t)
    BY <1>9, ExpiryPreserves
  <1>10. CASE StopNext
    BY <1>10, StopPreserves
  <1>11. CASE \E d \in BOOLEAN : ControllerRestarts(d)
    BY <1>11, RestartPreserves
  <1>12. CASE UNCHANGED queueVars
    BY <1>12 DEF queueVars, rowVars, leaseVars, haltVars, stopVars, QueueInv, QueueTypeOK,
       TokensAreLeases, TokenNamesOneRow, OneLeasePerNode, StopHolds, HaltHolds, Live, Stopped
  <1>13. QED
    BY <1>1, <1>2, <1>3, <1>4, <1>5, <1>6, <1>7, <1>8, <1>9, <1>10, <1>11, <1>12
       DEF QueueNext, RowNext

\* The inductive invariant holds in every reachable state of the queue.
THEOREM QueueInvariant == QueueSpec => []QueueInv
  BY InitEstablishes, QueueStepPreserves, PTL DEF QueueSpec

\* The queue is well typed: in particular no row is ever issued more than
\* MaxActionAttempts claims.
THEOREM QueueTypeCorrect == QueueSpec => []QueueTypeOK
  BY QueueInvariant, PTL DEF QueueInv

\* claimNextAction never leaves two live leases on one node.
THEOREM QueueOneLease == QueueSpec => []OneLeasePerNode
  BY QueueInvariant, PTL DEF QueueInv

\* While the pause or DryRun is in force, only host restores are newly leased: also
\* between the store calls of SetPaused and of InstallRuntimeConfigContext, when one
\* of them fails, and across restarts.
THEOREM QueueStopHolds == QueueSpec => []StopHolds
  BY QueueInvariant, PTL DEF QueueInv

\* No action of a resolved, expired or handed-over incident is newly leased.
THEOREM QueueHaltHolds == QueueSpec => []HaltHolds
  BY QueueInvariant, PTL DEF QueueInv

\* A finished row keeps its state and its result until it is deleted.
THEOREM QueueTerminalIsFinal == QueueSpec => TerminalIsFinal
  <1> DEFINE Final == \A a \in Action : rowState[a] \in Terminal =>
                \/ rowState'[a] = rowState[a] /\ rowResult'[a] = rowResult[a]
                \/ rowState'[a] = "absent"
  <1>1. ASSUME QueueTypeOK, QueueNext PROVE Final
    <2> SUFFICES ASSUME NEW x \in Action, rowState[x] \in Terminal
                 PROVE  \/ rowState'[x] = rowState[x] /\ rowResult'[x] = rowResult[x]
                        \/ rowState'[x] = "absent"
      OBVIOUS
    <2>0. ~Reclaimable(x)
      BY DEF Reclaimable, Terminal
    <2>1. CASE \E a \in Action : EnqueueAction(a)
      BY <1>1, <2>1 DEF EnqueueAction, Terminal, QueueTypeOK
    <2>2. CASE \E n \in Node, b \in Boot, a \in Action : NextAction(n, b, a)
      BY <2>0, <2>2 DEF NextAction, ClaimRow, Oldest, Candidates, DeadLetters
    <2>3. CASE \E n \in Node : NextActionEmpty(n)
      BY <2>0, <2>3 DEF NextActionEmpty, ClaimNothing, DeadLetters
    <2>4. CASE \E a \in Action, n \in Node, t \in live, b \in Boot, r \in Result :
                  CompleteClaimedAction(a, n, t, b, r)
      BY <1>1, <2>4 DEF CompleteClaimedAction, CompletionMatches, Terminal, QueueTypeOK
    <2>5. ASSUME NEW S \in SUBSET Action, \A a \in S : Reclaimable(a), Cancel(S)
          PROVE  rowState'[x] = rowState[x] /\ rowResult'[x] = rowResult[x]
      BY <2>0, <2>5 DEF Cancel
    <2>6. CASE \E i \in Incident : CancelPendingActionsForIncident(i)
      BY <2>5, <2>6 DEF CancelPendingActionsForIncident
    <2>7. CASE \E a \in Action : CancelPendingAction(a)
      BY <2>5, <2>7 DEF CancelPendingAction, Reclaimable
    <2>8. CASE CancelPendingActionsForSafetyStop
      BY <2>5, <2>8 DEF CancelPendingActionsForSafetyStop
    <2>9. CASE \E a \in Action : DiscardCompletedAction(a)
      BY <1>1, <2>9 DEF DiscardCompletedAction, QueueTypeOK
    <2>10. CASE UNCHANGED rowVars
      BY <2>10 DEF rowVars
    <2>11. QueueNext => \/ RowNext \/ CancelPendingActionsForSafetyStop \/ UNCHANGED rowVars
      BY DEF QueueNext, StopNext, IncidentHalts, LeaseExpires, ControllerRestarts, PauseBegins,
         ResumeBegins, ResumeEnds, DryRunEntered, DryRunLeaving, DryRunLeft,
         ReloadWhilePaused, StopCancels, StopFails
    <2>12. QED
      BY <1>1, <2>1, <2>2, <2>3, <2>4, <2>6, <2>7, <2>8, <2>9, <2>10, <2>11, Zenon DEF RowNext
  <1>2. QueueTypeOK /\ [QueueNext]_queueVars => [Final]_queueVars
    BY <1>1
  <1>3. QED
    BY <1>2, QueueTypeCorrect, PTL DEF QueueSpec, TerminalIsFinal
===========================================================================
