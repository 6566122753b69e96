----------------------- MODULE AutonomyRollout_proofs -----------------------
(***************************************************************************)
(* An autonomy effect reaches the hardware at most once, and a stop of the *)
(* plan is kept, for any number of controllers, nodes, people, crashes and *)
(* resumptions.                                                            *)
(*                                                                         *)
(* The argument for "one at a time" is an order: a batch is always the     *)
(* first nodes that no earlier batch used, and every used node has an      *)
(* accepted effect.  So whoever works on a node has every node before it   *)
(* accepted, and two controllers past their claims must be on the same     *)
(* node, whose effect record only one of them can have claimed.            *)
(***************************************************************************)
EXTENDS AutonomyRollout, FiniteSetTheorems, WellFoundedInduction, TLAPS

AuPc == {"idle", "stop", "select", "bake", "target", "open", "move", "effect", "claim", "fail",
         "fence", "call", "record", "measured", "mark"}
AuStates == {"Draft", "Simulated", "AwaitingApproval", "Canary", "Expanding", "Baking", "Enabled"}
              \cup AuStopped
AuEffects == {"none", "admitted", "executing", "accepted", "failed", "blocked"}
RolloutType == [canary : SUBSET AuNode, expanded : SUBSET AuNode,
                bake : {"none", "running", "measured"}, window : Nat, spent : Nat, failures : Nat]
RecType == [pc : AuPc, seen : AuStates \cup {"-"}, planFresh : BOOLEAN, rollout : RolloutType,
            rolloutFresh : BOOLEAN, batch : SUBSET AuNode, todo : SUBSET AuNode,
            effectFresh : BOOLEAN, target : AuStates \cup {"-", "accepted", "failed"}]

AuTypeOK ==
  /\ auState \in AuStates /\ auExpired \in BOOLEAN /\ auHardware \in BOOLEAN
  /\ auRollout \in RolloutType /\ auHour \in Nat /\ auEffect \in [AuNode -> AuEffects]
  /\ auRec \in [Controller -> RecType] /\ auNote \in BOOLEAN
  /\ auResumes \in Nat /\ auTrouble \in Nat
  /\ auCalls \in [AuNode -> Nat] /\ auLate \in Nat

(* Handing one node over: between loading its effect and recording it. *)
HandsOver == {"effect", "claim", "fence", "call", "record"}
PastClaim == {"fence", "call", "record"}

Accepted(S) == \A n \in S : auEffect[n] = "accepted"

(* Every node before a node of S is in S, too, or is accepted. *)
InOrder(S) == \A y \in S : \A x \in AuNode : x < y => x \in S \/ auEffect[x] = "accepted"

(* What a controller holds of the batch it works on. *)
BatchOK(me) ==
  /\ Accepted(Used(me.rollout))
  /\ me.pc = "open" => InOrder(me.batch)
  /\ me.pc \in HandsOver \cup {"target"} => InOrder(me.todo) /\ Accepted(me.batch \ me.todo)

(* What it holds of the node it hands over. *)
HandOK(me) ==
  /\ me.pc \in HandsOver => me.todo # {} /\ auHardware
  /\ me.pc = "claim" /\ me.effectFresh => auEffect[Current(me)] = "admitted"
  /\ me.pc \in PastClaim => auEffect[Current(me)] = "executing"
  /\ me.pc \in {"fence", "call"} => auCalls[Current(me)] = 0
  /\ me.pc = "record" => me.target \in {"accepted", "failed"}

(* What it holds of the plan. *)
PlanOK(me) ==
  /\ me.planFresh => me.seen = auState
  /\ me.pc \in {"select", "open", "target", "fail"} \cup HandsOver => me.seen \in AuAdmits
  /\ me.pc \in {"bake", "measured"} => me.seen = "Baking"
  /\ me.pc = "move" => me.seen \in AuAdmits \cup {"Baking"} /\ me.target \in {"Baking", "Enabled", "Expanding"}
  /\ me.pc = "stop" => /\ me.target \in AuStopped
                       /\ me.seen \in AuStates \ AuTerminal
                       /\ me.target = "Expired" \/ me.seen # "Paused"

AuInv ==
  /\ AuTypeOK
  /\ auHardware => Accepted(Used(auRollout)) /\ \A c \in Controller : BatchOK(auRec[c])
  /\ \A c \in Controller : HandOK(auRec[c]) /\ PlanOK(auRec[c])
  /\ \A c, d \in Controller :
        auRec[c].pc \in PastClaim /\ auRec[d].pc \in PastClaim
          /\ Current(auRec[c]) = Current(auRec[d]) => c = d
  /\ \A n \in AuNode : auCalls[n] <= 1 /\ (auEffect[n] \in {"none", "admitted"} => auCalls[n] = 0)
  /\ auLate <= 1
  /\ auState \notin AuStopped => auLate = 0
  /\ auLate = 1 => \A c \in Controller : auRec[c].pc # "call"

----------------------------------------------------------------------------
(* Lemmas about the operators. *)

(* The least of a nonempty set of naturals belongs to it and is below all. *)
LEMMA MinIsLeast ==
  ASSUME NEW T, T \subseteq Nat, T # {}
  PROVE  Min(T) \in T /\ \A y \in T : Min(T) <= y
  <1>1. \E x \in T : \A y \in T : <<y, x>> \notin OpToRel(<, Nat)
    BY WFMin, NatLessThanWellFounded, Zenon
  <1>2. ASSUME NEW x \in Nat, NEW y \in Nat, y < x PROVE <<y, x>> \in OpToRel(<, Nat)
    BY <1>2, Zenon DEF OpToRel
  <1>3. \E x \in T : \A y \in T : ~(y < x) BY <1>1, <1>2, Zenon
  <1> HIDE <1>1, <1>2
  <1>4. \E x \in T : \A y \in T : x <= y BY <1>3
  <1> QED BY <1>4, Zenon DEF Min

(* FirstNodes takes an initial piece of the set it takes from. *)
LEMMA FirstNodesInOrder ==
  ASSUME NEW T \in SUBSET AuNode, NEW n \in Int
  PROVE  /\ FirstNodes(T, n) \subseteq T
         /\ \A y \in FirstNodes(T, n) : \A x \in T : x < y => x \in FirstNodes(T, n)
  <1>1. FirstNodes(T, n) \subseteq T BY DEF FirstNodes
  <1>2. ASSUME NEW y \in FirstNodes(T, n), NEW x \in T, x < y PROVE x \in FirstNodes(T, n)
    <2> DEFINE X == {z \in T : z < x}
               Y == {z \in T : z < y}
    <2>1. IsFiniteSet(T) BY AutonomyAssumption, FS_Subset, Zenon
    <2>2. Y \subseteq T /\ IsFiniteSet(Y) BY <2>1, FS_Subset
    <2>0. T \subseteq Nat /\ x \in Nat /\ y \in Nat BY <1>1, AutonomyAssumption, Zenon
    <2>3. X \subseteq Y
      <3>1. ASSUME NEW z \in T, z < x PROVE z < y BY <2>0, <1>2, <3>1
      <3> QED BY <3>1
    <2>4. Cardinality(X) \in Nat /\ Cardinality(Y) \in Nat /\ Cardinality(X) <= Cardinality(Y)
      BY <2>2, <2>3, FS_Subset, FS_CardinalityType
    <2>5. Cardinality(Y) < n BY DEF FirstNodes
    <2>6. Cardinality(X) < n BY <2>4, <2>5
    <2> QED BY <2>6 DEF FirstNodes
  <1> QED BY <1>1, <1>2

(* The node being handed over is the least of those left in the batch. *)
LEMMA CurrentIsLeast ==
  ASSUME NEW me \in RecType, me.todo # {}
  PROVE  /\ Current(me) \in me.todo /\ Current(me) \in AuNode
         /\ \A y \in me.todo : Current(me) <= y
  <1>1. me.todo \subseteq AuNode BY DEF RecType
  <1> QED BY <1>1, MinIsLeast, AutonomyAssumption, Zenon DEF Current

LEMMA RestingType == EmptyRollout \in RolloutType /\ AuResting \in RecType
  BY DEF EmptyRollout, AuResting, RolloutType, RecType, AuPc

LEMMA PassFailsType ==
  ASSUME NEW me \in RecType, NEW failures \in Nat
  PROVE  PassFails(me, failures) \in RecType
  <1>1. me.seen \in AuStates \cup {"-"} /\ me.planFresh \in BOOLEAN BY DEF RecType
  <1>2. ASSUME NEW t \in AuStates
        PROVE  [AuResting EXCEPT !.pc = "stop", !.seen = me.seen, !.planFresh = me.planFresh,
                  !.target = t] \in RecType
    BY <1>1, RestingType, Zenon DEF RecType, AuPc
  <1>3. {"RolledBack", "Paused"} \subseteq AuStates BY DEF AuStates, AuStopped
  <1> QED BY <1>2, <1>3, RestingType, Zenon DEF PassFails

LEMMA OpenedBatchType ==
  ASSUME AuTypeOK, NEW me \in RecType, NEW batch \in SUBSET AuNode
  PROVE  OpenedBatch(me, batch) \in RecType /\ OpenedBatch(me, batch).rollout \in RolloutType
  <1>1. [auRollout EXCEPT !.window = auHour, !.spent = 0] \in RolloutType
    BY Zenon DEF AuTypeOK, RolloutType
  <1>2. auRollout \in RolloutType BY DEF AuTypeOK
  <1> QED BY <1>1, <1>2, Zenon DEF OpenedBatch, RecType, AuPc

LEMMA BakeJudgedType ==
  ASSUME NEW me \in RecType, NEW rollout \in RolloutType
  PROVE  BakeJudged(me, rollout) \in RecType
  <1>1. me.seen \in AuStates \cup {"-"} /\ me.planFresh \in BOOLEAN BY DEF RecType
  <1>2. ASSUME NEW t \in AuStates, NEW pc \in {"stop", "move"}
        PROVE  [AuResting EXCEPT !.seen = me.seen, !.planFresh = me.planFresh,
                  !.pc = pc, !.target = t] \in RecType
    BY <1>1, RestingType, Zenon DEF RecType, AuPc
  <1>3. {"RolledBack", "Enabled", "Expanding"} \subseteq AuStates BY DEF AuStates, AuStopped
  <1> QED BY <1>2, <1>3, Zenon DEF BakeJudged

----------------------------------------------------------------------------
(* What a save does to the copies the others hold. *)

(* s is r, except that some of its copies may have become stale. *)
Ages(r, s) ==
  /\ s.pc = r.pc /\ s.seen = r.seen /\ s.rollout = r.rollout
  /\ s.batch = r.batch /\ s.todo = r.todo /\ s.target = r.target
  /\ s.planFresh => r.planFresh
  /\ s.effectFresh => r.effectFresh

OthersAge(C) == \A d \in Controller \ C : Ages(auRec[d], auRec'[d])

LEMMA GoesOnAges ==
  ASSUME AuTypeOK, NEW c \in Controller, NEW me \in RecType, AuGoesOn(c, me)
  PROVE  auRec' \in [Controller -> RecType] /\ auRec'[c] = me /\ OthersAge({c})
  <1>1. \A d \in Controller \ {c} : auRec'[d] = auRec[d] BY DEF AuGoesOn, AuTypeOK
  <1>2. auRec' \in [Controller -> RecType] /\ auRec'[c] = me BY DEF AuGoesOn, AuTypeOK
  <1> QED BY <1>1, <1>2 DEF OthersAge, Ages

LEMMA SavedPlanAges ==
  ASSUME AuTypeOK, NEW c \in Controller, NEW me \in RecType, SavedPlan(c, me)
  PROVE  /\ auRec' \in [Controller -> RecType] /\ auRec'[c] = me /\ OthersAge({c})
         /\ \A d \in Controller \ {c} : ~auRec'[d].planFresh
  <1>1. ASSUME NEW r \in RecType, NEW s, s = [r EXCEPT !.planFresh = FALSE]
        PROVE  s \in RecType /\ ~s.planFresh /\ Ages(r, s)
    BY <1>1, Zenon DEF RecType, Ages
  <1>2. \A d \in Controller : auRec[d] \in RecType BY DEF AuTypeOK
  <1>3. /\ \A d \in Controller \ {c} : auRec'[d] = [auRec[d] EXCEPT !.planFresh = FALSE]
        /\ auRec'[c] = me BY DEF SavedPlan
  <1>4. auRec' = [d \in Controller |-> auRec'[d]] BY DEF SavedPlan
  <1>5. \A d \in Controller \ {c} :
           auRec'[d] \in RecType /\ ~auRec'[d].planFresh /\ Ages(auRec[d], auRec'[d])
    BY <1>1, <1>2, <1>3, Zenon
  <1> QED BY <1>3, <1>4, <1>5 DEF OthersAge

LEMMA SavedRolloutAges ==
  ASSUME AuTypeOK, NEW c \in Controller, NEW me \in RecType, SavedRollout(c, me)
  PROVE  auRec' \in [Controller -> RecType] /\ auRec'[c] = me /\ OthersAge({c})
  <1>1. ASSUME NEW r \in RecType, NEW s, s = [r EXCEPT !.rolloutFresh = FALSE]
        PROVE  s \in RecType /\ Ages(r, s)
    BY <1>1, Zenon DEF RecType, Ages
  <1>2. \A d \in Controller : auRec[d] \in RecType BY DEF AuTypeOK
  <1>3. /\ \A d \in Controller \ {c} : auRec'[d] = [auRec[d] EXCEPT !.rolloutFresh = FALSE]
        /\ auRec'[c] = me BY DEF SavedRollout
  <1>4. auRec' = [d \in Controller |-> auRec'[d]] BY DEF SavedRollout
  <1> QED BY <1>1, <1>2, <1>3, <1>4, Zenon DEF OthersAge

LEMMA SavedEffectAges ==
  ASSUME AuTypeOK, NEW c \in Controller, NEW me \in RecType, NEW n, SavedEffect(c, me, n)
  PROVE  /\ auRec' \in [Controller -> RecType] /\ auRec'[c] = me /\ OthersAge({c})
         /\ \A d \in Controller \ {c} :
               auRec'[d].pc = "claim" /\ Current(auRec'[d]) = n => ~auRec'[d].effectFresh
  <1>1. ASSUME NEW r \in RecType, NEW s, s = [r EXCEPT !.effectFresh = FALSE]
        PROVE  s \in RecType /\ ~s.effectFresh /\ Ages(r, s)
    BY <1>1, Zenon DEF RecType, Ages
  <1>2. \A d \in Controller : auRec[d] \in RecType BY DEF AuTypeOK
  <1>3. /\ \A d \in Controller \ {c} :
             auRec'[d] = IF auRec[d].pc = "claim" /\ Current(auRec[d]) = n
                         THEN [auRec[d] EXCEPT !.effectFresh = FALSE] ELSE auRec[d]
        /\ auRec'[c] = me BY DEF SavedEffect
  <1>4. auRec' = [d \in Controller |-> auRec'[d]] BY DEF SavedEffect
  <1>5. \A r : Ages(r, r) BY DEF Ages
  <1> QED BY <1>1, <1>2, <1>3, <1>4, <1>5, Zenon DEF OthersAge

(* Whoever did not take the step keeps its batch in order. *)
LEMMA OthersKeepBatch ==
  ASSUME AuInv, NEW C, OthersAge(C), auHardware' = auHardware, auHardware,
         \A n \in AuNode : auEffect[n] = "accepted" => auEffect'[n] = "accepted",
         NEW d \in Controller \ C
  PROVE  BatchOK(auRec[d])'
  <1>1. BatchOK(auRec[d]) /\ auRec[d] \in RecType BY DEF AuInv, AuTypeOK
  <1>2. /\ auRec'[d].pc = auRec[d].pc /\ auRec'[d].rollout = auRec[d].rollout
        /\ auRec'[d].batch = auRec[d].batch /\ auRec'[d].todo = auRec[d].todo
    BY DEF OthersAge, Ages
  <1>3. /\ auRec[d].rollout.canary \subseteq AuNode /\ auRec[d].rollout.expanded \subseteq AuNode
        /\ auRec[d].batch \subseteq AuNode /\ auRec[d].todo \subseteq AuNode
    BY <1>1 DEF RecType, RolloutType
  <1>4. ASSUME NEW T \in SUBSET AuNode, Accepted(T) PROVE Accepted(T)' BY <1>4 DEF Accepted
  <1>5. ASSUME NEW T \in SUBSET AuNode, InOrder(T) PROVE InOrder(T)' BY <1>5 DEF InOrder
  <1>6. Accepted(Used(auRec[d].rollout))' BY <1>1, <1>2, <1>3, <1>4 DEF BatchOK, Used
  <1>7. ASSUME auRec'[d].pc = "open" PROVE InOrder(auRec[d].batch)'
    BY <1>1, <1>2, <1>3, <1>5, <1>7 DEF BatchOK
  <1>8. ASSUME auRec'[d].pc \in HandsOver \cup {"target"}
        PROVE  InOrder(auRec[d].todo)' /\ Accepted(auRec[d].batch \ auRec[d].todo)'
    BY <1>1, <1>2, <1>3, <1>4, <1>5, <1>8 DEF BatchOK
  <1> QED BY <1>6, <1>7, <1>8 DEF BatchOK

(* Whoever did not take the step keeps what it knows of the plan. *)
LEMMA OthersKeepPlan ==
  ASSUME AuInv, NEW C, OthersAge(C), NEW d \in Controller \ C,
         auState' = auState \/ ~auRec'[d].planFresh
  PROVE  PlanOK(auRec[d])'
  <1>1. PlanOK(auRec[d]) BY DEF AuInv
  <1>2. Ages(auRec[d], auRec'[d]) BY DEF OthersAge
  <1> QED BY <1>1, <1>2 DEF PlanOK, Ages, HandsOver

(* A step that touches no effect record and calls no executor. *)
LEMMA QuietStep ==
  ASSUME AuInv, AuTypeOK', NEW C \in SUBSET Controller, OthersAge(C),
         UNCHANGED <<auEffect, auCalls, auHardware>>,
         auHardware => Accepted(Used(auRollout))',
         auLate' \in {0, auLate}, auState' \in AuStopped \/ auLate' = 0,
         auState' = auState \/ \A d \in Controller \ C : ~auRec'[d].planFresh,
         \A c \in C : /\ auHardware => BatchOK(auRec[c])'
                      /\ HandOK(auRec[c])' /\ PlanOK(auRec[c])'
                      /\ auRec'[c].pc \notin PastClaim
  PROVE  AuInv'
  <1>1. auHardware' => \A d \in Controller : BatchOK(auRec[d])' BY OthersKeepBatch
  <1>2. ASSUME NEW d \in Controller \ C PROVE HandOK(auRec[d])'
    <2>1. HandOK(auRec[d]) BY DEF AuInv
    <2>2. Ages(auRec[d], auRec'[d]) BY DEF OthersAge
    <2> QED BY <2>1, <2>2 DEF HandOK, Ages, Current
  <1>3. \A d \in Controller : PlanOK(auRec[d])' BY OthersKeepPlan
  <1>4. ASSUME NEW c \in Controller, NEW d \in Controller,
               auRec'[c].pc \in PastClaim, auRec'[d].pc \in PastClaim,
               Current(auRec[c])' = Current(auRec[d])'
        PROVE  c = d
    <2>1. c \in Controller \ C /\ d \in Controller \ C BY <1>4
    <2>2. Ages(auRec[c], auRec'[c]) /\ Ages(auRec[d], auRec'[d]) BY <2>1 DEF OthersAge
    <2> QED BY <1>4, <2>2 DEF AuInv, Ages, Current
  <1>5. auLate' = 1 => \A c \in Controller : auRec'[c].pc # "call"
    BY DEF AuInv, OthersAge, Ages, PastClaim
  <1> QED BY <1>1, <1>2, <1>3, <1>4, <1>5 DEF AuInv, AuTypeOK

----------------------------------------------------------------------------
(* One lemma per action. *)

(* A controller that holds no batch. *)
LEMMA NoBatchOK ==
  ASSUME NEW r, r.rollout = EmptyRollout, r.pc \notin HandsOver \cup {"open", "target"}
  PROVE  BatchOK(r)' /\ HandOK(r)' /\ r.pc \notin PastClaim
  BY DEF BatchOK, HandOK, Accepted, Used, EmptyRollout, HandsOver, PastClaim

(* PassFails leads to rest, or to the stop of a canary plan. *)
LEMMA PassFailsOK ==
  ASSUME AuInv, NEW c \in Controller, auRec[c].seen \in AuAdmits, auState' = auState,
         NEW failures \in Nat, NEW r, r = PassFails(auRec[c], failures)
  PROVE  r \in RecType /\ BatchOK(r)' /\ HandOK(r)' /\ PlanOK(r)' /\ r.pc \notin PastClaim
  <1> DEFINE me == auRec[c]
  <1>1. me \in RecType /\ PlanOK(me) BY DEF AuInv, AuTypeOK
  <1>2. r \in RecType BY <1>1, PassFailsType
  <1>3. CASE me.seen = "Canary"
    <2>1. /\ r.pc = "stop" /\ r.seen = me.seen /\ r.planFresh = me.planFresh
          /\ r.target \in {"RolledBack", "Paused"} /\ r.rollout = EmptyRollout
      BY <1>3, RestingType DEF PassFails, AuResting
    <2>2. PlanOK(r)' BY <1>1, <1>3, <2>1 DEF PlanOK, AuStopped, AuStates, AuTerminal, HandsOver
    <2> QED BY <1>2, <2>1, <2>2, NoBatchOK DEF HandsOver
  <1>4. CASE me.seen # "Canary"
    <2>1. r = AuResting BY <1>4 DEF PassFails
    <2>2. r.pc = "idle" /\ r.planFresh = FALSE /\ r.rollout = EmptyRollout BY <2>1 DEF AuResting
    <2>3. PlanOK(r)' BY <2>2 DEF PlanOK, HandsOver
    <2> QED BY <1>2, <2>2, <2>3, NoBatchOK DEF HandsOver
  <1> QED BY <1>3, <1>4

LEMMA AuRestingOK == BatchOK(AuResting)' /\ HandOK(AuResting)' /\ PlanOK(AuResting)'
                       /\ AuResting.pc \notin PastClaim
  <1>1. /\ AuResting.pc = "idle" /\ AuResting.planFresh = FALSE
        /\ AuResting.rollout = EmptyRollout BY DEF AuResting
  <1>2. PlanOK(AuResting)' BY <1>1 DEF PlanOK, HandsOver
  <1> QED BY <1>1, <1>2, NoBatchOK DEF HandsOver

LEMMA ListStep ==
  ASSUME AuInv, NEW c \in Controller, ListAutonomyPlans(c)
  PROVE  AuInv'
  <1> DEFINE listed == [AuResting EXCEPT !.seen = auState, !.planFresh = TRUE]
  <1>1. /\ listed \in RecType /\ listed.seen = auState /\ listed.rollout = EmptyRollout
    BY RestingType, Zenon DEF AuInv, AuTypeOK, RecType, AuResting
  <1>2. PICK r : /\ AuGoesOn(c, r) /\ r \in RecType /\ r.rollout = EmptyRollout /\ r.seen = auState
                 /\ \/ r.pc = "stop" /\ r.target = "Expired"
                    \/ r.pc = "select" /\ auState \in AuAdmits
                    \/ r.pc = "bake" /\ auState = "Baking"
    <2>1. ASSUME NEW pc \in {"select", "bake"}
          PROVE  LET r == [listed EXCEPT !.pc = pc]
                 IN  r \in RecType /\ r.rollout = EmptyRollout /\ r.seen = auState /\ r.pc = pc
      BY <1>1, Zenon DEF RecType, AuPc
    <2>2. LET r == [listed EXCEPT !.pc = "stop", !.target = "Expired"]
          IN  /\ r \in RecType /\ r.rollout = EmptyRollout /\ r.seen = auState
              /\ r.pc = "stop" /\ r.target = "Expired"
      BY <1>1, ZenonT(40) DEF RecType, AuPc, AuStates, AuStopped
    <2> HIDE DEF listed
    <2> QED BY <2>1, <2>2, Zenon DEF ListAutonomyPlans, listed
  <1>3. auRec' \in [Controller -> RecType] /\ auRec'[c] = r /\ OthersAge({c})
    BY <1>2, GoesOnAges DEF AuInv
  <1>4. AuTypeOK' BY <1>3 DEF AuInv, AuTypeOK, ListAutonomyPlans, auPlanVars, auBoundVars, auGhostVars
  <1>5. BatchOK(r)' /\ HandOK(r)' /\ r.pc \notin PastClaim BY <1>2, NoBatchOK DEF HandsOver
  <1>6. PlanOK(r)'
    BY <1>2 DEF AuInv, AuTypeOK, ListAutonomyPlans, auPlanVars, PlanOK, HandsOver, AuStopped, AuTerminal, AuAdmits
  <1>7. /\ UNCHANGED <<auEffect, auCalls, auHardware, auLate, auState>>
        /\ auHardware => Accepted(Used(auRollout))'
        /\ auState' \in AuStopped \/ auLate' = 0
    BY DEF AuInv, ListAutonomyPlans, auPlanVars, auGhostVars, Accepted, Used
  <1> QED BY <1>3, <1>4, <1>5, <1>6, <1>7, QuietStep

(* The steps of a pass that leave plan, effects and calls alone. *)
LEMMA QuietPass ==
  ASSUME AuInv, NEW c \in Controller, NEW r \in RecType, AuGoesOn(c, r) \/ SavedRollout(c, r),
         UNCHANGED <<auPlanVars, auHour, auResumes, auGhostVars, auEffect, auNote>>,
         auTrouble' \in Nat, auRollout' \in RolloutType,
         auHardware => Accepted(Used(auRollout))' /\ BatchOK(r)',
         HandOK(r)', PlanOK(r)', r.pc \notin PastClaim
  PROVE  AuInv'
  <1>1. auRec' \in [Controller -> RecType] /\ auRec'[c] = r /\ OthersAge({c})
    BY GoesOnAges, SavedRolloutAges, Zenon DEF AuInv
  <1>2. AuTypeOK' BY <1>1, SMTT(40) DEF AuInv, AuTypeOK, auPlanVars, auGhostVars
  <1>3. /\ UNCHANGED <<auEffect, auCalls, auHardware, auLate, auState>>
        /\ auState' \in AuStopped \/ auLate' = 0
    BY DEF auPlanVars, auGhostVars, AuInv
  <1> QED BY <1>1, <1>2, <1>3, QuietStep

LEMMA MishapType == ASSUME AuTypeOK, AuMishap \/ UNCHANGED auTrouble PROVE auTrouble' \in Nat
  BY DEF AuTypeOK, AuMishap

(* The rollout record as it stands. *)
LEMMA RolloutStands ==
  ASSUME AuInv, UNCHANGED <<auRollout, auEffect>>
  PROVE  auRollout' \in RolloutType /\ (auHardware => Accepted(Used(auRollout))')
  BY DEF AuInv, AuTypeOK, Accepted

(* A batch just opened, all of it still to be done. *)
LEMMA OpenedBatchOK ==
  ASSUME AuInv, NEW me \in RecType, me.seen \in AuAdmits, PlanOK(me), NEW batch \in SUBSET AuNode,
         auHardware => InOrder(batch), UNCHANGED <<auState, auEffect>>,
         NEW r, r = OpenedBatch(me, batch)
  PROVE  /\ r \in RecType /\ (auHardware => BatchOK(r)')
         /\ HandOK(r)' /\ PlanOK(r)' /\ r.pc \notin PastClaim
  <1>1. r \in RecType BY OpenedBatchType DEF AuInv
  <1>2. /\ r.pc = "target" /\ r.batch = batch /\ r.todo = batch
        /\ r.seen = me.seen /\ r.planFresh = me.planFresh
        /\ r.rollout = IF auHour > auRollout.window
                       THEN [auRollout EXCEPT !.window = auHour, !.spent = 0] ELSE auRollout
    BY DEF OpenedBatch, RecType
  <1>3. r.rollout.canary = auRollout.canary /\ r.rollout.expanded = auRollout.expanded
    BY <1>2 DEF AuInv, AuTypeOK, RolloutType
  <1>4. auHardware => Accepted(Used(r.rollout))'
    BY <1>3 DEF AuInv, Used, Accepted
  <1>5. auHardware => InOrder(r.todo)' /\ Accepted(r.batch \ r.todo)'
    BY <1>2 DEF InOrder, Accepted
  <1>6. auHardware => BatchOK(r)' BY <1>2, <1>4, <1>5 DEF BatchOK
  <1>7. HandOK(r)' /\ r.pc \notin PastClaim BY <1>2 DEF HandOK, HandsOver, PastClaim
  <1>8. PlanOK(r)' BY <1>2 DEF PlanOK, HandsOver
  <1> QED BY <1>1, <1>6, <1>7, <1>8

(* The first free nodes come in order. *)
LEMMA FreeInOrder ==
  ASSUME NEW U \in SUBSET AuNode, Accepted(U), NEW n \in Int
  PROVE  InOrder(FirstNodes(AuNode \ U, n))
  BY FirstNodesInOrder DEF InOrder, Accepted

(* A pass that goes to rest, or fails, saving nothing. *)
LEMMA RestingPass ==
  ASSUME AuInv, NEW c \in Controller, AuGoesOn(c, AuResting),
         UNCHANGED <<auPlanVars, auHour, auResumes, auGhostVars, auRollout, auEffect, auNote>>,
         auTrouble' \in Nat
  PROVE  AuInv'
  BY RestingType, AuRestingOK, QuietPass, RolloutStands

LEMMA FailingPass ==
  ASSUME AuInv, NEW c \in Controller, AuGoesOn(c, PassFails(auRec[c], auRollout.failures)),
         auRec[c].seen \in AuAdmits,
         UNCHANGED <<auPlanVars, auHour, auResumes, auGhostVars, auRollout, auEffect, auNote>>,
         auTrouble' \in Nat
  PROVE  AuInv'
  <1>1. auRollout.failures \in Nat BY DEF AuInv, AuTypeOK, RolloutType
  <1>2. PICK r : r = PassFails(auRec[c], auRollout.failures) OBVIOUS
  <1>3. UNCHANGED auState BY DEF auPlanVars
  <1>4. r \in RecType /\ BatchOK(r)' /\ HandOK(r)' /\ PlanOK(r)' /\ r.pc \notin PastClaim
    BY <1>1, <1>2, <1>3, PassFailsOK
  <1>5. AuGoesOn(c, r) BY <1>2
  <1> QED BY <1>4, <1>5, QuietPass, RolloutStands

LEMMA CanaryStep ==
  ASSUME AuInv, NEW c \in Controller, admitAutonomyCanary(c)
  PROVE  AuInv'
  <1> DEFINE me == auRec[c]
             B == FirstNodes(AuNode, CanaryNodes)
  <1>1. /\ me \in RecType /\ PlanOK(me) /\ me.pc = "select" /\ me.seen \in AuAdmits
        /\ UNCHANGED <<auPlanVars, auHour, auResumes, auGhostVars, auRollout, auEffect, auNote>>
    BY DEF AuInv, AuTypeOK, admitAutonomyCanary, AuAdmits
  <1>2. UNCHANGED <<auState, auEffect, auRollout>> BY <1>1, SMTT(40) DEF auPlanVars
  <1>3. auTrouble' \in Nat BY MishapType, SMTT(40) DEF AuInv, admitAutonomyCanary
  <1>4. CASE AuGoesOn(c, OpenedBatch(me, B))
    <2>1. B \in SUBSET AuNode /\ InOrder(B)
      BY FirstNodesInOrder, AutonomyAssumption DEF InOrder
    <2>2. PICK r : r = OpenedBatch(me, B) BY SMTT(40)
    <2>3. /\ r \in RecType /\ (auHardware => BatchOK(r)')
          /\ HandOK(r)' /\ PlanOK(r)' /\ r.pc \notin PastClaim
      BY <1>1, <1>2, <2>1, <2>2, OpenedBatchOK
    <2>4. AuGoesOn(c, r) BY <1>4, <2>2
    <2> QED BY <1>1, <1>2, <1>3, <2>3, <2>4, QuietPass, RolloutStands
  <1>5. CASE AuGoesOn(c, PassFails(me, auRollout.failures)) BY <1>1, <1>3, <1>5, FailingPass, Zenon
  <1> QED BY <1>4, <1>5 DEF admitAutonomyCanary

LEMMA ExpansionStep ==
  ASSUME AuInv, NEW c \in Controller, admitAutonomyExpansion(c)
  PROVE  AuInv'
  <1> DEFINE me == auRec[c]
             U == Used(auRollout)
             target == nextAutonomyExpansionTarget(auRollout)
             need == target - Cardinality(U)
             B == FirstNodes(AuNode \ U, Min({need, MaxConcurrentNodes}))
  <1>1. /\ me \in RecType /\ PlanOK(me) /\ me.pc = "select" /\ me.seen = "Expanding"
        /\ UNCHANGED <<auPlanVars, auHour, auResumes, auGhostVars, auRollout, auEffect, auNote>>
        /\ auHardware => BatchOK(me)
    BY DEF AuInv, AuTypeOK, admitAutonomyExpansion
  <1>2. UNCHANGED <<auState, auEffect, auRollout>> BY <1>1 DEF auPlanVars
  <1>3. auTrouble' \in Nat BY MishapType, SMTT(40) DEF AuInv, admitAutonomyExpansion
  <1>4. CASE AuGoesOn(c, [me EXCEPT !.pc = "move", !.target = "Enabled"])
    <2>1. PICK r : r = [me EXCEPT !.pc = "move", !.target = "Enabled"] OBVIOUS
    <2>2. /\ r \in RecType /\ r.pc = "move" /\ r.target = "Enabled" /\ r.seen = me.seen
          /\ r.planFresh = me.planFresh /\ r.rollout = me.rollout
      BY <1>1, <2>1, ZenonT(40) DEF RecType, AuPc, AuStates
    <2>3. HandOK(r)' /\ PlanOK(r)' /\ r.pc \notin PastClaim
      BY <1>1, <1>2, <2>2 DEF HandOK, PlanOK, HandsOver, PastClaim, AuAdmits
    <2>4. auHardware => BatchOK(r)'
      BY <1>1, <1>2, <2>2 DEF BatchOK, HandsOver, Accepted
    <2>5. AuGoesOn(c, r) BY <1>4, <2>1, SMTT(40)
    <2> QED BY Zenon, <1>1, <1>2, <1>3, <2>2, <2>3, <2>4, <2>5, QuietPass, RolloutStands
  <1>5. CASE target # 0 /\ AuGoesOn(c, [me EXCEPT !.pc = "open", !.batch = B])
    <2>1. U \in SUBSET AuNode /\ (auHardware => Accepted(U)) BY DEF AuInv, AuTypeOK, RolloutType, Used
    <2>2. Min({need, MaxConcurrentNodes}) \in Int
      <3>1. Cardinality(U) \in Nat BY <2>1, AutonomyAssumption, FS_Subset, FS_CardinalityType
      <3>2. target \in Nat
        <4> DEFINE left == {i \in DOMAIN ExpansionSteps : Cardinality(U) < ExpansionSteps[i]}
        <4>1. left \subseteq Nat BY AutonomyAssumption
        <4>2. left # {} BY <1>5 DEF nextAutonomyExpansionTarget
        <4>3. Min(left) \in DOMAIN ExpansionSteps BY <4>1, <4>2, MinIsLeast
        <4>4. target = ExpansionSteps[Min(left)] BY <4>2 DEF nextAutonomyExpansionTarget
        <4> QED BY <4>3, <4>4, AutonomyAssumption
      <3>3. need \in Int BY <3>1, <3>2
      <3>4. \A a, b \in Int : Min({a, b}) \in {a, b}
        <4> SUFFICES ASSUME NEW a \in Int, NEW b \in Int PROVE Min({a, b}) \in {a, b} OBVIOUS
        <4>1. \E x \in {a, b} : \A y \in {a, b} : x <= y
          <5>1. CASE a <= b BY <5>1
          <5>2. CASE b <= a BY <5>2
          <5> QED BY <5>1, <5>2
        <4> QED BY <4>1, Zenon DEF Min
      <3> HIDE DEF need
      <3> QED BY <3>3, <3>4, AutonomyAssumption
    <2>3. B \in SUBSET AuNode BY <2>1, <2>2, FirstNodesInOrder
    <2>4. auHardware => InOrder(B) BY <2>1, <2>2, FreeInOrder
    <2>5. PICK r : r = [me EXCEPT !.pc = "open", !.batch = B] OBVIOUS
    <2> HIDE DEF B
    <2>6. /\ r \in RecType /\ r.pc = "open" /\ r.batch = B /\ r.seen = me.seen
          /\ r.planFresh = me.planFresh /\ r.rollout = me.rollout
      BY <1>1, <2>3, <2>5, ZenonT(40) DEF RecType, AuPc
    <2>7. HandOK(r)' /\ PlanOK(r)' /\ r.pc \notin PastClaim
      BY <1>1, <1>2, <2>6, SMTT(40) DEF HandOK, PlanOK, HandsOver, PastClaim, AuAdmits
    <2>8. auHardware => BatchOK(r)'
      <3>1. auHardware => InOrder(r.batch)' BY <1>2, <2>4, <2>6 DEF InOrder
      <3> QED BY <1>1, <1>2, <2>6, <3>1 DEF BatchOK, HandsOver, Accepted
    <2>9. AuGoesOn(c, r) BY <1>5, <2>5
    <2> QED BY <1>1, <1>2, <1>3, <2>6, <2>7, <2>8, <2>9, QuietPass, RolloutStands, SMTT(40)
  <1>6. CASE AuGoesOn(c, AuResting) BY <1>1, <1>3, <1>6, RestingPass, ZenonT(40)
  <1> QED BY <1>4, <1>5, <1>6 DEF admitAutonomyExpansion

LEMMA OpenStep ==
  ASSUME AuInv, NEW c \in Controller, openExpansion(c)
  PROVE  AuInv'
  <1> DEFINE me == auRec[c]
  <1>1. /\ me \in RecType /\ PlanOK(me) /\ me.pc = "open" /\ me.seen \in AuAdmits
        /\ UNCHANGED <<auPlanVars, auHour, auResumes, auGhostVars, auRollout, auEffect, auNote>>
        /\ auTrouble' \in Nat
        /\ me.batch \in SUBSET AuNode /\ (auHardware => InOrder(me.batch))
    BY ZenonT(40) DEF AuInv, AuTypeOK, openExpansion, PlanOK, BatchOK, RecType, auBoundVars
  <1>2. UNCHANGED <<auState, auEffect, auRollout>> BY <1>1 DEF auPlanVars
  <1>3. PICK r : r = OpenedBatch(me, me.batch) BY SMTT(40)
  <1>4. /\ r \in RecType /\ (auHardware => BatchOK(r)')
        /\ HandOK(r)' /\ PlanOK(r)' /\ r.pc \notin PastClaim
    BY ZenonT(40), <1>1, <1>2, <1>3, OpenedBatchOK
  <1>5. AuGoesOn(c, r) BY <1>3 DEF openExpansion
  <1> QED BY Zenon, <1>1, <1>2, <1>4, <1>5, QuietPass, RolloutStands

(* A pass that fails after saving a rollout with the nodes of its copy. *)
LEMMA FailingSave ==
  ASSUME AuInv, NEW c \in Controller, auRec[c].seen \in AuAdmits, auRollout' \in RolloutType,
         Used(auRollout)' = Used(auRec[c].rollout),
         SavedRollout(c, PassFails(auRec[c], auRollout'.failures)),
         UNCHANGED <<auPlanVars, auHour, auResumes, auGhostVars, auEffect, auNote>>,
         auTrouble' \in Nat
  PROVE  AuInv'
  <1>1. auRollout'.failures \in Nat BY DEF RolloutType
  <1>2. PICK f : f = auRollout'.failures OBVIOUS
  <1>3. PICK r : r = PassFails(auRec[c], f) OBVIOUS
  <1>4. UNCHANGED auState BY DEF auPlanVars
  <1>5. r \in RecType /\ BatchOK(r)' /\ HandOK(r)' /\ PlanOK(r)' /\ r.pc \notin PastClaim
    BY <1>1, <1>2, <1>3, <1>4, PassFailsOK
  <1>6. SavedRollout(c, r) BY <1>2, <1>3, SMTT(40)
  <1>7. auHardware => Accepted(Used(auRollout))' BY DEF AuInv, BatchOK, Accepted
  <1> QED BY <1>5, <1>6, <1>7, QuietPass

LEMMA TargetStep ==
  ASSUME AuInv, NEW c \in Controller, admitAutonomyTarget(c)
  PROVE  AuInv'
  <1> DEFINE me == auRec[c]
             spent == [me.rollout EXCEPT !.spent = @ + 1]
  <1>1. /\ me \in RecType /\ PlanOK(me) /\ me.pc = "target" /\ me.todo # {} /\ me.seen \in AuAdmits
        /\ UNCHANGED <<auPlanVars, auHour, auResumes, auGhostVars, auEffect, auNote>>
        /\ auHardware => BatchOK(me)
    BY DEF AuInv, AuTypeOK, admitAutonomyTarget, PlanOK
  <1>2. UNCHANGED <<auState, auEffect, auHardware>> BY <1>1 DEF auPlanVars
  <1>3. auTrouble' \in Nat BY MishapType DEF AuInv, admitAutonomyTarget
  <1>4. me.rollout \in RolloutType BY <1>1, SMTT(40) DEF RecType
  <1>5. CASE UNCHANGED auRollout /\ AuGoesOn(c, PassFails(me, auRollout.failures))
    BY <1>1, <1>3, <1>5, FailingPass, SMTT(40)
  <1>6. CASE auRollout' = me.rollout /\ SavedRollout(c, PassFails(me, me.rollout.failures))
    BY <1>1, <1>3, <1>4, <1>6, FailingSave
  <1>7. CASE /\ auHardware /\ auRollout' = spent
             /\ SavedRollout(c, [me EXCEPT !.pc = "effect", !.rollout = spent])
    <2>0. PICK sp : sp = spent BY Zenon
    <2>1. /\ sp \in RolloutType /\ sp.canary = me.rollout.canary
          /\ sp.expanded = me.rollout.expanded
      BY <1>4, <2>0 DEF RolloutType
    <2>2. PICK r : r = [me EXCEPT !.pc = "effect", !.rollout = sp] OBVIOUS
    <2>3. /\ r \in RecType /\ r.pc = "effect" /\ r.rollout = sp /\ r.seen = me.seen
          /\ r.planFresh = me.planFresh /\ r.batch = me.batch /\ r.todo = me.todo
      BY <1>1, <2>1, <2>2, Zenon DEF RecType, AuPc
    <2>4. Accepted(Used(sp))' BY <1>1, <1>2, <1>7, <2>1 DEF BatchOK, Used, Accepted
    <2>5. BatchOK(r)'
      BY <1>1, <1>2, <1>7, <2>3, <2>4 DEF BatchOK, HandsOver, Accepted, InOrder
    <2>6. HandOK(r)' /\ PlanOK(r)' /\ r.pc \notin PastClaim
      BY <1>1, <1>2, <1>7, <2>3 DEF HandOK, PlanOK, HandsOver, PastClaim
    <2>7. SavedRollout(c, r) /\ auRollout' = sp BY <1>7, <2>0, <2>2
    <2>8. Accepted(Used(auRollout))' BY <2>4, <2>7
    <2> QED BY <1>1, <1>3, <1>7, <2>1, <2>3, <2>5, <2>6, <2>7, <2>8, QuietPass, SMTT(40)
  <1>8. CASE ~auHardware /\ UNCHANGED auRollout /\ AuGoesOn(c, [me EXCEPT !.todo = @ \ {Current(me)}])
    <2>1. PICK r : r = [me EXCEPT !.todo = @ \ {Current(me)}] BY Zenon
    <2>2. /\ r \in RecType /\ r.pc = "target" /\ r.seen = me.seen /\ r.planFresh = me.planFresh
      BY <1>1, <2>1, SMTT(40) DEF RecType
    <2>3. HandOK(r)' /\ PlanOK(r)' /\ r.pc \notin PastClaim
      BY <1>1, <1>2, <2>2 DEF HandOK, PlanOK, HandsOver, PastClaim
    <2>4. AuGoesOn(c, r) BY <1>8, <2>1
    <2> QED BY <1>1, <1>2, <1>3, <1>8, <2>2, <2>3, <2>4, QuietPass, RolloutStands
  <1> QED BY <1>5, <1>6, <1>7, <1>8, SMTT(40) DEF admitAutonomyTarget

LEMMA CountFailureStep ==
  ASSUME AuInv, NEW c \in Controller, countFailure(c)
  PROVE  AuInv'
  <1> DEFINE me == auRec[c]
             counted == [me.rollout EXCEPT !.failures = IF @ > ErrorBudget THEN @ ELSE @ + 1]
  <1>1. /\ me \in RecType /\ me.pc = "fail" /\ me.seen \in AuAdmits
        /\ UNCHANGED <<auPlanVars, auHour, auResumes, auGhostVars, auEffect, auNote>>
        /\ auTrouble' \in Nat
    BY SMTT(40) DEF AuInv, AuTypeOK, countFailure, PlanOK, auBoundVars
  <1>2. me.rollout \in RolloutType BY <1>1 DEF RecType
  <1>3. /\ counted \in RolloutType /\ counted.canary = me.rollout.canary
        /\ counted.expanded = me.rollout.expanded
    BY <1>2 DEF RolloutType
  <1>4. CASE auRollout' = counted /\ SavedRollout(c, PassFails(me, counted.failures))
    <2> HIDE DEF counted
    <2> QED BY <1>1, <1>3, <1>4, FailingSave, ZenonT(40) DEF Used
  <1>5. CASE UNCHANGED auRollout /\ AuGoesOn(c, PassFails(me, auRollout.failures))
    BY Zenon, <1>1, <1>5, FailingPass
  <1> QED BY <1>4, <1>5 DEF countFailure

LEMMA StartBakeStep ==
  ASSUME AuInv, NEW c \in Controller, startBake(c)
  PROVE  AuInv'
  <1> DEFINE me == auRec[c]
             baking == [me.rollout EXCEPT
                          !.canary = IF me.seen = "Canary" THEN me.batch ELSE @,
                          !.expanded = IF me.seen = "Canary" THEN @ ELSE @ \cup me.batch,
                          !.bake = "running"]
             moves == [AuResting EXCEPT !.pc = "move", !.seen = me.seen,
                                !.planFresh = me.planFresh, !.target = "Baking"]
  <1>1. /\ me \in RecType /\ PlanOK(me) /\ me.pc = "target" /\ me.todo = {} /\ me.seen \in AuAdmits
        /\ UNCHANGED <<auPlanVars, auHour, auResumes, auGhostVars, auEffect, auNote>>
        /\ auTrouble' \in Nat
        /\ auHardware => BatchOK(me)
    BY DEF AuInv, AuTypeOK, startBake, PlanOK, auBoundVars
  <1>2. UNCHANGED <<auState, auEffect>> BY <1>1 DEF auPlanVars
  <1>3. CASE auRollout' = baking /\ SavedRollout(c, moves)
    <2>1. me.rollout \in RolloutType /\ me.batch \in SUBSET AuNode BY <1>1 DEF RecType
    <2>2. baking \in RolloutType /\ Used(baking) \subseteq Used(me.rollout) \cup me.batch
      BY <2>1, Zenon DEF RolloutType, Used
    <2> HIDE DEF baking
    <2>3. auHardware => Accepted(Used(auRollout))'
      BY <1>1, <1>2, <1>3, <2>2 DEF BatchOK, Accepted
    <2>4. PICK r : r = moves OBVIOUS
    <2>5. /\ r \in RecType /\ r.pc = "move" /\ r.seen = me.seen /\ r.planFresh = me.planFresh
          /\ r.target = "Baking" /\ r.rollout = EmptyRollout
      BY <1>1, <2>4, RestingType, ZenonT(40) DEF RecType, AuPc, AuResting, AuStates
    <2>6. PlanOK(r)' BY <1>1, <1>2, <2>5 DEF PlanOK, HandsOver
    <2>7. SavedRollout(c, r) BY <1>3, <2>4
    <2> QED BY <1>1, <1>3, <2>2, <2>3, <2>5, <2>6, <2>7, QuietPass, NoBatchOK, SMTT(40) DEF HandsOver
  <1>4. CASE UNCHANGED auRollout /\ AuGoesOn(c, PassFails(me, auRollout.failures))
    BY <1>1, <1>4, FailingPass
  <1> QED BY <1>3, <1>4 DEF startBake

LEMMA ReadBakeStep ==
  ASSUME AuInv, NEW c \in Controller, readAutonomyBake(c)
  PROVE  AuInv'
  <1> DEFINE me == auRec[c]
  <1>1. /\ me \in RecType /\ PlanOK(me) /\ me.pc = "bake" /\ me.seen = "Baking"
        /\ UNCHANGED <<auPlanVars, auHour, auResumes, auGhostVars, auRollout, auEffect, auNote>>
        /\ auHardware => BatchOK(me)
    BY Zenon DEF AuInv, AuTypeOK, readAutonomyBake, PlanOK
  <1>2. UNCHANGED <<auState, auEffect, auRollout>> /\ auRollout \in RolloutType
    BY <1>1 DEF auPlanVars, AuInv, AuTypeOK
  <1>3. auTrouble' \in Nat BY MishapType, ZenonT(40) DEF AuInv, readAutonomyBake
  <1>4. ASSUME NEW t \in {"RolledBack", "Paused"},
               AuGoesOn(c, [me EXCEPT !.pc = "stop", !.target = t])
        PROVE  AuInv'
    <2>1. PICK r : r = [me EXCEPT !.pc = "stop", !.target = t] OBVIOUS
    <2>2. /\ r \in RecType /\ r.pc = "stop" /\ r.seen = me.seen /\ r.planFresh = me.planFresh
          /\ r.target = t /\ r.rollout = me.rollout
      BY <1>1, <2>1, ZenonT(40) DEF RecType, AuPc, AuStates, AuStopped
    <2>3. HandOK(r)' /\ PlanOK(r)' /\ r.pc \notin PastClaim
      BY <1>1, <1>2, <2>2, SMTT(40)
      DEF HandOK, PlanOK, HandsOver, PastClaim, AuStopped, AuStates, AuTerminal
    <2>4. auHardware => BatchOK(r)' BY <1>1, <1>2, <2>2 DEF BatchOK, HandsOver, Accepted
    <2>5. AuGoesOn(c, r) BY <1>4, <2>1
    <2> QED BY <1>1, <1>2, <1>3, <2>2, <2>3, <2>4, <2>5, QuietPass, RolloutStands, ZenonT(40)
  <1>5. ASSUME NEW bad \in {0, 1},
               AuGoesOn(c, [me EXCEPT !.pc = "measured", !.rolloutFresh = TRUE,
                               !.rollout = [auRollout EXCEPT !.bake = "measured",
                                              !.failures = @ + bad]])
        PROVE  AuInv'
    <2>0. PICK f \in Nat : f = auRollout.failures + bad BY <1>2 DEF RolloutType
    <2>1. PICK q : q = [auRollout EXCEPT !.bake = "measured", !.failures = f] OBVIOUS
    <2>2. q \in RolloutType /\ q.canary = auRollout.canary /\ q.expanded = auRollout.expanded
      BY <1>2, <2>1, Zenon DEF RolloutType
    <2>3. PICK r : r = [me EXCEPT !.pc = "measured", !.rolloutFresh = TRUE, !.rollout = q] OBVIOUS
    <2>4. /\ r \in RecType /\ r.pc = "measured" /\ r.seen = me.seen
          /\ r.planFresh = me.planFresh /\ r.rollout = q
      BY <1>1, <2>2, <2>3, ZenonT(40) DEF RecType, AuPc
    <2>5. HandOK(r)' /\ PlanOK(r)' /\ r.pc \notin PastClaim
      BY Zenon, <1>1, <1>2, <2>4 DEF HandOK, PlanOK, HandsOver, PastClaim
    <2>6. auHardware => Accepted(Used(q))' BY <1>2, <2>2, ZenonT(40) DEF AuInv, Used, Accepted
    <2>7. auHardware => BatchOK(r)' BY <2>4, <2>6 DEF BatchOK, HandsOver
    <2>8. AuGoesOn(c, r) BY <1>2, <1>5, <2>0, <2>1, <2>3, SMTT(40) DEF RolloutType
    <2> QED BY <1>1, <1>2, <1>3, <2>4, <2>5, <2>7, <2>8, QuietPass, RolloutStands, ZenonT(40)
  <1>6. CASE AuGoesOn(c, BakeJudged(me, auRollout))
    <2>1. PICK r : r = BakeJudged(me, auRollout) BY SMTT(40)
    <2>2. r \in RecType BY <1>1, <1>2, <2>1, BakeJudgedType
    <2>3. r.seen = me.seen /\ r.planFresh = me.planFresh /\ r.rollout = EmptyRollout
      BY <2>1, RestingType DEF BakeJudged, RecType, AuResting
    <2>4. \/ r.pc = "stop" /\ r.target = "RolledBack"
          \/ r.pc = "move" /\ r.target \in {"Enabled", "Expanding"}
      BY <2>1, RestingType, SMTT(40) DEF BakeJudged, RecType
    <2>5. PlanOK(r)'
      BY <1>1, <1>2, <2>3, <2>4 DEF PlanOK, HandsOver, AuStopped, AuStates, AuTerminal
    <2>6. AuGoesOn(c, r) BY <1>6, <2>1
    <2> QED BY <1>1, <1>2, <1>3, <2>2, <2>3, <2>4, <2>5, <2>6, QuietPass, RolloutStands, NoBatchOK, ZenonT(40)
        DEF HandsOver
  <1>7. CASE AuGoesOn(c, AuResting) BY <1>1, <1>3, <1>7, RestingPass
  <1> QED BY <1>4, <1>5, <1>6, <1>7, Zenon DEF readAutonomyBake

LEMMA MeasureBakeStep ==
  ASSUME AuInv, NEW c \in Controller, measureAutonomyBake(c)
  PROVE  AuInv'
  <1> DEFINE me == auRec[c]
  <1>1. /\ me \in RecType /\ PlanOK(me) /\ me.pc = "measured" /\ me.seen = "Baking"
        /\ UNCHANGED <<auPlanVars, auHour, auResumes, auGhostVars, auEffect, auNote>>
        /\ auTrouble' \in Nat
        /\ auHardware => BatchOK(me)
    BY SMTT(40) DEF AuInv, AuTypeOK, measureAutonomyBake, PlanOK, auBoundVars, auGhostVars
  <1>2. UNCHANGED <<auState, auEffect>> /\ me.rollout \in RolloutType
    BY Zenon, <1>1 DEF auPlanVars, RecType
  <1>3. CASE auRollout' = me.rollout /\ SavedRollout(c, BakeJudged(me, me.rollout))
    <2>1. PICK r : r = BakeJudged(me, me.rollout) BY SMTT(40)
    <2>2. r \in RecType BY <1>1, <1>2, <2>1, BakeJudgedType
    <2>3. r.seen = me.seen /\ r.planFresh = me.planFresh /\ r.rollout = EmptyRollout
      BY <2>1, RestingType DEF BakeJudged, RecType, AuResting
    <2>4. \/ r.pc = "stop" /\ r.target = "RolledBack"
          \/ r.pc = "move" /\ r.target \in {"Enabled", "Expanding"}
      BY <2>1, RestingType, SMTT(40) DEF BakeJudged, RecType
    <2>5. PlanOK(r)'
      BY <1>1, <1>2, <2>3, <2>4 DEF PlanOK, HandsOver, AuStopped, AuStates, AuTerminal
    <2>6. SavedRollout(c, r) BY <1>3, <2>1, SMTT(40)
    <2>7. auHardware => Accepted(Used(auRollout))' BY <1>1, <1>2, <1>3, SMTT(40) DEF BatchOK, Accepted
    <2> QED BY ZenonT(40), <1>1, <1>2, <1>3, <2>2, <2>3, <2>4, <2>5, <2>6, <2>7, QuietPass, NoBatchOK
        DEF HandsOver
  <1>4. CASE UNCHANGED auRollout /\ AuGoesOn(c, AuResting)
    BY <1>1, <1>4, RestingPass
  <1> QED BY <1>3, <1>4, SMTT(40) DEF measureAutonomyBake

LEMMA MarkStep ==
  ASSUME AuInv, NEW c \in Controller, updateAutonomyRollout(c)
  PROVE  AuInv'
  <1>1. /\ SavedRollout(c, AuResting) /\ auTrouble' \in Nat
        /\ UNCHANGED <<auPlanVars, auHour, auResumes, auGhostVars, auRollout, auEffect, auNote>>
    BY DEF AuInv, AuTypeOK, updateAutonomyRollout, auBoundVars
  <1> QED BY <1>1, RestingType, AuRestingOK, QuietPass, RolloutStands, SMTT(40)

LEMMA CrashStep ==
  ASSUME AuInv, NEW c \in Controller, AuCrash(c)
  PROVE  AuInv'
  BY MishapType, RestingPass, Zenon DEF AuInv, AuCrash

LEMMA MoveStep ==
  ASSUME AuInv, NEW c \in Controller, moveAutonomyPlan(c) \/ stopAutonomyPlan(c)
  PROVE  AuInv'
  <1> DEFINE me == auRec[c]
  <1>1. /\ me \in RecType /\ PlanOK(me)
        /\ UNCHANGED <<auApproval, auExpired, auHardware, auHour, auResumes, auTrouble, auCalls,
                       auLate, auRollout, auEffect, auNote>>
    BY DEF AuInv, AuTypeOK, moveAutonomyPlan, stopAutonomyPlan, auBoundVars, auGhostVars
  <1>2. CASE me.planFresh /\ auState' = me.target /\ SavedPlan(c, [AuResting EXCEPT !.pc = "mark"])
    <2>1. PICK r : r = [AuResting EXCEPT !.pc = "mark"] BY Zenon
    <2>2. r \in RecType /\ r.pc = "mark" /\ r.planFresh = FALSE /\ r.rollout = EmptyRollout
      BY <2>1, RestingType, Zenon DEF RecType, AuPc, AuResting
    <2>3. PlanOK(r)' BY <2>2 DEF PlanOK, HandsOver
    <2>4. /\ auRec' \in [Controller -> RecType] /\ auRec'[c] = r /\ OthersAge({c})
          /\ \A d \in Controller \ {c} : ~auRec'[d].planFresh
      BY <1>2, <2>1, <2>2, SavedPlanAges, Zenon DEF AuInv
    <2>5. me.pc \in {"move", "stop"} BY DEF moveAutonomyPlan, stopAutonomyPlan
    <2>6. auState' \in AuStates BY <1>1, <1>2, <2>5 DEF PlanOK, AuStates, AuStopped
    <2>7. auState' \in AuStopped \/ auLate' = 0
      BY <1>1, <1>2, <2>5, SMTT(40) DEF PlanOK, AuInv, AuStopped, AuAdmits
    <2>8. AuTypeOK' BY <1>1, <2>4, <2>6 DEF AuInv, AuTypeOK
    <2>9. auHardware => Accepted(Used(auRollout))' BY <1>1, RolloutStands, SMTT(40)
    <2> QED BY <1>1, <2>2, <2>3, <2>4, <2>7, <2>8, <2>9, QuietStep, NoBatchOK, ZenonT(40) DEF HandsOver
  <1>3. CASE UNCHANGED auState /\ AuGoesOn(c, AuResting)
    BY <1>1, <1>3, RestingPass DEF auPlanVars, auGhostVars, AuInv, AuTypeOK
  <1> QED BY <1>2, <1>3 DEF moveAutonomyPlan, stopAutonomyPlan, movableRevision

(* Steps of people and of time: no controller moves. *)
LEMMA FromOutside ==
  ASSUME AuInv, UNCHANGED <<auHardware, auRollout, auEffect, auCalls>>,
         auState' \in AuStates, auExpired' \in BOOLEAN, auNote' \in BOOLEAN,
         auHour' \in Nat, auResumes' \in Nat, auTrouble' \in Nat,
         \/ auRec' = auRec /\ auState' = auState
         \/ auRec' = [c \in Controller |-> [auRec[c] EXCEPT !.planFresh = FALSE]]
         \/ auRec' = [c \in Controller |-> [auRec[c] EXCEPT !.rolloutFresh = FALSE]] /\ auState' = auState,
         auLate' \in {0, auLate}, auState' \in AuStopped \/ auLate' = 0
  PROVE  AuInv'
  <1>1. ASSUME NEW r \in RecType
        PROVE  LET s == [r EXCEPT !.planFresh = FALSE]
                   t == [r EXCEPT !.rolloutFresh = FALSE]
               IN  s \in RecType /\ t \in RecType /\ ~s.planFresh /\ Ages(r, s) /\ Ages(r, t) /\ Ages(r, r)
    BY <1>1, Zenon DEF RecType, Ages
  <1>2. \A d \in Controller : auRec[d] \in RecType BY DEF AuInv, AuTypeOK
  <1>3. /\ auRec' \in [Controller -> RecType] /\ OthersAge({})
        /\ auState' = auState \/ \A d \in Controller : ~auRec'[d].planFresh
    <2>1. CASE auRec' = auRec /\ auState' = auState
      BY <1>1, <1>2, <2>1, Zenon DEF AuInv, AuTypeOK, OthersAge
    <2>2. CASE auRec' = [c \in Controller |-> [auRec[c] EXCEPT !.planFresh = FALSE]]
      <3>1. \A d \in Controller : auRec'[d] \in RecType /\ ~auRec'[d].planFresh /\ Ages(auRec[d], auRec'[d])
        BY <1>1, <1>2, <2>2, Zenon
      <3>2. auRec' = [d \in Controller |-> auRec'[d]] BY <2>2, Zenon
      <3> QED BY <3>1, <3>2 DEF OthersAge
    <2>3. CASE auRec' = [c \in Controller |-> [auRec[c] EXCEPT !.rolloutFresh = FALSE]] /\ auState' = auState
      <3>1. \A d \in Controller : auRec'[d] \in RecType /\ Ages(auRec[d], auRec'[d])
        BY <1>1, <1>2, <2>3, Zenon
      <3>2. auRec' = [d \in Controller |-> auRec'[d]] BY <2>3, Zenon
      <3> QED BY <2>3, <3>1, <3>2 DEF OthersAge
    <2> QED BY <2>1, <2>2, <2>3
  <1>4. AuTypeOK' BY <1>3 DEF AuInv, AuTypeOK
  <1>5. auHardware => Accepted(Used(auRollout))' BY RolloutStands
  <1> QED BY <1>3, <1>4, <1>5, QuietStep

LEMMA OutsideStep ==
  ASSUME AuInv,
         \/ noteRollout \/ AttachSimulation \/ PauseAutonomyPlan \/ RollbackAutonomyPlan
         \/ ResumeAutonomyPlan \/ PlanExpiryElapses \/ AnHourPasses
         \/ \E p \in Person, r \in Role : ApproveAutonomyPlan(p, r)
  PROVE  AuInv'
  <1> USE DEF auPlanVars, auBoundVars, auGhostVars
  <1>0. auTrouble \in Nat /\ auHour \in Nat /\ auResumes \in Nat /\ auState \in AuStates
        /\ auExpired \in BOOLEAN /\ auNote \in BOOLEAN
        /\ (auState \notin AuStopped => auLate = 0)
    BY DEF AuInv, AuTypeOK
  <1>1. CASE noteRollout
    <2>1. auTrouble' \in Nat BY <1>0, <1>1 DEF noteRollout, AuMishap
    <2> QED BY <1>0, <1>1, <2>1, FromOutside, Zenon DEF noteRollout
  <1>2. CASE AttachSimulation \/ PauseAutonomyPlan \/ RollbackAutonomyPlan
    <2>1. auNote' \in BOOLEAN BY <1>0, <1>2, Zenon DEF AttachSimulation, PauseAutonomyPlan, RollbackAutonomyPlan, PersonSaves
    <2> QED BY <1>0, <1>2, <2>1, FromOutside
      DEF AttachSimulation, PauseAutonomyPlan, RollbackAutonomyPlan, PersonSaves, AuStates, AuStopped
  <1>3. CASE ResumeAutonomyPlan
    <2>1. auNote' \in BOOLEAN BY <1>0, <1>3 DEF ResumeAutonomyPlan, PersonSaves
    <2> QED BY <1>0, <1>3, <2>1, FromOutside DEF ResumeAutonomyPlan, PersonSaves, AuStates
  <1>4. CASE PlanExpiryElapses BY <1>0, <1>4, FromOutside DEF PlanExpiryElapses
  <1>5. CASE AnHourPasses BY <1>0, <1>5, FromOutside DEF AnHourPasses
  <1>6. ASSUME NEW p \in Person, NEW r \in Role, ApproveAutonomyPlan(p, r) PROVE AuInv'
    BY <1>0, <1>6, FromOutside DEF ApproveAutonomyPlan, AuStates, AuStopped
  <1> QED BY <1>1, <1>2, <1>3, <1>4, <1>5, <1>6, SMTT(40)

(* Two controllers past their claims: the one further on has the other's   *)
(* node accepted, yet that node is executing; so they are on one node.     *)
LEMMA OneAtATime ==
  ASSUME AuInv, NEW c \in Controller, NEW d \in Controller,
         auRec[c].pc \in PastClaim, auRec[d].pc \in PastClaim
  PROVE  c = d
  <1>1. ASSUME NEW e \in Controller, auRec[e].pc \in PastClaim
        PROVE  /\ Current(auRec[e]) \in AuNode /\ auEffect[Current(auRec[e])] = "executing"
               /\ \A x \in AuNode : x < Current(auRec[e]) => auEffect[x] = "accepted"
    <2>1. auRec[e] \in RecType /\ auRec[e].todo # {} /\ auHardware
      BY ZenonT(40), <1>1 DEF AuInv, AuTypeOK, HandOK, PastClaim, HandsOver
    <2>2. /\ Current(auRec[e]) \in auRec[e].todo /\ Current(auRec[e]) \in AuNode
          /\ \A y \in auRec[e].todo : Current(auRec[e]) <= y
      BY Zenon, <2>1, CurrentIsLeast
    <2>3. InOrder(auRec[e].todo) BY <1>1, <2>1, ZenonT(40) DEF AuInv, BatchOK, PastClaim, HandsOver
    <2>4. ASSUME NEW x \in AuNode, x < Current(auRec[e]) PROVE auEffect[x] = "accepted"
      <3>0. x \in Nat /\ Current(auRec[e]) \in Nat BY <2>2, AutonomyAssumption, Zenon
      <3>1. x \notin auRec[e].todo BY <2>2, <2>4, <3>0, SMTT(40)
      <3> QED BY <2>2, <2>3, <2>4, <3>1 DEF InOrder
    <2>5. auEffect[Current(auRec[e])] = "executing" BY <1>1 DEF AuInv, HandOK
    <2> QED BY <2>2, <2>4, <2>5, ZenonT(40)
  <1>2. ~(Current(auRec[c]) < Current(auRec[d])) /\ ~(Current(auRec[d]) < Current(auRec[c]))
    BY <1>1
  <1>a. Current(auRec[c]) \in Nat /\ Current(auRec[d]) \in Nat BY <1>1, AutonomyAssumption, Zenon
  <1>3. Current(auRec[c]) = Current(auRec[d]) BY <1>2, <1>a
  <1> QED BY <1>3, Zenon DEF AuInv

(* A step that writes the effect record of the node being handed over. *)
LEMMA EffectStep ==
  ASSUME AuInv, AuTypeOK', NEW c \in Controller, NEW n \in AuNode, NEW v,
         OthersAge({c}), auEffect' = [auEffect EXCEPT ![n] = v], auEffect[n] # "accepted",
         UNCHANGED <<auHardware, auCalls, auState, auLate, auRollout>>,
         \A d \in Controller \ {c} :
            /\ auRec'[d].pc = "claim" /\ Current(auRec'[d]) = n => ~auRec'[d].effectFresh
            /\ auRec[d].pc \in PastClaim => Current(auRec[d]) # n,
         v \in {"none", "admitted"} => auCalls[n] = 0,
         auHardware => BatchOK(auRec[c])', HandOK(auRec[c])', PlanOK(auRec[c])',
         auRec'[c].pc \in PastClaim => Current(auRec'[c]) = n,
         auRec'[c].pc = "call" => auLate = 0
  PROVE  AuInv'
  <1>0. /\ auEffect \in [AuNode -> AuEffects] /\ auRollout \in RolloutType
        /\ \A d \in Controller : auRec[d] \in RecType
    BY Zenon DEF AuInv, AuTypeOK
  <1>1. \A x \in AuNode : auEffect[x] = "accepted" => auEffect'[x] = "accepted" BY <1>0, Zenon
  <1>2. auHardware' => \A d \in Controller : BatchOK(auRec[d])' BY <1>1, OthersKeepBatch, Zenon
  <1>3. auHardware' => Accepted(Used(auRollout))'
    BY <1>0, <1>1, Zenon DEF AuInv, Accepted, Used, RolloutType
  <1>4. ASSUME NEW d \in Controller \ {c} PROVE HandOK(auRec[d])'
    <2>1. HandOK(auRec[d]) BY Zenon DEF AuInv
    <2>2. Ages(auRec[d], auRec'[d]) BY ZenonT(40) DEF OthersAge
    <2>3. Current(auRec[d])' = Current(auRec[d]) BY <2>2 DEF Ages, Current
    <2>4. auRec'[d].pc \in HandsOver => Current(auRec[d]) \in AuNode
      BY <1>0, <2>1, <2>2, CurrentIsLeast, Zenon DEF HandOK, Ages
    <2>5. CASE Current(auRec[d]) = n
      BY <2>1, <2>2, <2>3, <2>5, Zenon DEF HandOK, Ages, PastClaim
    <2>6. CASE Current(auRec[d]) # n
      BY <1>0, <2>1, <2>2, <2>3, <2>4, <2>6, ZenonT(40) DEF HandOK, Ages, PastClaim, HandsOver
    <2> QED BY <2>5, <2>6, Zenon
  <1>5. \A d \in Controller : PlanOK(auRec[d])' BY OthersKeepPlan
  <1>6. ASSUME NEW a \in Controller, NEW b \in Controller,
               auRec'[a].pc \in PastClaim, auRec'[b].pc \in PastClaim,
               Current(auRec[a])' = Current(auRec[b])'
        PROVE  a = b
    <2>1. ASSUME NEW d \in Controller \ {c}, auRec'[d].pc \in PastClaim
          PROVE  auRec[d].pc \in PastClaim /\ Current(auRec[d])' = Current(auRec[d]) /\ Current(auRec[d])' # n
      BY <2>1, ZenonT(40) DEF OthersAge, Ages, Current
    <2> QED BY <1>6, <2>1, Zenon DEF AuInv
  <1>7. \A x \in AuNode : auCalls'[x] <= 1 /\ (auEffect'[x] \in {"none", "admitted"} => auCalls'[x] = 0)
    BY ZenonT(40), <1>0 DEF AuInv
  <1>8. ASSUME auLate' = 1, NEW d \in Controller PROVE auRec'[d].pc # "call"
    <2>1. auLate = 1 /\ auLate # 0 BY <1>8
    <2>2. auRec[d].pc # "call" BY <2>1, ZenonT(40) DEF AuInv
    <2>3. CASE d = c BY <2>1, <2>3
    <2>4. CASE d # c BY <2>2, <2>4, Zenon DEF OthersAge, Ages
    <2> QED BY <2>3, <2>4, SMTT(40)
  <1> QED BY <1>2, <1>3, <1>4, <1>5, <1>6, <1>7, <1>8, ZenonT(40) DEF AuInv

LEMMA LoadStep ==
  ASSUME AuInv, NEW c \in Controller, loadAutonomyEffect(c)
  PROVE  AuInv'
  <1> DEFINE me == auRec[c]
  <1>1. /\ me \in RecType /\ PlanOK(me) /\ me.pc = "effect" /\ me.todo # {} /\ me.seen \in AuAdmits
        /\ auHardware /\ BatchOK(me)
        /\ UNCHANGED <<auPlanVars, auHour, auResumes, auGhostVars, auRollout, auNote>>
    BY DEF AuInv, AuTypeOK, loadAutonomyEffect, PlanOK, HandOK, HandsOver
  <1>2. UNCHANGED <<auState, auHardware, auCalls, auLate, auRollout>>
    BY <1>1 DEF auPlanVars, auGhostVars
  <1>3. auTrouble' \in Nat BY MishapType DEF AuInv, loadAutonomyEffect
  <1>4. PICK n : n = Current(me) BY SMTT(40)
  <1>5. n \in AuNode /\ n \in me.todo BY <1>1, <1>4, CurrentIsLeast
  <1>6. ASSUME NEW r \in RecType, r = [me EXCEPT !.pc = "claim", !.effectFresh = TRUE]
        PROVE  /\ r.pc = "claim" /\ r.seen = me.seen /\ r.planFresh = me.planFresh
               /\ r.rollout = me.rollout /\ r.batch = me.batch /\ r.todo = me.todo
    BY <1>1, <1>6 DEF RecType
  <1>7. ASSUME NEW r \in RecType, r = [me EXCEPT !.pc = "fail"]
        PROVE  /\ r.pc = "fail" /\ r.seen = me.seen /\ r.planFresh = me.planFresh
               /\ r.rollout = me.rollout
    BY <1>1, <1>7 DEF RecType
  <1>8. /\ [me EXCEPT !.pc = "claim", !.effectFresh = TRUE] \in RecType
        /\ [me EXCEPT !.pc = "fail"] \in RecType
    BY <1>1, Zenon DEF RecType, AuPc
  <1>9. CASE auEffect[n] = "none" /\ auEffect' = [auEffect EXCEPT ![n] = "admitted"]
    <2>1. auEffect' \in [AuNode -> AuEffects] BY <1>9, Zenon DEF AuInv, AuTypeOK, AuEffects
    <2>2. PICK r \in RecType : /\ AuGoesOn(c, r)
                               /\ \/ r = [me EXCEPT !.pc = "claim", !.effectFresh = TRUE]
                                  \/ r = [me EXCEPT !.pc = "fail"]
      BY <1>4, <1>8, <1>9 DEF loadAutonomyEffect, dispatchable
    <2>3. auRec' \in [Controller -> RecType] /\ auRec'[c] = r /\ OthersAge({c})
      BY <2>2, GoesOnAges DEF AuInv
    <2>4. AuTypeOK' BY <1>1, <1>3, <2>1, <2>3, ZenonT(40) DEF AuInv, AuTypeOK, auPlanVars, auGhostVars
    <2>5. ASSUME NEW d \in Controller \ {c}
          PROVE  /\ auRec'[d].pc = "claim" /\ Current(auRec'[d]) = n => ~auRec'[d].effectFresh
                 /\ auRec[d].pc \in PastClaim => Current(auRec[d]) # n
      <3>1. HandOK(auRec[d]) BY Zenon DEF AuInv
      <3>2. Ages(auRec[d], auRec'[d]) BY <2>3 DEF OthersAge
      <3> QED BY <1>9, <3>1, <3>2 DEF HandOK, Ages, Current
    <2>6. auCalls[n] = 0 BY <1>5, <1>9, ZenonT(40) DEF AuInv
    <2>7. auEffect \in [AuNode -> AuEffects] /\ auEffect'[n] = "admitted"
      BY <1>5, <1>9 DEF AuInv, AuTypeOK
    <2>8. \A x \in AuNode : auEffect[x] = "accepted" => auEffect'[x] = "accepted"
      BY <1>9, <2>7
    <2>9. HandOK(r)' /\ PlanOK(r)' /\ r.pc \notin PastClaim
      <3>1. CASE r = [me EXCEPT !.pc = "claim", !.effectFresh = TRUE]
        <4>1. Current(r) = n BY <1>4, <1>6, <3>1 DEF Current
        <4> QED BY <1>1, <1>2, <1>6, <2>7, <3>1, <4>1, SMTT(40) DEF HandOK, PlanOK, HandsOver, PastClaim
      <3>2. CASE r = [me EXCEPT !.pc = "fail"]
        BY <1>1, <1>2, <1>7, <3>2, SMTT(40) DEF HandOK, PlanOK, HandsOver, PastClaim
      <3> QED BY <2>2, <3>1, <3>2
    <2>10. BatchOK(r)'
      <3>1. me.todo \subseteq AuNode /\ me.batch \subseteq AuNode /\ Used(me.rollout) \subseteq AuNode
        BY Zenon, <1>1 DEF RecType, RolloutType, Used
      <3>2. r.rollout = me.rollout /\ (r.pc = "fail" \/ (r.pc = "claim" /\ r.todo = me.todo /\ r.batch = me.batch))
        BY <1>6, <1>7, <2>2
      <3>3. Accepted(Used(r.rollout))' BY <1>1, <2>8, <3>1, <3>2, ZenonT(40) DEF BatchOK, Accepted
      <3>4. r.pc = "claim" => InOrder(r.todo)' /\ Accepted(r.batch \ r.todo)'
        BY <1>1, <2>8, <3>1, <3>2, ZenonT(40) DEF BatchOK, Accepted, InOrder, HandsOver
      <3> QED BY <3>2, <3>3, <3>4, SMTT(40) DEF BatchOK, HandsOver
    <2> QED BY <1>2, <1>5, <1>9, <2>3, <2>4, <2>5, <2>6, <2>9, <2>10, EffectStep, ZenonT(40) DEF PastClaim
  <1>10. CASE UNCHANGED auEffect /\ dispatchable(auEffect[n])
              /\ AuGoesOn(c, [me EXCEPT !.pc = "claim", !.effectFresh = TRUE])
    <2>1. PICK r \in RecType : r = [me EXCEPT !.pc = "claim", !.effectFresh = TRUE] BY <1>8, SMTT(40)
    <2>2. Current(r) = n BY <1>4, <1>6, <2>1 DEF Current
    <2>3. HandOK(r)' /\ PlanOK(r)' /\ r.pc \notin PastClaim
      BY <1>1, <1>2, <1>6, <1>10, <2>1, <2>2, SMTT(40) DEF HandOK, PlanOK, HandsOver, PastClaim, dispatchable
    <2>4. BatchOK(r)' BY <1>1, <1>6, <1>10, <2>1 DEF BatchOK, Accepted, InOrder, HandsOver
    <2> QED BY <1>1, <1>2, <1>3, <1>10, <2>1, <2>3, <2>4, QuietPass, RolloutStands, ZenonT(40)
  <1>11. CASE UNCHANGED auEffect /\ auEffect[n] = "accepted" /\ AuGoesOn(c, NextTarget(me))
    <2>1. PICK r : r = NextTarget(me) OBVIOUS
    <2>2. /\ r \in RecType /\ r.pc = "target" /\ r.todo = me.todo \ {n} /\ r.batch = me.batch
          /\ r.rollout = me.rollout /\ r.seen = me.seen /\ r.planFresh = me.planFresh
      BY <1>1, <1>4, <2>1, Zenon DEF NextTarget, RecType, AuPc
    <2>3. HandOK(r)' /\ PlanOK(r)' /\ r.pc \notin PastClaim
      BY <1>1, <1>2, <2>2, Zenon DEF HandOK, PlanOK, HandsOver, PastClaim
    <2>4. BatchOK(r)'
      BY <1>1, <1>11, <2>2, Zenon DEF BatchOK, Accepted, InOrder, HandsOver
    <2> QED BY <1>1, <1>2, <1>3, <1>11, <2>1, <2>2, <2>3, <2>4, QuietPass, RolloutStands, ZenonT(40)
  <1>12. CASE UNCHANGED auEffect /\ AuGoesOn(c, [me EXCEPT !.pc = "fail"])
    <2>1. PICK r \in RecType : r = [me EXCEPT !.pc = "fail"] BY <1>8, SMTT(40)
    <2>2. HandOK(r)' /\ PlanOK(r)' /\ r.pc \notin PastClaim
      BY <1>1, <1>2, <1>7, <2>1 DEF HandOK, PlanOK, HandsOver, PastClaim
    <2>3. BatchOK(r)' BY <1>1, <1>7, <1>12, <2>1, SMTT(40) DEF BatchOK, Accepted, HandsOver
    <2> QED BY <1>1, <1>2, <1>3, <1>12, <2>1, <2>2, <2>3, QuietPass, RolloutStands, ZenonT(40)
  <1> QED BY <1>4, <1>9, <1>10, <1>11, <1>12, SMTT(40) DEF loadAutonomyEffect

(* A controller that goes on with its node, or fails on it. *)
LEMMA SameNode ==
  ASSUME AuInv, NEW c \in Controller, auRec[c].pc \in HandsOver, NEW r \in RecType,
         r.pc \in HandsOver \cup {"fail"}, r.rollout = auRec[c].rollout, r.batch = auRec[c].batch,
         r.todo = auRec[c].todo, r.seen = auRec[c].seen, r.planFresh = auRec[c].planFresh,
         auState' = auState,
         \A n \in AuNode : auEffect[n] = "accepted" => auEffect'[n] = "accepted"
  PROVE  BatchOK(r)' /\ PlanOK(r)' /\ Current(r) = Current(auRec[c])
  <1> DEFINE me == auRec[c]
  <1>1. me \in RecType /\ PlanOK(me) /\ BatchOK(me)
    BY Zenon DEF AuInv, AuTypeOK, HandOK
  <1>2. me.todo \subseteq AuNode /\ me.batch \subseteq AuNode /\ Used(me.rollout) \subseteq AuNode
    BY <1>1, Zenon DEF RecType, RolloutType, Used
  <1>3. Accepted(Used(r.rollout))' BY <1>1, <1>2, Zenon DEF BatchOK, Accepted
  <1>4. InOrder(r.todo)' /\ Accepted(r.batch \ r.todo)'
    BY <1>1, <1>2, Zenon DEF BatchOK, Accepted, InOrder, HandsOver
  <1>5. BatchOK(r)' BY <1>3, <1>4, Zenon DEF BatchOK, HandsOver
  <1>6. PlanOK(r)' BY <1>1, Zenon DEF PlanOK, HandsOver
  <1> QED BY <1>5, <1>6 DEF Current

LEMMA ClaimStep ==
  ASSUME AuInv, NEW c \in Controller, claimAutonomyEffect(c)
  PROVE  AuInv'
  <1> DEFINE me == auRec[c]
  <1>1. /\ me \in RecType /\ me.pc = "claim" /\ me.pc \in HandsOver /\ me.todo # {}
        /\ HandOK(me) /\ auHardware
        /\ UNCHANGED <<auPlanVars, auHour, auResumes, auGhostVars, auRollout, auNote>>
    BY SMTT(40) DEF AuInv, AuTypeOK, claimAutonomyEffect, HandOK, HandsOver
  <1>2. UNCHANGED <<auState, auHardware, auCalls, auLate, auRollout>>
    BY <1>1 DEF auPlanVars, auGhostVars
  <1>3. auTrouble' \in Nat BY MishapType, SMTT(40) DEF AuInv, claimAutonomyEffect
  <1>4. PICK n : n = Current(me) OBVIOUS
  <1>5. n \in AuNode BY Zenon, <1>1, <1>4, CurrentIsLeast
  <1>6. ASSUME NEW p \in {"fence", "fail"}, NEW r, r = [me EXCEPT !.pc = p]
        PROVE  /\ r \in RecType /\ r.pc = p /\ r.seen = me.seen /\ r.planFresh = me.planFresh
               /\ r.rollout = me.rollout /\ r.batch = me.batch /\ r.todo = me.todo
    BY <1>1, <1>6 DEF RecType, AuPc
  <1>7. ASSUME NEW p \in {"fence", "fail"}, me.effectFresh,
               auEffect' = [auEffect EXCEPT ![n] = "executing"],
               SavedEffect(c, [me EXCEPT !.pc = p], n)
        PROVE  AuInv'
    <2>1. PICK r : r = [me EXCEPT !.pc = p] BY Zenon
    <2>2. /\ r \in RecType /\ r.pc = p /\ r.seen = me.seen /\ r.planFresh = me.planFresh
          /\ r.rollout = me.rollout /\ r.batch = me.batch /\ r.todo = me.todo
      BY <1>6, <2>1
    <2>3. /\ auRec' \in [Controller -> RecType] /\ auRec'[c] = r /\ OthersAge({c})
          /\ \A d \in Controller \ {c} :
               auRec'[d].pc = "claim" /\ Current(auRec'[d]) = n => ~auRec'[d].effectFresh
      <3>1. r \in RecType BY <2>2
      <3>2. SavedEffect(c, r, n) BY <1>7, <2>1, SMTT(40)
      <3>3. AuTypeOK BY Zenon DEF AuInv
      <3> HIDE DEF me
      <3> QED BY <3>1, <3>2, <3>3, SavedEffectAges, SMTT(40)
    <2>4. auEffect \in [AuNode -> AuEffects] /\ auEffect[n] = "admitted"
      BY <1>1, <1>4, <1>7 DEF AuInv, AuTypeOK, HandOK
    <2>5. auEffect' \in [AuNode -> AuEffects] /\ auEffect'[n] = "executing"
      BY <1>5, <1>7, <2>4 DEF AuEffects
    <2>6. AuTypeOK' BY <1>1, <1>3, <2>3, <2>5, ZenonT(40) DEF AuInv, AuTypeOK, auPlanVars, auGhostVars
    <2>7. \A x \in AuNode : auEffect[x] = "accepted" => auEffect'[x] = "accepted" BY <1>7, <2>4
    <2>8. BatchOK(r)' /\ PlanOK(r)' /\ Current(r) = n
      BY <1>1, <1>2, <1>4, <2>2, <2>7, SameNode, ZenonT(40) DEF HandsOver
    <2>9. auCalls[n] = 0 BY <1>5, <2>4 DEF AuInv
    <2>10. HandOK(r)' BY <1>1, <1>2, <2>2, <2>5, <2>8, <2>9, ZenonT(40) DEF HandOK, HandsOver, PastClaim
    <2>11. \A d \in Controller \ {c} : auRec[d].pc \in PastClaim => Current(auRec[d]) # n
      BY <2>4, Zenon DEF AuInv, HandOK
    <2> QED BY <1>2, <1>5, <1>7, <2>2, <2>3, <2>4, <2>6, <2>8, <2>10, <2>11, EffectStep, ZenonT(40)
  <1>8. CASE UNCHANGED auEffect /\ AuGoesOn(c, [me EXCEPT !.pc = "fail"])
    <2>1. PICK r : r = [me EXCEPT !.pc = "fail"] BY Zenon
    <2>2. /\ r \in RecType /\ r.pc = "fail" /\ r.seen = me.seen /\ r.planFresh = me.planFresh
          /\ r.rollout = me.rollout /\ r.batch = me.batch /\ r.todo = me.todo
      BY <1>6, <2>1
    <2>3. BatchOK(r)' /\ PlanOK(r)' BY <1>1, <1>2, <1>8, <2>2, SameNode, SMTT(40)
    <2>4. HandOK(r)' /\ r.pc \notin PastClaim BY <2>2 DEF HandOK, HandsOver, PastClaim
    <2> QED BY <1>1, <1>2, <1>3, <1>8, <2>1, <2>2, <2>3, <2>4, QuietPass, RolloutStands, ZenonT(40)
  <1> QED BY <1>4, <1>7, <1>8, SMTT(40) DEF claimAutonomyEffect, claimOK

LEMMA FenceStep ==
  ASSUME AuInv, NEW c \in Controller, fenceAutonomyEffect(c)
  PROVE  AuInv'
  <1> DEFINE me == auRec[c]
  <1>1. /\ me \in RecType /\ me.pc = "fence" /\ me.pc \in HandsOver /\ me.pc \in PastClaim
        /\ me.todo # {} /\ HandOK(me) /\ auHardware
        /\ UNCHANGED <<auPlanVars, auHour, auResumes, auGhostVars, auRollout, auNote>>
    BY DEF AuInv, AuTypeOK, fenceAutonomyEffect, HandOK, HandsOver, PastClaim
  <1>2. UNCHANGED <<auState, auHardware, auCalls, auLate, auRollout>>
    BY <1>1 DEF auPlanVars, auGhostVars
  <1>3. auTrouble' \in Nat BY MishapType DEF AuInv, fenceAutonomyEffect
  <1>4. PICK n : n = Current(me) OBVIOUS
  <1>5. n \in AuNode BY <1>1, <1>4, CurrentIsLeast
  <1>6. auEffect \in [AuNode -> AuEffects] /\ auEffect[n] = "executing" /\ auCalls[n] = 0
    BY <1>1, <1>4, Zenon DEF AuInv, AuTypeOK, HandOK
  <1>7. PICK p \in {"call", "fail"}, v \in {"executing", "blocked"} :
           /\ AuGoesOn(c, [me EXCEPT !.pc = p]) /\ auEffect' = [auEffect EXCEPT ![n] = v]
           /\ p = "call" => auState \in AuAdmits /\ v = "executing"
    BY <1>4, <1>6 DEF fenceAutonomyEffect, ensureAutonomyEffectEnvelope
  <1>8. PICK r : r = [me EXCEPT !.pc = p] BY Zenon
  <1>9. /\ r \in RecType /\ r.pc = p /\ r.seen = me.seen /\ r.planFresh = me.planFresh
        /\ r.rollout = me.rollout /\ r.batch = me.batch /\ r.todo = me.todo
    BY <1>1, <1>8 DEF RecType, AuPc
  <1>10. auRec' \in [Controller -> RecType] /\ auRec'[c] = r /\ OthersAge({c})
    BY <1>7, <1>8, <1>9, GoesOnAges DEF AuInv
  <1>11. auEffect' \in [AuNode -> AuEffects] /\ auEffect'[n] = v BY <1>5, <1>6, <1>7 DEF AuEffects
  <1>12. AuTypeOK' BY <1>1, <1>3, <1>10, <1>11, ZenonT(40) DEF AuInv, AuTypeOK, auPlanVars, auGhostVars
  <1>13. \A x \in AuNode : auEffect[x] = "accepted" => auEffect'[x] = "accepted" BY <1>6, <1>7
  <1>14. BatchOK(r)' /\ PlanOK(r)' /\ Current(r) = n
    BY <1>1, <1>2, <1>4, <1>9, <1>13, SameNode, ZenonT(40) DEF HandsOver
  <1>15. HandOK(r)'
    BY <1>1, <1>2, <1>6, <1>7, <1>9, <1>11, <1>14, SMTT(40) DEF HandOK, HandsOver, PastClaim
  <1>16. \A d \in Controller \ {c} :
            /\ auRec'[d].pc = "claim" /\ Current(auRec'[d]) = n => ~auRec'[d].effectFresh
            /\ auRec[d].pc \in PastClaim => Current(auRec[d]) # n
    <2> SUFFICES ASSUME NEW d \in Controller \ {c}
                 PROVE  /\ auRec'[d].pc = "claim" /\ Current(auRec'[d]) = n => ~auRec'[d].effectFresh
                        /\ auRec[d].pc \in PastClaim => Current(auRec[d]) # n
      BY Zenon
    <2>1. HandOK(auRec[d]) /\ Ages(auRec[d], auRec'[d]) BY <1>10, Zenon DEF AuInv, OthersAge
    <2>2. auRec[d].pc \in PastClaim => Current(auRec[d]) # n BY <1>1, <1>4, Zenon DEF AuInv
    <2> QED BY <1>6, <2>1, <2>2, Zenon DEF HandOK, Ages, Current
  <1>17. r.pc = "call" => auLate = 0 BY <1>7, <1>9 DEF AuInv, AuAdmits, AuStopped
  <1> QED BY <1>2, <1>5, <1>6, <1>7, <1>9, <1>10, <1>12, <1>14, <1>15, <1>16, <1>17, EffectStep, ZenonT(40)

LEMMA ExecuteStep ==
  ASSUME AuInv, NEW c \in Controller, autonomyExecute(c)
  PROVE  AuInv'
  <1> DEFINE me == auRec[c]
  <1>1. /\ me \in RecType /\ me.pc = "call" /\ me.pc \in HandsOver /\ me.pc \in PastClaim
        /\ me.todo # {} /\ HandOK(me) /\ auHardware
        /\ UNCHANGED <<auPlanVars, auHour, auResumes, auRollout, auEffect, auNote>>
    BY DEF AuInv, AuTypeOK, autonomyExecute, HandOK, HandsOver, PastClaim
  <1>2. UNCHANGED <<auState, auHardware, auEffect, auRollout>> BY <1>1 DEF auPlanVars
  <1>3. auTrouble' \in Nat BY MishapType, SMTT(40) DEF AuInv, autonomyExecute
  <1>4. PICK n : n = Current(me) OBVIOUS
  <1>5. n \in AuNode BY <1>1, <1>4, CurrentIsLeast
  <1>6. auCalls \in [AuNode -> Nat] /\ auCalls[n] = 0 /\ auEffect[n] = "executing"
    BY <1>1, <1>4, Zenon DEF AuInv, AuTypeOK, HandOK, PastClaim
  <1>7. auCalls' = [auCalls EXCEPT ![n] = 1] BY <1>4, <1>6 DEF autonomyExecute
  <1>8. PICK t \in {"accepted", "failed"} : AuGoesOn(c, [me EXCEPT !.pc = "record", !.target = t])
    BY DEF autonomyExecute
  <1>9. PICK r : r = [me EXCEPT !.pc = "record", !.target = t] OBVIOUS
  <1>10. /\ r \in RecType /\ r.pc = "record" /\ r.seen = me.seen /\ r.planFresh = me.planFresh
         /\ r.rollout = me.rollout /\ r.batch = me.batch /\ r.todo = me.todo /\ r.target = t
    BY <1>1, <1>9, Zenon DEF RecType, AuPc
  <1>11. auRec' \in [Controller -> RecType] /\ auRec'[c] = r /\ OthersAge({c})
    BY <1>8, <1>9, <1>10, GoesOnAges DEF AuInv
  <1>12. BatchOK(r)' /\ PlanOK(r)' /\ Current(r) = n
    BY <1>1, <1>2, <1>4, <1>10, SameNode, Zenon DEF HandsOver
  <1>13. HandOK(r)' BY <1>1, <1>2, <1>6, <1>10, <1>12, ZenonT(40) DEF HandOK, HandsOver, PastClaim
  <1>14. \A d \in Controller \ {c} : auRec[d].pc \notin PastClaim BY <1>1, OneAtATime, ZenonT(40)
  <1>15. \A d \in Controller \ {c} : auRec'[d].pc \notin PastClaim
    BY <1>11, <1>14 DEF OthersAge, Ages
  <1>16. auLate = 0
    <2>1. auLate # 1 BY <1>1, Zenon DEF AuInv
    <2>2. auLate \in Nat /\ auLate <= 1 BY Zenon DEF AuInv, AuTypeOK
    <2> QED BY <2>1, <2>2
  <1>17. auLate' \in Nat /\ auLate' <= 1 /\ (auState' \notin AuStopped => auLate' = 0)
    BY <1>2, <1>16 DEF autonomyExecute
  <1>18. auCalls' \in [AuNode -> Nat] BY <1>6, <1>7, Zenon
  <1>19. AuTypeOK' BY <1>1, <1>3, <1>11, <1>17, <1>18, ZenonT(40) DEF AuInv, AuTypeOK, auPlanVars
  <1>20. auHardware' => \A d \in Controller : BatchOK(auRec[d])'
    BY <1>2, <1>11, <1>12, OthersKeepBatch
  <1>21. ASSUME NEW d \in Controller \ {c} PROVE HandOK(auRec[d])'
    <2>1. HandOK(auRec[d]) /\ Ages(auRec[d], auRec'[d]) BY <1>11, Zenon DEF AuInv, OthersAge
    <2> QED BY <1>2, <1>15, <2>1, Zenon DEF HandOK, Ages, Current, PastClaim
  <1>22. \A d \in Controller : PlanOK(auRec[d])' BY <1>2, <1>11, <1>12, OthersKeepPlan, SMTT(40)
  <1>23. \A x \in AuNode : auCalls'[x] <= 1 /\ (auEffect'[x] \in {"none", "admitted"} => auCalls'[x] = 0)
    BY <1>2, <1>6, <1>7, SMTT(40) DEF AuInv
  <1>24. \A d \in Controller : auRec'[d].pc # "call" BY <1>10, <1>11, <1>15 DEF PastClaim
  <1>25. auHardware' => Accepted(Used(auRollout))' BY <1>2, RolloutStands
  <1> QED
    BY <1>11, <1>13, <1>15, <1>17, <1>19, <1>20, <1>21, <1>22, <1>23, <1>24, <1>25, ZenonT(40) DEF AuInv

LEMMA RecordStep ==
  ASSUME AuInv, NEW c \in Controller, recordAutonomyEffect(c)
  PROVE  AuInv'
  <1> DEFINE me == auRec[c]
  <1>1. /\ me \in RecType /\ me.pc = "record" /\ me.pc \in HandsOver /\ me.pc \in PastClaim
        /\ me.todo # {} /\ HandOK(me) /\ PlanOK(me) /\ BatchOK(me) /\ auHardware
        /\ me.target \in {"accepted", "failed"}
        /\ UNCHANGED <<auPlanVars, auHour, auResumes, auGhostVars, auRollout, auNote>>
    BY SMTT(40) DEF AuInv, AuTypeOK, recordAutonomyEffect, HandOK, HandsOver, PastClaim
  <1>2. UNCHANGED <<auState, auHardware, auCalls, auLate, auRollout>>
    BY <1>1 DEF auPlanVars, auGhostVars
  <1>3. auTrouble' \in Nat BY MishapType, SMTT(40) DEF AuInv, recordAutonomyEffect
  <1>4. PICK n : n = Current(me) OBVIOUS
  <1>5. n \in AuNode /\ n \in me.todo BY <1>1, <1>4, CurrentIsLeast
  <1>6. auEffect \in [AuNode -> AuEffects] /\ auEffect[n] = "executing"
    BY <1>1, <1>4, Zenon DEF AuInv, AuTypeOK, HandOK
  <1>7a. PICK v \in {"executing", me.target} : \E r :
           /\ AuGoesOn(c, r) /\ auEffect' = [auEffect EXCEPT ![n] = v]
           /\ \/ r = [me EXCEPT !.pc = "fail"]
              \/ v = "accepted" /\ r = [NextTarget(me) EXCEPT !.target = "-"]
    <2>1. auEffect = [auEffect EXCEPT ![n] = "executing"] BY <1>6
    <2> QED BY <1>4, <2>1, Zenon DEF recordAutonomyEffect
  <1>7. PICK r :
           /\ AuGoesOn(c, r) /\ auEffect' = [auEffect EXCEPT ![n] = v]
           /\ \/ r = [me EXCEPT !.pc = "fail"]
              \/ v = "accepted" /\ r = [NextTarget(me) EXCEPT !.target = "-"]
    BY <1>7a, Zenon
  <1>8. auEffect' \in [AuNode -> AuEffects] /\ auEffect'[n] = v
    BY <1>1, <1>5, <1>6, <1>7 DEF AuEffects
  <1>9. \A x \in AuNode : auEffect[x] = "accepted" => auEffect'[x] = "accepted" BY <1>6, <1>7
  <1>10. /\ r \in RecType /\ BatchOK(r)' /\ HandOK(r)' /\ PlanOK(r)' /\ r.pc \notin PastClaim
    <2>1. CASE r = [me EXCEPT !.pc = "fail"]
      <3>1. /\ r \in RecType /\ r.pc = "fail" /\ r.seen = me.seen /\ r.planFresh = me.planFresh
            /\ r.rollout = me.rollout /\ r.batch = me.batch /\ r.todo = me.todo
        BY <1>1, <2>1 DEF RecType, AuPc
      <3>2. BatchOK(r)' /\ PlanOK(r)' BY <1>1, <1>2, <1>9, <3>1, SameNode, ZenonT(40)
      <3> QED BY <3>1, <3>2, Zenon DEF HandOK, HandsOver, PastClaim
    <2>2. CASE v = "accepted" /\ r = [NextTarget(me) EXCEPT !.target = "-"]
      <3>1. /\ r \in RecType /\ r.pc = "target" /\ r.seen = me.seen /\ r.planFresh = me.planFresh
            /\ r.rollout = me.rollout /\ r.batch = me.batch /\ r.todo = me.todo \ {n}
        BY <1>1, <1>4, <2>2, Zenon DEF NextTarget, RecType, AuPc
      <3>2. me.todo \subseteq AuNode /\ me.batch \subseteq AuNode /\ Used(me.rollout) \subseteq AuNode
        BY <1>1, Zenon DEF RecType, RolloutType, Used
      <3>3. Accepted(Used(r.rollout))' BY <1>1, <1>9, <3>1, <3>2, ZenonT(40) DEF BatchOK, Accepted
      <3>4. InOrder(r.todo)'
        BY <1>1, <1>8, <1>9, <2>2, <3>1, <3>2, SMTT(40) DEF BatchOK, InOrder
      <3>5. Accepted(r.batch \ r.todo)'
        BY <1>1, <1>8, <1>9, <2>2, <3>1, <3>2 DEF BatchOK, Accepted
      <3>6. BatchOK(r)' BY <3>1, <3>3, <3>4, <3>5, Zenon DEF BatchOK
      <3> QED BY <1>1, <1>2, <3>1, <3>6, Zenon DEF HandOK, PlanOK, HandsOver, PastClaim
    <2> QED BY <1>7, <2>1, <2>2
  <1>11. auRec' \in [Controller -> RecType] /\ auRec'[c] = r /\ OthersAge({c})
    BY <1>7, <1>10, GoesOnAges DEF AuInv
  <1>12. AuTypeOK' BY <1>1, <1>3, <1>8, <1>11, ZenonT(40) DEF AuInv, AuTypeOK, auPlanVars, auGhostVars
  <1>13. \A d \in Controller \ {c} :
            /\ auRec'[d].pc = "claim" /\ Current(auRec'[d]) = n => ~auRec'[d].effectFresh
            /\ auRec[d].pc \in PastClaim => Current(auRec[d]) # n
    <2> SUFFICES ASSUME NEW d \in Controller \ {c}
                 PROVE  /\ auRec'[d].pc = "claim" /\ Current(auRec'[d]) = n => ~auRec'[d].effectFresh
                        /\ auRec[d].pc \in PastClaim => Current(auRec[d]) # n
      BY Zenon
    <2>1. HandOK(auRec[d]) /\ Ages(auRec[d], auRec'[d]) BY <1>11, Zenon DEF AuInv, OthersAge
    <2>2. auRec[d].pc \in PastClaim => Current(auRec[d]) # n BY <1>1, <1>4, Zenon DEF AuInv
    <2> QED BY <1>6, <2>1, <2>2, Zenon DEF HandOK, Ages, Current
  <1>14. v \notin {"none", "admitted"} BY <1>1, <1>7
  <1> QED BY <1>2, <1>5, <1>6, <1>7, <1>10, <1>11, <1>12, <1>13, <1>14, EffectStep, ZenonT(40) DEF PastClaim

----------------------------------------------------------------------------
(* The invariant of every rollout: types, batches in order with the nodes  *)
(* before them accepted, one claim per effect record, copies of the plan   *)
(* that are current only as long as nobody changed it, and the count of    *)
(* executor calls after a stop.                                            *)
THEOREM RolloutInvariant == AuSpec => []AuInv
  <1>1. AuInit => AuInv
    <2> SUFFICES ASSUME AuInit PROVE AuInv OBVIOUS
    <2>1. AuTypeOK BY RestingType, ZenonT(40) DEF AuInit, AuTypeOK, AuStates, AuEffects
    <2>2. \A c \in Controller : /\ auRec[c].pc = "idle" /\ auRec[c].planFresh = FALSE
                                /\ auRec[c].rollout = EmptyRollout
      BY DEF AuInit, AuResting
    <2>3. Used(EmptyRollout) = {} BY DEF Used, EmptyRollout
    <2>4. Accepted(Used(auRollout)) BY <2>3 DEF AuInit, Accepted
    <2>5. \A c \in Controller : BatchOK(auRec[c]) /\ HandOK(auRec[c]) /\ PlanOK(auRec[c])
      BY <2>2, <2>3, Zenon DEF BatchOK, HandOK, PlanOK, Accepted, HandsOver, PastClaim
    <2>6. /\ \A n \in AuNode : auCalls[n] = 0
          /\ auLate = 0 BY DEF AuInit
    <2>7. \A c \in Controller : auRec[c].pc \notin PastClaim BY <2>2 DEF PastClaim
    <2>8. (\A n \in AuNode : auCalls[n] <= 1) /\ auLate <= 1 /\ auLate # 1 BY <2>6
    <2> QED BY <2>1, <2>4, <2>5, <2>6, <2>7, <2>8, ZenonT(40) DEF AuInv
  <1>2. AuInv /\ [AuNext]_auVars => AuInv'
    <2> SUFFICES ASSUME AuInv, [AuNext]_auVars PROVE AuInv' OBVIOUS
    <2>1. ASSUME NEW c \in Controller, AuPass(c) PROVE AuInv'
      BY SMTT(40), <2>1, ListStep, CanaryStep, ExpansionStep, OpenStep, TargetStep, LoadStep, ClaimStep,
         FenceStep, ExecuteStep, RecordStep, CountFailureStep, StartBakeStep, ReadBakeStep,
         MeasureBakeStep, MoveStep, MarkStep DEF AuPass
    <2>2. CASE UNCHANGED auVars
      <3>1. UNCHANGED <<auState, auExpired, auHardware, auRollout, auHour, auEffect, auRec, auNote,
                        auResumes, auTrouble, auCalls, auLate>>
        BY <2>2 DEF auVars, auPlanVars, auBoundVars, auGhostVars
      <3> QED BY ZenonT(40), <3>1 DEF AuInv, AuTypeOK, BatchOK, HandOK, PlanOK, Accepted, InOrder
    <2> QED BY <2>1, <2>2, CrashStep, OutsideStep DEF AuNext
  <1> QED BY <1>1, <1>2, PTL DEF AuSpec

(* executeAutonomyEffect: no effect reaches the hardware twice, and no two *)
(* controllers are between the fence and the record at once.               *)
THEOREM RolloutEffectOnce == AuSpec => []EffectOnce
  <1>1. AuInv => EffectOnce
    BY OneAtATime, Zenon DEF AuInv, EffectOnce, PastClaim
  <1> QED BY <1>1, RolloutInvariant, PTL

(* moveAutonomyPlan, ensureAutonomyEffectEnvelope: what was stopped stays  *)
(* stopped, and at most one effect is late.                                *)
THEOREM RolloutStopIsKept == AuSpec => StopIsKept
  <1>1. AuInv => auLate <= 1 BY Zenon DEF AuInv
  <1>2. AuInv /\ [AuNext]_auVars
          => [/\ auState \in AuTerminal => auState' = auState
              /\ auState = "Paused" /\ auState' # "Paused" /\ auResumes' = auResumes
                   => auState' \in AuTerminal]_auVars
    <2> SUFFICES ASSUME AuInv, AuNext, auState' # auState
                 PROVE  /\ auState \notin AuTerminal
                        /\ auState = "Paused" /\ auResumes' = auResumes => auState' \in AuTerminal
      BY SMTT(40) DEF auVars, auPlanVars
    <2>1. ASSUME NEW c \in Controller, AuPass(c) \/ AuCrash(c)
          PROVE  /\ auState \notin AuTerminal
                 /\ auState = "Paused" => auState' \in AuTerminal
      <3>1. moveAutonomyPlan(c) \/ stopAutonomyPlan(c)
        BY <2>1, Zenon DEF AuPass, AuCrash, auPlanVars, ListAutonomyPlans, admitAutonomyCanary,
             admitAutonomyExpansion, openExpansion, admitAutonomyTarget, loadAutonomyEffect,
             claimAutonomyEffect, fenceAutonomyEffect, autonomyExecute, recordAutonomyEffect,
             countFailure, startBake, readAutonomyBake, measureAutonomyBake, updateAutonomyRollout
      <3>2. /\ auRec[c].pc \in {"move", "stop"} /\ auRec[c].planFresh /\ auState' = auRec[c].target
        BY <3>1, SMTT(40) DEF moveAutonomyPlan, stopAutonomyPlan, movableRevision
      <3>3. PlanOK(auRec[c]) BY DEF AuInv
      <3> QED BY <3>2, <3>3 DEF PlanOK, AuTerminal, AuAdmits
    <2>2. CASE noteRollout \/ PlanExpiryElapses \/ AnHourPasses
      BY <2>2 DEF noteRollout, PlanExpiryElapses, AnHourPasses, auPlanVars
    <2>3. CASE AttachSimulation \/ PauseAutonomyPlan \/ RollbackAutonomyPlan
      BY <2>3 DEF AttachSimulation, PauseAutonomyPlan, RollbackAutonomyPlan, PersonSaves, AuTerminal
    <2>4. CASE ResumeAutonomyPlan
      <3>1. auResumes' = auResumes + 1 /\ auResumes \in Nat
        BY <2>4 DEF ResumeAutonomyPlan, AuInv, AuTypeOK
      <3>2. auResumes' # auResumes BY <3>1
      <3> QED BY <2>4, <3>2, SMTT(40) DEF ResumeAutonomyPlan, AuTerminal
    <2>5. ASSUME NEW p \in Person, NEW r \in Role, ApproveAutonomyPlan(p, r)
          PROVE  auState \notin AuTerminal /\ auState # "Paused"
      BY <2>5 DEF ApproveAutonomyPlan, AuTerminal
    <2> QED BY <2>1, <2>2, <2>3, <2>4, <2>5 DEF AuNext
  <1> QED BY <1>1, <1>2, RolloutInvariant, PTL DEF AuSpec, StopIsKept
=============================================================================
