-------------------------- MODULE NodeAgent_proofs --------------------------
(***************************************************************************)
(* What is done on a node, for any number of callers, actions, devices,    *)
(* pods, boots and moves of the surroundings: the execution of actions by  *)
(* the agent (ActionExecutor), the drain of the node (NodeDrain) and the   *)
(* polled health series (HealthSeries).                                    *)
(***************************************************************************)
EXTENDS ActionExecutor, NodeDrain, HealthSeries, TLAPS

-----------------------------------------------------------------------------
(* The executor.  EffectsAreBound speaks of what has been done; what makes *)
(* it inductive is what an execution that is under way has already found   *)
(* out (the device it proved idle and unheld is the one the request names) *)
(* and that the ID of every execution is marked as running.                *)

CallType == [pc : {"out", "wait"} \cup Working, id : ExId \cup {"none"},
             result : {"none", "ok", "failed", "refused"},
             idle : ExGpu \cup {NoDevice}, free : ExGpu \cup {NoDevice}]

CallOK(k) ==
    /\ k \in CallType
    /\ k.pc \in Working => k.id \in ExId
    /\ k.pc \in {"holders", "reset"} => k.idle = ExTarget[k.id]
    /\ k.pc = "reset" => k.free = ExTarget[k.id]

(* Each execution has marked its ID, and no two have the same. *)
CallersApart ==
    /\ \A c \in ExCaller : exCall[c].pc \in Working => exCall[c].id \in exRunning
    /\ \A c, d \in ExCaller :
          exCall[c].pc \in Working /\ exCall[d].pc \in Working /\ exCall[c].id = exCall[d].id => c = d

ExHistory ==
    /\ \A i \in exRebooting : ExBootId[i] = exBoot
    /\ \A r \in exResets : r.hit = ExTarget[r.id] /\ r.idle = r.hit /\ r.free = r.hit
    /\ \A e \in exEnded : e.boot = ExBootId[e.id]

ExInv ==
    /\ exCall \in [ExCaller -> CallType]
    /\ \A c \in ExCaller : CallOK(exCall[c])
    /\ CallersApart
    /\ ExHistory

LEMMA NoCallOK == CallOK(NoCall) /\ NoCall.pc \notin Working
  BY DEF CallOK, NoCall, CallType, Working, NoDevice

(* A caller that works on its action goes on with it or ends it. *)
LEMMA CallGoesOn ==
  ASSUME ExInv, NEW c \in ExCaller, exCall[c].pc \in Working, NEW k, CallOK(k), CallBecomes(c, k),
         k.id = exCall[c].id, UNCHANGED exRunning, ExHistory'
  PROVE  ExInv'
  <1>1. /\ exCall'[c] = k /\ \A d \in ExCaller \ {c} : exCall'[d] = exCall[d]
        /\ exCall' \in [ExCaller -> CallType]
    BY DEF ExInv, CallBecomes, CallOK
  <1>2. \A d \in ExCaller : CallOK(exCall'[d]) BY <1>1 DEF ExInv
  <1>3. CallersApart' BY <1>1 DEF ExInv, CallersApart
  <1> QED BY <1>1, <1>2, <1>3 DEF ExInv

LEMMA EndedOK ==
  ASSUME NEW k, CallOK(k), k.pc \in Working, NEW result \in {"ok", "failed", "refused"}, NEW e,
         e = [k EXCEPT !.pc = "finish", !.result = result]
  PROVE  CallOK(e) /\ e.id = k.id
  BY DEF CallOK, CallType, Working

LEMMA CallEnds ==
  ASSUME ExInv, NEW c \in ExCaller, exCall[c].pc \in Working,
         NEW result \in {"ok", "failed", "refused"}, Ends(c, result), UNCHANGED exRunning, ExHistory'
  PROVE  ExInv'
  <1>1. PICK e : e = [exCall[c] EXCEPT !.pc = "finish", !.result = result] OBVIOUS
  <1>2. CallOK(e) /\ e.id = exCall[c].id BY <1>1, EndedOK DEF ExInv
  <1> QED BY <1>1, <1>2, CallGoesOn DEF Ends

LEMMA HistoryStands == ASSUME ExInv, UNCHANGED exHost PROVE ExHistory'
  BY DEF ExInv, ExHistory, exHost

LEMMA ExecutesStep ==
  ASSUME ExInv, NEW c \in ExCaller, NEW i \in ExId, Executes(c, i)
  PROVE  ExInv'
  <1>1. ExHistory' BY HistoryStands DEF Executes
  <1>2. exCall \in [ExCaller -> CallType] /\ exCall[c].pc \notin Working
    BY DEF Executes, ExInv, Working
  <1>3. ASSUME NEW k, CallOK(k), CallBecomes(c, k), k.pc \notin Working, UNCHANGED exRunning
        PROVE  ExInv'
    <2>1. /\ exCall'[c] = k /\ \A d \in ExCaller \ {c} : exCall'[d] = exCall[d]
          /\ exCall' \in [ExCaller -> CallType]
      BY <1>2, <1>3 DEF CallBecomes, CallOK
    <2> QED BY <1>1, <1>3, <2>1 DEF ExInv, CallersApart
  <1>4. CASE CallBecomes(c, NoCall) /\ UNCHANGED exRunning BY <1>3, <1>4, NoCallOK
  <1>5. ASSUME NEW p \in {"wait", "dispatch"}, NEW k, k = [NoCall EXCEPT !.pc = p, !.id = i]
        PROVE  CallOK(k) /\ k.pc = p /\ k.id = i
    BY <1>5 DEF CallOK, CallType, NoCall, NoDevice, Working
  <1>6. CASE CallBecomes(c, [NoCall EXCEPT !.pc = "wait", !.id = i]) /\ UNCHANGED exRunning
    <2>1. PICK k : k = [NoCall EXCEPT !.pc = "wait", !.id = i] OBVIOUS
    <2>2. CallOK(k) /\ k.pc \notin Working BY <1>5, <2>1 DEF Working
    <2> QED BY <1>3, <1>6, <2>1, <2>2
  <1>7. CASE /\ CallBecomes(c, [NoCall EXCEPT !.pc = "dispatch", !.id = i])
             /\ i \notin exRunning /\ exRunning' = exRunning \cup {i}
    <2>1. PICK k : k = [NoCall EXCEPT !.pc = "dispatch", !.id = i] OBVIOUS
    <2>2. CallOK(k) /\ k.id = i BY <1>5, <2>1
    <2>3. /\ exCall'[c] = k /\ \A d \in ExCaller \ {c} : exCall'[d] = exCall[d]
          /\ exCall' \in [ExCaller -> CallType]
      BY <1>2, <1>7, <2>1, <2>2 DEF CallBecomes, CallOK
    <2>4. CallersApart' BY <1>7, <2>2, <2>3 DEF ExInv, CallersApart
    <2> QED BY <1>1, <2>2, <2>3, <2>4 DEF ExInv
  <1> QED BY <1>4, <1>6, <1>7 DEF Executes

(* A call that is given up, answered from the cache or finished. *)
LEMMA CallLeaves ==
  ASSUME ExInv, NEW c \in ExCaller, CallBecomes(c, NoCall), UNCHANGED exHost,
         \/ UNCHANGED exRunning
         \/ exCall[c].pc \in Working /\ exRunning' = exRunning \ {exCall[c].id}
  PROVE  ExInv'
  <1>1. ExHistory' BY HistoryStands
  <1>2. /\ exCall'[c] = NoCall /\ \A d \in ExCaller \ {c} : exCall'[d] = exCall[d]
        /\ exCall' \in [ExCaller -> CallType]
    BY NoCallOK DEF ExInv, CallBecomes, CallOK
  <1>3. \A d \in ExCaller : CallOK(exCall'[d]) BY <1>2, NoCallOK DEF ExInv
  <1>4. CallersApart' BY <1>2, NoCallOK DEF ExInv, CallersApart
  <1> QED BY <1>1, <1>2, <1>3, <1>4 DEF ExInv

LEMMA DispatchStep ==
  ASSUME ExInv, NEW c \in ExCaller, dispatch(c)
  PROVE  ExInv'
  <1>0. /\ CallOK(exCall[c]) /\ exCall[c].pc = "dispatch" /\ exCall[c].pc \in Working /\ UNCHANGED exRunning
    BY DEF dispatch, ExInv, Working
  <1>1. CASE ExDispatchReset(c)
    <2>1. ExHistory' BY <1>1, HistoryStands DEF ExDispatchReset
    <2>2. PICK k : k = [exCall[c] EXCEPT !.pc = "idle"] OBVIOUS
    <2>3. CallOK(k) /\ k.id = exCall[c].id BY <1>0, <2>2 DEF CallOK, CallType, Working
    <2>4. CASE CallBecomes(c, k) BY <1>0, <2>1, <2>3, <2>4, CallGoesOn
    <2>5. CASE Ends(c, "failed") BY <1>0, <2>1, <2>5, CallEnds
    <2> QED BY <1>1, <2>2, <2>4, <2>5 DEF ExDispatchReset
  <1>2. CASE reboot(c)
    <2>1. ExHistory' BY <1>2 DEF reboot, ExInv, ExHistory
    <2>2. PICK result \in {"ok", "failed", "refused"} : Ends(c, result) BY <1>2 DEF reboot
    <2> QED BY <1>0, <2>1, <2>2, CallEnds
  <1>3. CASE runOther(c) \/ Refused(c)
    <2>1. ExHistory' BY <1>3, HistoryStands DEF runOther, Refused
    <2>2. PICK result \in {"ok", "failed", "refused"} : Ends(c, result) BY <1>3 DEF runOther, Refused
    <2> QED BY <1>0, <2>1, <2>2, CallEnds
  <1> QED BY <1>1, <1>2, <1>3 DEF dispatch

LEMMA IdleStep ==
  ASSUME ExInv, NEW c \in ExCaller, ensureIdle(c)
  PROVE  ExInv'
  <1>0. /\ CallOK(exCall[c]) /\ exCall[c].pc = "idle" /\ exCall[c].pc \in Working /\ UNCHANGED exRunning
    BY DEF ensureIdle, ExInv, Working
  <1>1. ExHistory' BY HistoryStands DEF ensureIdle
  <1>2. ASSUME NEW g \in Addressed(exCall[c].id), NEW k, CallBecomes(c, k),
               k = [exCall[c] EXCEPT !.pc = "holders", !.idle = g]
        PROVE  ExInv'
    <2>1. g = ExTarget[exCall[c].id] /\ g \in ExGpu
      BY <1>0, <1>2, ExecutorAssumption DEF Addressed, CallOK
    <2>2. CallOK(k) /\ k.id = exCall[c].id BY <1>0, <1>2, <2>1 DEF CallOK, CallType, Working
    <2> QED BY <1>0, <1>1, <1>2, <2>2, CallGoesOn
  <1>3. CASE Ends(c, "refused") \/ Ends(c, "failed") BY <1>0, <1>1, <1>3, CallEnds
  <1> QED BY <1>2, <1>3 DEF ensureIdle

LEMMA HoldersStep ==
  ASSUME ExInv, NEW c \in ExCaller, ensureNoDeviceHolders(c)
  PROVE  ExInv'
  <1>0. /\ CallOK(exCall[c]) /\ exCall[c].pc = "holders" /\ exCall[c].pc \in Working /\ UNCHANGED exRunning
    BY DEF ensureNoDeviceHolders, ExInv, Working
  <1>1. ExHistory' BY HistoryStands DEF ensureNoDeviceHolders
  <1>2. ASSUME NEW g \in Addressed(exCall[c].id), NEW k, CallBecomes(c, k),
               k = [exCall[c] EXCEPT !.pc = "reset", !.free = g]
        PROVE  ExInv'
    <2>1. g = ExTarget[exCall[c].id] /\ g \in ExGpu
      BY <1>0, <1>2, ExecutorAssumption DEF Addressed, CallOK
    <2>2. CallOK(k) /\ k.id = exCall[c].id BY <1>0, <1>2, <2>1 DEF CallOK, CallType, Working
    <2> QED BY <1>0, <1>1, <1>2, <2>2, CallGoesOn
  <1>3. CASE Ends(c, "failed") BY <1>0, <1>1, <1>3, CallEnds
  <1> QED BY <1>2, <1>3 DEF ensureNoDeviceHolders

LEMMA ResetStep ==
  ASSUME ExInv, NEW c \in ExCaller, resetGPU(c)
  PROVE  ExInv'
  <1>0. /\ CallOK(exCall[c]) /\ exCall[c].pc = "reset" /\ exCall[c].pc \in Working
        /\ UNCHANGED <<exRunning, exRebooting, exBoot, exEnded>>
    BY DEF resetGPU, ExInv, Working
  <1>1. PICK result \in {"ok", "failed", "refused"} : Ends(c, result) BY DEF resetGPU
  <1>2. ASSUME NEW g \in Addressed(exCall[c].id),
               exResets' = exResets \cup {[id |-> exCall[c].id, hit |-> g,
                                           idle |-> exCall[c].idle, free |-> exCall[c].free]}
        PROVE  ExHistory'
    <2>1. g = ExTarget[exCall[c].id] BY <1>2 DEF Addressed
    <2> QED BY <1>0, <1>2, <2>1 DEF ExInv, ExHistory, CallOK
  <1>3. ASSUME UNCHANGED exResets PROVE ExHistory' BY <1>0, <1>3 DEF ExInv, ExHistory
  <1>4. ExHistory' BY <1>2, <1>3 DEF resetGPU
  <1> QED BY <1>0, <1>1, <1>4, CallEnds

(* A restart of the agent and a reboot leave no call behind. *)
LEMMA ProcessDiesStep ==
  ASSUME ProcessDies, ExHistory'
  PROVE  ExInv'
  <1>1. exCall' = [c \in ExCaller |-> NoCall] BY DEF ProcessDies
  <1>2. exCall' \in [ExCaller -> CallType] /\ \A c \in ExCaller : exCall'[c] = NoCall
    BY <1>1, NoCallOK DEF CallOK
  <1>3. \A c \in ExCaller : CallOK(exCall'[c]) BY <1>2, NoCallOK
  <1>4. CallersApart' BY <1>2, NoCallOK DEF CallersApart
  <1> QED BY <1>2, <1>3, <1>4 DEF ExInv

LEMMA RebootStep == ASSUME ExInv, HostReboots PROVE ExInv'
  <1>1. ASSUME NEW e \in exEnded' PROVE e.boot = ExBootId[e.id]
    <2>1. CASE e \in exEnded BY <2>1 DEF ExInv, ExHistory
    <2>2. ASSUME NEW i \in exRebooting, e = [id |-> i, boot |-> exBoot] PROVE e.boot = ExBootId[e.id]
      BY <2>2 DEF ExInv, ExHistory
    <2> QED BY <1>1, <2>1, <2>2 DEF HostReboots
  <1>2. ExHistory' BY <1>1 DEF HostReboots, ExInv, ExHistory
  <1> QED BY <1>2, ProcessDiesStep DEF HostReboots

LEMMA SurroundingsStep ==
  ASSUME ExInv, UNCHANGED <<exBoot, exCall, exRunning, exRebooting, exResets, exEnded>>
  PROVE  ExInv'
  BY DEF ExInv, CallersApart, ExHistory, CallOK

(* Execute keeps its bookkeeping: every execution under way has its ID     *)
(* marked, alone, and has proved idle and unheld the device it will reset. *)
THEOREM ExecutorInvariant == ExSpec => []ExInv
  <1>1. ExInit => ExInv
    <2> SUFFICES ASSUME ExInit PROVE ExInv OBVIOUS
    <2>1. exCall \in [ExCaller -> CallType] /\ \A c \in ExCaller : exCall[c] = NoCall
      BY NoCallOK DEF ExInit, CallOK
    <2>2. CallersApart BY <2>1, NoCallOK DEF CallersApart
    <2>3. ExHistory BY DEF ExInit, ExHistory
    <2> QED BY <2>1, <2>2, <2>3, NoCallOK DEF ExInv
  <1>2. ExInv /\ [ExNext]_exVars => ExInv'
    <2> SUFFICES ASSUME ExInv, [ExNext]_exVars PROVE ExInv' OBVIOUS
    <2>1. ASSUME NEW c \in ExCaller, StopsWaiting(c) \/ Finishes(c) PROVE ExInv'
      BY <2>1, CallLeaves DEF StopsWaiting, Finishes, Working
    <2>2. ASSUME NEW i \in ExId, CacheExpires(i) PROVE ExInv'
      BY <2>2, SurroundingsStep DEF CacheExpires, exHost
    <2>3. ASSUME NEW g \in ExGpu, FallsOffBus(g) \/ UsageChanges(g) PROVE ExInv'
      BY <2>3, SurroundingsStep DEF FallsOffBus, UsageChanges
    <2>4. CASE AgentRestarts BY <2>4, HistoryStands, ProcessDiesStep DEF AgentRestarts
    <2>5. CASE ArmingChanges BY <2>5, SurroundingsStep DEF ArmingChanges
    <2>6. CASE UNCHANGED exVars BY <2>6, SurroundingsStep DEF exVars
    <2> QED BY <2>1, <2>2, <2>3, <2>4, <2>5, <2>6, ExecutesStep, DispatchStep, IdleStep, HoldersStep,
               ResetStep, RebootStep DEF ExNext
  <1> QED BY <1>1, <1>2, PTL DEF ExSpec

(* dispatch, resolveResetIndex and reboot: for any number of callers,      *)
(* actions, devices and boots, a reset hits the device its request names,  *)
(* found idle and unheld by that execution; a reboot ends only the boot it *)
(* was stamped with; and no action has two executions at once.             *)
THEOREM ExecutorEffectsAreBound == ExSpec => []EffectsAreBound
  <1>1. ExInv => EffectsAreBound BY DEF ExInv, ExHistory, CallersApart, EffectsAreBound
  <1> QED BY <1>1, ExecutorInvariant, PTL

-----------------------------------------------------------------------------
(* The drain.  What a drain answers rests on what it listed: every listed  *)
(* pod is one it may evict and was on the node, and it evicts and retries  *)
(* no other.                                                               *)

MayEvict(p) == drOwner[p] = "set" \/ (drOwner[p] = "none" /\ drForce)

GraceOK(e) ==
    \/ e.grace = drOwn[e.pod]
    \/ e.grace >= DrDefault /\ e.at + e.grace + DrMargin <= DrDeadline

DrTypeOK ==
    /\ drNow \in Nat /\ drForce \in BOOLEAN
    /\ drOwner \in [DrPod -> {"set", "none", "infrastructure"}] /\ drOwn \in [DrPod -> Nat]
    /\ drPod \in [DrPod -> OnNode \cup {"absent", "gone", "elsewhere"}]
    /\ drListed \subseteq DrPod /\ drTodo \subseteq drListed /\ drBlocked \subseteq drListed

DrInv ==
    /\ DrTypeOK
    /\ \A p \in drListed : MayEvict(p) /\ drPod[p] # "absent"
    /\ drPc = "list" => drBlocked = {}
    /\ drPc \in {"list", "refused"} => drEvicted = {}
    /\ drPc = "drained" => \A p \in drListed : drPod[p] \in {"finished", "gone", "elsewhere"}
    /\ \A e \in drEvicted : MayEvict(e.pod) /\ GraceOK(e)

LEMMA GraceIsOK ==
  ASSUME DrTypeOK, NEW p \in DrPod
  PROVE  \/ evictionGrace(p) = drOwn[p]
         \/ evictionGrace(p) >= DrDefault /\ drNow + evictionGrace(p) + DrMargin <= DrDeadline
  BY DrainAssumption DEF evictionGrace, budget, DrTypeOK

LEMMA ListsStep == ASSUME DrInv, DrainLists PROVE DrInv'
  <1>1. UNCHANGED <<drNow, drForce, drOwner, drOwn, drPod, drBlocked, drEvicted>> /\ drPc = "list"
    BY DEF DrainLists, drPods
  <1>2. CASE drPc' = "evict" /\ drListed' = {p \in nodePods : ~skipDuringDrain(p)} /\ drTodo' = drListed'
    <2>1. \A p \in drListed' : p \in DrPod /\ MayEvict(p) /\ drPod[p] # "absent"
      BY <1>2 DEF nodePods, skipDuringDrain, Eligible, drainExclusion, MayEvict, OnNode, DrInv, DrTypeOK
    <2>2. drBlocked = {} BY <1>1 DEF DrInv
    <2> QED BY <1>1, <1>2, <2>1, <2>2 DEF DrInv, DrTypeOK, MayEvict, GraceOK
  <1>3. CASE drPc' \in {"refused", "failed"} /\ UNCHANGED <<drListed, drTodo>>
    BY <1>1, <1>3 DEF DrInv, DrTypeOK, MayEvict, GraceOK
  <1> QED BY <1>2, <1>3 DEF DrainLists

(* The pods live their own life: none becomes absent, and one that is over *)
(* stays over.                                                             *)
PodsMoveOn ==
    /\ drPod' \in [DrPod -> OnNode \cup {"absent", "gone", "elsewhere"}]
    /\ \A p \in DrPod : drPod'[p] = "absent" => drPod[p] = "absent"
    /\ \A p \in DrPod : drPod[p] \in {"finished", "gone", "elsewhere"}
                          => drPod'[p] \in {"finished", "gone", "elsewhere"}

(* A step that lists nothing new and evicts at most what was listed. *)
LEMMA DrainGoesOn ==
  ASSUME DrInv, UNCHANGED <<drPods, drListed>>, drNow' \in Nat, PodsMoveOn,
         drTodo' \subseteq drListed, drBlocked' \subseteq drListed,
         drPc' \notin {"list", "refused", "drained"} \/ (drPc' = drPc /\ UNCHANGED <<drBlocked, drEvicted>>),
         \A e \in drEvicted' \ drEvicted : MayEvict(e.pod) /\ GraceOK(e)
  PROVE  DrInv'
  <1>1. UNCHANGED <<drForce, drOwner, drOwn, drListed>> BY DEF drPods
  <1>2. DrTypeOK' BY <1>1 DEF DrInv, DrTypeOK, PodsMoveOn
  <1>3. \A p \in drListed' : MayEvict(p)' /\ drPod'[p] # "absent"
    BY <1>1 DEF DrInv, DrTypeOK, PodsMoveOn, MayEvict
  <1>4. \A e \in drEvicted' : MayEvict(e.pod)' /\ GraceOK(e)'
    BY <1>1 DEF DrInv, MayEvict, GraceOK
  <1>5. drPc' = "drained" => \A p \in drListed' : drPod'[p] \in {"finished", "gone", "elsewhere"}
    BY <1>1 DEF DrInv, DrTypeOK, PodsMoveOn
  <1>6. /\ drPc' = "list" => drBlocked' = {}
        /\ drPc' \in {"list", "refused"} => drEvicted' = {}
    BY DEF DrInv
  <1> QED BY <1>2, <1>3, <1>4, <1>5, <1>6 DEF DrInv

LEMMA EvictStep == ASSUME DrInv, NEW p \in DrPod, evictPod(p) PROVE DrInv'
  <1>1. /\ DrTypeOK /\ drPc = "evict" /\ p \in drTodo /\ p \in drListed
        /\ UNCHANGED <<drNow, drPods, drListed>>
    BY DEF evictPod, DrInv, DrTypeOK
  <1>2. drPc' \in {"evict", "failed"} BY <1>1 DEF evictPod
  <1>3. drTodo' \subseteq drListed /\ drBlocked' \subseteq drListed /\ drNow' \in Nat
    BY <1>1 DEF evictPod, DrTypeOK
  <1>4. PodsMoveOn
    <2>1. UNCHANGED drPod \/ drPod' = [drPod EXCEPT ![p] = IF @ = "here" THEN "leaving" ELSE @]
      BY DEF evictPod
    <2> QED BY <1>1, <2>1 DEF PodsMoveOn, DrTypeOK, OnNode
  <1>5. ASSUME NEW e \in drEvicted' \ drEvicted PROVE MayEvict(e.pod) /\ GraceOK(e)
    <2>1. e = [pod |-> p, at |-> drNow, grace |-> evictionGrace(p)] BY <1>5 DEF evictPod
    <2>2. e.pod = p /\ e.at = drNow /\ e.grace = evictionGrace(p) BY <2>1
    <2>3. MayEvict(p) BY <1>1 DEF DrInv
    <2> QED BY <1>1, <2>2, <2>3, GraceIsOK DEF GraceOK
  <1> QED BY <1>1, <1>2, <1>3, <1>4, <1>5, DrainGoesOn

LEMMA PodsStand == ASSUME DrTypeOK, UNCHANGED drPod PROVE PodsMoveOn
  BY DEF PodsMoveOn, DrTypeOK

LEMMA WaitStep == ASSUME DrInv, waitDrained PROVE DrInv'
  <1>1. /\ UNCHANGED <<drNow, drPods, drPod, drListed, drTodo, drBlocked, drEvicted>> /\ DrTypeOK
        /\ drPc = "wait"
    BY DEF waitDrained, DrInv
  <1>2. CASE drPc' = "failed"
    BY <1>1, <1>2, PodsStand, DrainGoesOn DEF DrTypeOK
  <1>3. CASE remaining = {} /\ drPc' = "drained"
    <2>1. ASSUME NEW p \in drListed PROVE drPod[p] \in {"finished", "gone", "elsewhere"}
      <3>1. p \in DrPod /\ MayEvict(p) /\ drPod[p] # "absent" /\ p \notin remaining
        BY <1>1, <1>3 DEF DrInv, DrTypeOK
      <3>2. drPod[p] \notin {"here", "leaving"}
        BY <3>1 DEF remaining, nodePods, skipDuringDrain, Eligible, drainExclusion, MayEvict, OnNode
      <3> QED BY <1>1, <3>1, <3>2 DEF DrTypeOK, OnNode
    <2>2. UNCHANGED <<drForce, drOwner, drOwn>> BY <1>1 DEF drPods
    <2> QED BY <1>1, <1>3, <2>1, <2>2 DEF DrInv, DrTypeOK, MayEvict, GraceOK
  <1> QED BY <1>2, <1>3 DEF waitDrained

LEMMA PodMovesStep == ASSUME DrInv, NEW p \in DrPod, PodMoves(p) PROVE DrInv'
  <1>1. UNCHANGED <<drNow, drPods, drPc, drListed, drTodo, drBlocked, drEvicted>> /\ DrTypeOK
    BY DEF PodMoves, DrInv
  <1>2. PICK to : /\ drPod' = [drPod EXCEPT ![p] = to] /\ to \in OnNode \cup {"gone", "elsewhere"}
                  /\ drPod[p] \in {"finished", "gone", "elsewhere"} => to \in {"finished", "gone", "elsewhere"}
    BY DEF PodMoves, OnNode
  <1>3. PodsMoveOn BY <1>1, <1>2 DEF PodsMoveOn, DrTypeOK, OnNode
  <1> QED BY <1>1, <1>3, DrainGoesOn DEF DrTypeOK

(* Drain evicts and retries only pods it listed, all of which it may evict. *)
THEOREM DrainInvariant == DrSpec => []DrInv
  <1>1. DrInit => DrInv
    <2> SUFFICES ASSUME DrInit PROVE DrInv OBVIOUS
    <2>1. drOwn \in [DrPod -> Nat] BY DrainAssumption DEF DrInit
    <2>2. drPod \in [DrPod -> OnNode \cup {"absent", "gone", "elsewhere"}] BY DEF DrInit, OnNode
    <2> QED BY <2>1, <2>2 DEF DrInit, DrInv, DrTypeOK
  <1>2. DrInv /\ [DrNext]_drVars => DrInv'
    <2> SUFFICES ASSUME DrInv, [DrNext]_drVars PROVE DrInv' OBVIOUS
    <2>1. DrTypeOK BY DEF DrInv
    <2>2. CASE DrainRound
      BY <2>1, <2>2, PodsStand, DrainGoesOn DEF DrainRound, DrTypeOK
    <2>3. CASE DrTick BY <2>1, <2>3, PodsStand, DrainGoesOn DEF DrTick, DrTypeOK
    <2>4. CASE UNCHANGED drVars BY <2>1, <2>4, PodsStand, DrainGoesOn DEF drVars, DrTypeOK
    <2> QED BY <2>2, <2>3, <2>4, ListsStep, EvictStep, WaitStep, PodMovesStep DEF DrNext
  <1> QED BY <1>1, <1>2, PTL DEF DrSpec

(* Drain, evictionGrace and waitDrained: for any pods, grace periods and   *)
(* deadline, a refused drain has evicted nothing, a successful one has     *)
(* seen every pod it listed leave or finish, and every eviction was of a   *)
(* pod it may evict, with the pod's own grace period or one that ends      *)
(* within the step and is no shorter than the default.                     *)
THEOREM DrainTellsTheTruth == DrSpec => []DrainIsTruthful
  <1>1. DrInv => DrainIsTruthful BY DEF DrInv, DrainIsTruthful, MayEvict, GraceOK
  <1> QED BY <1>1, DrainInvariant, PTL

-----------------------------------------------------------------------------
(* The health series.  seChanged is false only while what was emitted last *)
(* is still the hardware's level and still known: by the AMD watcher in    *)
(* memory, for the device in the slot, by the NVIDIA watcher in the record *)
(* of this boot, and in memory once it has loaded the record.              *)

WatcherType == [loaded : BOOLEAN, polled : BOOLEAN, baselining : BOOLEAN,
                level : Nat \cup {NoValue}, saved : Nat \cup {NoValue},
                count : Nat \cup {NoValue}, reported : Nat, device : Nat]

SeTypeOK ==
    /\ seVendor \in {"nvidia", "amd"} /\ seLevel \in Nat /\ seCount \in Nat /\ seDevice \in Nat
    /\ seProc \in WatcherType /\ seBoot \in Nat
    /\ seFile \in [boot : Nat, level : Nat \cup {NoValue}]

CountOK(w) ==
    w.count # NoValue => w.reported <= w.count /\ w.count < w.reported + SeDelta[seVendor]

(* The level the NVIDIA watcher knows is the one it saves. *)
SavedOK(w) ==
    /\ seVendor = "nvidia" => w.level = w.saved
    /\ seVendor = "amd" => w.saved = NoValue
    /\ ~w.loaded => w.level = NoValue

EmittedIsKnown ==
    /\ seVendor = "amd" => seProc.loaded /\ seProc.level = seLevel /\ seProc.device \in {0, seDevice}
    /\ seVendor = "nvidia" => /\ seFile.boot = seBoot /\ seFile.level = seLevel
                              /\ seProc.loaded => seProc.level = seLevel

SeInv ==
    /\ SeTypeOK
    /\ CountOK(seProc)
    /\ SavedOK(seProc)
    /\ seChanged \in BOOLEAN
    /\ seChanged = FALSE => EmittedIsKnown

LEMMA NewWatcherOK ==
  NewWatcher \in WatcherType /\ NewWatcher.count = NoValue /\ NewWatcher.level = NoValue
    /\ NewWatcher.saved = NoValue /\ NewWatcher.loaded = FALSE
  BY DEF NewWatcher, WatcherType, NoValue

LEMMA LoadOK ==
  ASSUME SeInv, NEW w, w = loadStateLocked
  PROVE  /\ w \in WatcherType /\ w.loaded /\ CountOK(w) /\ SavedOK(w)
         /\ w.device = seProc.device
         /\ seChanged = FALSE => w.level = seLevel
  <1>1. /\ seProc \in WatcherType /\ seFile \in [boot : Nat, level : Nat \cup {NoValue}] /\ SavedOK(seProc)
        /\ CountOK(seProc) /\ (seChanged = FALSE => EmittedIsKnown) /\ seVendor \in {"nvidia", "amd"}
        /\ seLevel \in Nat
    BY DEF SeInv, SeTypeOK
  <1>2. CASE seProc.loaded
    BY <1>1, <1>2 DEF loadStateLocked, EmittedIsKnown
  <1>3. CASE ~seProc.loaded /\ seVendor = "amd"
    BY <1>1, <1>3 DEF loadStateLocked, EmittedIsKnown, WatcherType, CountOK, SavedOK
  <1>4. CASE ~seProc.loaded /\ seVendor # "amd" /\ seFile.boot = seBoot /\ seFile.level # NoValue
    BY <1>1, <1>4 DEF loadStateLocked, EmittedIsKnown, WatcherType, CountOK, SavedOK
  <1>5. CASE ~seProc.loaded /\ seVendor # "amd" /\ ~(seFile.boot = seBoot /\ seFile.level # NoValue)
    <2>0. seLevel # NoValue /\ seVendor = "nvidia" BY <1>1, <1>5 DEF NoValue
    <2>1. ~(seChanged = FALSE) BY <1>1, <1>5, <2>0, Zenon DEF EmittedIsKnown
    <2> QED BY <1>1, <1>5, <2>1 DEF loadStateLocked, WatcherType, CountOK, SavedOK
  <1> QED BY <1>2, <1>3, <1>4, <1>5

(* A step that leaves the watcher and its record alone. *)
LEMMA SeriesStand ==
  ASSUME SeInv, UNCHANGED <<seVendor, seProc>>, seLevel' \in Nat, seCount' \in Nat, seDevice' \in Nat,
         seBoot' \in Nat, seFile' \in [boot : Nat, level : Nat \cup {NoValue}],
         seChanged' = TRUE \/ UNCHANGED <<seLevel, seDevice, seBoot, seFile, seChanged>>
  PROVE  SeInv'
  BY DEF SeInv, SeTypeOK, CountOK, SavedOK, EmittedIsKnown

LEMMA ReplacedOK ==
  ASSUME SeTypeOK, NEW w \in WatcherType, w.loaded, CountOK(w), SavedOK(w),
         NEW uuid \in Nat, uuid = 0 \/ seVendor = "amd", NEW u, u = forgetReplacedDevice(w, uuid)
  PROVE  /\ u \in WatcherType /\ u.loaded /\ CountOK(u) /\ SavedOK(u) /\ u.device = uuid
         /\ w.device \in {0, uuid} \/ uuid = 0 => u.level = w.level
  <1>1. CASE w.device # 0 /\ uuid # 0 /\ w.device # uuid
    BY <1>1 DEF forgetReplacedDevice, WatcherType, CountOK, SavedOK, NoValue, SeTypeOK
  <1>2. CASE ~(w.device # 0 /\ uuid # 0 /\ w.device # uuid)
    BY <1>2 DEF forgetReplacedDevice, WatcherType, CountOK, SavedOK, SeTypeOK
  <1> QED BY <1>1, <1>2

LEMMA FilterLevelOK ==
  ASSUME SeTypeOK, NEW w \in WatcherType, w.loaded, CountOK(w), SavedOK(w), NEW u, u = filterLevel(w)
  PROVE  /\ u \in WatcherType /\ u.loaded /\ CountOK(u) /\ SavedOK(u) /\ u.device = w.device
         /\ emitsLevel(w) => u.level = seLevel
         /\ w.level = seLevel => u.level = seLevel /\ ~emitsLevel(w)
         /\ emitsLevel(w) /\ seVendor = "nvidia" => u.saved = seLevel /\ u.saved # w.saved
  <1>1. CASE ~levelObserved
    BY <1>1 DEF filterLevel, levelObserved, emitsLevel, SeTypeOK
  <1>2. CASE levelObserved
    <2>1. PICK s : s = IF seVendor = "nvidia" /\ (baselines(w) \/ emitsLevel(w)) THEN seLevel ELSE w.saved
      OBVIOUS
    <2>2. u = [w EXCEPT !.level = seLevel, !.saved = s] BY <1>2, <2>1 DEF filterLevel
    <2>3. seLevel \in Nat /\ s \in Nat \cup {NoValue} BY <2>1 DEF SeTypeOK, WatcherType
    <2>4. /\ u \in WatcherType /\ u.loaded = w.loaded /\ u.count = w.count /\ u.reported = w.reported
          /\ u.device = w.device /\ u.level = seLevel /\ u.saved = s
      BY <2>2, <2>3 DEF WatcherType
    <2>5. seVendor = "nvidia" => s = seLevel
      BY <1>2, <2>1 DEF levelObserved, emitsLevel, SavedOK
    <2> QED BY <2>1, <2>4, <2>5 DEF CountOK, SavedOK, emitsLevel
  <1> QED BY <1>1, <1>2

LEMMA FilterCountOK ==
  ASSUME SeTypeOK, NEW w \in WatcherType, w.loaded, CountOK(w), SavedOK(w), NEW u, u = filterCount(w)
  PROVE  /\ u \in WatcherType /\ u.loaded /\ CountOK(u) /\ SavedOK(u)
         /\ u.device = w.device /\ u.level = w.level /\ u.saved = w.saved
  <1>1. PICK r : r = IF w.count = NoValue \/ seCount < w.count \/ emitsCount(w) THEN seCount ELSE w.reported
    OBVIOUS
  <1>2. u = [w EXCEPT !.count = seCount, !.reported = r] BY <1>1 DEF filterCount
  <1>3. /\ seCount \in Nat /\ w.count \in Nat \cup {NoValue} /\ w.reported \in Nat
        /\ SeDelta[seVendor] \in Nat \ {0}
    BY SeriesAssumption DEF SeTypeOK, WatcherType
  <1>4. r \in Nat BY <1>1, <1>3
  <1>5. /\ u \in WatcherType /\ u.loaded = w.loaded /\ u.count = seCount /\ u.reported = r
        /\ u.device = w.device /\ u.level = w.level /\ u.saved = w.saved
    BY <1>2, <1>3, <1>4 DEF WatcherType
  <1>6. r <= seCount /\ seCount < r + SeDelta[seVendor]
    BY <1>1, <1>3 DEF emitsCount, CountOK
  <1> QED BY <1>5, <1>6 DEF CountOK, SavedOK

LEMMA PollStep ==
  ASSUME SeInv, NEW seen, NEW uuid \in {0, seDevice}, uuid = 0 \/ seVendor = "amd", poll(seen, uuid)
  PROVE  SeInv' /\ ("level" \in seSent' => seChanged)
  <1>1. SeTypeOK /\ seDevice \in Nat /\ uuid \in Nat /\ seChanged \in BOOLEAN /\ seVendor \in {"nvidia", "amd"}
        /\ (seChanged = FALSE => EmittedIsKnown)
    BY DEF SeInv, SeTypeOK
  <1>2. PICK w0 : w0 = loadStateLocked OBVIOUS
  <1>3. PICK w : w = forgetReplacedDevice(w0, uuid) OBVIOUS
  <1>4. /\ w0 \in WatcherType /\ w0.loaded /\ CountOK(w0) /\ SavedOK(w0) /\ w0.device = seProc.device
        /\ seChanged = FALSE => w0.level = seLevel
    BY <1>2, LoadOK
  <1>5. /\ w \in WatcherType /\ w.loaded /\ CountOK(w) /\ SavedOK(w) /\ w.device = uuid
        /\ w0.device \in {0, uuid} \/ uuid = 0 => w.level = w0.level
    BY <1>1, <1>3, <1>4, ReplacedOK
  <1>6. seChanged = FALSE => w.level = seLevel
    BY <1>1, <1>4, <1>5 DEF EmittedIsKnown
  <1>7. PICK v : v = IF "level" \in seen THEN filterLevel(w) ELSE w OBVIOUS
  <1>8. /\ v \in WatcherType /\ v.loaded /\ CountOK(v) /\ SavedOK(v) /\ v.device = uuid
        /\ w.level = seLevel => v.level = seLevel /\ ("level" \in seen => ~emitsLevel(w))
        /\ "level" \in seen /\ emitsLevel(w) =>
              v.level = seLevel /\ (seVendor = "nvidia" => v.saved = seLevel /\ v.saved # w.saved)
    <2>1. CASE "level" \in seen
      <3>1. v = filterLevel(w) BY <1>7, <2>1
      <3> QED BY <1>1, <1>5, <2>1, <3>1, FilterLevelOK
    <2>2. CASE "level" \notin seen BY <1>5, <1>7, <2>2
    <2> QED BY <2>1, <2>2
  <1>9. PICK u : u = IF "count" \in seen THEN filterCount(v) ELSE v OBVIOUS
  <1>10. /\ u \in WatcherType /\ u.loaded /\ CountOK(u) /\ SavedOK(u)
         /\ u.device = uuid /\ u.level = v.level /\ u.saved = v.saved
    <2>1. CASE "count" \in seen
      <3>1. u = filterCount(v) BY <1>9, <2>1
      <3> QED BY <1>1, <1>8, <3>1, FilterCountOK
    <2>2. CASE "count" \notin seen BY <1>8, <1>9, <2>2
    <2> QED BY <2>1, <2>2
  <1>11. PICK new : new = [u EXCEPT !.polled = TRUE] OBVIOUS
  <1>12. /\ new \in WatcherType /\ new.loaded = u.loaded /\ new.device = uuid /\ new.level = v.level
         /\ new.saved = v.saved /\ new.count = u.count /\ new.reported = u.reported
    BY <1>10, <1>11 DEF WatcherType
  <1>13. PICK told : told = {x \in seen : IF x = "level" THEN emitsLevel(w) ELSE emitsCount(w)} OBVIOUS
  <1>14. /\ seProc' = new /\ seSent' = told
         /\ \/ /\ seFile' = IF new.saved = w.saved THEN seFile ELSE saveHealthState(new)
               /\ seChanged' = (seChanged /\ "level" \notin told)
            \/ new.saved # w.saved /\ UNCHANGED seFile /\ seChanged' = TRUE
         /\ UNCHANGED <<seVendor, seLevel, seCount, seDevice, seBoot>>
    BY <1>2, <1>3, <1>7, <1>9, <1>11, <1>13 DEF poll
  <1>15. "level" \in told => "level" \in seen /\ emitsLevel(w) BY <1>13
  <1>16. "level" \in seSent' => seChanged BY <1>1, <1>6, <1>8, <1>14, <1>15
  <1>17. SeTypeOK' /\ seChanged' \in BOOLEAN
    <2>1. saveHealthState(new) \in [boot : Nat, level : Nat \cup {NoValue}]
      BY <1>1, <1>12 DEF SeTypeOK, WatcherType, saveHealthState
    <2> QED BY <1>1, <1>12, <1>14, <2>1 DEF SeTypeOK
  <1>18. CountOK(seProc)' /\ SavedOK(seProc)'
    BY <1>8, <1>10, <1>12, <1>14 DEF CountOK, SavedOK
  <1>19. ASSUME seChanged' = FALSE PROVE EmittedIsKnown'
    <2>1. seFile' = IF new.saved = w.saved THEN seFile ELSE saveHealthState(new) BY <1>14, <1>19
    <2>2. CASE seChanged = FALSE
      <3>1. new.level = seLevel /\ w.level = seLevel BY <1>6, <1>8, <1>12, <2>2
      <3>2. seVendor = "nvidia" => new.saved = w.saved BY <1>5, <1>8, <1>12, <3>1 DEF SavedOK
      <3>3. new.loaded /\ new.device \in {0, seDevice} BY <1>10, <1>12
      <3>4. seVendor = "nvidia" => UNCHANGED seFile /\ seFile.boot = seBoot /\ seFile.level = seLevel
        BY <1>1, <2>1, <2>2, <3>2 DEF EmittedIsKnown
      <3> QED BY <1>14, <3>1, <3>3, <3>4 DEF EmittedIsKnown
    <2>3. CASE "level" \in told
      <3>1. new.level = seLevel /\ (seVendor = "nvidia" => new.saved = seLevel /\ new.saved # w.saved)
        BY <1>8, <1>12, <1>15, <2>3
      <3>2. seVendor = "nvidia" => seFile' = [boot |-> seBoot, level |-> seLevel]
        BY <2>1, <3>1 DEF saveHealthState
      <3>3. new.loaded /\ new.device \in {0, seDevice} BY <1>10, <1>12
      <3>4. seVendor = "nvidia" => seFile'.boot = seBoot /\ seFile'.level = seLevel BY <3>2
      <3> QED BY <1>14, <3>1, <3>3, <3>4 DEF EmittedIsKnown
    <2> QED BY <1>1, <1>14, <1>19, <2>2, <2>3
  <1> QED BY <1>16, <1>17, <1>18, <1>19 DEF SeInv

LEMMA OtherSeriesStep ==
  ASSUME SeInv, LevelChanges \/ CounterMoves \/ DeviceReplaced \/ SeStops \/ SeStarts \/ RecordLost
  PROVE  SeInv' /\ seSent' = {}
  <1>1. SeTypeOK BY DEF SeInv
  <1>2. CASE LevelChanges BY <1>1, <1>2, SeriesAssumption, SeriesStand DEF LevelChanges, SeTypeOK
  <1>3. CASE CounterMoves
    <2>1. seCount' \in Nat BY <1>3 DEF CounterMoves
    <2> QED BY <1>1, <1>3, <2>1, SeriesStand DEF CounterMoves, SeTypeOK
  <1>4. CASE DeviceReplaced
    <2>1. seCount' \in Nat /\ seDevice' \in Nat BY <1>1, <1>4 DEF DeviceReplaced, SeTypeOK
    <2> QED BY <1>1, <1>4, <2>1, SeriesStand DEF DeviceReplaced, SeTypeOK
  <1>5. CASE SeStops
    <2>1. SeTypeOK' /\ seChanged' \in BOOLEAN
      BY <1>1, <1>5, NewWatcherOK DEF SeStops, SeTypeOK
    <2>2. CountOK(seProc)' /\ SavedOK(seProc)' BY <1>5, NewWatcherOK DEF SeStops, CountOK, SavedOK
    <2>3. seChanged' = FALSE => EmittedIsKnown'
      BY <1>1, <1>5, NewWatcherOK DEF SeStops, SeInv, SeTypeOK, EmittedIsKnown
    <2> QED BY <1>5, <2>1, <2>2, <2>3 DEF SeStops, SeInv
  <1>6. CASE SeStarts
    <2>1. seBoot' \in Nat /\ seLevel' \in Nat /\ seCount' \in Nat BY <1>1, <1>6 DEF SeStarts, SeTypeOK
    <2> QED BY <1>1, <1>6, <2>1, SeriesStand DEF SeStarts, SeTypeOK
  <1>7. CASE RecordLost
    <2>1. NoRecord \in [boot : Nat, level : Nat \cup {NoValue}] BY DEF NoRecord
    <2> QED BY <1>1, <1>7, <2>1, SeriesStand DEF RecordLost, SeTypeOK
  <1> QED BY <1>2, <1>3, <1>4, <1>5, <1>6, <1>7

(* filter, loadStateLocked and persistState: for any deltas and levels and *)
(* any number of polls, restarts, reboots and replacements, a level is     *)
(* emitted only after a change since its last emission or after its record *)
(* could not be kept, and the growth of a counter that has been seen and   *)
(* not reported stays below the delta.                                     *)
THEOREM SeriesHonest == SeSpec => SeriesAreHonest
  <1>1. SeInit => SeInv
    BY NewWatcherOK, SeriesAssumption
       DEF SeInit, SeInv, SeTypeOK, CountOK, SavedOK, NoRecord
  <1>2. ASSUME SeInv, [SeNext]_seVars
        PROVE  SeInv' /\ [("level" \in seSent') => seChanged]_seVars
    <2>1. CASE UNCHANGED seVars
      BY <1>2, <2>1 DEF seVars, SeInv, SeTypeOK, CountOK, SavedOK, EmittedIsKnown
    <2>2. ASSUME NEW seen \in sources, poll(seen, 0) \/ (seVendor = "amd" /\ poll(seen, seDevice))
          PROVE  SeInv' /\ ("level" \in seSent' => seChanged)
      BY <1>2, <2>2, PollStep
    <2> QED BY <1>2, <2>1, <2>2, OtherSeriesStep DEF SeNext
  <1>3. SeInv => (seProc.count # NoValue => /\ seProc.reported <= seProc.count
                                            /\ seProc.count < seProc.reported + SeDelta[seVendor])
    BY DEF SeInv, CountOK
  <1> QED BY <1>1, <1>2, <1>3, PTL DEF SeSpec, SeriesAreHonest
=============================================================================
