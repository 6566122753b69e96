------------------------- MODULE Controller_proofs -------------------------
(***************************************************************************)
(* Two parts of the controller: the diagnostics it starts on nodes         *)
(* (HealthCheck), and the configuration it compiles (SnapshotCompile).     *)
(***************************************************************************)
EXTENDS HealthCheck, SnapshotCompile, FiniteSetTheorems, TLAPS

(* Operator-requested diagnostics.  Only the holder of diagnosticMu creates *)
(* runs, so what it counted when it took the mutex is still an upper bound *)
(* when it records the run.                                                *)

HcLocked == {"reserve", "create", "enqueue"}
HcEnds == {"completed", "failed", "cancelled", "timed_out"}
HcRunState == {"none", "queued", "blocked"} \cup HcEnds
HcActState == {"none", "pending", "leased", "lapsed", "done", "dead", "cancelled"}
HcQueuedRuns == {k \in HcKey : hcRun[k] = "queued"}
HcRunner(pcs) == [pc : pcs, key : HcKey \cup {"-"}, fresh : BOOLEAN, verdict : HcEnds \cup {"-"}]

HcTypeOK ==
    /\ hcKey \in [HcKey -> BOOLEAN] /\ hcClaims \in [HcKey -> BOOLEAN]
    /\ hcRun \in [HcKey -> HcRunState] /\ hcAct \in [HcKey -> HcActState]
    /\ hcLeases \in [HcKey -> Nat] /\ hcQueued \in [HcKey -> Nat]
    /\ hcTry \in [HcTry -> [pc : {"off", "snapshot"} \cup HcLocked, key : HcKey \cup {"-"}]]
    /\ hcMu \in HcTry \cup {"free"}
    /\ hcRec \in HcRunner({"off", "judge", "write"}) /\ hcCancel \in HcRunner({"off", "cancel", "save"})

(* What handler t relies on. *)
HandlerOK(t) ==
    /\ hcTry[t].pc # "off" => hcTry[t].key \in HcKey
    /\ hcTry[t].pc \in HcLocked <=> hcMu = t
    /\ hcTry[t].pc = "reserve" => ~hcKey[hcTry[t].key]
    /\ hcTry[t].pc \in {"create", "enqueue"} => hcKey[hcTry[t].key]
    /\ hcTry[t].pc \in {"reserve", "create"} =>
          /\ hcRun[hcTry[t].key] = "none"
          /\ hcTry[t].key \in HcPassive \/ Cardinality(HcQueuedRuns) < MaxNodeActive
    /\ hcTry[t].pc = "enqueue" => hcRun[hcTry[t].key] # "none" /\ hcAct[hcTry[t].key] = "none"

(* The records of one key agree. *)
KeyOK(k) ==
    /\ ~hcKey[k] => hcRun[k] = "none"
    /\ hcRun[k] = "none" => hcAct[k] = "none"
    /\ hcAct[k] = "none" => hcQueued[k] = 0
    /\ hcQueued[k] <= 1
    /\ hcAct[k] \in {"none", "pending"} => hcLeases[k] = 0
    /\ hcClaims[k] => hcAct[k] = "cancelled" /\ hcLeases[k] = 0

(* What the reconciler and the cancel handler hold. *)
RunnersOK ==
    /\ hcRec.pc # "off" => hcRec.key \in HcKey /\ hcRun[hcRec.key] # "none"
    /\ hcRec.pc = "write" => hcRec.verdict \in HcEnds
    /\ hcCancel.pc # "off" => hcCancel.key \in HcKey /\ hcRun[hcCancel.key] # "none"
    /\ hcCancel.pc = "save" => hcAct[hcCancel.key] = "cancelled" /\ hcLeases[hcCancel.key] = 0

HcInv ==
    /\ HcTypeOK /\ RunnersOK
    /\ Cardinality(HcQueuedRuns) <= MaxNodeActive
    /\ \A t \in HcTry : HandlerOK(t)
    /\ \A k \in HcKey : KeyOK(k)

(* Runs that only leave the queue make it no longer. *)
LEMMA QueueShrinks ==
  ASSUME \A k \in HcKey : hcRun'[k] = "queued" => hcRun[k] = "queued"
  PROVE  /\ Cardinality(HcQueuedRuns) \in Nat /\ Cardinality(HcQueuedRuns)' \in Nat
         /\ Cardinality(HcQueuedRuns)' <= Cardinality(HcQueuedRuns)
  <1>1. HcQueuedRuns \subseteq HcKey /\ HcQueuedRuns' \subseteq HcQueuedRuns BY DEF HcQueuedRuns
  <1>2. IsFiniteSet(HcQueuedRuns) BY <1>1, HealthCheckAssumption, FS_Subset
  <1>3. IsFiniteSet(HcQueuedRuns') /\ Cardinality(HcQueuedRuns') <= Cardinality(HcQueuedRuns)
    BY <1>1, <1>2, FS_Subset
  <1> QED BY <1>2, <1>3, FS_CardinalityType

(* A new queued run makes it at most one longer. *)
LEMMA QueueGrows ==
  ASSUME NEW j \in HcKey, \A k \in HcKey \ {j} : hcRun'[k] = hcRun[k]
  PROVE  /\ Cardinality(HcQueuedRuns) \in Nat /\ Cardinality(HcQueuedRuns)' \in Nat
         /\ Cardinality(HcQueuedRuns)' <= Cardinality(HcQueuedRuns) + 1
  <1>1. HcQueuedRuns \subseteq HcKey /\ HcQueuedRuns' \subseteq HcQueuedRuns \cup {j} BY DEF HcQueuedRuns
  <1>2. IsFiniteSet(HcQueuedRuns) BY <1>1, HealthCheckAssumption, FS_Subset
  <1>3. /\ IsFiniteSet(HcQueuedRuns \cup {j})
        /\ Cardinality(HcQueuedRuns \cup {j}) <= Cardinality(HcQueuedRuns) + 1
    <2>1. Cardinality(HcQueuedRuns) \in Nat BY <1>2, FS_CardinalityType
    <2>2. /\ IsFiniteSet(HcQueuedRuns \cup {j})
          /\ Cardinality(HcQueuedRuns \cup {j}) = IF j \in HcQueuedRuns THEN Cardinality(HcQueuedRuns)
                                                  ELSE Cardinality(HcQueuedRuns) + 1
      BY <1>2, FS_AddElement, Zenon
    <2> QED BY <2>1, <2>2, SMT
  <1>4. IsFiniteSet(HcQueuedRuns') /\ Cardinality(HcQueuedRuns') <= Cardinality(HcQueuedRuns \cup {j})
    BY <1>1, <1>3, FS_Subset
  <1>5. Cardinality(HcQueuedRuns) \in Nat /\ Cardinality(HcQueuedRuns') \in Nat
        /\ Cardinality(HcQueuedRuns \cup {j}) \in Nat
    BY <1>2, <1>3, <1>4, FS_CardinalityType
  <1> QED BY <1>3, <1>4, <1>5

(* Steps of the agent, the reconciler and the cancel handler leave the     *)
(* handlers' assumptions standing.                                         *)
LEMMA HandlersKeep ==
  ASSUME HcInv, UNCHANGED <<hcTry, hcMu, hcKey>>,
         \A k \in HcKey : /\ hcRun'[k] = "none" <=> hcRun[k] = "none"
                          /\ hcAct[k] = "none" => hcAct'[k] = "none"
                          /\ hcRun'[k] = "queued" => hcRun[k] = "queued"
  PROVE  Cardinality(HcQueuedRuns)' <= MaxNodeActive /\ \A t \in HcTry : HandlerOK(t)'
  <1>1. /\ Cardinality(HcQueuedRuns) \in Nat /\ Cardinality(HcQueuedRuns)' \in Nat
        /\ Cardinality(HcQueuedRuns)' <= Cardinality(HcQueuedRuns)
    BY QueueShrinks
  <1>2. Cardinality(HcQueuedRuns)' <= MaxNodeActive BY <1>1, HealthCheckAssumption DEF HcInv
  <1>3. ASSUME NEW t \in HcTry PROVE HandlerOK(t)'
    <2>1. HandlerOK(t) BY DEF HcInv
    <2>2. Cardinality(HcQueuedRuns) < MaxNodeActive => Cardinality(HcQueuedRuns)' < MaxNodeActive
      BY <1>1, HealthCheckAssumption
    <2> HIDE DEF HcQueuedRuns
    <2> QED BY <2>1, <2>2 DEF HandlerOK, HcLocked
  <1> QED BY <1>2, <1>3

(* While t holds the mutex, or takes it, the other handlers hold nothing.  *)
LEMMA OtherHandlers ==
  ASSUME HcInv, NEW t \in HcTry, hcMu \in {t, "free"}, hcMu' \in {t, "free"},
         \A u \in HcTry \ {t} : hcTry'[u] = hcTry[u]
  PROVE  \A u \in HcTry \ {t} : HandlerOK(u)'
  <1> SUFFICES ASSUME NEW u \in HcTry \ {t} PROVE HandlerOK(u)' OBVIOUS
  <1>1. HandlerOK(u) BY DEF HcInv
  <1>2. hcMu # u /\ hcMu' # u BY HealthCheckAssumption
  <1>3. hcTry'[u] = hcTry[u] /\ hcTry[u].pc \notin HcLocked BY <1>1, <1>2 DEF HandlerOK
  <1> QED BY <1>1, <1>2, <1>3 DEF HandlerOK, HcLocked

(* A handler's place changes to the record r. *)
LEMMA HandlerMoves ==
  ASSUME HcTypeOK, NEW t \in HcTry, NEW r \in [pc : {"off", "snapshot"} \cup HcLocked, key : HcKey \cup {"-"}],
         hcTry' = [hcTry EXCEPT ![t] = r]
  PROVE  /\ hcTry' \in [HcTry -> [pc : {"off", "snapshot"} \cup HcLocked, key : HcKey \cup {"-"}]]
         /\ hcTry'[t] = r /\ \A u \in HcTry \ {t} : hcTry'[u] = hcTry[u]
  BY DEF HcTypeOK

LEMMA HandlerAdvances ==
  ASSUME HcTypeOK, NEW t \in HcTry, NEW pc \in HcLocked, hcTry' = [hcTry EXCEPT ![t].pc = pc]
  PROVE  /\ hcTry' \in [HcTry -> [pc : {"off", "snapshot"} \cup HcLocked, key : HcKey \cup {"-"}]]
         /\ hcTry'[t].pc = pc /\ hcTry'[t].key = hcTry[t].key /\ \A u \in HcTry \ {t} : hcTry'[u] = hcTry[u]
  <1>1. PICK r : r = [hcTry[t] EXCEPT !.pc = pc] BY Zenon
  <1>2. hcTry[t] \in [pc : {"off", "snapshot"} \cup HcLocked, key : HcKey \cup {"-"}] BY DEF HcTypeOK
  <1>3. r \in [pc : {"off", "snapshot"} \cup HcLocked, key : HcKey \cup {"-"}] /\ r.pc = pc /\ r.key = hcTry[t].key
    BY <1>1, <1>2
  <1>4. hcTry' = [hcTry EXCEPT ![t] = r] BY <1>1 DEF HcTypeOK
  <1> QED BY Zenon, <1>3, <1>4, HandlerMoves

LEMMA HandlerIsOff ==
  /\ HcOff \in [pc : {"off", "snapshot"} \cup HcLocked, key : HcKey \cup {"-"}] /\ HcOff.pc = "off"
  /\ HcRest \in HcRunner({"off", "judge", "write"}) /\ HcRest \in HcRunner({"off", "cancel", "save"})
  /\ HcRest.pc = "off"
  BY DEF HcOff, HcRest, HcRunner

(* A copy that goes stale is otherwise what it was. *)
LEMMA StaleKeeps ==
  ASSUME NEW pcs, NEW who \in HcRunner(pcs), NEW k, NEW s, s = StaleFor(who, k)
  PROVE  s \in HcRunner(pcs) /\ s.pc = who.pc /\ s.key = who.key /\ s.verdict = who.verdict
  BY Zenon DEF HcRunner, StaleFor

(* A handler that lets go of the mutex, or never had it. *)
LEMMA HandlerReturns ==
  ASSUME HcInv, NEW t \in HcTry, hcMu \in {t, "free"}, hcMu' = "free", hcTry' = [hcTry EXCEPT ![t] = HcOff]
  PROVE  /\ hcTry' \in [HcTry -> [pc : {"off", "snapshot"} \cup HcLocked, key : HcKey \cup {"-"}]]
         /\ \A u \in HcTry : HandlerOK(u)'
  <1>1. /\ hcTry' \in [HcTry -> [pc : {"off", "snapshot"} \cup HcLocked, key : HcKey \cup {"-"}]]
        /\ hcTry'[t] = HcOff /\ \A u \in HcTry \ {t} : hcTry'[u] = hcTry[u]
    BY Zenon, HandlerIsOff, HandlerMoves DEF HcInv
  <1>2. HandlerOK(t)'
    <2>1. hcTry'[t].pc = "off" /\ hcMu' # t BY <1>1, HandlerIsOff, HealthCheckAssumption
    <2> QED BY <2>1 DEF HandlerOK, HcLocked
  <1> QED BY <1>1, <1>2, OtherHandlers

LEMMA LookupStep ==
  ASSUME HcInv, NEW t \in HcTry, NEW k \in HcKey, HcLookup(t, k) PROVE HcInv'
  <1>1. PICK r : r = [pc |-> "snapshot", key |-> k] BY Zenon
  <1>2. r \in [pc : {"off", "snapshot"} \cup HcLocked, key : HcKey \cup {"-"}] /\ r.pc = "snapshot" /\ r.key = k
    BY <1>1
  <1>3. hcTry[t].pc = "off" /\ hcTry' = [hcTry EXCEPT ![t] = r]
        /\ UNCHANGED <<hcKey, hcRun, hcAct, hcLeases, hcMu, hcRec, hcCancel, hcQueued, hcClaims>>
    BY <1>1 DEF HcLookup
  <1>4. /\ hcTry' \in [HcTry -> [pc : {"off", "snapshot"} \cup HcLocked, key : HcKey \cup {"-"}]]
        /\ hcTry'[t] = r /\ \A u \in HcTry \ {t} : hcTry'[u] = hcTry[u]
    BY Zenon, <1>2, <1>3, HandlerMoves DEF HcInv
  <1>5. HcTypeOK' BY <1>3, <1>4 DEF HcInv, HcTypeOK
  <1>6. RunnersOK' /\ \A j \in HcKey : KeyOK(j)' BY <1>3 DEF HcInv, RunnersOK, KeyOK
  <1>7. HcQueuedRuns' = HcQueuedRuns BY <1>3 DEF HcQueuedRuns
  <1>8. ASSUME NEW u \in HcTry PROVE HandlerOK(u)'
    <2>1. HandlerOK(u) BY DEF HcInv
    <2>2. CASE u = t
      <3>1. hcMu # t BY <1>3, <2>1, <2>2 DEF HandlerOK, HcLocked
      <3> QED BY <1>2, <1>3, <1>4, <2>2, <3>1 DEF HandlerOK, HcLocked
    <2>3. CASE u # t
      <3>1. hcTry'[u] = hcTry[u] BY <1>4, <2>3
      <3> HIDE DEF HcQueuedRuns
      <3> QED BY <1>3, <1>7, <2>1, <3>1 DEF HandlerOK
    <2> QED BY <2>2, <2>3
  <1> QED BY <1>5, <1>6, <1>7, <1>8 DEF HcInv

LEMMA LocksStep ==
  ASSUME HcInv, NEW t \in HcTry, HcLocks(t) PROVE HcInv'
  <1>1. PICK k : k = hcTry[t].key OBVIOUS
  <1>2. /\ hcTry[t].pc = "snapshot" /\ hcMu = "free"
        /\ UNCHANGED <<hcKey, hcRun, hcAct, hcLeases, hcRec, hcCancel, hcQueued, hcClaims>>
    BY DEF HcLocks
  <1>3. HandlerOK(t) /\ HcTypeOK BY DEF HcInv
  <1>4. k \in HcKey BY <1>1, <1>2, <1>3 DEF HandlerOK
  <1>5. RunnersOK' /\ \A j \in HcKey : KeyOK(j)' BY <1>2 DEF HcInv, RunnersOK, KeyOK
  <1>6. HcQueuedRuns' = HcQueuedRuns BY <1>2 DEF HcQueuedRuns
  <1>7. CASE ~hcKey[k] /\ checkDiagnosticConcurrency(k) /\ hcMu' = t /\ hcTry' = [hcTry EXCEPT ![t].pc = "reserve"]
    <2>1. /\ hcTry' \in [HcTry -> [pc : {"off", "snapshot"} \cup HcLocked, key : HcKey \cup {"-"}]]
          /\ hcTry'[t].pc = "reserve" /\ hcTry'[t].key = k /\ \A u \in HcTry \ {t} : hcTry'[u] = hcTry[u]
      BY Zenon, <1>1, <1>3, <1>7, HandlerAdvances DEF HcLocked
    <2>2. hcRun[k] = "none" BY <1>4, <1>7 DEF HcInv, KeyOK
    <2>3. k \in HcPassive \/ Cardinality(HcQueuedRuns) < MaxNodeActive
      BY <1>7 DEF checkDiagnosticConcurrency, HcQueuedRuns
    <2>4. HandlerOK(t)'
      <3> HIDE DEF HcQueuedRuns
      <3> QED BY <1>2, <1>4, <1>6, <1>7, <2>1, <2>2, <2>3 DEF HandlerOK, HcLocked
    <2>5. \A u \in HcTry \ {t} : HandlerOK(u)' BY <1>2, <1>7, <2>1, OtherHandlers
    <2>6. HcTypeOK' BY <1>2, <1>3, <1>7, <2>1 DEF HcTypeOK
    <2> QED BY <1>5, <1>6, <2>4, <2>5, <2>6 DEF HcInv
  <1>8. CASE UNCHANGED hcMu /\ hcTry' = [hcTry EXCEPT ![t] = HcOff]
    <2>1. hcMu' = "free" BY <1>2, <1>8
    <2>2. /\ hcTry' \in [HcTry -> [pc : {"off", "snapshot"} \cup HcLocked, key : HcKey \cup {"-"}]]
          /\ \A u \in HcTry : HandlerOK(u)'
      BY Zenon, <1>2, <1>8, <2>1, HandlerReturns
    <2>3. HcTypeOK' BY <1>2, <1>3, <2>1, <2>2 DEF HcTypeOK
    <2> QED BY <1>5, <1>6, <2>2, <2>3 DEF HcInv
  <1> QED BY <1>1, <1>7, <1>8 DEF HcLocks

LEMMA ReservesStep ==
  ASSUME HcInv, NEW t \in HcTry, HcReserves(t) PROVE HcInv'
  <1>1. PICK k : k = hcTry[t].key OBVIOUS
  <1>2. /\ hcTry[t].pc = "reserve" /\ hcKey' = [hcKey EXCEPT ![k] = TRUE]
        /\ UNCHANGED <<hcRun, hcAct, hcLeases, hcRec, hcCancel, hcQueued, hcClaims>>
    BY <1>1 DEF HcReserves
  <1>3. HandlerOK(t) /\ HcTypeOK BY DEF HcInv
  <1>4. k \in HcKey /\ hcMu = t /\ hcRun[k] = "none"
        /\ (k \in HcPassive \/ Cardinality(HcQueuedRuns) < MaxNodeActive)
    BY <1>1, <1>2, <1>3 DEF HandlerOK, HcLocked
  <1>5. hcKey' \in [HcKey -> BOOLEAN] /\ hcKey'[k] /\ \A j \in HcKey : ~hcKey'[j] => ~hcKey[j]
    BY <1>2, <1>3, <1>4, Zenon DEF HcTypeOK
  <1>6. RunnersOK' /\ \A j \in HcKey : KeyOK(j)' BY <1>2, <1>5 DEF HcInv, RunnersOK, KeyOK
  <1>7. HcQueuedRuns' = HcQueuedRuns BY <1>2 DEF HcQueuedRuns
  <1>8. CASE hcTry' = [hcTry EXCEPT ![t].pc = "create"] /\ UNCHANGED hcMu
    <2>1. /\ hcTry' \in [HcTry -> [pc : {"off", "snapshot"} \cup HcLocked, key : HcKey \cup {"-"}]]
          /\ hcTry'[t].pc = "create" /\ hcTry'[t].key = k /\ \A u \in HcTry \ {t} : hcTry'[u] = hcTry[u]
      BY Zenon, <1>1, <1>3, <1>8, HandlerAdvances DEF HcLocked
    <2>2. HandlerOK(t)'
      <3> HIDE DEF HcQueuedRuns
      <3> QED BY <1>2, <1>4, <1>5, <1>7, <1>8, <2>1 DEF HandlerOK, HcLocked
    <2>3. \A u \in HcTry \ {t} : HandlerOK(u)' BY <1>4, <1>8, <2>1, OtherHandlers
    <2>4. HcTypeOK' BY <1>2, <1>3, <1>5, <1>8, <2>1 DEF HcTypeOK
    <2> QED BY <1>6, <1>7, <2>2, <2>3, <2>4 DEF HcInv
  <1>9. CASE hcTry' = [hcTry EXCEPT ![t] = HcOff] /\ hcMu' = "free"
    <2>1. /\ hcTry' \in [HcTry -> [pc : {"off", "snapshot"} \cup HcLocked, key : HcKey \cup {"-"}]]
          /\ \A u \in HcTry : HandlerOK(u)'
      BY Zenon, <1>4, <1>9, HandlerReturns
    <2>2. HcTypeOK' BY <1>2, <1>3, <1>5, <1>9, <2>1 DEF HcTypeOK
    <2> QED BY <1>6, <1>7, <2>1, <2>2 DEF HcInv
  <1> QED BY <1>8, <1>9 DEF HcReserves

LEMMA CreatesStep ==
  ASSUME HcInv, NEW t \in HcTry, HcCreates(t) PROVE HcInv'
  <1>1. PICK k : k = hcTry[t].key OBVIOUS
  <1>2. /\ hcTry[t].pc = "create" /\ UNCHANGED <<hcKey, hcAct, hcLeases, hcRec, hcCancel, hcQueued, hcClaims>>
    BY DEF HcCreates
  <1>3. HandlerOK(t) /\ HcTypeOK /\ RunnersOK BY DEF HcInv
  <1>4. k \in HcKey /\ hcMu = t /\ hcRun[k] = "none" /\ hcKey[k]
        /\ (k \in HcPassive \/ Cardinality(HcQueuedRuns) < MaxNodeActive)
    BY <1>1, <1>2, <1>3 DEF HandlerOK, HcLocked
  <1>5. PICK state \in IF k \in HcPassive THEN {"completed"} ELSE {"blocked", "queued"} :
          /\ hcRun' \in {hcRun, [hcRun EXCEPT ![k] = state]}
          /\ \/ /\ hcTry' = [hcTry EXCEPT ![t] = HcOff] /\ hcMu' = "free"
             \/ /\ hcRun' = [hcRun EXCEPT ![k] = state]
                /\ hcTry' = [hcTry EXCEPT ![t].pc = "enqueue"] /\ UNCHANGED hcMu
    BY <1>1 DEF HcCreates
  <1>6. /\ hcRun' \in [HcKey -> HcRunState] /\ \A j \in HcKey \ {k} : hcRun'[j] = hcRun[j]
        /\ hcRun'[k] \in {hcRun[k], state} /\ state # "none"
        /\ k \in HcPassive => state # "queued"
    BY ZenonT(40), <1>3, <1>4, <1>5 DEF HcTypeOK, HcRunState, HcEnds
  <1>7. Cardinality(HcQueuedRuns)' <= MaxNodeActive
    <2>1. CASE k \in HcPassive
      <3>1. \A j \in HcKey : hcRun'[j] = "queued" => hcRun[j] = "queued" BY <1>4, <1>6, <2>1
      <3>2. /\ Cardinality(HcQueuedRuns) \in Nat /\ Cardinality(HcQueuedRuns)' \in Nat
            /\ Cardinality(HcQueuedRuns)' <= Cardinality(HcQueuedRuns)
        BY <3>1, QueueShrinks
      <3> QED BY <3>2, HealthCheckAssumption DEF HcInv
    <2>2. CASE Cardinality(HcQueuedRuns) < MaxNodeActive
      <3>1. /\ Cardinality(HcQueuedRuns) \in Nat /\ Cardinality(HcQueuedRuns)' \in Nat
            /\ Cardinality(HcQueuedRuns)' <= Cardinality(HcQueuedRuns) + 1
        BY <1>4, <1>6, QueueGrows
      <3> QED BY <2>2, <3>1, HealthCheckAssumption
    <2> QED BY <1>4, <2>1, <2>2
  <1>8. \A j \in HcKey : hcRun'[j] = "none" => hcRun[j] = "none" BY <1>6, <1>4
  <1>9. RunnersOK'
    <2>1. \A j \in HcKey : hcRun[j] # "none" => hcRun'[j] # "none" BY <1>8
    <2> QED BY <1>2, <1>3, <2>1 DEF RunnersOK
  <1>10. ASSUME NEW j \in HcKey PROVE KeyOK(j)'
    <2>1. KeyOK(j) BY DEF HcInv
    <2>2. CASE j = k BY <1>2, <1>4, <1>8, <2>1, <2>2 DEF KeyOK
    <2>3. CASE j # k BY <1>2, <1>6, <2>1, <2>3 DEF KeyOK
    <2> QED BY <2>2, <2>3
  <1>11. CASE hcTry' = [hcTry EXCEPT ![t] = HcOff] /\ hcMu' = "free"
    <2>1. /\ hcTry' \in [HcTry -> [pc : {"off", "snapshot"} \cup HcLocked, key : HcKey \cup {"-"}]]
          /\ \A u \in HcTry : HandlerOK(u)'
      BY Zenon, <1>4, <1>11, HandlerReturns
    <2>2. HcTypeOK' BY <1>2, <1>3, <1>6, <1>11, <2>1 DEF HcTypeOK
    <2> QED BY <1>7, <1>9, <1>10, <2>1, <2>2 DEF HcInv
  <1>12. CASE /\ hcRun' = [hcRun EXCEPT ![k] = state]
              /\ hcTry' = [hcTry EXCEPT ![t].pc = "enqueue"] /\ UNCHANGED hcMu
    <2>1. /\ hcTry' \in [HcTry -> [pc : {"off", "snapshot"} \cup HcLocked, key : HcKey \cup {"-"}]]
          /\ hcTry'[t].pc = "enqueue" /\ hcTry'[t].key = k /\ \A u \in HcTry \ {t} : hcTry'[u] = hcTry[u]
      BY Zenon, <1>1, <1>3, <1>12, HandlerAdvances DEF HcLocked
    <2>2. hcRun'[k] # "none" /\ hcAct[k] = "none"
      BY <1>3, <1>4, <1>6, <1>12 DEF HcTypeOK, HcInv, KeyOK
    <2>3. HandlerOK(t)' BY <1>2, <1>4, <1>12, <2>1, <2>2 DEF HandlerOK, HcLocked
    <2>4. \A u \in HcTry \ {t} : HandlerOK(u)' BY <1>4, <1>12, <2>1, OtherHandlers
    <2>5. HcTypeOK' BY <1>2, <1>3, <1>6, <1>12, <2>1, SMTT(40) DEF HcTypeOK
    <2> QED BY <1>7, <1>9, <1>10, <2>3, <2>4, <2>5 DEF HcInv
  <1> QED BY <1>5, <1>11, <1>12

LEMMA EnqueuesStep ==
  ASSUME HcInv, NEW t \in HcTry, HcEnqueues(t) PROVE HcInv'
  <1>1. PICK k : k = hcTry[t].key OBVIOUS
  <1>2. /\ hcTry[t].pc = "enqueue" /\ hcTry' = [hcTry EXCEPT ![t] = HcOff] /\ hcMu' = "free"
        /\ UNCHANGED <<hcKey, hcLeases, hcClaims>>
    BY DEF HcEnqueues
  <1>3. HandlerOK(t) /\ HcTypeOK /\ RunnersOK BY DEF HcInv
  <1>4. k \in HcKey /\ hcMu = t /\ hcRun[k] # "none" /\ hcKey[k] /\ hcAct[k] = "none"
    BY <1>1, <1>2, <1>3 DEF HandlerOK, HcLocked
  <1>5. /\ hcTry' \in [HcTry -> [pc : {"off", "snapshot"} \cup HcLocked, key : HcKey \cup {"-"}]]
        /\ \A u \in HcTry : HandlerOK(u)'
    BY Zenon, <1>2, <1>4, HandlerReturns
  <1>6. CASE /\ hcAct' = [hcAct EXCEPT ![k] = "pending"] /\ hcQueued' = [hcQueued EXCEPT ![k] = @ + 1]
             /\ UNCHANGED <<hcRun, hcRec, hcCancel>>
    <2>1. hcQueued[k] = 0 /\ hcQueued \in [HcKey -> Nat] BY <1>3, <1>4 DEF HcInv, KeyOK, HcTypeOK
    <2>2. /\ hcAct' \in [HcKey -> HcActState] /\ hcAct'[k] = "pending"
          /\ \A j \in HcKey \ {k} : hcAct'[j] = hcAct[j]
      BY <1>3, <1>4, <1>6 DEF HcTypeOK, HcActState
    <2>3. /\ hcQueued' \in [HcKey -> Nat] /\ hcQueued'[k] = 1 /\ \A j \in HcKey \ {k} : hcQueued'[j] = hcQueued[j]
      BY <1>4, <1>6, <2>1
    <2>4. HcTypeOK' BY <1>2, <1>3, <1>5, <1>6, <2>2, <2>3 DEF HcTypeOK
    <2>5. RunnersOK' BY <1>2, <1>3, <1>4, <1>6, <2>2 DEF RunnersOK
    <2>6. HcQueuedRuns' = HcQueuedRuns BY <1>6 DEF HcQueuedRuns
    <2>7. ASSUME NEW j \in HcKey PROVE KeyOK(j)'
      <3>1. KeyOK(j) BY DEF HcInv
      <3>2. CASE j = k BY <1>2, <1>4, <1>6, <2>2, <2>3, <3>1, <3>2, SMTT(40) DEF KeyOK
      <3>3. CASE j # k BY <1>2, <1>6, <2>2, <2>3, <3>1, <3>3 DEF KeyOK
      <3> QED BY <3>2, <3>3
    <2> QED BY <1>5, <2>4, <2>5, <2>6, <2>7 DEF HcInv
  <1>7. CASE UNCHANGED <<hcRun, hcRec, hcCancel, hcAct, hcQueued>>
    <2>1. HcTypeOK' BY <1>2, <1>3, <1>5, <1>7 DEF HcTypeOK
    <2>2. RunnersOK' /\ \A j \in HcKey : KeyOK(j)' BY <1>2, <1>7 DEF HcInv, RunnersOK, KeyOK
    <2>3. HcQueuedRuns' = HcQueuedRuns BY <1>7 DEF HcQueuedRuns
    <2> QED BY <1>5, <2>1, <2>2, <2>3 DEF HcInv
  <1>8. CASE /\ hcRun[k] = "queued" /\ hcRun' = [hcRun EXCEPT ![k] = "failed"]
             /\ hcRec' = StaleFor(hcRec, k) /\ hcCancel' = StaleFor(hcCancel, k) /\ UNCHANGED <<hcAct, hcQueued>>
    <2>1. /\ hcRun' \in [HcKey -> HcRunState] /\ hcRun'[k] = "failed" /\ \A j \in HcKey \ {k} : hcRun'[j] = hcRun[j]
      BY <1>3, <1>4, <1>8 DEF HcTypeOK, HcRunState, HcEnds
    <2>2. /\ hcRec' \in HcRunner({"off", "judge", "write"}) /\ hcRec'.pc = hcRec.pc
          /\ hcRec'.key = hcRec.key /\ hcRec'.verdict = hcRec.verdict
      BY <1>3, <1>8, StaleKeeps DEF HcTypeOK
    <2>3. /\ hcCancel' \in HcRunner({"off", "cancel", "save"}) /\ hcCancel'.pc = hcCancel.pc
          /\ hcCancel'.key = hcCancel.key
      BY <1>3, <1>8, StaleKeeps DEF HcTypeOK
    <2>4. HcTypeOK' BY <1>2, <1>3, <1>5, <1>8, <2>1, <2>2, <2>3 DEF HcTypeOK
    <2>5. \A j \in HcKey : (hcRun'[j] = "none" <=> hcRun[j] = "none") /\ (hcRun'[j] = "queued" => hcRun[j] = "queued")
      BY <1>4, <2>1
    <2>6. RunnersOK' BY <1>2, <1>3, <1>8, <2>2, <2>3, <2>5 DEF RunnersOK
    <2>7. \A j \in HcKey : KeyOK(j)' BY <1>2, <1>8, <2>5 DEF HcInv, KeyOK
    <2>8. /\ Cardinality(HcQueuedRuns) \in Nat /\ Cardinality(HcQueuedRuns)' \in Nat
          /\ Cardinality(HcQueuedRuns)' <= Cardinality(HcQueuedRuns)
      BY <2>5, QueueShrinks
    <2>9. Cardinality(HcQueuedRuns)' <= MaxNodeActive BY <2>8, HealthCheckAssumption DEF HcInv
    <2> QED BY <1>5, <2>4, <2>6, <2>7, <2>9 DEF HcInv
  <1> QED BY <1>1, <1>6, <1>7, <1>8 DEF HcEnqueues

(* The steps in which no handler moves: they keep the run's existence, put *)
(* nothing in the queue and give no action a new life.                     *)
LEMMA OutsideStep ==
  ASSUME HcInv, UNCHANGED <<hcTry, hcMu, hcKey, hcQueued>>, HcTypeOK', RunnersOK',
         \A k \in HcKey : /\ hcRun'[k] = "none" <=> hcRun[k] = "none"
                          /\ hcAct'[k] = "none" <=> hcAct[k] = "none"
                          /\ hcRun'[k] = "queued" => hcRun[k] = "queued"
                          /\ hcAct'[k] = "pending" => hcLeases'[k] = 0
                          /\ hcAct'[k] = "none" => hcLeases'[k] = hcLeases[k]
                          /\ hcClaims'[k] => hcAct'[k] = "cancelled" /\ hcLeases'[k] = 0
  PROVE  HcInv'
  <1>1. Cardinality(HcQueuedRuns)' <= MaxNodeActive /\ \A t \in HcTry : HandlerOK(t)' BY HandlersKeep
  <1>2. \A k \in HcKey : KeyOK(k)' BY DEF HcInv, KeyOK
  <1> QED BY <1>1, <1>2 DEF HcInv

LEMMA CancelReservesStep ==
  ASSUME HcInv, NEW k \in HcKey, HcCancelReserves(k) PROVE HcInv'
  <1>1. PICK r : r = [HcRest EXCEPT !.pc = "cancel", !.key = k, !.fresh = TRUE] OBVIOUS
  <1>2. r \in HcRunner({"off", "cancel", "save"}) /\ r.pc = "cancel" /\ r.key = k BY Zenon, <1>1 DEF HcRest, HcRunner
  <1>3. /\ hcRun[k] = "queued" /\ hcCancel' = r
        /\ UNCHANGED <<hcKey, hcRun, hcAct, hcLeases, hcTry, hcMu, hcRec, hcQueued, hcClaims>>
    BY <1>1 DEF HcCancelReserves
  <1>4. HcTypeOK' /\ RunnersOK' BY <1>2, <1>3 DEF HcInv, HcTypeOK, RunnersOK
  <1> QED BY <1>3, <1>4, OutsideStep DEF HcInv, KeyOK

LEMMA ListsStep ==
  ASSUME HcInv, NEW k \in HcKey, HcLists(k) PROVE HcInv'
  <1>1. PICK r : r = [HcRest EXCEPT !.pc = "judge", !.key = k, !.fresh = TRUE] OBVIOUS
  <1>2. r \in HcRunner({"off", "judge", "write"}) /\ r.pc = "judge" /\ r.key = k BY Zenon, <1>1 DEF HcRest, HcRunner
  <1>3. /\ hcRun[k] = "queued" /\ hcRec' = r
        /\ UNCHANGED <<hcKey, hcRun, hcAct, hcLeases, hcTry, hcMu, hcCancel, hcQueued, hcClaims>>
    BY <1>1 DEF HcLists
  <1>4. HcTypeOK' /\ RunnersOK' BY <1>2, <1>3, SMTT(40) DEF HcInv, HcTypeOK, RunnersOK
  <1> QED BY <1>3, <1>4, OutsideStep DEF HcInv, KeyOK

(* An action that is there and not cancelled takes the state to, which is  *)
(* not pending again.                                                      *)
LEMMA ActionMoves ==
  ASSUME HcInv, NEW k \in HcKey, NEW to \in HcActState \ {"none", "pending"},
         hcAct[k] \notin {"none", "cancelled"}, hcAct' = [hcAct EXCEPT ![k] = to],
         UNCHANGED <<hcKey, hcRun, hcTry, hcMu, hcCancel, hcQueued, hcClaims>>,
         hcLeases' \in [HcKey -> Nat], \A j \in HcKey \ {k} : hcLeases'[j] = hcLeases[j],
         hcRec' \in HcRunner({"off", "judge", "write"}),
         hcRec'.pc # "off" => hcRec'.key \in HcKey /\ hcRun[hcRec'.key] # "none",
         hcRec'.pc = "write" => hcRec'.verdict \in HcEnds
  PROVE  HcInv'
  <1>1. /\ hcAct' \in [HcKey -> HcActState] /\ hcAct'[k] = to /\ \A j \in HcKey \ {k} : hcAct'[j] = hcAct[j]
    BY SMTT(40) DEF HcInv, HcTypeOK
  <1>2. ~hcClaims[k] /\ ~(hcCancel.pc = "save" /\ hcCancel.key = k) BY DEF HcInv, KeyOK, RunnersOK
  <1>3. HcTypeOK' BY <1>1, SMTT(40) DEF HcInv, HcTypeOK
  <1>4. RunnersOK' BY <1>1, <1>2 DEF HcInv, RunnersOK
  <1>5. ASSUME NEW j \in HcKey
        PROVE  /\ hcRun'[j] = "none" <=> hcRun[j] = "none"
               /\ hcAct'[j] = "none" <=> hcAct[j] = "none"
               /\ hcRun'[j] = "queued" => hcRun[j] = "queued"
               /\ hcAct'[j] = "pending" => hcLeases'[j] = 0
               /\ hcAct'[j] = "none" => hcLeases'[j] = hcLeases[j]
               /\ hcClaims'[j] => hcAct'[j] = "cancelled" /\ hcLeases'[j] = 0
    <2>1. KeyOK(j) BY DEF HcInv
    <2>2. CASE j = k BY <1>1, <1>2, <2>2
    <2>3. CASE j # k BY <1>1, <2>1, <2>3 DEF KeyOK
    <2> QED BY <2>2, <2>3
  <1> QED BY <1>3, <1>4, <1>5, OutsideStep

LEMMA CancelPendingStep ==
  ASSUME HcInv, HcCancelPendingAction PROVE HcInv'
  <1>1. PICK k : k = hcCancel.key OBVIOUS
  <1>2. /\ hcCancel.pc = "cancel" /\ UNCHANGED <<hcKey, hcRun, hcLeases, hcTry, hcMu, hcRec, hcQueued, hcClaims>>
    BY DEF HcCancelPendingAction
  <1>3. k \in HcKey /\ hcRun[k] # "none" /\ HcTypeOK /\ RunnersOK BY <1>1, <1>2 DEF HcInv, RunnersOK
  <1>4. CASE hcAct[k] = "pending" /\ hcAct' = [hcAct EXCEPT ![k] = "cancelled"]
             /\ hcCancel' = [hcCancel EXCEPT !.pc = "save"]
    <2>1. /\ hcAct' \in [HcKey -> HcActState] /\ hcAct'[k] = "cancelled" /\ ~hcClaims[k]
          /\ \A j \in HcKey \ {k} : hcAct'[j] = hcAct[j]
      <3>1. ~hcClaims[k] BY <1>3, <1>4 DEF HcInv, KeyOK
      <3> QED BY <1>3, <1>4, <3>1 DEF HcTypeOK, HcActState
    <2>2. hcLeases[k] = 0 BY <1>3, <1>4 DEF HcInv, KeyOK
    <2>3. /\ hcCancel' \in HcRunner({"off", "cancel", "save"}) /\ hcCancel'.pc = "save" /\ hcCancel'.key = k
      BY <1>1, <1>3, <1>4 DEF HcTypeOK, HcRunner
    <2>4. HcTypeOK' BY <1>2, <1>3, <2>1, <2>3 DEF HcTypeOK
    <2>5. RunnersOK' BY <1>2, <1>3, <2>1, <2>2, <2>3 DEF RunnersOK
    <2> QED BY <1>2, <1>3, <1>4, <2>1, <2>2, <2>4, <2>5, OutsideStep DEF HcInv, KeyOK
  <1>5. CASE UNCHANGED hcAct /\ hcCancel' = HcRest
    <2>1. HcTypeOK' /\ RunnersOK' BY <1>2, <1>3, <1>5, HandlerIsOff DEF HcTypeOK, RunnersOK
    <2> QED BY Zenon, <1>2, <1>5, <2>1, OutsideStep DEF HcInv, KeyOK
  <1> QED BY <1>1, <1>4, <1>5 DEF HcCancelPendingAction, cancellable

LEMMA CancelSavesStep ==
  ASSUME HcInv, HcCancelSaves PROVE HcInv'
  <1>1. PICK k : k = hcCancel.key OBVIOUS
  <1>2. /\ hcCancel.pc = "save" /\ hcCancel' = HcRest
        /\ UNCHANGED <<hcKey, hcAct, hcLeases, hcTry, hcMu, hcQueued>>
    BY DEF HcCancelSaves
  <1>3. k \in HcKey /\ hcRun[k] # "none" /\ HcTypeOK /\ RunnersOK /\ hcAct[k] = "cancelled" /\ hcLeases[k] = 0
    BY <1>1, <1>2, SMTT(40) DEF HcInv, RunnersOK
  <1>4. CASE /\ hcRun' = [hcRun EXCEPT ![k] = "cancelled"] /\ hcClaims' = [hcClaims EXCEPT ![k] = TRUE]
             /\ hcRec' = StaleFor(hcRec, k)
    <2>1. /\ hcRun' \in [HcKey -> HcRunState] /\ hcRun'[k] = "cancelled"
          /\ \A j \in HcKey \ {k} : hcRun'[j] = hcRun[j]
      BY <1>3, <1>4 DEF HcTypeOK, HcRunState, HcEnds
    <2>2. /\ hcClaims' \in [HcKey -> BOOLEAN] /\ \A j \in HcKey \ {k} : hcClaims'[j] => hcClaims[j]
      BY <1>3, <1>4, Zenon DEF HcTypeOK
    <2>3. /\ hcRec' \in HcRunner({"off", "judge", "write"}) /\ hcRec'.pc = hcRec.pc
          /\ hcRec'.key = hcRec.key /\ hcRec'.verdict = hcRec.verdict
      BY <1>3, <1>4, StaleKeeps DEF HcTypeOK
    <2>4. HcTypeOK' BY <1>2, <1>3, <2>1, <2>2, <2>3, HandlerIsOff DEF HcTypeOK
    <2>5. \A j \in HcKey : (hcRun'[j] = "none" <=> hcRun[j] = "none") /\ (hcRun'[j] = "queued" => hcRun[j] = "queued")
      BY <1>3, <2>1
    <2>6. RunnersOK' BY <1>2, <1>3, <2>3, <2>5, HandlerIsOff, SMTT(40) DEF RunnersOK
    <2>7. \A j \in HcKey : hcClaims'[j] => hcAct'[j] = "cancelled" /\ hcLeases'[j] = 0
      BY <1>2, <1>3, <2>2 DEF HcInv, KeyOK
    <2> QED BY Zenon, <1>2, <2>4, <2>5, <2>6, <2>7, OutsideStep DEF HcInv, KeyOK
  <1>5. CASE UNCHANGED <<hcRun, hcClaims, hcRec>>
    <2>1. HcTypeOK' /\ RunnersOK' BY <1>2, <1>3, <1>5, HandlerIsOff DEF HcTypeOK, RunnersOK
    <2> QED BY Zenon, <1>2, <1>5, <2>1, OutsideStep DEF HcInv, KeyOK
  <1> QED BY <1>1, <1>4, <1>5 DEF HcCancelSaves

LEMMA JudgesStep ==
  ASSUME HcInv, HcJudges PROVE HcInv'
  <1>1. PICK k : k = hcRec.key OBVIOUS
  <1>2. PICK v \in verdicts(k) :
          /\ hcRec' = IF v = "-" THEN HcRest ELSE [hcRec EXCEPT !.pc = "write", !.verdict = v]
          /\ hcAct' = IF v = "timed_out" /\ hcAct[k] = "pending" THEN [hcAct EXCEPT ![k] = "cancelled"] ELSE hcAct
    BY Zenon, <1>1 DEF HcJudges
  <1>3. /\ hcRec.pc = "judge" /\ UNCHANGED <<hcKey, hcRun, hcLeases, hcTry, hcMu, hcCancel, hcQueued, hcClaims>>
    BY DEF HcJudges
  <1>4. k \in HcKey /\ hcRun[k] # "none" /\ HcTypeOK /\ RunnersOK BY <1>1, <1>3 DEF HcInv, RunnersOK
  <1>5. v \in HcEnds \cup {"-"}
    <2>1. hcAct[k] \in HcActState BY <1>4 DEF HcTypeOK
    <2> QED BY <2>1, <1>2 DEF verdicts, HcEnds, HcActState
  <1>6. /\ hcRec' \in HcRunner({"off", "judge", "write"})
        /\ hcRec'.pc # "off" => hcRec'.key = k /\ hcRec'.verdict \in HcEnds
    <2>1. CASE v = "-" BY <1>2, <2>1, HandlerIsOff
    <2>2. CASE v # "-" BY Zenon, <1>1, <1>2, <1>4, <1>5, <2>2 DEF HcTypeOK, HcRunner
    <2> QED BY <2>1, <2>2
  <1>7. CASE hcAct[k] = "pending" /\ hcAct' = [hcAct EXCEPT ![k] = "cancelled"]
    <2>1. "cancelled" \in HcActState \ {"none", "pending"} BY DEF HcActState
    <2>2. hcLeases' \in [HcKey -> Nat] /\ \A j \in HcKey : hcLeases'[j] = hcLeases[j] BY <1>3, <1>4 DEF HcTypeOK
    <2> QED BY Zenon, <1>3, <1>4, <1>6, <1>7, <2>1, <2>2, ActionMoves
  <1>8. CASE UNCHANGED hcAct
    <2>1. HcTypeOK' BY <1>3, <1>4, <1>6, <1>8, SMTT(40) DEF HcTypeOK
    <2>2. RunnersOK' BY <1>3, <1>4, <1>6, <1>8 DEF RunnersOK
    <2> QED BY Zenon, <1>3, <1>8, <2>1, <2>2, OutsideStep DEF HcInv, KeyOK
  <1> QED BY <1>2, <1>7, <1>8

LEMMA WritesStep ==
  ASSUME HcInv, HcWrites PROVE HcInv'
  <1>1. PICK k : k = hcRec.key OBVIOUS
  <1>2. /\ hcRec.pc = "write" /\ hcRec' = HcRest
        /\ UNCHANGED <<hcKey, hcAct, hcLeases, hcTry, hcMu, hcQueued, hcClaims>>
    BY DEF HcWrites
  <1>3. k \in HcKey /\ hcRun[k] # "none" /\ HcTypeOK /\ RunnersOK /\ hcRec.verdict \in HcEnds
    BY <1>1, <1>2 DEF HcInv, RunnersOK
  <1>4. CASE hcRun' = [hcRun EXCEPT ![k] = hcRec.verdict] /\ hcCancel' = StaleFor(hcCancel, k)
    <2>1. /\ hcRun' \in [HcKey -> HcRunState] /\ hcRun'[k] \in HcEnds
          /\ \A j \in HcKey \ {k} : hcRun'[j] = hcRun[j]
      BY <1>3, <1>4 DEF HcTypeOK, HcRunState
    <2>2. /\ hcCancel' \in HcRunner({"off", "cancel", "save"}) /\ hcCancel'.pc = hcCancel.pc
          /\ hcCancel'.key = hcCancel.key
      BY <1>3, <1>4, StaleKeeps DEF HcTypeOK
    <2>3. HcTypeOK' BY <1>2, <1>3, <2>1, <2>2, HandlerIsOff DEF HcTypeOK
    <2>4. \A j \in HcKey : (hcRun'[j] = "none" <=> hcRun[j] = "none") /\ (hcRun'[j] = "queued" => hcRun[j] = "queued")
      BY <1>3, <2>1 DEF HcEnds
    <2>5. RunnersOK' BY Zenon, <1>2, <1>3, <2>2, <2>4, HandlerIsOff DEF RunnersOK
    <2> QED BY Zenon, <1>2, <2>3, <2>4, <2>5, OutsideStep DEF HcInv, KeyOK
  <1>5. CASE UNCHANGED <<hcRun, hcCancel>>
    <2>1. HcTypeOK' /\ RunnersOK' BY <1>2, <1>3, <1>5, HandlerIsOff DEF HcTypeOK, RunnersOK
    <2> QED BY Zenon, <1>2, <1>5, <2>1, OutsideStep DEF HcInv, KeyOK
  <1> QED BY <1>1, <1>4, <1>5 DEF HcWrites

(* The agent's claim and report, a lapsed lease and the retry budget. *)
LEMMA AgentStep ==
  ASSUME HcInv, NEW k \in HcKey,
         HcAgentClaims(k) \/ HcAgentReports(k) \/ HcLeaseLapses(k) \/ HcBuries(k)
  PROVE  HcInv'
  <1>1. /\ UNCHANGED <<hcKey, hcRun, hcTry, hcMu, hcRec, hcCancel, hcQueued, hcClaims>>
        /\ hcAct[k] \in {"pending", "lapsed", "leased"}
        /\ hcLeases' = hcLeases \/ hcLeases' = [hcLeases EXCEPT ![k] = @ + 1]
    BY DEF HcAgentClaims, HcAgentReports, HcLeaseLapses, HcBuries, HcActMoves
  <1>2. PICK to \in {"leased", "done", "lapsed", "dead"} : hcAct' = [hcAct EXCEPT ![k] = to]
    BY DEF HcAgentClaims, HcAgentReports, HcLeaseLapses, HcBuries, HcActMoves
  <1>3. hcLeases' \in [HcKey -> Nat] /\ \A j \in HcKey \ {k} : hcLeases'[j] = hcLeases[j]
    <2>1. hcLeases \in [HcKey -> Nat] BY DEF HcInv, HcTypeOK
    <2> QED BY <1>1, <2>1
  <1>4. to \in HcActState \ {"none", "pending"} BY <1>2 DEF HcActState
  <1>5. /\ hcRec' \in HcRunner({"off", "judge", "write"})
        /\ hcRec'.pc # "off" => hcRec'.key \in HcKey /\ hcRun[hcRec'.key] # "none"
        /\ hcRec'.pc = "write" => hcRec'.verdict \in HcEnds
    BY <1>1, SMTT(40) DEF HcInv, HcTypeOK, RunnersOK
  <1> QED BY Zenon, <1>1, <1>2, <1>3, <1>4, <1>5, ActionMoves

LEMMA SafetyStopStep ==
  ASSUME HcInv, HcSafetyStop PROVE HcInv'
  <1>1. UNCHANGED <<hcKey, hcRun, hcLeases, hcTry, hcMu, hcRec, hcCancel, hcQueued, hcClaims>>
    BY DEF HcSafetyStop
  <1>2. HcTypeOK /\ RunnersOK BY DEF HcInv
  <1>3. /\ hcAct' \in [HcKey -> HcActState]
        /\ \A j \in HcKey : hcAct'[j] = hcAct[j] \/ (hcAct[j] \in {"pending", "lapsed"} /\ hcAct'[j] = "cancelled")
    BY <1>2 DEF HcSafetyStop, HcTypeOK, HcActState
  <1>4. HcTypeOK' BY <1>1, <1>2, <1>3, SMTT(40) DEF HcTypeOK
  <1>5. RunnersOK' BY <1>1, <1>2, <1>3 DEF RunnersOK
  <1>6. ASSUME NEW j \in HcKey
        PROVE  /\ hcAct'[j] = "none" <=> hcAct[j] = "none"
               /\ hcAct'[j] = "pending" => hcLeases'[j] = 0
               /\ hcClaims'[j] => hcAct'[j] = "cancelled" /\ hcLeases'[j] = 0
    <2>1. KeyOK(j) BY DEF HcInv
    <2> QED BY <1>1, <1>3, <2>1 DEF KeyOK
  <1> QED BY Zenon, <1>1, <1>4, <1>5, <1>6, OutsideStep

LEMMA CrashStep ==
  ASSUME HcInv, HcCrash PROVE HcInv'
  <1>1. /\ hcTry' = [t \in HcTry |-> HcOff] /\ hcMu' = "free" /\ hcRec' = HcRest /\ hcCancel' = HcRest
        /\ UNCHANGED <<hcKey, hcRun, hcAct, hcLeases, hcQueued, hcClaims>>
    BY DEF HcCrash
  <1>2. HcTypeOK' /\ RunnersOK' BY <1>1, HandlerIsOff, SMTT(40) DEF HcInv, HcTypeOK, RunnersOK
  <1>3. ASSUME NEW t \in HcTry PROVE HandlerOK(t)'
    <2>1. hcTry'[t].pc = "off" /\ hcMu' # t BY <1>1, HandlerIsOff, HealthCheckAssumption
    <2> QED BY <2>1 DEF HandlerOK, HcLocked
  <1>4. HcQueuedRuns' = HcQueuedRuns /\ \A k \in HcKey : KeyOK(k)' BY <1>1 DEF HcInv, HcQueuedRuns, KeyOK
  <1> QED BY <1>2, <1>3, <1>4 DEF HcInv

(* The mutex, the reservations, the durable runs and the queued actions    *)
(* agree in every reachable state, for any number of handlers, keys and    *)
(* any limit.                                                              *)
THEOREM DiagnosticsInvariant == HcSpec => []HcInv
  <1>1. HcInit => HcInv
    <2> SUFFICES ASSUME HcInit PROVE HcInv OBVIOUS
    <2>1. HcTypeOK /\ RunnersOK
      BY HandlerIsOff DEF HcInit, HcTypeOK, RunnersOK, HcRunState, HcActState
    <2>2. HcQueuedRuns = {} BY DEF HcInit, HcQueuedRuns
    <2>3. Cardinality(HcQueuedRuns) <= MaxNodeActive BY <2>2, FS_EmptySet, HealthCheckAssumption
    <2>4. ASSUME NEW t \in HcTry PROVE HandlerOK(t)
      <3>1. hcTry[t].pc = "off" /\ hcMu # t BY HandlerIsOff, HealthCheckAssumption DEF HcInit
      <3> QED BY <3>1 DEF HandlerOK, HcLocked
    <2>5. \A k \in HcKey : KeyOK(k) BY DEF HcInit, KeyOK
    <2> QED BY <2>1, <2>3, <2>4, <2>5 DEF HcInv
  <1>2. HcInv /\ [HcNext]_hcVars => HcInv'
    <2> SUFFICES ASSUME HcInv, [HcNext]_hcVars PROVE HcInv' BY SMTT(40)
    <2>1. CASE UNCHANGED hcVars
      BY <2>1 DEF hcVars, HcInv, HcTypeOK, RunnersOK, HandlerOK, KeyOK, HcQueuedRuns
    <2>2. ASSUME NEW t \in HcTry, HcHandlers(t) PROVE HcInv'
      BY <2>2, LookupStep, LocksStep, ReservesStep, CreatesStep, EnqueuesStep, SMTT(40) DEF HcHandlers
    <2>3. ASSUME NEW k \in HcKey, HcDeadlinePasses(k) PROVE HcInv'
      BY <2>3 DEF HcDeadlinePasses, HcInv, HcTypeOK, RunnersOK, HandlerOK, KeyOK, HcQueuedRuns
    <2>4. ASSUME NEW k \in HcKey, HcReconciles(k) PROVE HcInv'
      BY <2>4, ListsStep, JudgesStep, WritesStep DEF HcReconciles
    <2> QED BY <2>1, <2>2, <2>3, <2>4, CancelReservesStep, CancelPendingStep, CancelSavesStep,
               AgentStep, SafetyStopStep, CrashStep DEF HcNext
  <1> QED BY <1>1, <1>2, PTL DEF HcSpec

(* CreateHealthCheck: the node's limit holds, no action is in the queue    *)
(* without its durable run, and a key queues at most one, for any number   *)
(* of handlers and keys.                                                   *)
THEOREM DiagnosticsAccounted == HcSpec => []RunsAreAccounted
  <1>1. HcInv => RunsAreAccounted
    <2> SUFFICES ASSUME HcInv PROVE RunsAreAccounted OBVIOUS
    <2>1. Cardinality({k \in HcKey : hcRun[k] = "queued"}) <= MaxNodeActive BY SMTT(40) DEF HcInv, HcQueuedRuns
    <2>2. \A k \in HcKey : hcQueued[k] <= 1 /\ (hcAct[k] # "none" => hcKey[k] /\ hcRun[k] # "none")
      BY DEF HcInv, KeyOK
    <2> QED BY <2>1, <2>2 DEF RunsAreAccounted
  <1> QED BY <1>1, DiagnosticsInvariant, PTL

(* CancelHealthCheckRequest: a run its operator saw cancelled before the   *)
(* agent claimed it was never leased.                                      *)
THEOREM CancelledUnclaimed == HcSpec => []CancelMeansUnclaimed
  <1>1. HcInv => CancelMeansUnclaimed BY DEF HcInv, KeyOK, CancelMeansUnclaimed
  <1> QED BY <1>1, DiagnosticsInvariant, PTL


-----------------------------------------------------------------------------
(* Configuration.  What the compiler accepts is unambiguous, for any       *)
(* number of resources, labels and values.                                 *)

(* A nonempty set of naturals has a least element. *)
LEMMA LeastNat ==
    ASSUME NEW T, T \subseteq Nat, T # {}
    PROVE  \E x \in T : \A y \in T : x <= y
  <1>1. \E x \in T : \A y \in T : <<y, x>> \notin OpToRel(<, Nat)
    BY Zenon, WFMin, NatLessThanWellFounded 
  <1>2. ASSUME NEW x \in Nat, NEW y \in Nat, y < x PROVE <<y, x>> \in OpToRel(<, Nat)
    BY <1>2, Zenon DEF OpToRel
  <1>3. \E x \in T : \A y \in T : ~(y < x) BY <1>1, <1>2, Zenon
  <1> HIDE <1>1, <1>2
  <1> QED BY <1>3

(* A set of naturals below a bound has a greatest element. *)
LEMMA GreatestNat ==
    ASSUME NEW q \in Nat, NEW T, T \subseteq Nat, T # {}, \A x \in T : x <= q
    PROVE  \E x \in T : \A y \in T : y <= x
  <1> DEFINE D == {q - x : x \in T}
  <1>1. D # {} BY Zenon
  <1>0. D \subseteq Nat
    <2> SUFFICES ASSUME NEW x \in T PROVE q - x \in Nat BY Zenon
    <2> QED OBVIOUS
  <1>2. PICK d \in D : \A e \in D : d <= e BY Zenon, <1>0, <1>1, LeastNat
  <1>3. PICK x \in T : d = q - x OBVIOUS
  <1>4. \A y \in T : q - x <= q - y BY <1>2, <1>3, SMTT(40)
  <1>5. ASSUME NEW y \in T PROVE y <= x
    <2>1. x \in Nat /\ y \in Nat /\ q - x <= q - y BY <1>4, Zenon
    <2> HIDE <1>4 DEF D
    <2> QED BY <2>1
  <1> QED BY <1>5, Zenon

-----------------------------------------------------------------------------
(* selectorsMayOverlap "is exact for nonempty Kubernetes matchLabels       *)
(* selectors": it says yes precisely when some node could match both.      *)
THEOREM OverlapIsExact ==
    ASSUME NEW l \in Labels, NEW r \in Labels, DOMAIN l # {}, DOMAIN r # {}
    PROVE  selectorsMayOverlap(l, r) <=>
               \E labels \in Labels : MatchesLabels(l, labels) /\ MatchesLabels(r, labels)
  <1>1. PICK K \in SUBSET ScKey : l \in [K -> ScValue] BY DEF Labels
  <1>2. PICK J \in SUBSET ScKey : r \in [J -> ScValue] BY DEF Labels
  <1>3. ASSUME selectorsMayOverlap(l, r)
        PROVE  \E labels \in Labels : MatchesLabels(l, labels) /\ MatchesLabels(r, labels)
    <2> DEFINE both == [k \in K \cup J |-> IF k \in K THEN l[k] ELSE r[k]]
    <2>1. both \in [K \cup J -> ScValue] BY <1>1, <1>2
    <2>2. both \in Labels BY Zenon, <2>1 DEF Labels
    <2>3. MatchesLabels(l, both) BY <1>1 DEF MatchesLabels
    <2>4. MatchesLabels(r, both) BY <1>1, <1>2, <1>3 DEF MatchesLabels, selectorsMayOverlap
    <2> QED BY <2>2, <2>3, <2>4
  <1>4. ASSUME NEW labels \in Labels, MatchesLabels(l, labels), MatchesLabels(r, labels)
        PROVE  selectorsMayOverlap(l, r)
    BY <1>4 DEF MatchesLabels, selectorsMayOverlap
  <1> QED BY <1>3, <1>4

(* An accepted set of profiles is never ambiguous: whatever labels a node  *)
(* carries, no two profiles of a vendor select it.                         *)
THEOREM ProfilesUnambiguous ==
    ASSUME NEW profiles, compileAcceleratorRuntimeProfiles(profiles), NEW labels, NEW vendor,
           NEW m \in MatchingProfiles(profiles, labels, vendor),
           NEW n \in MatchingProfiles(profiles, labels, vendor)
    PROVE  m = n
  <1>1. selectorsMayOverlap(profiles[m].selector, profiles[n].selector)
    BY DEF MatchingProfiles, MatchesLabels, selectorsMayOverlap
  <1> QED BY <1>1 DEF MatchingProfiles, compileAcceleratorRuntimeProfiles

-----------------------------------------------------------------------------
(* A table of policies: names and priorities are naturals. *)
Table(policies) ==
    /\ DOMAIN policies \subseteq Nat
    /\ \A n \in DOMAIN policies : policies[n].priority \in Nat

(* Comparing each policy with the last one passed is enough: in an accepted *)
(* table no two policies of a class have the same priority, wherever the    *)
(* sort put the others.                                                    *)
THEOREM PrioritiesDistinct ==
    ASSUME NEW policies, Table(policies), NEW books, compilePolicies(policies, books),
           NEW p \in DOMAIN policies, NEW q \in DOMAIN policies, p # q,
           policies[p].class = policies[q].class
    PROVE  policies[p].priority # policies[q].priority
  <1>1. ASSUME NEW a \in DOMAIN policies, NEW b \in DOMAIN policies, a < b,
               policies[a].class = policies[b].class, policies[a].priority = policies[b].priority
        PROVE  FALSE
    <2> DEFINE T == earlier(policies, b)
               Same == {m \in T : policies[m].priority = policies[b].priority}
    <2>1. a \in Same BY <1>1 DEF earlier, Before
    <2>2. Same \subseteq Nat /\ \A m \in Same : m <= b BY DEF earlier, Before, Table
    <2>3. b \in Nat BY DEF Table
    <2> HIDE DEF Same
    <2>4. PICK r \in Same : \A m \in Same : m <= r BY <2>1, <2>2, <2>3, GreatestNat
    <2> USE DEF Same
    <2>5. \A m \in T \ {r} : Before(policies, m, r)
      <3> SUFFICES ASSUME NEW m \in T \ {r} PROVE Before(policies, m, r) BY SMTT(40)
      <3>1. m \in Nat /\ r \in Nat /\ m # r BY <2>2, SMTT(40) DEF Table, earlier
      <3>2. policies[m].priority <= policies[b].priority /\ policies[r].priority = policies[b].priority
            /\ policies[m].priority \in Nat /\ policies[b].priority \in Nat
        BY SMTT(40) DEF earlier, Before, Table
      <3>3. CASE policies[m].priority = policies[b].priority BY <2>4, <3>1, <3>2, <3>3, SMTT(40) DEF Before
      <3>4. CASE policies[m].priority # policies[b].priority BY <3>2, <3>4 DEF Before
      <3> QED BY <3>3, <3>4
    <2> DEFINE c == LastOf(policies, T)
    <2>6. c \in T /\ \A m \in T \ {c} : Before(policies, m, c) BY <2>5 DEF LastOf
    <2> HIDE DEF c
    <2>7. policies[c].priority = policies[b].priority
      <3>1. Before(policies, c, b) /\ c \in DOMAIN policies BY <2>6 DEF earlier
      <3>2. c = r \/ Before(policies, r, c) BY <2>6
      <3>3. policies[r].priority = policies[b].priority /\ r \in DOMAIN policies BY DEF earlier
      <3> QED BY <3>1, <3>2, <3>3 DEF Before, Table
    <2>8. duplicatePriority(policies, b) BY <2>1, <2>7 DEF duplicatePriority, c
    <2> QED BY <2>8 DEF compilePolicies
  <1> QED BY <1>1 DEF Table

(* The first policy of a nonempty selection is before all the others. *)
LEMMA FirstIsFirst ==
    ASSUME NEW policies, Table(policies), NEW S, S \subseteq DOMAIN policies, S # {}
    PROVE  /\ FirstOf(policies, S) \in S
           /\ \A m \in S \ {FirstOf(policies, S)} : Before(policies, FirstOf(policies, S), m)
  <1> DEFINE P == {policies[n].priority : n \in S}
  <1>1. P \subseteq Nat /\ P # {} BY DEF Table
  <1>2. PICK x \in P : \A y \in P : x <= y BY Zenon, <1>1, LeastNat
  <1> DEFINE N == {n \in S : policies[n].priority = x}
  <1>3. N \subseteq Nat /\ N # {} BY DEF Table
  <1>4. PICK f \in N : \A n \in N : f <= n BY Zenon, <1>3, LeastNat
  <1>5. \A m \in S \ {f} : Before(policies, f, m)
    <2> SUFFICES ASSUME NEW m \in S \ {f} PROVE Before(policies, f, m) OBVIOUS
    <2>1. f \in Nat /\ m \in Nat /\ f # m /\ policies[f].priority = x BY DEF Table
    <2>2. x <= policies[m].priority /\ x \in Nat /\ policies[m].priority \in Nat BY <1>1, <1>2 DEF Table
    <2>3. CASE policies[m].priority = x BY <1>4, <2>1, <2>3 DEF Before
    <2>4. CASE policies[m].priority # x BY <2>1, <2>2, <2>4 DEF Before
    <2> QED BY <2>3, <2>4
  <1> QED BY <1>5 DEF FirstOf

(* The shape of the edited resources, for the two kinds the proofs are about. *)
ScShape ==
    /\ scTopic = "policies" => scRes \in [ScName -> Policy \cup {Gone}]
    /\ scTopic = "profiles" => scRes \in [ScName -> Profile \cup {Gone}]

LEMMA ShapeInvariant == ScSpec => []ScShape
  <1>1. ScInit => ScShape
    BY DEF ScInit, ScShape, NamesOf
  <1>2. ScShape /\ [ScNext]_scVars => ScShape'
    <2> SUFFICES ASSUME ScShape, [ScNext]_scVars PROVE ScShape' OBVIOUS
    <2>1. ASSUME NEW n \in DOMAIN scRes, ScCreate(n) PROVE ScShape'
      BY ZenonT(40), <2>1 DEF ScShape, ScCreate, Resource
    <2>2. ASSUME NEW n \in DOMAIN scRes, ScDelete(n) PROVE ScShape'
      BY <2>2 DEF ScShape, ScDelete
    <2>3. CASE UNCHANGED scVars BY <2>3 DEF ScShape, scVars
    <2> QED BY <2>1, <2>2, <2>3 DEF ScNext
  <1> QED BY <1>1, <1>2, PTL DEF ScSpec

LEMMA PresentPolicies ==
    ASSUME ScShape, scTopic = "policies"
    PROVE  Table(Set)
  <1>1. DOMAIN Set \subseteq ScName /\ \A n \in DOMAIN Set : Set[n] \in Policy
    BY DEF ScShape, Set, Present
  <1>2. \A x \in Policy : x.priority \in {10, 20} BY Zenon DEF Policy
  <1>3. {10, 20} \subseteq Nat OBVIOUS
  <1> QED BY Zenon, <1>1, <1>2, <1>3, ScNames DEF Table

(* Renaming a resource never changes what is done to a node, and a fallback *)
(* never shadows a vendor's own policy.                                    *)
THEOREM PolicyByPriorityHolds == ScSpec => []PolicyByPriority
  <1>1. ScShape => PolicyByPriority
    <2> SUFFICES ASSUME ScShape, scTopic = "policies", CompileSnapshot,
                        NEW class \in {"ecc", "hang"}, NEW vendor \in {"", "nvidia", "amd"},
                        NEW n \in PolicyFor(Set, class, vendor)
                 PROVE  /\ \A m \in DOMAIN Set \ {n} :
                               Set[m].class = class /\ Set[m].vendor = Set[n].vendor =>
                                   Set[n].priority < Set[m].priority
                        /\ Set[n].vendor = "" /\ vendor # "" =>
                               \A m \in DOMAIN Set : Set[m].class = class => Set[m].vendor # vendor
      BY Zenon DEF PolicyByPriority
    <2>1. compilePolicies(Set, ScBook) BY Zenon DEF CompileSnapshot
    <2>2. Table(Set) BY Zenon, PresentPolicies
    <2> DEFINE table == Set
    <2> HIDE DEF table
    <2> DEFINE exact == {k \in DOMAIN table : table[k].class = class /\ table[k].vendor = vendor /\ vendor # ""}
               unscoped == {k \in DOMAIN table : table[k].class = class /\ table[k].vendor = ""}
    <2>3. ASSUME NEW S \in {exact, unscoped}, S # {}, n = FirstOf(table, S),
                 NEW m \in DOMAIN table \ {n}, table[m].class = class, table[m].vendor = table[n].vendor
          PROVE  table[n].priority < table[m].priority
      <3>1. n \in S /\ \A k \in S \ {n} : Before(table, n, k) BY Zenon, <2>2, <2>3, FirstIsFirst DEF table
      <3>2. m \in S BY Zenon, <2>3, <3>1
      <3>3. Before(table, n, m) BY Zenon, <2>3, <3>1, <3>2
      <3>4. table[n].priority # table[m].priority
        BY ZenonT(40), <2>1, <2>2, <2>3, <3>1, PrioritiesDistinct DEF table
      <3> QED BY Zenon, <3>3, <3>4 DEF Before
    <2>4. CASE exact # {}
      <3>1. n = FirstOf(table, exact) BY Zenon, <2>4 DEF PolicyFor, table
      <3>2. n \in exact BY Zenon, <2>2, <2>4, <3>1, FirstIsFirst DEF table
      <3> QED BY Zenon, <2>3, <2>4, <3>1, <3>2 DEF table
    <2>5. CASE exact = {} /\ unscoped # {}
      <3>1. n = FirstOf(table, unscoped) BY Zenon, <2>5 DEF PolicyFor, table
      <3> QED BY Zenon, <2>3, <2>5, <3>1 DEF table
    <2> QED BY Zenon, <2>4, <2>5 DEF PolicyFor, table
  <1> QED BY <1>1, ShapeInvariant, PTL

(* Whatever a node is labelled, at most one accepted profile selects it;   *)
(* and no code is overridden twice.                                        *)
THEOREM OneAnswerHolds == ScSpec => []OneAnswer
  <1>1. OneAnswer
    <2> SUFFICES ASSUME CompileSnapshot PROVE OneAnswer BY DEF OneAnswer
    <2>1. CASE scTopic = "profiles"
      <3>1. compileAcceleratorRuntimeProfiles(Set) BY <2>1 DEF CompileSnapshot
      <3>2. \A labels \in Labels : \A m, n \in MatchingProfiles(Set, labels, "nvidia") : m = n
        BY <3>1, ProfilesUnambiguous, Zenon
      <3> QED BY <2>1, <3>2 DEF OneAnswer
    <2>2. CASE scTopic = "mappings"
      <3>1. NewCatalog(Set) BY <2>2 DEF CompileSnapshot, compileSignalMappings
      <3> QED BY <2>2, <3>1 DEF OneAnswer, NewCatalog
    <2> QED BY <2>1, <2>2 DEF OneAnswer
  <1> QED BY <1>1, PTL
=============================================================================
