-------------------------- MODULE Operations_proofs --------------------------
(***************************************************************************)
(* What operators ask of a running installation, for any number of         *)
(* attempts, keys, nodes, crashes and edits: the idempotent requests       *)
(* (OperationalRequests) and the qualification of a runtime contract       *)
(* (RuntimeContract).                                                      *)
(***************************************************************************)
EXTENDS OperationalRequests, RuntimeContract, TLAPS

-----------------------------------------------------------------------------
(* Requests.  The key makes an effect happen once because only one attempt *)
(* can be the one that reserved it: until that attempt takes effect there  *)
(* is none, and afterwards nobody is between the reservation and the       *)
(* effect any more.                                                        *)

OrPlace == {"off", "validated", "reserved", "opened"}

OrTypeOK ==
    /\ orKey \in [OrRequest -> BOOLEAN] /\ orDone \in [OrRequest -> Nat]
    /\ orTold \in [OrRequest -> BOOLEAN] /\ orAt \in [OrRequest \X Attempt -> OrPlace]
    /\ orSim \in {"none", "permitted", "blocked", "incident-created"}

(* Attempt a of r has reserved the key and not yet finished. *)
OrHolds(r, a) == orAt[<<r, a>>] \in {"reserved", "opened"}

HoldersOK(r) ==
    /\ \A a, b \in Attempt : OrHolds(r, a) /\ OrHolds(r, b) => a = b
    /\ \A a \in Attempt : OrHolds(r, a) => orKey[r] = TRUE
    /\ \A a \in Attempt : orAt[<<r, a>>] = "reserved" => orDone[r] = 0
    /\ orKey[r] = FALSE => orDone[r] = 0
    /\ orDone[r] <= 1

ToldOK ==
    /\ \A r \in {"upload", "preview", "simulate"} : orTold[r] = TRUE => orDone[r] = 1
    /\ \A r \in OrForIncident : orTold[r] = TRUE => orSim = "incident-created"
    /\ orDone["simulate"] = 0 => orSim = "none"

OrInv == OrTypeOK /\ (\A r \in OrRequest : HoldersOK(r)) /\ ToldOK

(* Attempt a of r moves; the other attempts and requests stay. *)
LEMMA OthersStay ==
  ASSUME OrTypeOK, NEW r \in OrRequest, NEW a \in Attempt, NEW p \in OrPlace, OrGo(r, a, p)
  PROVE  /\ orAt' \in [OrRequest \X Attempt -> OrPlace] /\ orAt'[<<r, a>>] = p
         /\ \A s \in OrRequest, b \in Attempt : s # r \/ b # a => orAt'[<<s, b>>] = orAt[<<s, b>>]
  BY DEF OrTypeOK, OrGo

(* An attempt goes on, is refused or is answered without any effect. *)
LEMMA NoEffect ==
  ASSUME OrInv, NEW r \in OrRequest, NEW a \in Attempt, NEW p \in {"off", "validated"}, OrGo(r, a, p),
         UNCHANGED <<orKey, orDone, orSim>>,
         orTold' \in [OrRequest -> BOOLEAN],
         \A s \in OrRequest \ {r} : orTold'[s] = orTold[s],
         \/ orTold'[r] = orTold[r]
         \/ /\ r \in {"upload", "preview", "simulate"} => orDone[r] = 1
            /\ r \in OrForIncident => orSim = "incident-created"
  PROVE  OrInv'
  <1>1. /\ orAt' \in [OrRequest \X Attempt -> OrPlace] /\ orAt'[<<r, a>>] = p
        /\ \A s \in OrRequest, b \in Attempt : s # r \/ b # a => orAt'[<<s, b>>] = orAt[<<s, b>>]
    BY Zenon, OthersStay DEF OrInv, OrPlace
  <1>2. OrTypeOK' BY <1>1 DEF OrInv, OrTypeOK
  <1>3. ASSUME NEW s \in OrRequest PROVE HoldersOK(s)'
    BY <1>1 DEF OrInv, HoldersOK, OrHolds
  <1>4. ToldOK'
    BY Zenon DEF OrInv, OrTypeOK, ToldOK, OrRequest, OrForIncident
  <1> QED BY <1>2, <1>3, <1>4 DEF OrInv

LEMMA RefusesStep ==
  ASSUME OrInv, NEW r \in OrRequest, NEW a \in Attempt, OrRefuses(r, a), UNCHANGED <<orKey, orDone, orSim>>
  PROVE  OrInv'
  BY NoEffect DEF OrRefuses, OrInv, OrTypeOK

LEMMA AnswersStep ==
  ASSUME OrInv, NEW r \in OrRequest, NEW a \in Attempt, OrAnswers(r, a), UNCHANGED <<orKey, orDone, orSim>>,
         r \in {"upload", "preview", "simulate"} => orDone[r] = 1,
         r \in OrForIncident => orSim = "incident-created"
  PROVE  OrInv'
  BY Zenon, NoEffect DEF OrAnswers, OrInv, OrTypeOK

LEMMA ReplaysStep ==
  ASSUME OrInv, NEW r \in OrRequest, NEW a \in Attempt, OrReplays(r, a), UNCHANGED <<orKey, orDone, orSim>>
  PROVE  OrInv'
  <1>1. CASE replayFinds(r)
    <2>1. ASSUME r \in {"upload", "preview", "simulate"} PROVE orDone[r] = 1
      <3>1. orDone[r] > 0 BY <1>1, <2>1 DEF replayFinds
      <3>2. orDone[r] \in Nat /\ orDone[r] <= 1 BY DEF OrInv, OrTypeOK, HoldersOK
      <3> QED BY <3>1, <3>2
    <2>2. r \in OrForIncident => orSim = "incident-created"
      BY Zenon, <1>1 DEF replayFinds, OrForIncident
    <2> QED BY <1>1, <2>1, <2>2, AnswersStep DEF OrReplays
  <1>2. CASE ~replayFinds(r) BY <1>2, RefusesStep DEF OrReplays
  <1> QED BY <1>1, <1>2

LEMMA ReservesStep ==
  ASSUME OrInv, NEW r \in OrRequest, NEW a \in Attempt, PutOperationalIdempotency(r, a)
  PROVE  OrInv'
  <1>1. UNCHANGED <<orDone, orSim>> /\ orKey' = [orKey EXCEPT ![r] = TRUE] /\ orAt[<<r, a>>] = "validated"
    BY DEF PutOperationalIdempotency, orObjects, OrIs
  <1>2. CASE createdKey(r)
    <2>1. OrGo(r, a, "reserved") /\ UNCHANGED orTold /\ orKey[r] = FALSE
      BY <1>2 DEF PutOperationalIdempotency, createdKey, OrInv, OrTypeOK
    <2>2. /\ orAt' \in [OrRequest \X Attempt -> OrPlace] /\ orAt'[<<r, a>>] = "reserved"
          /\ \A s \in OrRequest, b \in Attempt : s # r \/ b # a => orAt'[<<s, b>>] = orAt[<<s, b>>]
      BY Zenon, <2>1, OthersStay DEF OrInv, OrPlace
    <2>3. /\ orKey' \in [OrRequest -> BOOLEAN] /\ orKey'[r] = TRUE
          /\ \A s \in OrRequest \ {r} : orKey'[s] = orKey[s]
      BY <1>1 DEF OrInv, OrTypeOK
    <2>4. OrTypeOK' BY <1>1, <2>1, <2>2, <2>3 DEF OrInv, OrTypeOK
    <2>5. ASSUME NEW s \in OrRequest PROVE HoldersOK(s)'
      <3>1. CASE s = r BY <1>1, <2>1, <2>2, <2>3, <3>1 DEF OrInv, HoldersOK, OrHolds
      <3>2. CASE s # r BY <1>1, <2>2, <2>3, <3>2 DEF OrInv, HoldersOK, OrHolds
      <3> QED BY <3>1, <3>2
    <2>6. ToldOK' BY <1>1, <2>1 DEF OrInv, ToldOK
    <2> QED BY <2>4, <2>5, <2>6 DEF OrInv
  <1>3. CASE ~createdKey(r)
    <2>1. orKey' = orKey BY <1>1, <1>3 DEF createdKey, OrInv, OrTypeOK
    <2> QED BY <1>1, <1>3, <2>1, ReplaysStep DEF PutOperationalIdempotency
  <1> QED BY <1>2, <1>3

(* The attempt that holds the key takes effect, or opens the incident. *)
LEMMA EffectStep ==
  ASSUME OrInv, NEW r \in OrRequest, NEW a \in Attempt, orAt[<<r, a>>] = "reserved",
         NEW p \in {"off", "opened"}, OrGo(r, a, p), UNCHANGED orKey,
         orDone' = [orDone EXCEPT ![r] = @ + 1],
         UNCHANGED orTold \/ (orTold' = [orTold EXCEPT ![r] = TRUE] /\ r \notin OrForIncident),
         UNCHANGED orSim \/ (r = "simulate" /\ orSim' \in {"permitted", "blocked"})
  PROVE  OrInv'
  <1>1. /\ orAt' \in [OrRequest \X Attempt -> OrPlace] /\ orAt'[<<r, a>>] = p
        /\ \A s \in OrRequest, b \in Attempt : s # r \/ b # a => orAt'[<<s, b>>] = orAt[<<s, b>>]
    BY Zenon, OthersStay DEF OrInv, OrPlace
  <1>2. HoldersOK(r) /\ orDone[r] = 0 /\ orKey[r] = TRUE
    BY DEF OrInv, HoldersOK, OrHolds
  <1>3. /\ orDone' \in [OrRequest -> Nat] /\ orDone'[r] = 1
        /\ \A s \in OrRequest \ {r} : orDone'[s] = orDone[s]
    BY <1>2 DEF OrInv, OrTypeOK
  <1>4. OrTypeOK' BY Zenon, <1>1, <1>3 DEF OrInv, OrTypeOK
  <1>5. ASSUME NEW s \in OrRequest PROVE HoldersOK(s)'
    <2>1. CASE s = r BY <1>1, <1>2, <1>3, <2>1 DEF HoldersOK, OrHolds
    <2>2. CASE s # r BY <1>1, <1>3, <2>2 DEF OrInv, HoldersOK, OrHolds
    <2> QED BY <2>1, <2>2
  <1>6. ToldOK'
    <2>1. ASSUME NEW s \in {"upload", "preview", "simulate"}, orTold'[s] = TRUE PROVE orDone'[s] = 1
      BY <1>3, <2>1 DEF OrInv, OrTypeOK, ToldOK, OrRequest
    <2>2. ASSUME NEW s \in OrForIncident, orTold'[s] = TRUE PROVE orSim' = "incident-created"
      <3>1. orTold[s] = TRUE BY Zenon, <2>2 DEF OrInv, OrTypeOK, OrRequest
      <3>2. orSim = "incident-created" /\ orDone["simulate"] # 0 BY <3>1 DEF OrInv, ToldOK
      <3> QED BY <1>2, <3>2
    <2>3. orDone'["simulate"] = 0 => orSim' = "none"
      BY <1>3 DEF OrInv, ToldOK, OrRequest
    <2> QED BY Zenon, <2>1, <2>2, <2>3 DEF ToldOK
  <1> QED BY <1>4, <1>5, <1>6 DEF OrInv

(* The incident is recorded in the simulation and the attempt answered. *)
LEMMA RecordsIncident ==
  ASSUME OrInv, NEW r \in OrForIncident, NEW a \in Attempt, orAt[<<r, a>>] = "opened",
         orSim = "permitted", orSim' = "incident-created", OrAnswers(r, a), UNCHANGED <<orKey, orDone>>
  PROVE  OrInv'
  <1>0. r \in OrRequest BY DEF OrRequest
  <1>1. /\ orAt' \in [OrRequest \X Attempt -> OrPlace] /\ orAt'[<<r, a>>] = "off"
        /\ \A s \in OrRequest, b \in Attempt : s # r \/ b # a => orAt'[<<s, b>>] = orAt[<<s, b>>]
    BY Zenon, <1>0, OthersStay DEF OrInv, OrPlace, OrAnswers
  <1>2. /\ orTold' \in [OrRequest -> BOOLEAN]
        /\ \A s \in OrRequest \ {r} : orTold'[s] = orTold[s]
    BY <1>0 DEF OrInv, OrTypeOK, OrAnswers
  <1>3. OrTypeOK' BY <1>1, <1>2 DEF OrInv, OrTypeOK
  <1>4. ASSUME NEW s \in OrRequest PROVE HoldersOK(s)'
    BY <1>1 DEF OrInv, HoldersOK, OrHolds
  <1>5. orDone["simulate"] # 0 BY DEF OrInv, ToldOK
  <1>6. ToldOK'
    <2>1. \A s \in {"upload", "preview", "simulate"} : s \in OrRequest \ {r} BY Zenon DEF OrRequest, OrForIncident
    <2> QED BY <1>2, <1>5, <2>1 DEF OrInv, ToldOK
  <1> QED BY <1>3, <1>4, <1>6 DEF OrInv

LEMMA LooksUpStep ==
  ASSUME OrInv, NEW r \in OrRequest, NEW a \in Attempt, OrLooksUp(r, a)
  PROVE  OrInv'
  BY ReplaysStep DEF OrLooksUp, orObjects

LEMMA ValidatesStep ==
  ASSUME OrInv, NEW r \in OrRequest, NEW a \in Attempt, OrValidates(r, a), UNCHANGED orSim
  PROVE  OrInv'
  BY NoEffect DEF OrValidates, OrInv, OrTypeOK

LEMMA CandidateSteps ==
  ASSUME OrInv, NEW a \in Attempt,
         \/ handleCreateCandidate(a) \/ CreateCandidate(a)
         \/ handleCreatePreview(a) \/ CreatePreview(a)
         \/ handleRevokeCandidate(a) \/ RevokeCandidate(a)
  PROVE  OrInv'
  <1>0. /\ "upload" \in OrRequest /\ "preview" \in OrRequest /\ "revoke" \in OrRequest
        /\ "upload" \notin OrForIncident /\ "preview" \notin OrForIncident /\ "revoke" \notin OrForIncident
    BY DEF OrRequest, OrForIncident
  <1>1. CASE handleCreateCandidate(a) \/ handleCreatePreview(a) \/ handleRevokeCandidate(a)
    BY <1>0, <1>1, ValidatesStep, LooksUpStep
       DEF handleCreateCandidate, handleCreatePreview, handleRevokeCandidate, orObjects
  <1>2. CASE CreateCandidate(a)
    BY <1>0, <1>2, ReservesStep, EffectStep
       DEF CreateCandidate, OrTakesEffect, OrAnswers, OrStoreOnly, OrIs
  <1>3. CASE CreatePreview(a)
    BY <1>0, <1>3, ReservesStep, RefusesStep, EffectStep
       DEF CreatePreview, OrTakesEffect, OrAnswers, OrStoreOnly, OrIs, orObjects
  <1>4. CASE RevokeCandidate(a)
    BY <1>0, <1>4, ReservesStep, RefusesStep, EffectStep
       DEF RevokeCandidate, OrTakesEffect, OrAnswers, OrStoreOnly, OrIs
  <1> QED BY <1>1, <1>2, <1>3, <1>4

LEMMA SimulationSteps ==
  ASSUME OrInv, NEW a \in Attempt, handleCreateSimulation(a) \/ CreateSimulation(a)
  PROVE  OrInv'
  <1>0. "simulate" \in OrRequest /\ "simulate" \notin OrForIncident BY DEF OrRequest, OrForIncident
  <1>1. CASE handleCreateSimulation(a)
    BY <1>0, <1>1, ValidatesStep, LooksUpStep DEF handleCreateSimulation, orObjects
  <1>2. CASE CreateSimulation(a)
    BY <1>0, <1>2, ReservesStep, EffectStep
       DEF CreateSimulation, OrTakesEffect, OrAnswers, OrStoreOnly, OrIs
  <1> QED BY <1>1, <1>2

LEMMA IncidentSteps ==
  ASSUME OrInv, NEW a \in Attempt, NEW r \in OrForIncident,
         handleCreateIncidentFromSimulation(r, a) \/ CreateIncidentFromSimulation(r, a)
  PROVE  OrInv'
  <1>0. r \in OrRequest /\ r \notin {"upload", "preview", "simulate"} BY Zenon DEF OrRequest, OrForIncident
  <1>1. CASE handleCreateIncidentFromSimulation(r, a)
    BY <1>0, <1>1, ValidatesStep, LooksUpStep, AnswersStep
       DEF handleCreateIncidentFromSimulation, orObjects
  <1>2. CASE OrIs(r, a, "reserved") /\ CreateIncidentFromSimulation(r, a)
    <2>1. CASE /\ OrGo(r, a, "opened") /\ orDone' = [orDone EXCEPT ![r] = @ + 1]
               /\ UNCHANGED <<orKey, orTold, orSim>>
      BY Zenon, <1>0, <1>2, <2>1, EffectStep DEF OrIs
    <2>2. CASE orSim = "incident-created" /\ OrAnswers(r, a) /\ UNCHANGED <<orKey, orDone, orSim>>
      BY <1>0, <2>2, AnswersStep
    <2> QED BY <1>0, <1>2, <2>1, <2>2, ReservesStep DEF CreateIncidentFromSimulation, OrStoreOnly, OrIs, orObjects
  <1>3. CASE OrIs(r, a, "opened") /\ CreateIncidentFromSimulation(r, a)
    <2>1. CASE orSim = "permitted" /\ orSim' = "incident-created" /\ OrAnswers(r, a) /\ UNCHANGED <<orKey, orDone>>
      BY <1>3, <2>1, RecordsIncident DEF OrIs
    <2>2. CASE OrRefuses(r, a) /\ UNCHANGED <<orKey, orDone, orSim>> BY <1>0, <2>2, RefusesStep
    <2> QED BY <1>0, <1>3, <2>1, <2>2, ReservesStep DEF CreateIncidentFromSimulation, OrStoreOnly, OrIs, orObjects
  <1> QED BY Zenon, <1>0, <1>1, <1>2, <1>3, ReservesStep DEF CreateIncidentFromSimulation

LEMMA PauseSteps ==
  ASSUME OrInv, NEW a \in Attempt, handlePauseAutonomyPlan(a) \/ PauseAutonomyPlanRequest(a)
  PROVE  OrInv'
  <1>0. "pause" \in OrRequest /\ "pause" \notin OrForIncident BY DEF OrRequest, OrForIncident
  <1>1. CASE handlePauseAutonomyPlan(a)
    BY <1>0, <1>1, ValidatesStep, LooksUpStep DEF handlePauseAutonomyPlan, orObjects
  <1>2. CASE PauseAutonomyPlanRequest(a)
    BY <1>0, <1>2, ReservesStep, RefusesStep, EffectStep
       DEF PauseAutonomyPlanRequest, OrTakesEffect, OrAnswers, OrStoreOnly, OrIs
  <1> QED BY <1>1, <1>2

LEMMA StoreStands == ASSUME OrInv, UNCHANGED <<orKey, orDone, orTold, orAt, orSim>> PROVE OrInv'
  BY DEF OrInv, OrTypeOK, HoldersOK, OrHolds, ToldOK

(* PutOperationalIdempotency: at most one attempt of a request is between  *)
(* the reservation of its key and its effect.                              *)
THEOREM RequestInvariant == OrSpec => []OrInv
  <1>1. OrInit => OrInv
    <2> SUFFICES ASSUME OrInit PROVE OrInv OBVIOUS
    <2>1. OrTypeOK BY DEF OrInit, OrTypeOK, OrPlace
    <2>2. \A r \in OrRequest, a \in Attempt : orAt[<<r, a>>] = "off" BY Zenon DEF OrInit
    <2>3. \A r \in OrRequest : orDone[r] = 0 /\ orTold[r] = FALSE BY DEF OrInit
    <2>4. \A r \in OrRequest : HoldersOK(r) BY <2>2, <2>3 DEF HoldersOK, OrHolds
    <2>5. ToldOK BY <2>3 DEF OrInit, ToldOK, OrRequest
    <2> QED BY <2>1, <2>4, <2>5 DEF OrInv
  <1>2. OrInv /\ [OrNext]_orVars => OrInv'
    <2> SUFFICES ASSUME OrInv, [OrNext]_orVars PROVE OrInv' OBVIOUS
    <2>1. ASSUME NEW a \in Attempt, NEW r \in OrRequest, OrCutOff(r, a) PROVE OrInv'
      BY <2>1, NoEffect DEF OrCutOff, orObjects, OrInv, OrTypeOK
    <2>2. CASE OrIncidentCloses \/ OrPlanMoves BY <2>2, StoreStands DEF OrIncidentCloses, OrPlanMoves
    <2>3. CASE UNCHANGED orVars BY <2>3, StoreStands DEF orVars
    <2> QED BY <2>1, <2>2, <2>3, CandidateSteps, SimulationSteps, IncidentSteps, PauseSteps
            DEF OrNext, OrSteps
  <1> QED BY <1>1, <1>2, PTL DEF OrSpec

(* The idempotent requests, for any number of overlapping attempts and any *)
(* number of attempts cut off: each takes effect at most once, and an      *)
(* answer of success to a creation or an incident is true.                 *)
THEOREM RequestsTellTheTruth == OrSpec => []ToldIsDone
  <1>1. OrInv => ToldIsDone
    BY Zenon DEF OrInv, OrTypeOK, HoldersOK, ToldOK, ToldIsDone, OrRequest, OrForIncident
  <1> QED BY <1>1, RequestInvariant, PTL

-----------------------------------------------------------------------------
(* The qualification of a runtime contract.  The version ties a request to *)
(* what it read: a request whose version is still the stored one has the   *)
(* stored qualification in its hands, so that the evidence it adds to is   *)
(* the evidence that is there.                                             *)

RcFinal == {"Invalidated", "Expired"}
RcStates == {"none", "Observing", "ReadyForApproval"} \cup RcFinal
Uids == [RcNode -> Nat]
QType == [state : RcStates, uid : Uids, gen : Nat, digest : Nat, samples : Nat, first : Nat,
          readyAt : Nat, version : Nat]
RequestType == [pc : {"idle", "inventory", "capture", "commit"}, op : {"none", "create", "observe"},
                now : Nat, q : QType, uid : Uids,
                result : {"none", "expired", "drift", "full", "not-full"}, from : Uids]

RcTypeOK ==
    /\ rcTime \in Nat /\ rcLive \in Uids /\ rcRow \in [RcNode -> [uid : Nat, seen : Nat]]
    /\ rcReport \in [RcNode -> [uid : Nat, gen : Nat, at : Nat, ready : BOOLEAN]]
    /\ rcConfig \in [gen : Nat, digest : Nat]
    /\ rcQ \in QType /\ rcCall \in [RcKey -> RequestType]
    /\ rcGood \in Seq([at : Nat, from : Uids])

(* What the stored qualification q says of the samples that were taken. *)
EvidenceOK(q, good) ==
    /\ q.samples = Len(good)
    /\ q.first = IF good = <<>> THEN 0 ELSE good[1].at
    /\ \A i \in 1 .. Len(good) : good[i].from = q.uid /\ good[i].at > 0
    /\ q.state = "ReadyForApproval" =>
          good # <<>> /\ q.samples >= MinSamples /\ q.readyAt - q.first >= MinDuration
    /\ q.version = 0 \/ q.state = "none" => q = NoQ

(* What an open request knows of the qualification q. *)
RequestOK(c, q) ==
    /\ c.op # "none" => c.now > 0
    /\ c.op = "observe" =>
          /\ c.q.version > 0 /\ c.q.version <= q.version
          /\ c.q.version = q.version => c.q = q
          /\ c.uid = c.q.uid /\ c.q.state \in {"Observing", "ReadyForApproval"}
          /\ c.pc = "commit" /\ c.result = "full" => c.from = c.uid
    /\ c.op = "create" /\ c.pc = "commit" =>
          c.q.state = "Observing" /\ c.q.samples = 0 /\ c.q.first = 0 /\ c.q.version = 1
    /\ c.op = "none" => c.pc = "idle"
    /\ c.pc = "inventory" => c.op = "observe"

RcInv ==
    /\ RcTypeOK /\ rcTime > 0
    /\ EvidenceOK(rcQ, rcGood)
    /\ \A k \in RcKey : RequestOK(rcCall[k], rcQ)

LEMMA NoRequestOK ==
  /\ NoQ \in QType /\ NoRequest \in RequestType
  /\ NoQ.samples = 0 /\ NoQ.first = 0 /\ NoQ.version = 0 /\ NoQ.state = "none"
  /\ \A q : RequestOK(NoRequest, q)
  <1>1. [n \in RcNode |-> 0] \in Uids BY DEF Uids
  <1>2. /\ NoQ \in QType /\ NoQ.samples = 0 /\ NoQ.first = 0 /\ NoQ.version = 0 /\ NoQ.state = "none"
    BY <1>1 DEF NoQ, QType, RcStates, RcFinal
  <1>3. NoRequest \in RequestType BY <1>1, <1>2 DEF NoRequest, RequestType
  <1>4. NoRequest.op = "none" /\ NoRequest.pc = "idle" BY DEF NoRequest
  <1> QED BY <1>2, <1>3, <1>4 DEF RequestOK

(* A step of the world or of one request that commits nothing. *)
LEMMA NothingCommitted ==
  ASSUME RcInv, UNCHANGED <<rcQ, rcGood>>, RcTypeOK', rcTime' >= rcTime,
         \A k \in RcKey : rcCall'[k] = rcCall[k] \/ RequestOK(rcCall'[k], rcQ)
  PROVE  RcInv'
  <1>1. rcTime' > 0 BY DEF RcInv, RcTypeOK
  <1>2. EvidenceOK(rcQ, rcGood)' BY SMTT(40) DEF RcInv, EvidenceOK
  <1>3. \A k \in RcKey : RequestOK(rcCall[k], rcQ)' BY DEF RcInv, RequestOK
  <1> QED BY <1>1, <1>2, <1>3 DEF RcInv

LEMMA RequestMoves ==
  ASSUME RcInv, NEW k \in RcKey, NEW r \in RequestType, RequestOK(r, rcQ), Become(k, r),
         UNCHANGED <<rcWorld, rcQ, rcGood>>
  PROVE  RcInv'
  <1>1. UNCHANGED <<rcTime, rcLive, rcRow, rcReport, rcConfig>> BY DEF rcWorld
  <1>2. rcCall' \in [RcKey -> RequestType] /\ rcCall'[k] = r /\ \A j \in RcKey \ {k} : rcCall'[j] = rcCall[j]
    BY DEF RcInv, RcTypeOK, Become
  <1>3. RcTypeOK' BY <1>1, <1>2 DEF RcInv, RcTypeOK
  <1>4. rcTime' >= rcTime BY <1>1 DEF RcInv, RcTypeOK
  <1> QED BY <1>2, <1>3, <1>4, NothingCommitted

LEMMA WorldStep ==
  ASSUME RcInv,
         RcTick \/ ConfigEdited \/ \E n \in RcNode : NodeReplaced(n) \/ RegisterNode(n) \/ HandleAcceleratorReport(n)
  PROVE  RcInv'
  <1>0. UNCHANGED <<rcQ, rcGood, rcCall>>
    BY Zenon DEF RcTick, ConfigEdited, NodeReplaced, RegisterNode, HandleAcceleratorReport
  <1>1. RcTypeOK /\ rcTime \in Nat BY SMTT(40) DEF RcInv, RcTypeOK
  <1>2. rcTime' \in Nat /\ rcTime' >= rcTime
    <2>1. rcTime' = rcTime \/ rcTime' = rcTime + 1
      BY ZenonT(40) DEF RcTick, ConfigEdited, NodeReplaced, RegisterNode, HandleAcceleratorReport
    <2> QED BY <1>1, <2>1
  <1>3. rcConfig' \in [gen : Nat, digest : Nat]
    <2>1. CASE ConfigEdited
      <3>1. rcConfig.gen \in Nat /\ rcConfig.digest \in Nat BY <1>1 DEF RcTypeOK
      <3>2. rcConfig.gen + 1 \in Nat /\ rcConfig.digest + 1 \in Nat BY <3>1, SMTT(40)
      <3> QED BY <2>1, <3>1, <3>2 DEF ConfigEdited
    <2> QED BY ZenonT(40), <1>1, <2>1 DEF RcTypeOK, RcTick, NodeReplaced, RegisterNode, HandleAcceleratorReport
  <1>4. rcLive' \in Uids
    <2>1. ASSUME NEW n \in RcNode, NodeReplaced(n) PROVE rcLive' \in Uids
      BY <1>1, <2>1 DEF RcTypeOK, Uids, NodeReplaced
    <2> QED BY Zenon, <1>1, <2>1 DEF RcTypeOK, RcTick, ConfigEdited, RegisterNode, HandleAcceleratorReport
  <1>5. rcRow' \in [RcNode -> [uid : Nat, seen : Nat]]
    <2>1. ASSUME NEW n \in RcNode, RegisterNode(n) PROVE rcRow' \in [RcNode -> [uid : Nat, seen : Nat]]
      BY ZenonT(40), <1>1, <2>1 DEF RcTypeOK, Uids, RegisterNode
    <2> QED BY <1>1, <2>1, SMTT(40) DEF RcTypeOK, RcTick, ConfigEdited, NodeReplaced, HandleAcceleratorReport
  <1>6. rcReport' \in [RcNode -> [uid : Nat, gen : Nat, at : Nat, ready : BOOLEAN]]
    <2>1. ASSUME NEW n \in RcNode, HandleAcceleratorReport(n)
          PROVE  rcReport' \in [RcNode -> [uid : Nat, gen : Nat, at : Nat, ready : BOOLEAN]]
      BY <1>1, <2>1 DEF RcTypeOK, Uids, HandleAcceleratorReport
    <2> QED BY Zenon, <1>1, <2>1 DEF RcTypeOK, RcTick, ConfigEdited, NodeReplaced, RegisterNode
  <1>7. RcTypeOK' BY <1>0, <1>1, <1>2, <1>3, <1>4, <1>5, <1>6 DEF RcTypeOK
  <1> QED BY <1>0, <1>2, <1>7, NothingCommitted, SMTT(40)

LEMMA CreateReadsStep == ASSUME RcInv, NEW k \in RcKey, CreateReads(k) PROVE RcInv'
  <1>1. PICK u : u = [n \in RcNode |-> rcRow[n].uid] BY Zenon
  <1>2. u \in Uids BY <1>1 DEF RcInv, RcTypeOK, Uids
  <1>3. PICK r : r = [NoRequest EXCEPT !.pc = "capture", !.op = "create", !.now = rcTime, !.uid = u] OBVIOUS
  <1>4. rcTime \in Nat /\ rcTime > 0 BY DEF RcInv, RcTypeOK
  <1>5. r \in RequestType /\ r.pc = "capture" /\ r.op = "create" /\ r.now = rcTime
    BY Zenon, <1>2, <1>3, <1>4, NoRequestOK DEF RequestType
  <1>6. RequestOK(r, rcQ) BY <1>4, <1>5 DEF RequestOK
  <1> QED BY <1>1, <1>3, <1>5, <1>6, RequestMoves DEF CreateReads

LEMMA ReturnedStep ==
  ASSUME RcInv, NEW k \in RcKey, Returned(k), UNCHANGED <<rcWorld, rcQ, rcGood>> PROVE RcInv'
  BY NoRequestOK, RequestMoves DEF Returned

LEMMA ObserveReadsStep == ASSUME RcInv, NEW k \in RcKey, ObserveReads(k) PROVE RcInv'
  <1>1. UNCHANGED <<rcWorld, rcQ, rcGood>> /\ rcQ # NoQ BY DEF ObserveReads
  <1>2. CASE Returned(k) BY <1>1, <1>2, ReturnedStep
  <1>3. ASSUME NEW p \in {"commit", "inventory"}, NEW v \in {"expired", "none"}, NEW r,
               rcQ.state \notin RcFinal, Become(k, r),
               r = [NoRequest EXCEPT !.op = "observe", !.now = rcTime, !.q = rcQ, !.uid = rcQ.uid,
                                     !.pc = p, !.result = v]
        PROVE  RcInv'
    <2>1. /\ rcTime \in Nat /\ rcTime > 0 /\ rcQ \in QType /\ rcQ.uid \in Uids
          /\ rcQ.state \in RcStates /\ rcQ.version \in Nat
      BY DEF RcInv, RcTypeOK, QType
    <2>2. rcQ.version > 0 /\ rcQ.state \in {"Observing", "ReadyForApproval"}
      BY <1>1, <1>3, <2>1 DEF RcInv, EvidenceOK, RcStates
    <2>3. /\ r \in RequestType /\ r.op = "observe" /\ r.now = rcTime /\ r.q = rcQ /\ r.uid = rcQ.uid
          /\ r.result = v
      BY Zenon, <1>3, <2>1, NoRequestOK DEF RequestType
    <2>4. RequestOK(r, rcQ) BY <2>1, <2>2, <2>3 DEF RequestOK
    <2> QED BY <1>1, <1>3, <2>3, <2>4, RequestMoves
  <1> QED BY Zenon, <1>2, <1>3 DEF ObserveReads, RcFinal

LEMMA InventoryStep == ASSUME RcInv, NEW k \in RcKey, ObserveInventory(k) PROVE RcInv'
  <1>1. UNCHANGED <<rcWorld, rcQ, rcGood>> /\ rcCall[k].pc = "inventory" BY DEF ObserveInventory, Req
  <1>2. PICK c : c = rcCall[k] OBVIOUS
  <1>3. c \in RequestType /\ RequestOK(c, rcQ) /\ c.pc = "inventory" BY <1>1, <1>2 DEF RcInv, RcTypeOK
  <1>4. ASSUME NEW r, Become(k, r), r = [c EXCEPT !.pc = "commit", !.result = "drift"] PROVE RcInv'
    <2>1. /\ r \in RequestType /\ r.op = c.op /\ r.now = c.now /\ r.q = c.q /\ r.uid = c.uid /\ r.result = "drift"
      BY Zenon, <1>3, <1>4 DEF RequestType
    <2>2. RequestOK(r, rcQ) BY <1>3, <2>1 DEF RequestOK
    <2> QED BY <1>1, <1>4, <2>1, <2>2, RequestMoves
  <1>5. ASSUME NEW r, Become(k, r), r = [c EXCEPT !.pc = "capture"] PROVE RcInv'
    <2>1. /\ r \in RequestType /\ r.op = c.op /\ r.now = c.now /\ r.q = c.q /\ r.uid = c.uid /\ r.pc = "capture"
      BY <1>3, <1>5 DEF RequestType
    <2>2. RequestOK(r, rcQ) BY <1>3, <2>1 DEF RequestOK
    <2> QED BY <1>1, <1>5, <2>1, <2>2, RequestMoves
  <1> QED BY <1>2, <1>4, <1>5 DEF ObserveInventory

(* Coverage that is full was built from reports of the nodes that are asked about. *)
LEMMA FullIsFromCohort ==
  ASSUME RcInv, NEW k \in RcKey, captureSameUID(k),
         \A n \in RcNode : AssessRuntimeContractCoverage(n) = "Full"
  PROVE  [n \in RcNode |-> rcReport[n].uid] = rcCall[k].uid
  <1>1. rcCall[k].uid \in Uids BY DEF RcInv, RcTypeOK, RequestType
  <1>2. ASSUME NEW n \in RcNode PROVE rcReport[n].uid = rcCall[k].uid[n]
    <2>1. attestation(rcRow[n], rcReport[n]) = "FreshCompatible" BY DEF AssessRuntimeContractCoverage
    <2>2. rcReport[n].uid = rcRow[n].uid BY <2>1, SMTT(40) DEF attestation
    <2> QED BY <2>2 DEF captureSameUID
  <1> QED BY <1>1, <1>2 DEF Uids

LEMMA CaptureStep == ASSUME RcInv, NEW k \in RcKey, CaptureCoverage(k) PROVE RcInv'
  <1>1. UNCHANGED <<rcWorld, rcQ, rcGood>> /\ rcCall[k].pc = "capture" BY DEF CaptureCoverage, Req
  <1>2. PICK c : c = rcCall[k] OBVIOUS
  <1>3. c \in RequestType /\ RequestOK(c, rcQ) /\ c.pc = "capture" BY <1>1, <1>2 DEF RcInv, RcTypeOK
  <1>4. PICK f : f = [n \in RcNode |-> rcReport[n].uid] BY Zenon
  <1>5. f \in Uids BY <1>4 DEF RcInv, RcTypeOK, Uids
  <1>6. PICK v : v = IF c.op = "observe" /\ (rcConfig.digest # c.q.digest \/ rcConfig.gen # c.q.gen) THEN "drift"
                     ELSE IF \A n \in RcNode : AssessRuntimeContractCoverage(n) = "Full" THEN "full"
                     ELSE "not-full" OBVIOUS
  <1>7. v \in {"drift", "full", "not-full"} BY <1>6
  <1>8. PICK q : q = IF c.op = "observe" THEN c.q
                     ELSE [NoQ EXCEPT !.state = "Observing", !.uid = c.uid, !.version = 1,
                                      !.gen = rcConfig.gen, !.digest = rcConfig.digest] OBVIOUS
  <1>9. q \in QType /\ (c.op # "observe" => /\ q.state = "Observing" /\ q.samples = 0 /\ q.first = 0
                                            /\ q.version = 1)
    <2>1. c.uid \in Uids /\ c.q \in QType BY <1>3 DEF RequestType
    <2>2. rcConfig.gen \in Nat /\ rcConfig.digest \in Nat BY DEF RcInv, RcTypeOK
    <2> QED BY Zenon, <1>8, <2>1, <2>2, NoRequestOK DEF QType, RcStates
  <1>10. CASE Returned(k) BY <1>1, <1>10, ReturnedStep
  <1>11. ASSUME NEW r, Become(k, r), captureSameUID(k),
                r = [c EXCEPT !.pc = "commit", !.result = v, !.from = f, !.q = q]
         PROVE  RcInv'
    <2>1. /\ r \in RequestType /\ r.op = c.op /\ r.now = c.now /\ r.q = q /\ r.uid = c.uid
          /\ r.result = v /\ r.from = f /\ r.pc = "commit"
      BY ZenonT(40), <1>3, <1>5, <1>7, <1>9, <1>11 DEF RequestType
    <2>2. v = "full" => f = c.uid BY <1>2, <1>4, <1>6, <1>11, FullIsFromCohort
    <2>3. c.op # "none" BY <1>3 DEF RequestOK
    <2>4. c.op = "observe" => q = c.q BY <1>8
    <2>5. RequestOK(r, rcQ) BY <1>3, <1>9, <2>1, <2>2, <2>3, <2>4 DEF RequestOK
    <2> QED BY <1>1, <1>11, <2>1, <2>5, RequestMoves
  <1> QED BY Zenon, <1>2, <1>4, <1>6, <1>8, <1>10, <1>11 DEF CaptureCoverage

(* What the lifecycle step makes of a qualification that is open. *)
LEMMA SteppedOK ==
  ASSUME NEW c \in RequestType, c.op = "observe", c.q.state \in {"Observing", "ReadyForApproval"},
         NEW s, s = Stepped(c)
  PROVE  /\ s \in QType /\ s.uid = c.q.uid /\ s.version = c.q.version /\ s.state # "none"
         /\ c.result = "full" => /\ s.samples = c.q.samples + 1
                                 /\ s.first = IF c.q.first = 0 THEN c.now ELSE c.q.first
         /\ c.result # "full" => s.samples = c.q.samples /\ s.first = c.q.first
         /\ c.q.state = "ReadyForApproval" => s.state # "Observing"
         /\ s.state = "ReadyForApproval" =>
              \/ c.q.state = "ReadyForApproval" /\ s.readyAt = c.q.readyAt
              \/ /\ c.result = "full" /\ s.samples >= MinSamples /\ s.readyAt = c.now
                 /\ c.now - s.first >= MinDuration
  <1>0. /\ c.q \in QType /\ c.now \in Nat /\ c.q.samples \in Nat /\ c.q.first \in Nat
        /\ c.result \in {"none", "expired", "drift", "full", "not-full"}
    BY DEF RequestType, QType
  <1>1. PICK first : first = IF c.q.first = 0 THEN c.now ELSE c.q.first OBVIOUS
  <1>2. first \in Nat /\ c.q.samples + 1 \in Nat BY <1>0, <1>1
  <1>3. PICK more : more = counted(c.q, c.now) OBVIOUS
  <1>4. /\ more \in QType /\ more.samples = c.q.samples + 1 /\ more.first = first
        /\ more.uid = c.q.uid /\ more.version = c.q.version /\ more.state = c.q.state
        /\ more.readyAt = c.q.readyAt
    <2>1. more = [c.q EXCEPT !.samples = c.q.samples + 1, !.first = first] BY <1>1, <1>3 DEF counted
    <2> QED BY Zenon, <1>0, <1>2, <2>1 DEF QType
  <1>5. ASSUME NEW st \in RcFinal, s = [c.q EXCEPT !.state = st]
        PROVE  /\ s \in QType /\ s.uid = c.q.uid /\ s.version = c.q.version /\ s.state = st
               /\ s.samples = c.q.samples /\ s.first = c.q.first
    BY <1>0, <1>5 DEF QType, RcStates
  <1>6. CASE c.result \in {"expired", "drift"}
             \/ (c.result = "not-full" /\ c.q.state = "ReadyForApproval")
    <2>1. PICK st \in RcFinal : s = [c.q EXCEPT !.state = st] BY <1>6 DEF Stepped, RcFinal
    <2> QED BY <1>5, <1>6, <2>1 DEF RcFinal
  <1>7. CASE c.result = "full" /\ c.q.state = "Observing" /\ qualified(more, c.now)
    <2>1. s = [more EXCEPT !.state = "ReadyForApproval", !.readyAt = c.now] BY <1>3, <1>7 DEF Stepped
    <2>2. /\ s \in QType /\ s.uid = c.q.uid /\ s.version = c.q.version /\ s.state = "ReadyForApproval"
          /\ s.samples = c.q.samples + 1 /\ s.first = first /\ s.readyAt = c.now
      BY Zenon, <1>0, <1>4, <2>1 DEF QType, RcStates
    <2> QED BY <1>1, <1>4, <1>7, <2>2 DEF qualified
  <1>8. CASE c.result = "full" /\ ~(c.q.state = "Observing" /\ qualified(more, c.now))
    <2>1. s = more BY <1>3, <1>8 DEF Stepped
    <2> QED BY <1>1, <1>4, <1>8, <2>1
  <1>9. CASE c.result = "none" \/ (c.result = "not-full" /\ c.q.state # "ReadyForApproval")
    <2>1. s = c.q BY <1>9 DEF Stepped
    <2> QED BY <1>0, <1>9, <2>1
  <1> QED BY Zenon, <1>0, <1>6, <1>7, <1>8, <1>9

(* A commit that creates the qualification. *)
LEMMA CreateCommits ==
  ASSUME RcInv, NEW k \in RcKey, NEW c, c = rcCall[k], c.pc = "commit", c.op = "create", rcQ = NoQ,
         rcQ' = c.q, UNCHANGED <<rcWorld, rcGood>>, Returned(k)
  PROVE  RcInv'
  <1>1. c \in RequestType /\ RequestOK(c, rcQ) BY DEF RcInv, RcTypeOK
  <1>2. /\ c.q \in QType /\ c.q.state = "Observing" /\ c.q.samples = 0 /\ c.q.first = 0 /\ c.q.version = 1
    BY <1>1 DEF RequestOK, RequestType
  <1>3. rcGood = <<>> BY NoRequestOK DEF RcInv, EvidenceOK, RcTypeOK
  <1>4. /\ rcCall' \in [RcKey -> RequestType] /\ rcCall'[k] = NoRequest
        /\ \A j \in RcKey \ {k} : rcCall'[j] = rcCall[j]
    BY NoRequestOK DEF RcInv, RcTypeOK, Returned, Become
  <1>5. UNCHANGED <<rcTime, rcLive, rcRow, rcReport, rcConfig>> BY SMTT(40) DEF rcWorld
  <1>6. RcTypeOK' BY <1>2, <1>4, <1>5, SMTT(40) DEF RcInv, RcTypeOK
  <1>7. EvidenceOK(rcQ, rcGood)' BY <1>2, <1>3, SMTT(40) DEF EvidenceOK
  <1>8. ASSUME NEW j \in RcKey PROVE RequestOK(rcCall[j], rcQ)'
    <2>1. CASE j = k BY <1>4, <2>1, NoRequestOK, SMTT(40)
    <2>2. CASE j # k
      <3>1. rcCall[j] \in RequestType /\ RequestOK(rcCall[j], rcQ) BY DEF RcInv, RcTypeOK
      <3>2. rcCall[j].q.version \in Nat BY <3>1, SMTT(40) DEF RequestType, QType
      <3>3. rcCall[j].op # "observe" BY <3>1, <3>2, NoRequestOK DEF RequestOK
      <3> QED BY Zenon, <1>4, <2>2, <3>1, <3>3 DEF RequestOK
    <2> QED BY <2>1, <2>2
  <1> QED BY <1>5, <1>6, <1>7, <1>8 DEF RcInv

(* A commit of an observation, and what it leaves of the evidence. *)
LEMMA ObserveCommits ==
  ASSUME RcInv, NEW k \in RcKey, NEW c, c = rcCall[k], c.pc = "commit", c.op = "observe",
         rcQ.version = c.q.version, NEW s, s = Stepped(c), rcQ' = [s EXCEPT !.version = rcQ.version + 1],
         rcGood' = IF c.result = "full" THEN Append(rcGood, [at |-> c.now, from |-> c.from]) ELSE rcGood,
         UNCHANGED rcWorld, Returned(k)
  PROVE  /\ RcInv'
         /\ rcQ.state \notin RcFinal /\ rcQ'.uid = rcQ.uid /\ rcQ'.samples >= rcQ.samples
         /\ rcQ.state = "ReadyForApproval" => rcQ'.state # "Observing"
  <1>1. c \in RequestType /\ RequestOK(c, rcQ) BY DEF RcInv, RcTypeOK
  <1>2. /\ c.q = rcQ /\ c.now > 0 /\ c.uid = rcQ.uid /\ rcQ.state \in {"Observing", "ReadyForApproval"}
        /\ c.result = "full" => c.from = rcQ.uid
    BY <1>1 DEF RequestOK
  <1>3. /\ c.now \in Nat /\ c.from \in Uids /\ rcQ \in QType /\ rcQ.version \in Nat /\ rcQ.samples \in Nat
        /\ rcQ.first \in Nat /\ rcQ.uid \in Uids /\ rcGood \in Seq([at : Nat, from : Uids])
    BY <1>1 DEF RequestType, QType, RcInv, RcTypeOK
  <1>4. /\ s \in QType /\ s.uid = rcQ.uid /\ s.version = rcQ.version /\ s.state # "none"
        /\ c.result = "full" => s.samples = rcQ.samples + 1 /\ s.first = IF rcQ.first = 0 THEN c.now ELSE rcQ.first
        /\ c.result # "full" => s.samples = rcQ.samples /\ s.first = rcQ.first
        /\ rcQ.state = "ReadyForApproval" => s.state # "Observing"
        /\ s.state = "ReadyForApproval" =>
              \/ rcQ.state = "ReadyForApproval" /\ s.readyAt = rcQ.readyAt
              \/ /\ c.result = "full" /\ s.samples >= MinSamples /\ s.readyAt = c.now
                 /\ c.now - s.first >= MinDuration
    BY <1>1, <1>2, SteppedOK
  <1>5. PICK v \in Nat : v = rcQ.version + 1 BY <1>3
  <1>6. /\ rcQ' \in QType /\ rcQ'.uid = rcQ.uid /\ rcQ'.version = v /\ rcQ'.state = s.state
        /\ rcQ'.samples = s.samples /\ rcQ'.first = s.first /\ rcQ'.readyAt = s.readyAt
    BY <1>4, <1>5, SMTT(40) DEF QType
  <1>7. /\ rcCall' \in [RcKey -> RequestType] /\ rcCall'[k] = NoRequest
        /\ \A j \in RcKey \ {k} : rcCall'[j] = rcCall[j]
    BY NoRequestOK DEF RcInv, RcTypeOK, Returned, Become
  <1>8. UNCHANGED <<rcTime, rcLive, rcRow, rcReport, rcConfig>> BY DEF rcWorld
  <1>9. PICK e : e = [at |-> c.now, from |-> c.from] OBVIOUS
  <1>10. e \in [at : Nat, from : Uids] /\ e.at = c.now /\ e.from = c.from BY <1>3, <1>9
  <1>11. rcGood' \in Seq([at : Nat, from : Uids])
    <2>1. Append(rcGood, e) \in Seq([at : Nat, from : Uids]) BY <1>3, <1>10
    <2> QED BY Zenon, <1>3, <1>9, <2>1
  <1>12. RcTypeOK' BY <1>6, <1>7, <1>8, <1>11 DEF RcInv, RcTypeOK
  <1>13. EvidenceOK(rcQ, rcGood) BY DEF RcInv
  <1>14. EvidenceOK(rcQ', rcGood')
    <2>1. CASE c.result # "full"
      <3>1. rcGood' = rcGood BY <2>1
      <3>2. s.state = "ReadyForApproval" => rcQ.state = "ReadyForApproval" /\ s.readyAt = rcQ.readyAt
        BY <1>4, <2>1
      <3>3. rcQ'.samples = rcQ.samples /\ rcQ'.first = rcQ.first BY <1>4, <1>6, <2>1
      <3>4. rcQ'.version # 0 /\ rcQ'.state # "none" BY <1>3, <1>4, <1>5, <1>6
      <3>5. rcQ'.state = "ReadyForApproval" => rcQ.state = "ReadyForApproval" /\ rcQ'.readyAt = rcQ.readyAt
        BY <1>6, <3>2
      <3>6. rcQ'.uid = rcQ.uid BY <1>6
      <3> QED BY <1>13, <3>1, <3>3, <3>4, <3>5, <3>6 DEF EvidenceOK
    <2>2. CASE c.result = "full"
      <3>1. rcGood' = Append(rcGood, e) BY <1>9, <2>2
      <3>2. /\ Len(rcGood') = Len(rcGood) + 1 /\ rcGood'[Len(rcGood) + 1] = e /\ rcGood' # <<>>
            /\ \A i \in 1 .. Len(rcGood) : rcGood'[i] = rcGood[i]
            /\ Len(rcGood) \in Nat
        BY <1>3, <1>10, <3>1
      <3>3. rcGood # <<>> => rcGood'[1] = rcGood[1] /\ rcGood[1].at > 0
        BY <1>3, <1>13, <3>2 DEF EvidenceOK
      <3>4. rcGood = <<>> => rcGood'[1] = e BY <3>2
      <3>5. rcQ.first = 0 <=> rcGood = <<>> BY <1>3, <1>13, <3>3 DEF EvidenceOK
      <3>6. s.first = rcGood'[1].at BY <1>4, <1>10, <1>13, <2>2, <3>3, <3>4, <3>5 DEF EvidenceOK
      <3>7. \A i \in 1 .. Len(rcGood') : rcGood'[i].from = rcQ.uid /\ rcGood'[i].at > 0
        BY <1>2, <1>10, <1>13, <2>2, <3>2 DEF EvidenceOK
      <3>8. rcQ'.samples = Len(rcGood') BY <1>4, <1>6, <1>13, <2>2, <3>2 DEF EvidenceOK
      <3>9. rcQ'.state = "ReadyForApproval" =>
               rcQ'.samples >= MinSamples /\ rcQ'.readyAt - rcQ'.first >= MinDuration
        <4>1. CASE rcQ.state = "ReadyForApproval" /\ s.readyAt = rcQ.readyAt
          <5>1. s.first = rcQ.first BY <1>4, <1>13, <2>2, <3>5, <4>1 DEF EvidenceOK
          <5>2. s.samples >= MinSamples
            BY <1>3, <1>4, <1>13, <2>2, <4>1, ContractAssumption DEF EvidenceOK
          <5> QED BY <1>6, <1>13, <4>1, <5>1, <5>2 DEF EvidenceOK
        <4>2. CASE s.samples >= MinSamples /\ s.readyAt = c.now /\ c.now - s.first >= MinDuration
          BY <1>6, <4>2
        <4> QED BY <1>4, <1>6, <4>1, <4>2
      <3>10. rcQ'.version # 0 /\ rcQ'.state # "none" BY <1>3, <1>4, <1>5, <1>6
      <3>11. rcQ'.first = rcGood'[1].at /\ rcQ'.uid = rcQ.uid BY <1>6, <3>6
      <3> QED BY <3>2, <3>7, <3>8, <3>9, <3>10, <3>11 DEF EvidenceOK
    <2> QED BY <2>1, <2>2
  <1>15. ASSUME NEW j \in RcKey PROVE RequestOK(rcCall'[j], rcQ')
    <2>1. CASE j = k BY <1>7, <2>1, NoRequestOK
    <2>2. CASE j # k
      <3>1. rcCall[j] \in RequestType /\ RequestOK(rcCall[j], rcQ) BY DEF RcInv, RcTypeOK
      <3>2. rcCall[j].q.version \in Nat BY <3>1 DEF RequestType, QType
      <3>3. rcCall'[j] = rcCall[j] BY <1>7, <2>2
      <3>4. rcQ'.version = rcQ.version + 1 BY <1>5, <1>6
      <3>5. PICK d : d = rcCall[j] OBVIOUS
      <3>6. d.op = "observe" => d.q.version <= rcQ'.version /\ d.q.version # rcQ'.version
        BY <1>3, <3>1, <3>2, <3>4, <3>5 DEF RequestOK
      <3>7. RequestOK(d, rcQ') BY <3>1, <3>5, <3>6 DEF RequestOK
      <3> QED BY <3>3, <3>5, <3>7
    <2> QED BY <2>1, <2>2
  <1>16. RcInv' BY <1>8, <1>12, <1>14, <1>15 DEF RcInv
  <1>17. rcQ'.samples >= rcQ.samples BY <1>3, <1>4, <1>6
  <1> QED BY <1>2, <1>4, <1>6, <1>16, <1>17 DEF RcFinal

(* A commit leaves the lifecycle where it was or takes it forward.         *)
LEMMA CommitStep ==
  ASSUME RcInv, NEW k \in RcKey, RcCommits(k)
  PROVE  RcInv' /\ (rcQ' = rcQ \/ rcQ = NoQ
                    \/ /\ rcQ.state \notin RcFinal /\ rcQ'.uid = rcQ.uid /\ rcQ'.samples >= rcQ.samples
                       /\ rcQ.state = "ReadyForApproval" => rcQ'.state # "Observing")
  <1>1. PICK c : c = rcCall[k] OBVIOUS
  <1>2. c.pc = "commit" /\ Returned(k) /\ UNCHANGED rcWorld BY <1>1 DEF RcCommits, Req
  <1>3. c \in RequestType /\ RequestOK(c, rcQ) BY <1>1 DEF RcInv, RcTypeOK
  <1>4. c.op \in {"create", "observe"} BY <1>2, <1>3 DEF RequestOK, RequestType
  <1>5. CASE UNCHANGED <<rcQ, rcGood>> BY <1>2, <1>5, ReturnedStep
  <1>6. CASE c.op = "create" /\ rcQ = NoQ /\ rcQ' = Stepped(c) /\ rcGood' = rcGood
    <2>1. rcQ' = c.q BY <1>6 DEF Stepped
    <2> QED BY <1>1, <1>2, <1>6, <2>1, CreateCommits
  <1>7. CASE /\ c.op = "observe" /\ rcQ.version = c.q.version
             /\ rcQ' = [Stepped(c) EXCEPT !.version = rcQ.version + 1]
             /\ rcGood' = IF c.result = "full" THEN Append(rcGood, [at |-> c.now, from |-> c.from]) ELSE rcGood
    BY <1>1, <1>2, <1>7, ObserveCommits, SMTT(40)
  <1> QED BY <1>1, <1>4, <1>5, <1>6, <1>7 DEF RcCommits, saveVersioned

(* The qualification moves by commits alone.                               *)
LEMMA QualificationStep ==
  ASSUME RcInv, [RcNext]_rcVars
  PROVE  RcInv' /\ (rcQ' = rcQ \/ rcQ = NoQ
                    \/ /\ rcQ.state \notin RcFinal /\ rcQ'.uid = rcQ.uid /\ rcQ'.samples >= rcQ.samples
                       /\ rcQ.state = "ReadyForApproval" => rcQ'.state # "Observing")
  <1>1. CASE RcTick \/ ConfigEdited \/ \E n \in RcNode : NodeReplaced(n) \/ RegisterNode(n) \/ HandleAcceleratorReport(n)
    BY ZenonT(40), <1>1, WorldStep DEF RcTick, ConfigEdited, NodeReplaced, RegisterNode, HandleAcceleratorReport
  <1>2. CASE UNCHANGED rcVars
    <2>1. UNCHANGED <<rcTime, rcLive, rcRow, rcReport, rcConfig, rcQ, rcCall, rcGood>> BY <1>2 DEF rcVars, rcWorld
    <2> QED BY ZenonT(40), <2>1 DEF RcInv, RcTypeOK, EvidenceOK, RequestOK
  <1>3. ASSUME NEW k \in RcKey, CreateReads(k) PROVE RcInv' /\ rcQ' = rcQ
    BY Zenon, <1>3, CreateReadsStep DEF CreateReads
  <1>4. ASSUME NEW k \in RcKey, ObserveReads(k) PROVE RcInv' /\ rcQ' = rcQ
    BY <1>4, ObserveReadsStep, SMTT(40) DEF ObserveReads
  <1>5. ASSUME NEW k \in RcKey, ObserveInventory(k) PROVE RcInv' /\ rcQ' = rcQ
    BY ZenonT(40), <1>5, InventoryStep DEF ObserveInventory
  <1>6. ASSUME NEW k \in RcKey, CaptureCoverage(k) PROVE RcInv' /\ rcQ' = rcQ
    BY Zenon, <1>6, CaptureStep DEF CaptureCoverage
  <1>7. ASSUME NEW k \in RcKey, RcFails(k) PROVE RcInv' /\ rcQ' = rcQ
    BY <1>7, ReturnedStep DEF RcFails
  <1> QED BY <1>1, <1>2, <1>3, <1>4, <1>5, <1>6, <1>7, CommitStep, SMTT(40) DEF RcNext

(* The stored qualification always agrees with the samples that were       *)
(* committed, and every open observe request holds either the stored row   *)
(* or an older version of it, for any number of requests and nodes.        *)
THEOREM QualificationInvariant == RcSpec => []RcInv
  <1>1. RcInit => RcInv
    <2> SUFFICES ASSUME RcInit PROVE RcInv OBVIOUS
    <2>1. RcTypeOK /\ rcTime > 0 BY NoRequestOK, SMTT(40) DEF RcInit, RcTypeOK, Uids, NoReport
    <2>2. EvidenceOK(rcQ, rcGood) BY NoRequestOK DEF RcInit, EvidenceOK
    <2>3. \A k \in RcKey : RequestOK(rcCall[k], rcQ) BY NoRequestOK DEF RcInit
    <2> QED BY <2>1, <2>2, <2>3, SMTT(40) DEF RcInv
  <1>2. RcInv /\ [RcNext]_rcVars => RcInv' BY QualificationStep, SMTT(40)
  <1> QED BY <1>1, <1>2, PTL DEF RcSpec

(* observeRuntimeContractQualification: ReadyForApproval is earned by      *)
(* MinSamples samples over MinDuration from the frozen cohort, for every   *)
(* number of nodes, requests and configuration edits.                      *)
THEOREM ContractReadyIsEarned == RcSpec => []ReadyIsEarned
  <1>1. RcInv => ReadyIsEarned
    <2> SUFFICES ASSUME RcInv, rcQ.state = "ReadyForApproval"
                 PROVE  /\ Len(rcGood) >= MinSamples
                        /\ rcQ.readyAt - rcGood[1].at >= MinDuration
                        /\ \A i \in 1..Len(rcGood) : rcGood[i].from = rcQ.uid
      BY DEF ReadyIsEarned
    <2> QED BY DEF RcInv, EvidenceOK
  <1> QED BY <1>1, QualificationInvariant, PTL

(* Invalidated and Expired are final, readiness is not taken back, and the *)
(* frozen cohort never changes, whichever observer's transaction commits   *)
(* last.                                                                   *)
THEOREM ContractLifecycle == RcSpec => LifecycleIsForward
  <1>1. RcInv /\ [RcNext]_rcVars =>
          [/\ rcQ.state \in {"Invalidated", "Expired"} => rcQ'.state = rcQ.state
           /\ rcQ.state = "ReadyForApproval" => rcQ'.state # "Observing"
           /\ rcQ # NoQ => rcQ'.uid = rcQ.uid /\ rcQ'.samples >= rcQ.samples]_rcVars
    <2> SUFFICES ASSUME RcInv, [RcNext]_rcVars
                 PROVE  /\ rcQ.state \in {"Invalidated", "Expired"} => rcQ'.state = rcQ.state
                        /\ rcQ.state = "ReadyForApproval" => rcQ'.state # "Observing"
                        /\ rcQ # NoQ => rcQ'.uid = rcQ.uid /\ rcQ'.samples >= rcQ.samples
      OBVIOUS
    <2>1. rcQ.samples \in Nat BY DEF RcInv, RcTypeOK, QType
    <2> QED BY <2>1, QualificationStep, NoRequestOK DEF RcFinal
  <1> QED BY <1>1, QualificationInvariant, PTL DEF RcSpec, LifecycleIsForward

=============================================================================
