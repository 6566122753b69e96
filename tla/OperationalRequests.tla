------------------------- MODULE OperationalRequests -------------------------
(***************************************************************************)
(* The idempotent requests of the operations API.  A client keeps one      *)
(* Idempotency-Key per operation and repeats the request until it is       *)
(* answered, possibly while an earlier attempt is still in its handler.    *)
(* Each handler validates, reserves the key, acts and answers; between any *)
(* two of these the process may die or the client's disconnect cancel the  *)
(* request.  Source: internal/operations/operations.go and autonomy.go     *)
(* (the Manager), internal/httpapi/operations.go (the handlers) and        *)
(* internal/store/sqlcore/operations.go (keys and versions).               *)
(***************************************************************************)
EXTENDS Naturals

CONSTANTS Attempt,       \* attempts of a request that may overlap
          MaxOrTrouble   \* bound: attempts cut off, and plan changes by the reconciler

(* One operation of each kind and a second request for the same incident;  *)
(* each has its own key.                                                   *)
OrForIncident == {"incident", "incident again"}
OrRequest == {"upload", "preview", "revoke", "simulate", "pause"} \cup OrForIncident

(* Requests that touch a common object; no object is shared between two of *)
(* these sets, so a client is after the requests of one of them.           *)
OrTopics == {{"upload", "preview", "revoke"}, {"simulate"} \cup OrForIncident, {"pause"}}

VARIABLES orTopic,      \* the requests the client makes
          orKey,        \* request -> its key is reserved
          orDone,       \* request -> times it took effect
          orTold,       \* request -> the client was answered with success
          orAt,         \* <<request, attempt>> -> where the attempt is
          orCandidate,  \* the uploaded candidate's state
          orSim,        \* the simulation's state
          orPlan,       \* the autonomy plan: active or paused
          orPlanFresh,  \* attempt -> the plan version it validated is current
          orIncident,   \* an incident for the simulated fault is open
          orTrouble

orVars == <<orTopic, orKey, orDone, orTold, orAt, orCandidate, orSim, orPlan, orPlanFresh,
            orIncident, orTrouble>>
orObjects == <<orCandidate, orSim, orPlan, orPlanFresh, orIncident>>

OrInit ==
  /\ orTopic \in OrTopics
  /\ orKey = [r \in OrRequest |-> FALSE] /\ orDone = [r \in OrRequest |-> 0]
  /\ orTold = [r \in OrRequest |-> FALSE]
  /\ orAt = [ra \in OrRequest \X Attempt |-> "off"]
  /\ orCandidate = "none" /\ orSim = "none" /\ orPlan = "active"
  /\ orPlanFresh = [a \in Attempt |-> FALSE] /\ orIncident = FALSE /\ orTrouble = 0

OrIs(r, a, pc) == orAt[<<r, a>>] = pc
OrGo(r, a, pc) == orAt' = [orAt EXCEPT ![<<r, a>>] = pc]

(* The handler answers with the resource and the attempt is over. *)
OrAnswers(r, a) == OrGo(r, a, "off") /\ orTold' = [orTold EXCEPT ![r] = TRUE]
OrRefuses(r, a) == OrGo(r, a, "off") /\ UNCHANGED orTold

(* The effect itself, counted, and its answer. *)
OrTakesEffect(r, a) == orDone' = [orDone EXCEPT ![r] = @ + 1] /\ OrAnswers(r, a)

(* Mutant: a repeat is answered without looking whether the first finished. *)
replayFindsAnything(r) == TRUE

(* What a repeat of a reserved request finds.  A creation is read by the   *)
(* reserved ID, an incident through the simulation; a revocation and a     *)
(* plan mutation answer with the current object, whatever its state.       *)
replayFinds(r) ==
  /\ r \in {"upload", "preview", "simulate"} => orDone[r] > 0
  /\ r \in OrForIncident => orSim = "incident-created"

OrReplays(r, a) == IF replayFinds(r) THEN OrAnswers(r, a) ELSE OrRefuses(r, a)

(* PutOperationalIdempotency reports whether this call inserted the key. *)
createdKey(r) == ~orKey[r]

PutOperationalIdempotency(r, a) ==
  /\ OrIs(r, a, "validated")
  /\ IF createdKey(r) THEN OrGo(r, a, "reserved") /\ UNCHANGED orTold ELSE OrReplays(r, a)
  /\ orKey' = [orKey EXCEPT ![r] = TRUE]
  /\ UNCHANGED <<orDone, orTrouble, orObjects>>

(* GetOperationalIdempotency, for the requests that look their key up      *)
(* before they validate anything.                                          *)
OrLooksUp(r, a) ==
  /\ r \in orTopic /\ OrIs(r, a, "off") /\ orKey[r]
  /\ OrReplays(r, a)
  /\ UNCHANGED <<orKey, orDone, orTrouble, orObjects>>

OrValidates(r, a) ==
  /\ r \in orTopic /\ OrIs(r, a, "off") /\ OrGo(r, a, "validated")
  /\ UNCHANGED <<orKey, orDone, orTold, orTrouble>>

OrStoreOnly == UNCHANGED <<orKey, orTrouble>>

----------------------------------------------------------------------------
(* Candidates: upload, preview, revocation.                                *)

(* A malformed upload is no operation and never reaches its key. *)
handleCreateCandidate(a) == OrValidates("upload", a) /\ UNCHANGED orObjects

CreateCandidate(a) ==
  \/ PutOperationalIdempotency("upload", a)
  \/ /\ OrIs("upload", a, "reserved")
     /\ orCandidate' = "uploaded" /\ OrTakesEffect("upload", a)
     /\ OrStoreOnly /\ UNCHANGED <<orSim, orPlan, orPlanFresh, orIncident>>

(* The fleet is captured for a candidate that is uploaded; it is read      *)
(* again before the key is reserved.                                       *)
handleCreatePreview(a) ==
  orCandidate = "uploaded" /\ OrValidates("preview", a) /\ UNCHANGED orObjects

CreatePreview(a) ==
  \/ orCandidate = "uploaded" /\ PutOperationalIdempotency("preview", a)
  \/ /\ OrIs("preview", a, "validated") /\ orCandidate # "uploaded"
     /\ OrRefuses("preview", a) /\ UNCHANGED <<orKey, orDone, orTrouble, orObjects>>
  \/ /\ OrIs("preview", a, "reserved") /\ OrTakesEffect("preview", a)
     /\ OrStoreOnly /\ UNCHANGED orObjects

handleRevokeCandidate(a) ==
  \/ orCandidate # "none" /\ OrLooksUp("revoke", a)
  \/ /\ orCandidate = "uploaded" /\ ~orKey["revoke"]
     /\ OrValidates("revoke", a) /\ UNCHANGED orObjects

RevokeCandidate(a) ==
  \/ PutOperationalIdempotency("revoke", a)
  \/ /\ OrIs("revoke", a, "reserved")
     /\ IF orCandidate = "uploaded"             \* the version that was read
        THEN orCandidate' = "revoked" /\ OrTakesEffect("revoke", a)
        ELSE OrRefuses("revoke", a) /\ UNCHANGED <<orCandidate, orDone>>
     /\ OrStoreOnly /\ UNCHANGED <<orSim, orPlan, orPlanFresh, orIncident>>

----------------------------------------------------------------------------
(* Simulations, and the incident one may become.                           *)

handleCreateSimulation(a) ==
  \/ OrLooksUp("simulate", a)
  \/ ~orKey["simulate"] /\ OrValidates("simulate", a) /\ UNCHANGED orObjects

CreateSimulation(a) ==
  \/ PutOperationalIdempotency("simulate", a)
  \/ /\ OrIs("simulate", a, "reserved")
     /\ orSim' \in {"permitted", "blocked"} /\ OrTakesEffect("simulate", a)
     /\ OrStoreOnly /\ UNCHANGED <<orCandidate, orPlan, orPlanFresh, orIncident>>

(* A blocked simulation is refused before the key is reserved; one that    *)
(* already has its incident answers with it.                               *)
handleCreateIncidentFromSimulation(r, a) ==
  \/ OrLooksUp(r, a)
  \/ /\ ~orKey[r] /\ orSim = "permitted"
     /\ OrValidates(r, a) /\ UNCHANGED orObjects
  \/ /\ ~orKey[r] /\ orSim = "incident-created" /\ OrIs(r, a, "off")
     /\ OrAnswers(r, a) /\ UNCHANGED <<orKey, orDone, orTrouble, orObjects>>

(* The controller opens an incident or attaches to the open one, and only  *)
(* then does the simulation record it, under the version that was read.    *)
CreateIncidentFromSimulation(r, a) ==
  \/ PutOperationalIdempotency(r, a)
  \/ /\ OrIs(r, a, "reserved") /\ orSim = "permitted"
     /\ OrGo(r, a, "opened") /\ orIncident' = TRUE
     /\ orDone' = [orDone EXCEPT ![r] = @ + 1]
     /\ OrStoreOnly /\ UNCHANGED <<orTold, orCandidate, orSim, orPlan, orPlanFresh>>
  \/ /\ OrIs(r, a, "reserved") /\ orSim = "incident-created"
     /\ OrAnswers(r, a) /\ OrStoreOnly /\ UNCHANGED <<orDone, orObjects>>
  \/ /\ OrIs(r, a, "opened")
     /\ IF orSim = "permitted"
        THEN orSim' = "incident-created" /\ OrAnswers(r, a)
        ELSE UNCHANGED orSim /\ OrRefuses(r, a)
     /\ OrStoreOnly /\ UNCHANGED <<orDone, orCandidate, orPlan, orPlanFresh, orIncident>>

OrIncidentCloses ==
  /\ orIncident /\ orIncident' = FALSE
  /\ UNCHANGED <<orKey, orDone, orTold, orAt, orCandidate, orSim, orPlan, orPlanFresh, orTrouble>>

----------------------------------------------------------------------------
(* Plan mutations, shown on pause: the version is checked before the key   *)
(* is reserved and again when the plan is saved.                           *)

handlePauseAutonomyPlan(a) ==
  \/ OrLooksUp("pause", a)
  \/ /\ ~orKey["pause"] /\ orPlan = "active" /\ OrValidates("pause", a)
     /\ orPlanFresh' = [orPlanFresh EXCEPT ![a] = TRUE]
     /\ UNCHANGED <<orCandidate, orSim, orPlan, orIncident>>

PauseAutonomyPlanRequest(a) ==
  \/ PutOperationalIdempotency("pause", a)
  \/ /\ OrIs("pause", a, "reserved")
     /\ IF orPlanFresh[a]
        THEN /\ orPlan' = "paused" /\ OrTakesEffect("pause", a)
             /\ orPlanFresh' = [b \in Attempt |-> FALSE]
        ELSE OrRefuses("pause", a) /\ UNCHANGED <<orPlan, orPlanFresh, orDone>>
     /\ OrStoreOnly /\ UNCHANGED <<orCandidate, orSim, orIncident>>

(* The reconciler moves the plan, so the version changes. *)
OrPlanMoves ==
  /\ orTrouble < MaxOrTrouble /\ orTrouble' = orTrouble + 1
  /\ "pause" \in orTopic /\ orPlan = "active" /\ orPlanFresh' = [a \in Attempt |-> FALSE]
  /\ UNCHANGED <<orKey, orDone, orTold, orAt, orCandidate, orSim, orPlan, orIncident>>

(* An attempt is cut off: a crash, a failed store call, a disconnect. *)
OrCutOff(r, a) ==
  /\ ~OrIs(r, a, "off") /\ orTrouble < MaxOrTrouble /\ orTrouble' = orTrouble + 1
  /\ OrGo(r, a, "off")
  /\ UNCHANGED <<orKey, orDone, orTold, orObjects>>

OrSteps ==
  \/ \E a \in Attempt :
       \/ handleCreateCandidate(a) \/ CreateCandidate(a)
       \/ handleCreatePreview(a) \/ CreatePreview(a)
       \/ handleRevokeCandidate(a) \/ RevokeCandidate(a)
       \/ handleCreateSimulation(a) \/ CreateSimulation(a)
       \/ \E r \in OrForIncident :
             handleCreateIncidentFromSimulation(r, a) \/ CreateIncidentFromSimulation(r, a)
       \/ handlePauseAutonomyPlan(a) \/ PauseAutonomyPlanRequest(a)
       \/ \E r \in OrRequest : OrCutOff(r, a)
  \/ OrIncidentCloses \/ OrPlanMoves

OrNext == OrSteps /\ UNCHANGED orTopic

OrSpec == OrInit /\ [][OrNext]_orVars

----------------------------------------------------------------------------
(* A request takes effect at most once however often and however           *)
(* concurrently it is repeated: one resource per creation, one revocation, *)
(* one pause, one call that opens an incident (the key is reserved before  *)
(* anything is written).  And a client told that its creation or its       *)
(* incident succeeded really has the durable resource: a repeat of an      *)
(* attempt that died half way is refused, never answered as done.          *)
ToldIsDone ==
  /\ \A r \in OrRequest : orDone[r] <= 1
  /\ \A r \in {"upload", "preview", "simulate"} : orTold[r] => orDone[r] = 1
  /\ \A r \in OrForIncident : orTold[r] => orSim = "incident-created"
=============================================================================
