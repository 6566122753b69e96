----------------------------- MODULE Checkpoint -----------------------------
(***************************************************************************)
(* Checkpoint coordination before a drain or an eviction: the pre-phase of *)
(* the step (controller/checkpoint.go), the annotations it stamps on the   *)
(* pods under test operations (platform/kubernetes/checkpoint.go) and the  *)
(* pure policy (internal/checkpoint).  Two incidents may disrupt the same  *)
(* node, the controller may restart at any point, pods checkpoint, answer, *)
(* exit or are replaced when they like.                                    *)
(***************************************************************************)
EXTENDS Naturals, FiniteSets

CONSTANTS
    CkIncident, CkPod,
    CkGrant,      \* per pod, what WaitFor grants it
    CkBudget,     \* checkpointBudget of a step
    MaxTime,      \* bound on the clock
    MaxCkTrouble  \* bound on restarts, failed calls, exits and replacements

VARIABLES
    ckNow,      \* the clock
    ckObject,   \* the pods: instance, stamped request, state annotation
    ckStep,     \* the step of each incident
    ckReading,  \* the incident each pod read off its object and now works for
    ckSaved,    \* history: the requests each pod has checkpointed for
    ckTrouble

ckVars == <<ckNow, ckObject, ckStep, ckReading, ckSaved, ckTrouble>>

None == "none"
NoStamp == [incident |-> None, requested |-> 0, deadline |-> 0]
NoTrack == [incident |-> None, deadline |-> 0, uid |-> 0, outcome |-> "untracked"]
NewObject(uid) == [uid |-> uid, alive |-> TRUE, stamp |-> NoStamp, state |-> None]
NewStep == [pc |-> "idle", at |-> 0, todo |-> {}, pod |-> None, uids |-> [p \in CkPod |-> 0],
            read |-> NoStamp, tries |-> 0, tracked |-> [p \in CkPod |-> NoTrack]]

CkInit ==
    /\ ckNow = 0
    /\ ckObject = [p \in CkPod |-> NewObject(1)]
    /\ ckStep = [i \in CkIncident |-> NewStep]
    /\ ckReading = [p \in CkPod |-> None]
    /\ ckSaved = [p \in CkPod |-> {}]
    /\ ckTrouble = 0

CkTrouble ==
    /\ ckTrouble < MaxCkTrouble
    /\ ckTrouble' = ckTrouble + 1

-----------------------------------------------------------------------------
(* internal/checkpoint                                                     *)

smaller(a, b) == IF a < b THEN a ELSE b

BoundedWait(p) == smaller(CkGrant[p], CkBudget)

\* Variant: a restarted step proposes a new window.
ResolveAnew(proposed, incident, existing) == proposed

\* The earlier of the stamp and the proposal, for the same incident.
ResolveDeadline(proposed, incident, existing) ==
    IF existing.incident = incident THEN smaller(existing.deadline, proposed) ELSE proposed

\* The object carries a request of that incident and the answer names it.
AcknowledgesInForce(incident, object) ==
    object.stamp.incident = incident /\ object.state = incident

\* Classify, for an observation of the object as it is now.
Classify(track, object) ==
    IF object.uid # track.uid \/ ~object.alive THEN "exited"
    ELSE IF AcknowledgesInForce(track.incident, object) THEN "acknowledged"
    ELSE IF ckNow >= track.deadline THEN "expired" ELSE "pending"

-----------------------------------------------------------------------------
(* coordinateCheckpoint                                                    *)

InPhase(i) == ckStep[i].pc \notin {"idle", "done"}
BudgetSpent(i) == ckNow >= ckStep[i].at + CkBudget
Now(i, step) == ckStep' = [ckStep EXCEPT ![i] = step]

\* The request time is taken with the coordination context.
CkBegins(i) ==
    /\ ckStep[i].pc = "idle" /\ ckNow + CkBudget <= MaxTime
    /\ Now(i, [NewStep EXCEPT !.pc = "list", !.at = ckNow])
    /\ UNCHANGED <<ckNow, ckObject, ckReading, ckSaved, ckTrouble>>

\* checkpointCandidates: the pods of the node that opted in.
checkpointCandidates(i) ==
    /\ ckStep[i].pc = "list" /\ ~BudgetSpent(i)
    /\ LET found == {p \in CkPod : ckObject[p].alive}
       IN  Now(i, [ckStep[i] EXCEPT !.pc = IF found = {} THEN "done" ELSE "ask", !.todo = found,
                                    !.uids = [p \in CkPod |-> ckObject[p].uid]])
    /\ UNCHANGED <<ckNow, ckObject, ckReading, ckSaved, ckTrouble>>

\* The request that will be in force, given the one the pod carries.
inForce(i, p, existing) ==
    [incident |-> i, deadline |-> ResolveDeadline(ckStep[i].at + BoundedWait(p), i, existing),
     requested |-> IF existing.incident = i THEN existing.requested ELSE ckStep[i].at]

Tracks(step, p, stamp) ==
    [step EXCEPT !.pc = "ask", !.todo = @ \ {p}, !.pod = None, !.read = NoStamp, !.tries = 0,
                 !.tracked[p] = [incident |-> stamp.incident, uid |-> step.uids[p],
                                 deadline |-> stamp.deadline, outcome |-> "pending"]]

\* RequestCheckpoint reads the pod: it is gone or another instance, it carries a live
\* request of another incident, it is stamped exactly so already, or it will be stamped.
RequestReads(i, p) ==
    LET step == ckStep[i]
        object == ckObject[p]
        foreign == object.stamp.incident \notin {None, i} /\ object.stamp.deadline > step.at
        gone == ~object.alive \/ object.uid # step.uids[p]
        proposed == step.at + BoundedWait(p)
    IN  /\ step.pc = "ask" /\ p \in step.todo /\ ~BudgetSpent(i)
        /\ Now(i, IF gone
                  THEN [step EXCEPT !.todo = @ \ {p}, !.tracked[p].outcome = "exited"]
                  ELSE IF foreign
                  THEN Tracks(step, p, [object.stamp EXCEPT !.deadline = smaller(@, proposed)])
                  ELSE IF object.stamp = inForce(i, p, object.stamp)
                  THEN Tracks(step, p, object.stamp)
                  ELSE [step EXCEPT !.pc = "patch", !.pod = p, !.read = object.stamp])
        /\ UNCHANGED <<ckNow, ckObject, ckReading, ckSaved, ckTrouble>>

\* checkpointRequestPatch: the instance and every key must be as they were read.
patchGuard(i, p) ==
    /\ ckObject[p].alive /\ ckObject[p].uid = ckStep[i].uids[p]
    /\ ckObject[p].stamp = ckStep[i].read

RequestPatches(i) ==
    LET step == ckStep[i]
        p == step.pod
        stamp == inForce(i, p, step.read)
        asked == [step EXCEPT !.pc = "ask", !.todo = @ \ {p}, !.pod = None, !.read = NoStamp, !.tries = 0]
    IN  /\ step.pc = "patch" /\ ~BudgetSpent(i)
        /\ \/ /\ patchGuard(i, p)
              /\ ckObject' = [ckObject EXCEPT ![p].stamp = stamp]
              /\ Now(i, Tracks(step, p, stamp))
           \/ /\ ~patchGuard(i, p)
              /\ Now(i, IF ~ckObject[p].alive THEN [asked EXCEPT !.tracked[p].outcome = "exited"]
                        ELSE IF step.tries = 0
                        THEN [step EXCEPT !.pc = "ask", !.pod = None, !.read = NoStamp, !.tries = 1]
                        ELSE [asked EXCEPT !.tracked[p].outcome = "unreachable"])
              /\ UNCHANGED ckObject
        /\ UNCHANGED <<ckNow, ckReading, ckSaved, ckTrouble>>

\* A listing or a request fails for another reason: that is its answer.
CallFails(i) ==
    LET step == ckStep[i]
    IN  /\ step.pc \in {"list", "patch"}
        /\ CkTrouble
        /\ Now(i, IF step.pc = "list" THEN [step EXCEPT !.pc = "done"]
                  ELSE [step EXCEPT !.pc = "ask", !.todo = @ \ {step.pod}, !.pod = None,
                                    !.read = NoStamp, !.tries = 0,
                                    !.tracked[step.pod].outcome = "unreachable"])
        /\ UNCHANGED <<ckNow, ckObject, ckReading, ckSaved>>

\* Everybody was asked, or the budget is spent: whoever was not asked is unreachable.
AskedAll(i) ==
    LET step == ckStep[i]
        left == {p \in step.todo : step.tracked[p].outcome = "untracked"}
    IN  /\ \/ step.pc = "ask" /\ step.todo = {}
           \/ step.pc \in {"list", "ask", "patch"} /\ BudgetSpent(i)
        /\ Now(i, [step EXCEPT !.pc = "watch", !.todo = {}, !.pod = None, !.read = NoStamp, !.tries = 0,
                       !.tracked = [p \in CkPod |-> IF p \in left
                                                    THEN [@[p] EXCEPT !.outcome = "unreachable"] ELSE @[p]]])
        /\ UNCHANGED <<ckNow, ckObject, ckReading, ckSaved, ckTrouble>>

Pending(i) == {p \in CkPod : ckStep[i].tracked[p].outcome = "pending"}

\* One look of the loop; a read that fails is taken again until the deadline.
ObserveCheckpoint(i, p) ==
    LET outcome == Classify(ckStep[i].tracked[p], ckObject[p])
    IN  /\ ckStep[i].pc = "watch" /\ p \in Pending(i) /\ ~BudgetSpent(i)
        /\ outcome # "pending"
        /\ Now(i, [ckStep[i] EXCEPT !.tracked[p].outcome = outcome])
        /\ UNCHANGED <<ckNow, ckObject, ckReading, ckSaved, ckTrouble>>

\* Variant: the step goes on once everybody has answered.
waitEndsAnswered(i) == Pending(i) = {}

\* The loop ends: nobody is pending, the latest deadline is past, or the budget is.
waitEnds(i) ==
    \/ Pending(i) = {}
    \/ \A p \in CkPod : ckStep[i].tracked[p].deadline <= ckNow
    \/ BudgetSpent(i)

\* Whoever is still open expired, or was given up before its deadline; then the node
\* is drained.
CkDisrupts(i) ==
    /\ ckStep[i].pc = "watch" /\ waitEnds(i)
    /\ Now(i, [ckStep[i] EXCEPT !.pc = "done",
           !.tracked = [p \in CkPod |->
               IF p \in Pending(i)
               THEN [@[p] EXCEPT !.outcome = IF ckNow >= ckStep[i].tracked[p].deadline
                                             THEN "expired" ELSE "unreachable"]
               ELSE @[p]]])
    /\ UNCHANGED <<ckNow, ckObject, ckReading, ckSaved, ckTrouble>>

-----------------------------------------------------------------------------
(* The clock, the pods and the process                                     *)

\* The coordination context ends with the budget: no call outlives it.
CkTick ==
    /\ ckNow < MaxTime
    /\ \A i \in CkIncident : InPhase(i) => ~BudgetSpent(i)
    /\ ckNow' = ckNow + 1
    /\ UNCHANGED <<ckObject, ckStep, ckReading, ckSaved, ckTrouble>>

\* A pod reads the request on its object, checkpoints, and says for which one.
PodReads(p) ==
    /\ ckObject[p].alive /\ ckReading[p] = None
    /\ ckObject[p].stamp.incident # None /\ ckObject[p].state # ckObject[p].stamp.incident
    /\ ckReading' = [ckReading EXCEPT ![p] = ckObject[p].stamp.incident]
    /\ UNCHANGED <<ckNow, ckObject, ckStep, ckSaved, ckTrouble>>

PodAnswers(p) ==
    /\ ckObject[p].alive /\ ckReading[p] # None
    /\ ckObject' = [ckObject EXCEPT ![p].state = ckReading[p]]
    /\ ckSaved' = [ckSaved EXCEPT ![p] = @ \cup {ckReading[p]}]
    /\ ckReading' = [ckReading EXCEPT ![p] = None]
    /\ UNCHANGED <<ckNow, ckStep, ckTrouble>>

PodExits(p) ==
    /\ ckObject[p].alive
    /\ CkTrouble
    /\ ckObject' = [ckObject EXCEPT ![p].alive = FALSE]
    /\ ckReading' = [ckReading EXCEPT ![p] = None]
    /\ UNCHANGED <<ckNow, ckStep, ckSaved>>

\* A pod of the same name on the same node: a new object.
PodReplaced(p) ==
    /\ ~ckObject[p].alive
    /\ ckObject' = [ckObject EXCEPT ![p] = NewObject(@.uid + 1)]
    /\ ckSaved' = [ckSaved EXCEPT ![p] = {}]
    /\ UNCHANGED <<ckNow, ckStep, ckReading, ckTrouble>>

\* The controller dies; the steps start over from their incidents.
CkRestarts ==
    /\ \E i \in CkIncident : InPhase(i)
    /\ CkTrouble
    /\ ckStep' = [i \in CkIncident |-> IF InPhase(i) THEN NewStep ELSE ckStep[i]]
    /\ UNCHANGED <<ckNow, ckObject, ckReading, ckSaved>>

CkStepOf(i) ==
    \/ checkpointCandidates(i) \/ RequestPatches(i) \/ AskedAll(i) \/ CkDisrupts(i)
    \/ \E p \in CkPod : RequestReads(i, p) \/ ObserveCheckpoint(i, p)

CkNext ==
    \/ CkTick \/ CkRestarts
    \/ \E i \in CkIncident : CkBegins(i) \/ CkStepOf(i) \/ CallFails(i)
    \/ \E p \in CkPod : PodReads(p) \/ PodAnswers(p) \/ PodExits(p) \/ PodReplaced(p)

CkSpec == CkInit /\ [][CkNext]_ckVars

(* Time passes and the step's goroutine runs; pods owe nothing.            *)
CkFairness == WF_ckVars(CkTick) /\ \A i \in CkIncident : WF_ckVars(CkStepOf(i))

-----------------------------------------------------------------------------
(* Properties                                                              *)

(* "a controller restart mid-wait continues the window it granted instead  *)
(* of granting a new one": the deadline an incident stamped on a pod       *)
(* instance never moves to a later time; and the window another incident   *)
(* has opened is never taken over while it is running, although both steps *)
(* read the pod before either wrote to it.                                 *)
WindowIsKept ==
    [][\A p \in CkPod :
          /\ ckObject'[p].uid = ckObject[p].uid
          /\ ckObject[p].stamp.incident # None
          => /\ ckObject'[p].stamp.incident = ckObject[p].stamp.incident
                    => ckObject'[p].stamp.deadline <= ckObject[p].stamp.deadline
             /\ ckObject[p].stamp.deadline > ckNow
                    => ckObject'[p].stamp.incident = ckObject[p].stamp.incident]_ckVars

(* A pod counted as having acknowledged did checkpoint for the very request*)
(* the step held it to: neither an answer left over from another incident, *)
(* nor one given by a replaced instance, nor one that raced a new request. *)
AcknowledgementIsTrue ==
    \A i \in CkIncident, p \in CkPod :
       LET track == ckStep[i].tracked[p]
       IN  track.outcome = "acknowledged" /\ track.uid = ckObject[p].uid
              => track.incident \in ckSaved[p]

(* "a workload may influence HOW it dies, never WHETHER": a step in its    *)
(* pre-phase gets to its disruption, unless the controller restarts.       *)
DisruptionHappens ==
    CkFairness => \A i \in CkIncident : InPhase(i) ~> ~InPhase(i)
=============================================================================
