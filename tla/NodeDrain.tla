----------------------------- MODULE NodeDrain -----------------------------
(***************************************************************************)
(* Drain of a cordoned node (platform/kubernetes/kubernetes.go): the       *)
(* refusal before the first eviction, the evictions, the retries of those  *)
(* a PodDisruptionBudget blocks, the grace period each eviction carries    *)
(* and the wait for the pods to go.  Pods arrive, finish, are deleted by   *)
(* others and disappear when they like; a pod that is gone may be          *)
(* recreated under its name on another node, the node being cordoned.      *)
(***************************************************************************)
EXTENDS Naturals, FiniteSets

CONSTANTS
    DrPod,        \* pod names
    DrDeadline,   \* when the step's context ends
    DrDefault,    \* corev1DefaultGracePeriod
    DrMargin,     \* evictionGraceMargin
    DrGraces      \* the terminationGracePeriodSeconds that pods declare

ASSUME DrainAssumption ==
    /\ DrDeadline \in Nat /\ DrDefault \in Nat \ {0} /\ DrMargin \in Nat /\ DrGraces \subseteq Nat

VARIABLES
    drNow,      \* the clock
    drForce,    \* opts.Force
    drOwner,    \* per pod: what controls it
    drOwn,      \* per pod: its own grace period
    drPod,      \* per pod: where its life stands
    drPc,       \* how far Drain has come
    drListed,   \* the pods of the first listing that this drain evicts
    drTodo,     \* the evictions still to be issued in this round
    drBlocked,  \* the evictions a budget has blocked in this round
    drEvicted   \* history: the evictions that were accepted

drPods == <<drForce, drOwner, drOwn>>
drVars == <<drNow, drPods, drPod, drPc, drListed, drTodo, drBlocked, drEvicted>>

OnNode == {"here", "leaving", "finished"}

DrInit ==
    /\ drNow = 0 /\ drForce \in BOOLEAN
    /\ drOwner \in [DrPod -> {"set", "none", "infrastructure"}] /\ drOwn \in [DrPod -> DrGraces]
    /\ drPod \in [DrPod -> {"absent", "here"}]
    /\ drPc = "list" /\ drListed = {} /\ drTodo = {} /\ drBlocked = {} /\ drEvicted = {}

-----------------------------------------------------------------------------
(* What a drain evicts                                                     *)

drainExclusion(p) ==
    IF drPod[p] = "finished" THEN "terminal"
    ELSE IF drOwner[p] = "infrastructure" THEN "infrastructure"
    ELSE IF drOwner[p] = "none" THEN "unmanaged" ELSE "evictable"

Eligible(exclusion) == exclusion = "evictable" \/ (exclusion = "unmanaged" /\ drForce)

skipDuringDrain(p) == ~Eligible(drainExclusion(p))

nodePods == {p \in DrPod : drPod[p] \in OnNode}

\* Running, nothing would recreate it and nobody has asked for its deletion.
unmanagedPod(p) == drPod[p] = "here" /\ drOwner[p] = "none"

-----------------------------------------------------------------------------
(* The grace period of an eviction                                         *)

budget == IF drNow + DrMargin <= DrDeadline THEN DrDeadline - (drNow + DrMargin) ELSE 0

\* Variant: whatever is left of the step is the grace period.
evictionGraceClamped(p) == IF drOwn[p] <= budget THEN drOwn[p] ELSE budget

\* The pod's own period when it fits or when what is left is below the default.
evictionGrace(p) ==
    IF drOwn[p] <= budget \/ budget < DrDefault THEN drOwn[p] ELSE budget

-----------------------------------------------------------------------------
(* Drain                                                                   *)

\* The pods without a controller that make an unforced drain refuse.
refuses == IF drForce THEN {} ELSE {p \in nodePods : unmanagedPod(p)}

DrainLists ==
    /\ drPc = "list"
    /\ \/ refuses # {} /\ drPc' = "refused" /\ UNCHANGED <<drListed, drTodo>>
       \/ /\ refuses = {} /\ drPc' = "evict"
          /\ drListed' = {p \in nodePods : ~skipDuringDrain(p)} /\ drTodo' = drListed'
       \/ drPc' = "failed" /\ UNCHANGED <<drListed, drTodo>>
    /\ UNCHANGED <<drNow, drPods, drPod, drBlocked, drEvicted>>

\* evictPod names the pod by namespace and name, so that it may meet its namesake on another
\* node: accepted, already over, blocked by a budget (429) or another error.
evictPod(p) ==
    /\ drPc = "evict" /\ p \in drTodo
    /\ \/ /\ drPod[p] \in {"here", "leaving", "elsewhere"}
          /\ drPod' = [drPod EXCEPT ![p] = IF @ = "here" THEN "leaving" ELSE @]
          /\ drEvicted' = drEvicted \cup
                 {[pod |-> p, at |-> drNow, grace |-> evictionGrace(p)]}
          /\ drTodo' = drTodo \ {p} /\ UNCHANGED <<drPc, drBlocked>>
       \/ /\ drPod[p] \in {"gone", "finished"}
          /\ drTodo' = drTodo \ {p} /\ UNCHANGED <<drPod, drPc, drBlocked, drEvicted>>
       \/ /\ drPod[p] \in {"here", "elsewhere"}
          /\ drTodo' = drTodo \ {p} /\ drBlocked' = drBlocked \cup {p}
          /\ UNCHANGED <<drPod, drPc, drEvicted>>
       \/ drPc' = "failed" /\ UNCHANGED <<drPod, drTodo, drBlocked, drEvicted>>
    /\ UNCHANGED <<drNow, drPods, drListed>>

\* The round is over: wait for the pods, try the blocked ones again, or give up.
DrainRound ==
    /\ drPc = "evict" /\ drTodo = {}
    /\ \/ drBlocked = {} /\ drPc' = "wait" /\ UNCHANGED <<drTodo, drBlocked>>
       \/ /\ drBlocked # {} /\ drNow < DrDeadline
          /\ drTodo' = drBlocked /\ drBlocked' = {} /\ UNCHANGED drPc
       \/ drBlocked # {} /\ drNow = DrDeadline /\ drPc' = "failed" /\ UNCHANGED <<drTodo, drBlocked>>
    /\ UNCHANGED <<drNow, drPods, drPod, drListed, drEvicted>>

remaining == {p \in nodePods : ~skipDuringDrain(p)}

waitDrained ==
    /\ drPc = "wait"
    /\ \/ remaining = {} /\ drPc' = "drained"
       \/ drPc' = "failed"
    /\ UNCHANGED <<drNow, drPods, drPod, drListed, drTodo, drBlocked, drEvicted>>

-----------------------------------------------------------------------------
(* The pods and the clock                                                  *)

DrTick ==
    /\ drNow < DrDeadline /\ drNow' = drNow + 1
    /\ UNCHANGED <<drPods, drPod, drPc, drListed, drTodo, drBlocked, drEvicted>>

\* Created, finished, deleted by someone else, terminated, recreated elsewhere.
PodMoves(p) ==
    /\ \/ drPod[p] = "absent" /\ drPod' = [drPod EXCEPT ![p] = "here"]
       \/ drPod[p] = "here" /\ \E to \in {"finished", "leaving"} : drPod' = [drPod EXCEPT ![p] = to]
       \/ drPod[p] \in {"leaving", "finished"} /\ drPod' = [drPod EXCEPT ![p] = "gone"]
       \/ drPod[p] = "gone" /\ drOwner[p] = "set" /\ drPod' = [drPod EXCEPT ![p] = "elsewhere"]
    /\ UNCHANGED <<drNow, drPods, drPc, drListed, drTodo, drBlocked, drEvicted>>

DrNext ==
    \/ DrainLists \/ DrainRound \/ waitDrained \/ DrTick
    \/ \E p \in DrPod : evictPod(p) \/ PodMoves(p)

DrSpec == DrInit /\ [][DrNext]_drVars

-----------------------------------------------------------------------------
(* What a drain answers is what it did: a refused drain has evicted        *)
(* nothing, a drain that succeeded has seen every pod it set out to evict  *)
(* gone or finished, and no eviction it issued, forced or not, cut a pod's *)
(* grace period except to what is left of the step and never below the     *)
(* default, or touched a pod that the drain had to leave alone (Drain,     *)
(* evictionGrace, waitDrained).                                            *)
DrainIsTruthful ==
    /\ drPc = "refused" => drEvicted = {}
    /\ drPc = "drained" => \A p \in drListed : drPod[p] \in {"finished", "gone", "elsewhere"}
    /\ \A e \in drEvicted :
          /\ drOwner[e.pod] = "set" \/ (drOwner[e.pod] = "none" /\ drForce)
          /\ \/ e.grace = drOwn[e.pod]
             \/ e.grace >= DrDefault /\ e.at + e.grace + DrMargin <= DrDeadline
=============================================================================
