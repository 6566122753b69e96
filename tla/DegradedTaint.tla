---------------------------- MODULE DegradedTaint ----------------------------
(***************************************************************************)
(* The degraded mark on one node (controller/degradedtaint.go and          *)
(* platform/kubernetes/taint.go): a hook after every committed transition  *)
(* of an incident on the node, and a janitor that reads the marks back from*)
(* the cluster.  Both write the node's whole taint list, under a test of   *)
(* the version they read; other controllers write the same list.           *)
(***************************************************************************)
EXTENDS Naturals, FiniteSets

CONSTANTS
    DtIncident,   \* incidents on the node
    DtDry,        \* those opened in dry-run
    MaxPatch,     \* taintPatchAttempts
    MaxDtMove,    \* bound on transitions of one incident
    MaxDtTrouble  \* bound on failures, restarts, mode and policy changes

VARIABLES
    dtState,    \* [state, moves] of each incident
    dtMode,     \* "live" or "dryrun"
    dtEnabled,  \* the degraded-node taint is configured
    dtTaints,   \* the node's taints: ours ("degraded") and another controller's
    dtListed,   \* what the informer shows: our mark is there
    dtCall,     \* the rewrites under way: one per hook, one of the janitor
    dtJanitor,  \* the janitor's pass
    dtFree,     \* history: no live incident was open since the call's decision was begun
    dtTrouble

dtVars == <<dtState, dtMode, dtEnabled, dtTaints, dtListed, dtCall, dtJanitor, dtFree, dtTrouble>>

DtCaller == DtIncident \cup {"janitor"}
DtNoCall == [pc |-> "idle", want |-> "none", read |-> {}, fresh |-> FALSE, tries |-> 0]
DtNoPass == [pc |-> "idle", marked |-> FALSE, open |-> {}]

DtInit ==
    /\ dtState = [i \in DtIncident |-> [state |-> "none", moves |-> 0]]
    /\ dtMode = "live" /\ dtEnabled = TRUE
    /\ dtTaints = {} /\ dtListed = FALSE
    /\ dtCall = [c \in DtCaller |-> DtNoCall]
    /\ dtJanitor = DtNoPass
    /\ dtFree = [c \in DtCaller |-> FALSE]
    /\ dtTrouble = 0

DtTrouble ==
    /\ dtTrouble < MaxDtTrouble
    /\ dtTrouble' = dtTrouble + 1

\* activeIncidentStates
dtActive(i) == dtState[i].state \in {"open", "working"}

\* The incidents that keep a mark: still worked, and not opened in dry-run.
liveOpen(i) == dtActive(i) /\ i \notin DtDry

otherOpenIncidentsOnNode(i) == \E j \in DtIncident \ {i} : liveOpen(j)
nodesUnderOpenIncidents == {i \in DtIncident : liveOpen(i)}
nodeHasOpenIncident == \E i \in DtIncident : liveOpen(i)

effectiveDryRun(i) == dtMode = "dryrun" \/ i \in DtDry

Begin(c, want) == dtCall' = [dtCall EXCEPT ![c] = [DtNoCall EXCEPT !.pc = "get", !.want = want]]

-----------------------------------------------------------------------------
(* Incidents                                                               *)

DtOpens(i) ==
    /\ dtState[i].state = "none"
    /\ dtState' = [dtState EXCEPT ![i].state = "open"]
    /\ UNCHANGED <<dtMode, dtEnabled, dtTaints, dtListed, dtCall, dtJanitor, dtFree, dtTrouble>>

\* A committed transition, and the hook's first decision.  One goroutine works an
\* incident: the next transition comes after the hook has returned.
DtTransition(i, to) ==
    /\ dtCall[i].pc = "idle" /\ dtState[i].moves < MaxDtMove
    /\ <<dtState[i].state, to>> \in {<<"open", "working">>, <<"open", "halted">>,
                                     <<"working", "halted">>, <<"halted", "working">>}
    /\ dtState' = [dtState EXCEPT ![i] = [state |-> to, moves |-> @.moves + 1]]
    /\ IF dtEnabled /\ ~effectiveDryRun(i)
       THEN IF to = "halted"
            THEN dtCall' = [dtCall EXCEPT ![i].pc = "others"]
            ELSE Begin(i, "apply")
       ELSE UNCHANGED dtCall
    /\ UNCHANGED <<dtMode, dtEnabled, dtTaints, dtListed, dtJanitor, dtFree, dtTrouble>>

\* The halting branch of syncDegradedTaint asks the store; on an error the janitor
\* is left to do it.
syncDegradedTaint(i) ==
    /\ dtCall[i].pc = "others"
    /\ \/ /\ ~otherOpenIncidentsOnNode(i)
          /\ Begin(i, "remove")
          /\ UNCHANGED dtTrouble
       \/ /\ otherOpenIncidentsOnNode(i)
          /\ dtCall' = [dtCall EXCEPT ![i] = DtNoCall]
          /\ UNCHANGED dtTrouble
       \/ /\ DtTrouble
          /\ dtCall' = [dtCall EXCEPT ![i] = DtNoCall]
    /\ dtFree' = [dtFree EXCEPT ![i] = \A j \in DtIncident : ~(dtActive(j) /\ j \notin DtDry)]
    /\ UNCHANGED <<dtState, dtMode, dtEnabled, dtTaints, dtListed, dtJanitor>>

-----------------------------------------------------------------------------
(* rewriteTaints                                                           *)

Wanted(c) == IF dtCall[c].want = "apply" THEN dtCall[c].read \cup {"degraded"}
                                         ELSE dtCall[c].read \ {"degraded"}

DtGet(c) ==
    /\ dtCall[c].pc = "get"
    /\ LET changed == (dtCall[c].want = "apply") # ("degraded" \in dtTaints)
       IN  dtCall' = [dtCall EXCEPT ![c] =
               IF changed THEN [@ EXCEPT !.pc = "patch", !.read = dtTaints, !.fresh = TRUE]
                          ELSE DtNoCall]
    /\ UNCHANGED <<dtState, dtMode, dtEnabled, dtTaints, dtListed, dtJanitor, dtFree, dtTrouble>>

\* A write to the node makes every version read before it stale.
DtWritten(call) == [d \in DtCaller |-> [call[d] EXCEPT !.fresh = FALSE]]

versionTest(c) == dtCall[c].fresh

DtPatch(c) ==
    /\ dtCall[c].pc = "patch"
    /\ IF versionTest(c)
       THEN /\ dtTaints' = Wanted(c)
            /\ dtCall' = DtWritten([dtCall EXCEPT ![c] = DtNoCall])
       ELSE /\ dtCall' = [dtCall EXCEPT ![c] =
                   IF @.tries + 1 < MaxPatch
                   THEN [@ EXCEPT !.pc = "get", !.read = {}, !.tries = @ + 1]
                   ELSE DtNoCall]
            /\ UNCHANGED dtTaints
    /\ UNCHANGED <<dtState, dtMode, dtEnabled, dtListed, dtJanitor, dtFree, dtTrouble>>

\* The request fails: the hook and the janitor log it and go on.
DtFails(c) ==
    /\ dtCall[c].pc \in {"get", "patch"}
    /\ DtTrouble
    /\ dtCall' = [dtCall EXCEPT ![c] = DtNoCall]
    /\ UNCHANGED <<dtState, dtMode, dtEnabled, dtTaints, dtListed, dtJanitor, dtFree>>

-----------------------------------------------------------------------------
(* reconcileDegradedTaints                                                 *)

\* DegradedTaintedNodes, from the informer.
DtPassStarts ==
    /\ dtJanitor.pc = "idle" /\ dtCall["janitor"].pc = "idle"
    /\ dtJanitor' = [DtNoPass EXCEPT !.pc = "policy", !.marked = dtListed]
    /\ dtFree' = [dtFree EXCEPT !["janitor"] = FALSE]
    /\ UNCHANGED <<dtState, dtMode, dtEnabled, dtTaints, dtListed, dtCall, dtTrouble>>

\* Switched off: every mark goes.
DtPassPolicy ==
    /\ dtJanitor.pc = "policy"
    /\ IF dtEnabled
       THEN /\ dtJanitor' = [dtJanitor EXCEPT !.pc = "open"]
            /\ UNCHANGED <<dtCall, dtFree>>
       ELSE /\ dtJanitor' = DtNoPass
            /\ dtFree' = [dtFree EXCEPT !["janitor"] = TRUE]
            /\ IF dtJanitor.marked THEN Begin("janitor", "remove") ELSE UNCHANGED dtCall
    /\ UNCHANGED <<dtState, dtMode, dtEnabled, dtTaints, dtListed, dtTrouble>>

\* nodesUnderOpenIncidents; an error of the store leaves the marks alone.
DtPassOpen ==
    /\ dtJanitor.pc = "open"
    /\ \/ /\ dtJanitor' = [dtJanitor EXCEPT !.pc = "act", !.open = nodesUnderOpenIncidents]
          /\ UNCHANGED dtTrouble
       \/ /\ dtJanitor' = DtNoPass
          /\ DtTrouble
    /\ UNCHANGED <<dtState, dtMode, dtEnabled, dtTaints, dtListed, dtCall, dtFree>>

\* Variant: the janitor only takes marks away.
placesNothing == FALSE

\* An unmarked node under an incident is marked, unless the mode forbids it.
placesMark == ~dtJanitor.marked /\ \E i \in dtJanitor.open : ~effectiveDryRun(i)

\* A marked node without an incident is confirmed and unmarked.
removesMark == dtJanitor.marked /\ dtJanitor.open = {} /\ ~nodeHasOpenIncident

DtPassActs ==
    /\ dtJanitor.pc = "act"
    /\ dtJanitor' = DtNoPass
    /\ dtFree' = [dtFree EXCEPT !["janitor"] = \A j \in DtIncident : ~(dtActive(j) /\ j \notin DtDry)]
    /\ IF removesMark THEN Begin("janitor", "remove")
       ELSE IF placesMark THEN Begin("janitor", "apply") ELSE UNCHANGED dtCall
    /\ UNCHANGED <<dtState, dtMode, dtEnabled, dtTaints, dtListed, dtTrouble>>

-----------------------------------------------------------------------------
(* The surroundings                                                        *)

DtInformerSyncs ==
    /\ dtListed # ("degraded" \in dtTaints)
    /\ dtListed' = ("degraded" \in dtTaints)
    /\ UNCHANGED <<dtState, dtMode, dtEnabled, dtTaints, dtCall, dtJanitor, dtFree, dtTrouble>>

\* Another controller adds or removes a taint of its own.
DtOtherWrites ==
    /\ DtTrouble
    /\ dtTaints' = IF "other" \in dtTaints THEN dtTaints \ {"other"} ELSE dtTaints \cup {"other"}
    /\ dtCall' = DtWritten(dtCall)
    /\ UNCHANGED <<dtState, dtMode, dtEnabled, dtListed, dtJanitor, dtFree>>

DtModeChanges ==
    /\ DtTrouble
    /\ dtMode' = IF dtMode = "live" THEN "dryrun" ELSE "live"
    /\ UNCHANGED <<dtState, dtEnabled, dtTaints, dtListed, dtCall, dtJanitor, dtFree>>

DtPolicyChanges ==
    /\ DtTrouble
    /\ dtEnabled' = ~dtEnabled
    /\ UNCHANGED <<dtState, dtMode, dtTaints, dtListed, dtCall, dtJanitor, dtFree>>

\* The controller dies between a transition and its mark.
DtRestarts ==
    /\ DtTrouble
    /\ dtCall' = [c \in DtCaller |-> DtNoCall]
    /\ dtJanitor' = DtNoPass
    /\ UNCHANGED <<dtState, dtMode, dtEnabled, dtTaints, dtListed, dtFree>>

DtCallStep(c) == DtGet(c) \/ DtPatch(c)
DtPassStep == DtPassStarts \/ DtPassPolicy \/ DtPassOpen \/ DtPassActs

DtNext ==
    \/ \E i \in DtIncident : \/ DtOpens(i) \/ syncDegradedTaint(i)
                             \/ \E to \in {"working", "halted"} : DtTransition(i, to)
    \/ \E c \in DtCaller : DtCallStep(c) \/ DtFails(c)
    \/ DtPassStep \/ DtInformerSyncs \/ DtOtherWrites \/ DtModeChanges \/ DtPolicyChanges \/ DtRestarts

DtSpec == DtInit /\ [][DtNext]_dtVars

(* The janitor runs every pass, requests return, the informer follows.     *)
DtFairness ==
    /\ WF_dtVars(DtPassStep) /\ WF_dtVars(DtInformerSyncs)
    /\ \A c \in DtCaller : WF_dtVars(DtCallStep(c))
    /\ \A i \in DtIncident : WF_dtVars(syncDegradedTaint(i))

-----------------------------------------------------------------------------
(* Properties                                                              *)

DtTruth ==
    LET live == \E i \in DtIncident : dtActive(i) /\ i \notin DtDry
        marked == "degraded" \in dtTaints
    IN  /\ ~dtEnabled => ~marked
        /\ ~live => ~marked
        /\ dtEnabled /\ live /\ dtMode = "live" => marked

(* "a failure here costs timeliness and never correctness": whatever the   *)
(* hooks missed, failed or undid for one another, once incidents rest the  *)
(* node is marked exactly while a live incident is worked on it (not placed*)
(* in dry-run, never kept when switched off).                              *)
MarkConverges == DtFairness => <>[]DtTruth

(* A mark comes off only if no live incident was open on the node at the   *)
(* moment that was decided, or the mark is switched off: a change to       *)
(* dry-run never takes it from a node that is still being worked on.       *)
UnmarkJustified ==
    [][\A c \in DtCaller :
          DtPatch(c) /\ "degraded" \in dtTaints /\ "degraded" \notin dtTaints' => dtFree[c]]_dtVars

(* The whole list is written, yet nobody else's taint is ever added or     *)
(* erased: the version test refuses a list that was computed too early.    *)
OthersKept ==
    [][(\E c \in DtCaller : DtPatch(c)) => (("other" \in dtTaints) = ("other" \in dtTaints'))]_dtVars
=============================================================================
