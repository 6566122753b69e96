---------------------------- MODULE ConfigReload ----------------------------
(***************************************************************************)
(* A configuration on its way from the custom resources to a running       *)
(* controller: the operator's reconcile pass (internal/operator), the two  *)
(* ConfigMaps it writes one after the other, the kubelet that refreshes the*)
(* two mounts independently, and the controller that polls the mounted     *)
(* files and installs what it reads (cmd/kubeneuron-controller/reload.go). *)
(*                                                                         *)
(* A version is one state of all custom resources together; a file holds   *)
(* the version it was compiled from.  The runtime mount carries policies,  *)
(* windows and node pauses, the other one the playbooks; each carries a    *)
(* marker with the digest of its snapshot.                                 *)
(***************************************************************************)
EXTENDS Naturals, FiniteSets

CONSTANTS
    CrReplica,    \* controller replicas
    MaxVersion,   \* bound on edits
    CrValid,      \* versions that compile
    Fits,         \* pairs <<policies, playbooks>> that build an engine
    MaxCrTrouble  \* bound on failed writes, crashes and CA deadlines

VARIABLES
    crSource,   \* version of the custom resources
    crCaDue,    \* a managed CA is inside its renewal window
    crPass,     \* the operator's pass: where it is, and the version it read
    crMaps,     \* the two ConfigMaps
    crStatus,   \* digest and Ready of the root's status
    crWindow,   \* maintenance window status: version observed, and Ready
    crMount,    \* what each replica's mounts hold
    crLoad,     \* the loads under way in each replica: by its main path, by its watcher
    crLast,     \* the watcher's last digest
    crLive,     \* the installed configuration and its published identity
    crPause,    \* the leader's watcher of node pauses
    crStored,   \* node pauses in the store
    crLeader,   \* holder of the lease
    crStale,    \* history: what a replica took from files its watchers believe unchanged
    crTrouble

crVars == <<crSource, crCaDue, crPass, crMaps, crStatus, crWindow, crMount, crLoad, crLast,
            crLive, crPause, crStored, crLeader, crStale, crTrouble>>
opVars == <<crPass, crMaps, crStatus, crWindow>>
procVars == <<crLoad, crLast, crLive, crPause, crStored, crLeader, crStale>>

Version == 1 .. MaxVersion
Mounts == {"runtime", "playbooks"}
Nobody == "nobody"
NoPass == [pc |-> "idle", version |-> 1]
NoLoad == [pc |-> "off", policies |-> 0, playbooks |-> 0, windows |-> 0, marker |-> 0,
           digest |-> <<0, 0>>]
NoLive == [policies |-> 0, playbooks |-> 0, windows |-> 0, identity |-> 0]
CrNoWatch == [pc |-> "off", digest |-> 0, last |-> 0]
Loader == {"main", "watch"}

ReloadInit ==
    /\ crSource = 1 /\ crCaDue = FALSE
    /\ crPass = NoPass
    /\ crMaps = [m \in Mounts |-> 0]
    /\ crStatus = [digest |-> 0, ready |-> FALSE]
    /\ crWindow = [version |-> 0, ready |-> FALSE]
    /\ crMount = [r \in CrReplica |-> [m \in Mounts |-> 0]]
    /\ crLoad = [r \in CrReplica |-> [l \in Loader |-> NoLoad]]
    /\ crLast = [r \in CrReplica |-> <<0, 0>>]
    /\ crLive = [r \in CrReplica |-> NoLive]
    /\ crPause = [r \in CrReplica |-> CrNoWatch]
    /\ crStored = 0 /\ crLeader = Nobody
    /\ crStale = [r \in CrReplica |-> {}]
    /\ crTrouble = 0

CrTrouble ==
    /\ crTrouble < MaxCrTrouble
    /\ crTrouble' = crTrouble + 1

-----------------------------------------------------------------------------
(* People and the clock.                                                   *)

EditResources ==
    /\ crSource < MaxVersion
    /\ crSource' = crSource + 1
    /\ UNCHANGED <<crCaDue, opVars, crMount, procVars, crTrouble>>

\* A managed CA comes close to its end; a person rotates it.
CaDeadline ==
    /\ ~crCaDue
    /\ CrTrouble
    /\ crCaDue' = TRUE
    /\ UNCHANGED <<crSource, opVars, crMount, procVars>>

CaRotated ==
    /\ crCaDue
    /\ crCaDue' = FALSE
    /\ UNCHANGED <<crSource, opVars, crMount, procVars, crTrouble>>

-----------------------------------------------------------------------------
(* The operator's pass.                                                    *)

CrAt(pc) == crPass.pc = pc
Goes(pc) == crPass' = [crPass EXCEPT !.pc = pc]

\* The informer's copy of the resources may be old, but never goes back.
reconcile ==
    /\ CrAt("idle")
    /\ \E v \in crPass.version .. crSource :
          crPass' = [pc |-> "compile", version |-> v]
    /\ UNCHANGED <<crSource, crCaDue, crMaps, crStatus, crWindow, crMount, procVars, crTrouble>>

\* configuration or a write fails: updateReconcileFailure, unless it is a conflict.
updateReconcileFailure ==
    /\ ~CrAt("idle")
    /\ CrTrouble
    /\ Goes("idle")
    /\ crStatus' \in {crStatus, [crStatus EXCEPT !.ready = FALSE]}
    /\ UNCHANGED <<crSource, crCaDue, crMaps, crWindow, crMount, procVars>>

\* CompileSnapshot succeeds; the children's statuses follow at once.
updateChildConfigurationStatuses ==
    /\ CrAt("compile") /\ crPass.version \in CrValid
    /\ crWindow' = [version |-> crPass.version, ready |-> TRUE]
    /\ Goes("pki")
    /\ UNCHANGED <<crSource, crCaDue, crMaps, crStatus, crMount, procVars, crTrouble>>

\* CompileSnapshot fails: children and root say so, nothing else is written.
compileFails ==
    /\ CrAt("compile") /\ crPass.version \notin CrValid
    /\ crWindow' = [version |-> crPass.version, ready |-> FALSE]
    /\ crStatus' = [crStatus EXCEPT !.ready = FALSE]
    /\ Goes("idle")
    /\ UNCHANGED <<crSource, crCaDue, crMaps, crMount, procVars, crTrouble>>

\* ReconcilePKI: a CA that must be rotated by hand ends the pass.
reconcilePKI ==
    /\ CrAt("pki")
    /\ IF crCaDue
       THEN /\ Goes("idle")
            /\ crStatus' = [crStatus EXCEPT !.ready = FALSE]
       ELSE /\ Goes("runtime")
            /\ UNCHANGED crStatus
    /\ UNCHANGED <<crSource, crCaDue, crMaps, crWindow, crMount, procVars, crTrouble>>

\* ensureConfigMap, for the two maps in turn.
ensureConfigMap(m) ==
    /\ CrAt(m)
    /\ crMaps' = [crMaps EXCEPT ![m] = crPass.version]
    /\ Goes(IF m = "runtime" THEN "playbooks" ELSE "status")
    /\ UNCHANGED <<crSource, crCaDue, crStatus, crWindow, crMount, procVars, crTrouble>>

\* The workloads, their readiness (runtimeReady, any answer) and updateStatus.
updateStatus ==
    /\ CrAt("status")
    /\ \E ready \in BOOLEAN : crStatus' = [digest |-> crPass.version, ready |-> ready]
    /\ Goes("idle")
    /\ UNCHANGED <<crSource, crCaDue, crMaps, crWindow, crMount, procVars, crTrouble>>

-----------------------------------------------------------------------------
(* The kubelet refreshes each mount by itself.                             *)

MountSyncs(r, m) ==
    /\ crMount[r][m] # crMaps[m]
    /\ crMount' = [crMount EXCEPT ![r][m] = crMaps[m]]
    /\ UNCHANGED <<crSource, crCaDue, opVars, procVars, crTrouble>>

-----------------------------------------------------------------------------
(* applyRuntimeConfigWithNodePauses: file after file, then the install.    *)

Loading(r, l, pc) == crLoad[r][l].pc = pc
InLoad(r, l) == crLoad[r][l].pc \in {"digest", "policies", "books", "rest", "marker", "install"}
Reads(r, l, load) == crLoad' = [crLoad EXCEPT ![r][l] = load]

\* A load that fails leaves everything in force: the watcher tries again at its
\* next tick, the main path ends the process.
LoadFailed(r, l) ==
    [NoLoad EXCEPT !.pc = IF l = "watch" THEN "tick" ELSE "exit"]

LoadPolicies(r, l) ==
    /\ Loading(r, l, "policies")
    /\ Reads(r, l, [crLoad[r][l] EXCEPT !.pc = "books", !.policies = crMount[r]["runtime"]])
    /\ UNCHANGED <<crSource, crCaDue, opVars, crMount, crLast, crLive, crPause, crStored,
                   crLeader, crStale, crTrouble>>

\* LoadDir and NewEngine.
LoadPlaybooks(r, l) ==
    /\ Loading(r, l, "books")
    /\ Reads(r, l, IF <<crLoad[r][l].policies, crMount[r]["playbooks"]>> \in Fits
                   THEN [crLoad[r][l] EXCEPT !.pc = "rest", !.playbooks = crMount[r]["playbooks"]]
                   ELSE LoadFailed(r, l))
    /\ UNCHANGED <<crSource, crCaDue, opVars, crMount, crLast, crLive, crPause, crStored,
                   crLeader, crStale, crTrouble>>

\* LoadWindows, LoadSignalOverrides and LoadNodeConfigs; the lease holder's main
\* path stores the node pauses.
LoadRest(r, l) ==
    /\ Loading(r, l, "rest")
    /\ Reads(r, l, [crLoad[r][l] EXCEPT !.pc = "marker", !.windows = crMount[r]["runtime"]])
    /\ crStored' = IF l = "main" /\ crLeader = r THEN crMount[r]["runtime"] ELSE crStored
    /\ UNCHANGED <<crSource, crCaDue, opVars, crMount, crLast, crLive, crPause,
                   crLeader, crStale, crTrouble>>

\* readSourceDigest reads the runtime's marker first.
ReadMarker(r, l) ==
    /\ Loading(r, l, "marker")
    /\ Reads(r, l, [crLoad[r][l] EXCEPT !.pc = "install", !.marker = crMount[r]["runtime"]])
    /\ UNCHANGED <<crSource, crCaDue, opVars, crMount, crLast, crLive, crPause, crStored,
                   crLeader, crStale, crTrouble>>

\* Markers that disagree give no identity.
readSourceDigest(r, l) ==
    IF crLoad[r][l].marker = crMount[r]["playbooks"] THEN crLoad[r][l].marker ELSE 0

\* InstallRuntimeConfigContext and SetRuntimeConfigInfo; what comes next depends on
\* who loaded: the watcher takes its digest, the main path starts the watcher or leads.
Install(r, l) ==
    LET load == crLoad[r][l]
        leads == crLeader = r
    IN  /\ Loading(r, l, "install")
        /\ crLive' = [crLive EXCEPT ![r] =
               [policies |-> load.policies, playbooks |-> load.playbooks, windows |-> load.windows,
                identity |-> readSourceDigest(r, l)]]
        /\ IF l = "watch"
           THEN /\ Reads(r, l, [NoLoad EXCEPT !.pc = "tick"])
                /\ crLast' = [crLast EXCEPT ![r] = load.digest]
                /\ crStale' = [crStale EXCEPT ![r] = IF InLoad(r, "main") THEN @ ELSE @ \ {"live"}]
                /\ UNCHANGED crPause
           ELSE /\ crLoad' = [crLoad EXCEPT
                        ![r]["main"] = [NoLoad EXCEPT !.pc = IF leads THEN "leading" ELSE "standby"],
                        ![r]["watch"].pc = IF leads THEN @ ELSE "first"]
                /\ crPause' = IF leads THEN [crPause EXCEPT ![r].pc = "first"] ELSE crPause
                /\ crStale' = [crStale EXCEPT ![r] =
                       IF leads /\ (InLoad(r, "watch") \/ crLast[r] # <<load.policies, load.playbooks>>)
                       THEN @ \cup {"live"} ELSE @]
                /\ UNCHANGED crLast
        /\ UNCHANGED <<crSource, crCaDue, opVars, crMount, crStored, crLeader, crTrouble>>

-----------------------------------------------------------------------------
(* The process: start, poll, election, death.                              *)

\* run, once the mounts are there: the first load comes before either listener.
ProcessStarts(r) ==
    /\ Loading(r, "main", "off")
    /\ \A m \in Mounts : crMount[r][m] # 0
    /\ Reads(r, "main", [NoLoad EXCEPT !.pc = "policies"])
    /\ UNCHANGED <<crSource, crCaDue, opVars, crMount, crLast, crLive, crPause, crStored,
                   crLeader, crStale, crTrouble>>

\* watchRuntimeConfig takes the digest of the files as they are when it starts.
FirstDigest(r) ==
    /\ Loading(r, "watch", "first")
    /\ crLast' = [crLast EXCEPT ![r] = <<crMount[r]["runtime"], crMount[r]["playbooks"]>>]
    /\ crStale' = [crStale EXCEPT ![r] =
           IF /\ \A f \in {"policies", "windows", "identity"} : crLive[r][f] = crMount[r]["runtime"]
              /\ crLive[r].playbooks = crMount[r]["playbooks"]
           THEN @ ELSE @ \cup {"live"}]
    /\ Reads(r, "watch", [crLoad[r]["watch"] EXCEPT !.pc = "tick"])
    /\ UNCHANGED <<crSource, crCaDue, opVars, crMount, crLive, crPause, crStored, crLeader, crTrouble>>

\* A tick: runtimeConfigDigest reads the runtime's files, then the playbooks.
TickReads(r) ==
    /\ Loading(r, "watch", "tick")
    /\ Reads(r, "watch", [crLoad[r]["watch"] EXCEPT !.pc = "digest", !.digest = <<crMount[r]["runtime"], 0>>])
    /\ UNCHANGED <<crSource, crCaDue, opVars, crMount, crLast, crLive, crPause, crStored,
                   crLeader, crStale, crTrouble>>

\* Variant: the watcher notices changes of the runtime's files only.
TickDecidesRuntimeOnly(r) ==
    LET digest == <<crLoad[r]["watch"].digest[1], crMount[r]["playbooks"]>>
    IN  /\ Loading(r, "watch", "digest")
        /\ Reads(r, "watch", IF digest[1] = crLast[r][1]
                             THEN [NoLoad EXCEPT !.pc = "tick"]
                             ELSE [NoLoad EXCEPT !.pc = "policies", !.digest = digest])
        /\ UNCHANGED <<crSource, crCaDue, opVars, crMount, crLast, crLive, crPause, crStored,
                       crLeader, crStale, crTrouble>>

TickDecides(r) ==
    LET digest == <<crLoad[r]["watch"].digest[1], crMount[r]["playbooks"]>>
    IN  /\ Loading(r, "watch", "digest")
        /\ Reads(r, "watch", IF digest = crLast[r]
                             THEN [NoLoad EXCEPT !.pc = "tick"]
                             ELSE [NoLoad EXCEPT !.pc = "policies", !.digest = digest])
        /\ UNCHANGED <<crSource, crCaDue, opVars, crMount, crLast, crLive, crPause, crStored,
                       crLeader, crStale, crTrouble>>

\* OnStartedLeading loads everything again, with the node pauses.
StartsLeading(r) ==
    /\ crLeader = Nobody /\ Loading(r, "main", "standby")
    /\ crLeader' = r
    /\ Reads(r, "main", [NoLoad EXCEPT !.pc = "policies"])
    /\ UNCHANGED <<crSource, crCaDue, opVars, crMount, crLast, crLive, crPause, crStored,
                   crStale, crTrouble>>

\* watchNodeConfigPauses: the first digest, then a digest and a load per tick.
PauseFirst(r) ==
    /\ crPause[r].pc = "first"
    /\ crPause' = [crPause EXCEPT ![r] = [pc |-> "tick", digest |-> 0, last |-> crMount[r]["runtime"]]]
    /\ crStale' = [crStale EXCEPT ![r] = IF crStored = crMount[r]["runtime"] THEN @ ELSE @ \cup {"pauses"}]
    /\ UNCHANGED <<crSource, crCaDue, opVars, crMount, crLoad, crLast, crLive, crStored,
                   crLeader, crTrouble>>

PauseTick(r) ==
    /\ crPause[r].pc = "tick" /\ crMount[r]["runtime"] # crPause[r].last
    /\ crPause' = [crPause EXCEPT ![r].pc = "load", ![r].digest = crMount[r]["runtime"]]
    /\ UNCHANGED <<crSource, crCaDue, opVars, crMount, crLoad, crLast, crLive, crStored,
                   crLeader, crStale, crTrouble>>

PauseApplies(r) ==
    /\ crPause[r].pc = "load"
    /\ crStored' = crMount[r]["runtime"]
    /\ crPause' = [crPause EXCEPT ![r] = [pc |-> "tick", digest |-> 0, last |-> @.digest]]
    /\ crStale' = [crStale EXCEPT ![r] = @ \ {"pauses"}]
    /\ UNCHANGED <<crSource, crCaDue, opVars, crMount, crLoad, crLast, crLive,
                   crLeader, crTrouble>>

\* The process ends: it crashes, loses the lease, or its main path could not load.
ProcessEnds(r) ==
    /\ ~Loading(r, "main", "off")
    /\ \/ Loading(r, "main", "exit") /\ UNCHANGED crTrouble
       \/ ~Loading(r, "main", "exit") /\ CrTrouble
    /\ crLoad' = [crLoad EXCEPT ![r] = [l \in Loader |-> NoLoad]]
    /\ crLast' = [crLast EXCEPT ![r] = <<0, 0>>]
    /\ crLive' = [crLive EXCEPT ![r] = NoLive]
    /\ crPause' = [crPause EXCEPT ![r] = CrNoWatch]
    /\ crLeader' = IF crLeader = r THEN Nobody ELSE crLeader
    /\ crStale' = [crStale EXCEPT ![r] = {}]
    /\ UNCHANGED <<crSource, crCaDue, opVars, crMount, crStored>>

OperatorStep ==
    \/ reconcile \/ updateChildConfigurationStatuses \/ compileFails \/ reconcilePKI
    \/ ensureConfigMap("runtime") \/ ensureConfigMap("playbooks") \/ updateStatus

LoadStep(r, l) ==
    \/ LoadPolicies(r, l) \/ LoadPlaybooks(r, l) \/ LoadRest(r, l) \/ ReadMarker(r, l) \/ Install(r, l)

WatchStep(r) == FirstDigest(r) \/ TickReads(r) \/ TickDecides(r) \/ LoadStep(r, "watch")
PauseStep(r) == PauseFirst(r) \/ PauseTick(r) \/ PauseApplies(r)

ReloadNext ==
    \/ EditResources \/ CaDeadline \/ CaRotated
    \/ OperatorStep \/ updateReconcileFailure
    \/ \E r \in CrReplica :
          \/ \E m \in Mounts : MountSyncs(r, m)
          \/ ProcessStarts(r) \/ LoadStep(r, "main") \/ WatchStep(r)
          \/ StartsLeading(r) \/ PauseStep(r) \/ ProcessEnds(r)

ReloadSpec == ReloadInit /\ [][ReloadNext]_crVars

(* Failed passes are retried, the informer catches up, a person rotates the*)
(* CA, the kubelet syncs, tickers tick, a dead process is started again and*)
(* a free lease is taken.                                                  *)
ReloadFairness ==
    /\ WF_crVars(OperatorStep) /\ WF_crVars(CaRotated)
    /\ SF_crVars(reconcile /\ crPass'.version = crSource)
    /\ \A r \in CrReplica :
          /\ \A m \in Mounts : WF_crVars(MountSyncs(r, m))
          /\ WF_crVars(ProcessStarts(r)) /\ WF_crVars(LoadStep(r, "main"))
          /\ WF_crVars(WatchStep(r)) /\ WF_crVars(PauseStep(r)) /\ WF_crVars(StartsLeading(r))
          /\ WF_crVars(ProcessEnds(r) /\ Loading(r, "main", "exit"))

-----------------------------------------------------------------------------
(* Properties                                                              *)

(* A digest in the root's status is the digest of a snapshot that was      *)
(* published whole: neither ConfigMap is older, whatever writes failed and *)
(* wherever a pass was cut off.                                            *)
DigestPublished == \A m \in Mounts : crStatus.digest <= crMaps[m]

CrLive(r, v) ==
    crLive[r] = [policies |-> v, playbooks |-> v, windows |-> v, identity |-> v]

(* What watchRuntimeConfig promises: once the resources stay as they are   *)
(* and compile, every running replica ends up with exactly that            *)
(* configuration, says so, and the leader has stored its node pauses --    *)
(* over failed passes, torn reads of mounts that change underneath, loads  *)
(* that fail, failovers and restarts.  Exempt is what a replica's main path*)
(* loaded from files that changed before its watcher's first digest, or    *)
(* behind its watcher's back, until they change again.                     *)
Arrived(r) ==
    /\ crMaps = [m \in Mounts |-> crSource]
    /\ "live" \notin crStale[r] => CrLive(r, crSource)
    /\ "pauses" \notin crStale[r] /\ crLeader = r => crStored = crSource
ReloadConverges == ReloadFairness => <>[](crSource \in CrValid => \A r \in CrReplica : Arrived(r))

=============================================================================
