--------------------------- MODULE ActionExecutor ---------------------------
(***************************************************************************)
(* Execution of an action on the node (agent/executor/executor.go) over    *)
(* the nvidia-smi driver (agent/nvml): one execution per action ID, the    *)
(* arming test, the reset of one GPU, found by its UUID and proved idle    *)
(* and unheld, and the reboot guarded by the boot ID of the request.       *)
(* GPUs are numbered by their place on the bus; nvidia-smi numbers the     *)
(* ones it still sees, so that a GPU that falls off the bus renumbers      *)
(* every later one.                                                        *)
(***************************************************************************)
EXTENDS Naturals, FiniteSets

CONSTANTS
    ExCaller,   \* the callers of Execute
    ExId,       \* action IDs
    ExType,     \* per ID: gpu_reset, reboot, restore, script or observe
    ExTarget,   \* per ID: the device whose UUID the request names
    ExIndex,    \* per ID: the gpu_index the controller captured
    ExBootId,   \* per ID: the boot_id the controller stamped
    ExGpu,      \* the devices, by bus position
    MaxExBoot,  \* bound on boots
    MaxExMove   \* bound on what processes, operators and the bus do

ASSUME ExecutorAssumption ==
    /\ ExTarget \in [ExId -> ExGpu] /\ ExBootId \in [ExId -> Nat]
    /\ ExType \in [ExId -> {"gpu_reset", "reboot", "restore", "script", "observe"}]

VARIABLES
    exPresent,  \* the devices on the bus
    exUsed,     \* the devices a compute process runs on
    exHeld,     \* the devices some process has open
    exArmed,    \* the live arming state
    exBoot,     \* the boot of the host
    exCall,     \* each caller's call
    exDone,     \* the cache of results
    exRunning,  \* the IDs under execution
    exRebooting,\* the IDs whose reboot command has run in this boot
    exMoves,    \* how often the host's surroundings have changed
    exResets,   \* history: the resets done
    exEnded     \* history: the boots that reboot actions ended

exVars == <<exPresent, exUsed, exHeld, exArmed, exBoot, exCall, exDone, exRunning, exRebooting,
            exMoves, exResets, exEnded>>
exHost == <<exPresent, exUsed, exHeld, exArmed, exBoot, exRebooting, exMoves, exResets, exEnded>>

NoDevice == "none"
NoCall == [pc |-> "out", id |-> "none", result |-> "none", idle |-> NoDevice, free |-> NoDevice]
Working == {"dispatch", "idle", "holders", "reset", "finish"}

ExInit ==
    /\ exPresent = ExGpu /\ exUsed = {} /\ exHeld = {} /\ exArmed \in BOOLEAN /\ exBoot = 1
    /\ exCall = [c \in ExCaller |-> NoCall]
    /\ exDone = [i \in ExId |-> "none"] /\ exRunning = {}
    /\ exRebooting = {} /\ exMoves = 0 /\ exResets = {} /\ exEnded = {}

-----------------------------------------------------------------------------
(* Execute                                                                 *)

CallBecomes(c, call) == exCall' = [exCall EXCEPT ![c] = call]

\* Under the mutex: the cached result, or wait for the running execution, or start one.
Executes(c, i) ==
    /\ \/ exCall[c].pc = "out"
       \/ exCall[c].pc = "wait" /\ exCall[c].id = i /\ i \notin exRunning
    /\ \/ /\ exDone[i] # "none"
          /\ CallBecomes(c, NoCall) /\ UNCHANGED exRunning
       \/ /\ exDone[i] = "none" /\ i \in exRunning
          /\ CallBecomes(c, [NoCall EXCEPT !.pc = "wait", !.id = i]) /\ UNCHANGED exRunning
       \/ /\ exDone[i] = "none" /\ i \notin exRunning
          /\ CallBecomes(c, [NoCall EXCEPT !.pc = "dispatch", !.id = i])
          /\ exRunning' = exRunning \cup {i}
    /\ UNCHANGED <<exDone, exHost>>

\* The waiter's context ends.
StopsWaiting(c) ==
    /\ exCall[c].pc = "wait"
    /\ CallBecomes(c, NoCall)
    /\ UNCHANGED <<exDone, exRunning, exHost>>

\* The result is cached and the waiters are released.
Finishes(c) ==
    /\ exCall[c].pc = "finish"
    /\ exDone' = [exDone EXCEPT ![exCall[c].id] = exCall[c].result]
    /\ exRunning' = exRunning \ {exCall[c].id}
    /\ CallBecomes(c, NoCall)
    /\ UNCHANGED exHost

\* An entry older than cacheTTL is no longer used.
CacheExpires(i) ==
    /\ exDone[i] # "none"
    /\ exDone' = [exDone EXCEPT ![i] = "none"]
    /\ UNCHANGED <<exCall, exRunning, exHost>>

-----------------------------------------------------------------------------
(* dispatch                                                                *)

Ends(c, result) == CallBecomes(c, [exCall[c] EXCEPT !.pc = "finish", !.result = result])

isDestructive(type) == type # "observe"

\* Undoing is always allowed.
allowDestructiveAction(type) == type = "restore" \/ exArmed

\* The index nvidia-smi gives a device it sees.
enumerated(g) == Cardinality({h \in exPresent : h < g})

\* resolveResetIndex: the UUID is in the inventory, at the requested index.
resolveResetIndex(i) == ExTarget[i] \in exPresent /\ enumerated(ExTarget[i]) = ExIndex[i]

ExDispatchReset(c) ==
    LET i == exCall[c].id
    IN  /\ ExType[i] = "gpu_reset" /\ exArmed
        /\ \/ resolveResetIndex(i) /\ CallBecomes(c, [exCall[c] EXCEPT !.pc = "idle"])
           \/ Ends(c, "failed")
        /\ UNCHANGED exHost

\* Idempotent on boot_id: in a later boot there is nothing left to do.
reboot(c) ==
    LET i == exCall[c].id
    IN  /\ ExType[i] = "reboot" /\ exArmed
        /\ \/ ExBootId[i] # exBoot /\ Ends(c, "ok") /\ UNCHANGED exRebooting
           \/ ExBootId[i] = exBoot /\ Ends(c, "ok") /\ exRebooting' = exRebooting \cup {i}
           \/ Ends(c, "failed") /\ UNCHANGED exRebooting
        /\ UNCHANGED <<exPresent, exUsed, exHeld, exArmed, exBoot, exMoves, exResets, exEnded>>

\* Probes, bundles, scripts and the restore: nothing the properties here speak of.
runOther(c) ==
    /\ ExType[exCall[c].id] \in {"restore", "script", "observe"}
    /\ ~isDestructive(ExType[exCall[c].id]) \/ allowDestructiveAction(ExType[exCall[c].id])
    /\ \E result \in {"ok", "failed"} : Ends(c, result)
    /\ UNCHANGED exHost

Refused(c) ==
    LET type == ExType[exCall[c].id]
    IN  /\ isDestructive(type) /\ ~allowDestructiveAction(type)
        /\ Ends(c, "refused")
        /\ UNCHANGED exHost

dispatch(c) ==
    /\ exCall[c].pc = "dispatch"
    /\ ExDispatchReset(c) \/ reboot(c) \/ runOther(c) \/ Refused(c)
    /\ UNCHANGED <<exDone, exRunning>>

\* Variant: the devices are addressed by the index that was resolved.
AddressedByIndex(i) == {g \in exPresent : enumerated(g) = ExIndex[i]}

\* nvidia-smi -i <uuid>: that device, if it is still on the bus.
Addressed(i) == {ExTarget[i]} \cap exPresent

\* The probe may fail; a compute process on the device refuses the reset.
ensureIdle(c) ==
    LET i == exCall[c].id
    IN  /\ exCall[c].pc = "idle"
        /\ \/ \E g \in Addressed(i) \ exUsed :
                  CallBecomes(c, [exCall[c] EXCEPT !.pc = "holders", !.idle = g])
           \/ Addressed(i) \cap exUsed # {} /\ Ends(c, "refused")
           \/ Ends(c, "failed")
        /\ UNCHANGED <<exDone, exRunning, exHost>>

\* The devices addressed that some process has open.
DeviceHolders(i) == Addressed(i) \cap exHeld

\* The scan of the process table for open handles of the device; unreadable means no.
ensureNoDeviceHolders(c) ==
    LET i == exCall[c].id
    IN  /\ exCall[c].pc = "holders"
        /\ \/ \E g \in Addressed(i) \ DeviceHolders(i) :
                  CallBecomes(c, [exCall[c] EXCEPT !.pc = "reset", !.free = g])
           \/ Ends(c, "failed")
        /\ UNCHANGED <<exDone, exRunning, exHost>>

\* nvidia-smi --gpu-reset; the driver itself refuses a device that is in use.
resetGPU(c) ==
    LET i == exCall[c].id
    IN  /\ exCall[c].pc = "reset"
        /\ \/ \E g \in Addressed(i) \ (exUsed \cup exHeld) :
                  /\ exResets' = exResets \cup
                         {[id |-> i, hit |-> g, idle |-> exCall[c].idle, free |-> exCall[c].free]}
                  /\ Ends(c, "ok")
           \/ Ends(c, "failed") /\ UNCHANGED exResets
        /\ UNCHANGED <<exPresent, exUsed, exHeld, exArmed, exBoot, exRebooting, exMoves, exEnded, exDone, exRunning>>

-----------------------------------------------------------------------------
(* The host                                                                *)

ProcessDies == exCall' = [c \in ExCaller |-> NoCall] /\ exDone' = [i \in ExId |-> "none"] /\ exRunning' = {}

AgentRestarts ==
    /\ \E c \in ExCaller : exCall[c].pc # "out"
    /\ ProcessDies /\ UNCHANGED exHost

\* By the reboot command, or on its own.
HostReboots ==
    /\ exBoot < MaxExBoot
    /\ exBoot' = exBoot + 1 /\ exPresent' = ExGpu /\ exUsed' = {} /\ exHeld' = {}
    /\ exEnded' = exEnded \cup {[id |-> i, boot |-> exBoot] : i \in exRebooting}
    /\ exRebooting' = {}
    /\ ProcessDies /\ UNCHANGED <<exArmed, exMoves, exResets>>

ExMoves == exMoves < MaxExMove /\ exMoves' = exMoves + 1

FallsOffBus(g) ==
    /\ ExMoves
    /\ g \in exPresent /\ exPresent' = exPresent \ {g}
    /\ exUsed' = exUsed \ {g} /\ exHeld' = exHeld \ {g}
    /\ UNCHANGED <<exArmed, exBoot, exCall, exDone, exRunning, exRebooting, exResets, exEnded>>

\* A process opens a device, runs on it, or lets it go.
UsageChanges(g) ==
    /\ ExMoves
    /\ g \in exPresent
    /\ \/ g \notin exHeld /\ exHeld' = exHeld \cup {g} /\ UNCHANGED exUsed
       \/ g \in exHeld /\ g \notin exUsed /\ exUsed' = exUsed \cup {g} /\ UNCHANGED exHeld
       \/ g \in exHeld /\ exHeld' = exHeld \ {g} /\ exUsed' = exUsed \ {g}
    /\ UNCHANGED <<exPresent, exArmed, exBoot, exCall, exDone, exRunning, exRebooting, exResets, exEnded>>

ArmingChanges ==
    /\ ExMoves
    /\ exArmed' = ~exArmed
    /\ UNCHANGED <<exPresent, exUsed, exHeld, exBoot, exCall, exDone, exRunning, exRebooting, exResets, exEnded>>

ExNext ==
    \/ \E c \in ExCaller :
          \/ \E i \in ExId : Executes(c, i)
          \/ StopsWaiting(c) \/ Finishes(c)
          \/ dispatch(c) \/ ensureIdle(c) \/ ensureNoDeviceHolders(c) \/ resetGPU(c)
    \/ \E i \in ExId : CacheExpires(i)
    \/ \E g \in ExGpu : FallsOffBus(g) \/ UsageChanges(g)
    \/ AgentRestarts \/ HostReboots \/ ArmingChanges

ExSpec == ExInit /\ [][ExNext]_exVars

-----------------------------------------------------------------------------
(* A reset lands on the device whose UUID the request names, the same      *)
(* execution having found that very device idle and unheld, whatever falls *)
(* off the bus meanwhile; a reboot action ends no boot but the one it was  *)
(* stamped with, so it reboots the host at most once; and two callers are  *)
(* never inside the same action (dispatch, reboot and Execute).            *)
EffectsAreBound ==
    /\ \A r \in exResets : r.hit = ExTarget[r.id] /\ r.idle = r.hit /\ r.free = r.hit
    /\ \A e \in exEnded : e.boot = ExBootId[e.id]
    /\ \A c, d \in ExCaller :
          exCall[c].pc \in Working /\ exCall[d].pc \in Working /\ exCall[c].id = exCall[d].id => c = d
=============================================================================
