----------------------------- MODULE SafetyGate -----------------------------
(***************************************************************************)
(* The safety gate (internal/safety/limits.go): the in-memory reference    *)
(* counts behind MaxConcurrentRemediations and MaxConcurrentReboots.  A    *)
(* target counts once against each limit, however many incidents hold it.  *)
(* Pause and cooldown, the two other reasons for a denial, change no       *)
(* count; a caller that is denied holds and retries, so the modules that   *)
(* use the gate let any admission be denied.                               *)
(***************************************************************************)
EXTENDS Naturals, FiniteSets

CONSTANTS
    Target,     \* gate keys: targetKey(node, device)
    Limits      \* the limits a configuration may set

LimitsType == [MaxConcurrentRemediations : Nat, MaxConcurrentReboots : Nat]

ASSUME GateConstants == Limits \subseteq LimitsType

VARIABLES
    limits,     \* the limits in force
    active,     \* remediation slots held, per target
    reboots     \* reboot-class steps admitted and not done, per target

gateVars == <<active, reboots>>

GateEmpty == [t \in Target |-> 0]

GateInit ==
    /\ limits \in Limits
    /\ active = GateEmpty
    /\ reboots = GateEmpty

Occupied(count) == {t \in Target : count[t] > 0}

\* Variant: an occupied gate always lets one more reboot pass.
StepAllowedOffByOne(t, reboot) ==
    (reboot /\ reboots[t] = 0) => Cardinality(Occupied(reboots)) <= limits.MaxConcurrentReboots

(***************************************************************************)
(* stepDenialLocked: the reboot cap, for a step of class reboot.           *)
(***************************************************************************)
StepAllowed(t, reboot) ==
    (reboot /\ reboots[t] = 0) => Cardinality(Occupied(reboots)) < limits.MaxConcurrentReboots

RemediationAllowed(t) ==
    active[t] = 0 => Cardinality(Occupied(active)) < limits.MaxConcurrentRemediations

CountStep(t, reboot) ==
    reboots' = IF reboot THEN [reboots EXCEPT ![t] = @ + 1] ELSE reboots

(***************************************************************************)
(* Allow admits the first step of a remediation and takes its slot.        *)
(***************************************************************************)
Allow(t, reboot) ==
    /\ StepAllowed(t, reboot)
    /\ RemediationAllowed(t)
    /\ active' = [active EXCEPT ![t] = @ + 1]
    /\ CountStep(t, reboot)

(***************************************************************************)
(* AllowHeld admits one more step of a remediation that has its slot.      *)
(***************************************************************************)
AllowHeld(t, reboot) ==
    /\ StepAllowed(t, reboot)
    /\ CountStep(t, reboot)
    /\ UNCHANGED active

\* ApplyLimits changes the limits and keeps what is counted.
ApplyLimits(l) == limits' = l

StepDone(t, reboot) ==
    reboots' = IF reboot /\ reboots[t] > 0 THEN [reboots EXCEPT ![t] = @ - 1] ELSE reboots

ReleaseRemediation(t) ==
    active' = IF active[t] > 0 THEN [active EXCEPT ![t] = @ - 1] ELSE active

=============================================================================
