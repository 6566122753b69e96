\* The queue: two actions, two attempts each, two leases.  The gate: two incidents on two
\* targets, one intervention (a failover or a reload of the limits among them).
SPECIFICATION AdmissionSpec
CONSTANTS
    n1 = n1
    reset = reset
    restore = restore
    i1 = i1
    NoIncident = NoIncident
    Incident = {i1}
    Node <- MCNode
    Action <- MCAction
    NodeOf <- MCNodeOf
    IncidentOf <- MCIncidentOf
    Restorative <- MCRestorative
    MaxActionAttempts = 2
    MaxBoot = 0
    MaxToken = 2
    w1 = w1
    w2 = w2
    t1 = t1
    t2 = t2
    WalkIncident = {w1, w2}
    Target = {t1, t2}
    NoWalkIncident = NoWalkIncident
    NoTarget = NoTarget
    NoBook = NoBook
    NoStep = NoStep
    Book <- MCBook
    Step <- MCStep
    NeedsApproval = {}
    RebootClass <- MCRebootClass
    QuiesceStep = "quiesce"
    NotifySteps = {}
    Engines <- MCOnly
    Engine0 <- MCFull
    EscalateTo <- MCEscalateTo
    PolicyBook <- MCPolicyReboot
    Limits <- MCLimits
    MaxEscalationAttempts = 0
    MaxEpoch = 1
    MaxRewinds = 0
    MaxInterventions = 1
SYMMETRY MCSymmetry
INVARIANTS
    OneLeasePerNode
    SlotsAreCounted
PROPERTIES
    CapsHold
\* Both incidents may end, and the walk then has nothing to do.
CHECK_DEADLOCK FALSE
