\* One incident on the reset ladder against every other writer (two interventions); two
\* incidents that share a node and its cordon.
SPECIFICATION NodeSpec
CONSTANTS
    i1 = i1
    t1 = t1
    WalkIncident = {i1}
    Target = {t1}
    NoWalkIncident = NoWalkIncident
    NoTarget = NoTarget
    NoBook = NoBook
    NoStep = NoStep
    Book <- MCBook
    Step <- MCStep
    NeedsApproval <- MCNeedsApproval
    RebootClass <- MCRebootClass
    QuiesceStep = "quiesce"
    NotifySteps = {}
    Engines <- MCEngines
    Engine0 <- MCFull
    EscalateTo <- MCEscalateTo
    PolicyBook <- MCPolicyBook
    Limits <- MCOneLimit
    MaxEscalationAttempts = 1
    MaxEpoch = 2
    MaxRewinds = 1
    MaxInterventions = 2
    HsIncident = {"a", "b"}
    Gpu = {"g0", "g1"}
    GpuOf <- MCGpuOf
    Component = {"dcgm"}
    Monitor = "dcgm"
    NoSnapshot = NoSnapshot
    MaxRestoreId = 1
    MaxRewind = 1
    MaxMishap = 1
    SiblingMishap = 0
    NcIncident = {"a", "b"}
    NcParks = {"a"}
    NcAbsent = NcAbsent
    NcRecords = {}
    NcTrouble = 1
    NcOldTrouble = 0
INVARIANTS
    ApprovedIsWhatRuns
    NothingForgotten
    HolderKeepsNodeDown
    HumanVerdictKept
PROPERTIES
    ProgressIsEarned
    HaltedStays
    RestoreIsFaithful
\* Incidents end, and their node is then left alone.
CHECK_DEADLOCK FALSE
