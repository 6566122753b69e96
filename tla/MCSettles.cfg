\* What must happen at last, one component at a time.
SPECIFICATION SettlesSpec
CONSTANTS
    Fault = {"ecc"}
    Poison = {}
    Actionable = {"ecc"}
    FaultAt <- MCFaultAt
    w1 = w1
    w2 = w2
    Worker = {w1, w2}
    SpoolMax = 1
    MaxEventAttempts = 2
    MaxSeq = 1
    MaxEvBoot = 0
    MaxEvent = 1
    MaxEvToken = 2
    MaxFault = 2
    HsIncident = {"a"}
    Gpu = {"g0", "g1"}
    GpuOf <- MCGpuOf
    Component = {"dcgm"}
    Monitor = "dcgm"
    NoSnapshot = NoSnapshot
    MaxRestoreId = 2
    MaxRewind = 1
    MaxMishap = 1
    SiblingMishap = 0
    NcIncident = {"a"}
    NcParks = {"a"}
    NcAbsent = NcAbsent
    NcRecords <- MCOldRecords
    NcTrouble = 1
    NcOldTrouble = 1
    DtIncident = {"a", "b"}
    DtDry = {}
    MaxPatch = 1
    MaxDtMove = 1
    MaxDtTrouble = 1
    CkIncident = {"a", "b"}
    CkPod = {"p"}
    CkGrant <- MCGrant
    CkBudget = 2
    MaxTime = 2
    MaxCkTrouble = 1
    Controller = {"c1"}
    AuNode = {1, 2}
    Person = {"ann"}
    Role = {"r1"}
    CanaryNodes = 1
    ExpansionSteps <- MCSteps
    MaxConcurrentNodes = 1
    MaxActionsPerHour = 1
    ErrorBudget = 0
    MaxHour = 1
    MaxResume = 1
    MaxAuTrouble = 1
    HcKey = {"k1", "k2"}
    HcPassive = {"k2"}
    HcTry = {"t1"}
    MaxNodeActive = 1
    MaxHcLease = 2
    MaxHcTrouble = 1
PROPERTIES
    ArchivedSettles
    
    AbandonedHoldReleased
    MarkConverges
    DisruptionHappens
    PlanEnds
    DiagnosticEnds
\* A component comes to rest.
CHECK_DEADLOCK FALSE
