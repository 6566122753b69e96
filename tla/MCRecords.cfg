\* Three actions in a journal that holds two; a spool of two events; three lines of a
\* boot, two boots and two controllers; two incidents that share a node, its taint and a pod.
SPECIFICATION RecordsSpec
CONSTANTS
    NumActions = 3
    MaxActions = 2
    MaxLines = 10
    Outcome = {"ok"}
    MaxClaims <- MCMaxClaims
    MaxCrashes = 1
    MaxFaults = 1
    SpoolLimit = 2
    ReplayLimit = 2
    MaxAppend = 5
    MaxTrouble = 3
    w1 = w1
    w2 = w2
    Fault = {"ecc", "odd", "both"}
    Poison = {"both"}
    Actionable = {"ecc"}
    FaultAt <- MCFaultAt
    Worker = {w1, w2}
    SpoolMax = 1
    MaxEventAttempts = 2
    MaxSeq = 3
    MaxEvBoot = 1
    MaxEvent = 3
    MaxEvToken = 2
    MaxFault = 2
    BmOwner = {"a", "b"}
    HookFailsWhole = TRUE
    MaxBmTrouble = 3
    DtIncident = {"a", "b"}
    DtDry = {}
    MaxPatch = 1
    MaxDtMove = 2
    MaxDtTrouble = 1
    CkIncident = {"a", "b"}
    CkPod = {"p"}
    CkGrant <- MCGrant
    CkBudget = 2
    MaxTime = 4
    MaxCkTrouble = 1
INVARIANTS
    
    StartIsRemembered
    OutcomeSurvives
    CrashesAreRecovered
    GapIsPinned
PROPERTIES
    WindowIsKept
    SpoolKeepsOrder
    EventPromise
\* The bounds end every behaviour.
CHECK_DEADLOCK FALSE
