\* Two controllers on a plan of three nodes; two health checks for a limit of one; two
\* attempts of each request; three requests of one contract; two configuration versions
\* and one replica; three resources; one serving certificate per authority.
SPECIFICATION OperationsSpec
CONSTANTS
    Controller = {"c1", "c2"}
    AuNode = {1, 2, 3}
    Person = {"ann"}
    Role = {"r1"}
    CanaryNodes = 2
    ExpansionSteps <- MCSteps
    MaxConcurrentNodes = 1
    MaxActionsPerHour = 2
    ErrorBudget = 0
    MaxHour = 0
    MaxResume = 1
    MaxAuTrouble = 1
    HcKey = {"k1", "k2"}
    HcPassive = {}
    HcTry = {"t1", "t2"}
    MaxNodeActive = 1
    MaxHcLease = 1
    MaxHcTrouble = 1
    Attempt = {"a1", "a2"}
    MaxOrTrouble = 2
    RcNode = {"n"}
    RcKey = {1, 2, 3}
    MinSamples = 2
    MinDuration = 1
    ExpiresAt = 3
    MaxReportAge = 1
    AgentMaxAge = 2
    MaxRcTime = 3
    MaxRcChange = 1
    CrReplica = {"r1"}
    MaxVersion = 2
    CrValid = {1, 2}
    Fits <- MCFits
    MaxCrTrouble = 1
    ScName = {1, 2, 3}
    ScBook = {"b1", "b2", "b3", "b4"}
    ScKey = {"k1", "k2"}
    ScValue = {"x", "y"}
    ScTime = {1, 2}
    LeafRole = {"server"}
    MaxMaterial = 5
    MaxPkMishap = 2
INVARIANTS
    
    RunsAreAccounted
    ToldIsDone
    ReadyIsEarned
    
    
    

    
\* Plans, checks and requests end, and the bounds end the rest.
CHECK_DEADLOCK FALSE
