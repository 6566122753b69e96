\* One action with two leases and a crash; three versions of the configuration, of which
\* the second does not compile.
SPECIFICATION LivenessSpec
CONSTANTS
    n1 = n1
    reset = reset
    i1 = i1
    NoIncident = NoIncident
    NoAction = NoAction
    Incident = {i1}
    Node <- MCNode
    Action <- MCAction
    NodeOf <- MCNodeOf
    IncidentOf <- MCIncidentOf
    Restorative = {}
    MaxActionAttempts = 2
    MaxBoot = 1
    MaxToken = 2
    MaxCrashes = 1
    r1 = r1
    CrReplica = {r1}
    MaxVersion = 3
    CrValid = {1, 3}
    Fits <- MCFits
    MaxCrTrouble = 0
PROPERTIES
    EveryActionSettles
    
\* Both come to rest.
CHECK_DEADLOCK FALSE
