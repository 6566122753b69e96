CONSTANTS
    n1 = n1
    reset = reset
    restore = restore
    i1 = i1
    NoIncident = NoIncident
    NoAction = NoAction
    Incident = {i1}
    Node <- MCNode
    Action <- MCOneAction
    NodeOf <- MCNodeOf
    IncidentOf <- MCIncidentOf
    Restorative <- MCRestorative
    MaxActionAttempts = 2
    MaxBoot = 1
    MaxToken = 2
    MaxCrashes = 1
SPECIFICATION CalmSpec
INVARIANT
    CancelledNeverRan
