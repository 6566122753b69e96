CONSTANTS
    n1 = n1
    reset = reset
    restore = restore
    i1 = i1
    NoIncident = NoIncident
    Incident = {i1}
    Node <- MCNode
    Action <- MCAction
    NodeOf <- MCNodeOf
    IncidentOf <- MCIncidentOf
    Restorative <- MCRestorative
    MaxActionAttempts = 2
    MaxBoot = 1
    MaxToken = 3
SPECIFICATION QueueSpec
INVARIANT
    NothingAccumulatedIsDelivered
