\* One action, two leases, a crash or a reboot where there is no stop; three actions of an
\* agent with two GPUs; two pods; a level and a counter.
CONSTANTS
    n1 = n1
    reset = reset
    restore = restore
    i1 = i1
    NoIncident = NoIncident
    NoAction = NoAction
    Incident = {i1}
    Node <- MCNode
    Action <- MCOneAction
    NodeOf <- MCNodeOf
    IncidentOf <- MCIncidentOf
    Restorative <- MCRestorative
    MaxActionAttempts = 2
    MaxBoot = 2
    MaxToken = 2
    MaxCrashes = 1
    ExCaller = {"c1", "c2"}
    ExId = {"rst", "boot", "put"}
    ExType <- MCType
    ExTarget <- MCTarget
    ExIndex <- MCIndex
    ExBootId <- MCBootId
    ExGpu = {0, 1}
    MaxExBoot = 2
    MaxExMove = 2
    DrPod = {"p", "q"}
    DrDeadline = 3
    DrDefault = 1
    DrMargin = 1
    DrGraces = {1, 4}
    SeLevels = {79, 94}
    SeDelta <- MCDelta
    MaxSeCount = 2
    MaxSeChange = 3
    MaxSeStart = 2
SPECIFICATION SettingSpec
INVARIANT
    ExecutionPredatesStop
    EffectsAreBound
    DrainIsTruthful
PROPERTY
    Promise
    SeriesAreHonest
