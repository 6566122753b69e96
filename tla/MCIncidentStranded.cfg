\* A reload shortens the playbook of an incident that is past its new end.
CONSTANTS
    i1 = i1
    t1 = t1
    WalkIncident = {i1}
    Target = {t1}
    NoWalkIncident = NoWalkIncident
    NoTarget = NoTarget
    NoBook = NoBook
    NoStep = NoStep
    Book <- MCBook
    Step <- MCStep
    NeedsApproval <- MCNeedsApproval
    RebootClass <- MCRebootClass
    QuiesceStep = "quiesce"
    NotifySteps = {}
    Engines <- MCShortened
    Engine0 <- MCFull
    EscalateTo <- MCEscalateTo
    PolicyBook <- MCPolicyBook
    Limits <- MCOneLimit
    MaxEscalationAttempts = 1
    MaxEpoch = 1
    MaxRewinds = 0
    MaxInterventions = 1
SPECIFICATION Spec
INVARIANTS
    PlansAreLegal
CHECK_DEADLOCK FALSE
