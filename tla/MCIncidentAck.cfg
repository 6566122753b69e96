\* An operator acknowledges an incident that is being verified.
CONSTANTS
    i1 = i1
    t1 = t1
    WalkIncident = {i1}
    Target = {t1}
    NoWalkIncident = NoWalkIncident
    NoTarget = NoTarget
    NoBook = NoBook
    NoStep = NoStep
    Book <- MCBook
    Step <- MCStep
    NeedsApproval <- MCNeedsApproval
    RebootClass <- MCRebootClass
    QuiesceStep = "quiesce"
    NotifySteps = {}
    Engines <- MCOnly
    Engine0 <- MCFull
    EscalateTo <- MCEscalateTo
    PolicyBook <- MCPolicyBook
    Limits <- MCOneLimit
    MaxEscalationAttempts = 1
    MaxEpoch = 1
    MaxRewinds = 0
    MaxInterventions = 0
SPECIFICATION Spec
PROPERTIES
    AcknowledgementIsCustody
CHECK_DEADLOCK FALSE
