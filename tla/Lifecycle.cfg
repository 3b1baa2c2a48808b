SPECIFICATION Spec
CONSTANTS
    probe = probe
    invasive = invasive
    r1 = r1
    r2 = r2
    Step <- MCStep
    NeedsApproval <- MCNeedsApproval
    Request <- MCRequest
    MaxCrashes = 0
    MayStop = TRUE
SYMMETRY Requests
INVARIANTS
    TypeOK
    EngineOwnsState
    PolicyGate
    ExclusiveExecution
PROPERTIES
    DroppedResultsAreReported
    ImplementsAssessment
CHECK_DEADLOCK FALSE
