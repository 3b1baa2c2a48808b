SPECIFICATION Spec
CONSTANTS
    probe = probe
    invasive = invasive
    r1 = r1
    r2 = r2
    Step <- MCOneStep
    NeedsApproval <- MCNeedsApproval
    Request <- MCOneRequest
    MaxCrashes = 0
    MayStop = FALSE
INVARIANTS
    ApprovalNotStranded
CHECK_DEADLOCK FALSE
