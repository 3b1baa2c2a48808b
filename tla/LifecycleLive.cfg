SPECIFICATION FairSpec
CONSTANTS
    probe = probe
    invasive = invasive
    r1 = r1
    r2 = r2
    Step <- MCStep
    NeedsApproval <- MCNeedsApproval
    Request <- MCOneRequest
    MaxCrashes = 1
    MayStop = TRUE
INVARIANT
    ActiveHasDriver
PROPERTIES
    ImplementsAssessment
    RunEnds
    EarlyCancelStops
    AwaitedApprovalIsTaken
CHECK_DEADLOCK FALSE
