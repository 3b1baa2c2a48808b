SPECIFICATION FairSpec
CONSTANTS
    probe = probe
    invasive = invasive
    r1 = r1
    r2 = r2
    Step <- MCStep
    NeedsApproval <- MCNeedsApproval
    Request <- MCOneRequest
    MaxCrashes = 1
INVARIANTS
    TypeOK
    OnlyApprovedRun
    ThreadAndRowAgree
    RestingRunIsKnown
PROPERTIES
    ImplementsDurableAssessment
    TaskEnds
    CancelStops
CHECK_DEADLOCK FALSE
