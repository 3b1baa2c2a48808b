SPECIFICATION FairSpec
CONSTANTS
    probe = probe
    invasive = invasive
    r1 = r1
    r2 = r2
    Step <- MCStep
    NeedsApproval <- MCNeedsApproval
    Request <- MCOneRequest
    MaxCrashes = 1
PROPERTY
    DecisionResumes
CHECK_DEADLOCK FALSE
