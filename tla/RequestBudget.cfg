SPECIFICATION Spec
CONSTANTS
    run = run
    late = late
    a1 = a1
    a2 = a2
    Client <- MCClient
    GraphClient <- MCGraphClient
    Caller <- MCCaller
    MaxRequests = 4
    MaxPerAssessment = 3
    PersistEvery = 2
    MaxRedirects = 1
SYMMETRY Callers
INVARIANTS
    TypeOK
    OvershootIsBounded
    JointOvershootIsBounded
    RowClaimsNoMore
CHECK_DEADLOCK FALSE
