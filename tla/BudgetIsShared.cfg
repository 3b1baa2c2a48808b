SPECIFICATION Spec
CONSTANTS
    run = run
    late = late
    a1 = a1
    a2 = a2
    Client <- MCClient
    GraphClient <- MCNoClient
    Caller <- MCOneCaller
    MaxRequests = 4
    MaxPerAssessment = 3
    PersistEvery = 2
    MaxRedirects = 1
INVARIANT
    BudgetIsShared
CHECK_DEADLOCK FALSE
