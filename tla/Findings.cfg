SPECIFICATION Spec
CONSTANTS
    k1 = k1
    k2 = k2
    first = first
    again = again
    run = run
    late = late
    rerun = rerun
    Assessment <- MCAssessment
    Key <- MCKey
    Pass <- MCPass
    Run <- MCRun
    Of <- MCOf
    Work <- MCWork
    Scenarios <- MCScenarios
    Severity <- MCSeverity
    MaxMemory = 2
    MaxEvents = 3
INVARIANTS
    TypeOK
    RejectionSurvives
    
    
PROPERTIES
    RefutedOnlyIfChanged
    FixedMeansChanged
CHECK_DEADLOCK FALSE
