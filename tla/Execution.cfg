SPECIFICATION FairSpec
CONSTANTS
    a1 = a1
    a2 = a2
    a3 = a3
    Agent <- MCAgent
    Concurrency = 1
    MaxStepRetries = 1
    MaxReplans = 2
    MaxTokens = 1
    PerCall = 1
INVARIANTS
    TypeOK
    AgentsAreBounded
    RetriesRunAlone
    LedgerOvershootIsBounded
PROPERTIES
    ExecutionEnds
    NobodyIsLeftBehind
CHECK_DEADLOCK FALSE
