SPECIFICATION EgressSpec
CONSTANTS
    run = run
    a1 = a1
    a2 = a2
    site = site
    other = other
    metadata = metadata
    front = front
    back = back
    imds = imds
    home = home
    admin = admin
    o1 = o1
    o2 = o2
    Client <- MCClient
    GraphClient <- MCClient
    Caller <- MCCaller
    MaxRequests = 2
    MaxPerAssessment = 3
    PersistEvery = 2
    MaxRedirects = 1
    Name <- MCName
    Address <- MCAddress
    Serves <- MCServes
    Kind <- MCKind
    MetadataName <- MCMetadataName
    Path <- MCPath
    ExplicitPort = {8080}
    AllowPrivate = TRUE
    Ownership <- MCOwnership
    BaseHost = site
    LoopbackHost <- MCLoopbackHost
    Body <- MCBody
    Sandboxed = TRUE
INVARIANT
    OwnRedirectsAreFollowed
CHECK_DEADLOCK FALSE
