SPECIFICATION FairSpec
CONSTANTS
    Workers = {w1}
    NoOwner = NoOwner
    MaxAttempts = 2
    MaxSources = 2
    MaxJobs = 3
    MaxExtractions = 2
    FaultKinds = {"index"}
    MaxFaults = 1
    w1 = w1
    w2 = w2
INVARIANTS
    NoStrandedSource
PROPERTIES
    EverySourceSettles
CHECK_DEADLOCK FALSE
