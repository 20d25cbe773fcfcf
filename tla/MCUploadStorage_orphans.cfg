SPECIFICATION FairSpec
CONSTANTS
    Uploads = {u1, u2}
    Handlers = {}
    Digest <- SameBytes
    Key <- NoKeys
    NoKey = NoKey
    NoAnswer = NoAnswer
    SlowCommits = FALSE
    MaxCrashes = 1
    MaxIoFaults = 0
    MaxOutages = 0
    MaxPreflights = 0
    u1 = u1
    u2 = u2
    h1 = h1
    d1 = d1
    k1 = k1
INVARIANTS
    OrphansAreTracked
PROPERTIES
    StorageSettles
