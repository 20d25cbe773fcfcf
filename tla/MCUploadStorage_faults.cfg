SPECIFICATION Spec
CONSTANTS
    Uploads = {u1, u2}
    Handlers = {h1}
    Digest <- SharedBytes
    Key <- OneKey
    NoKey = NoKey
    NoAnswer = NoAnswer
    SlowCommits = FALSE
    MaxCrashes = 1
    MaxIoFaults = 1
    MaxOutages = 1
    MaxPreflights = 1
    u1 = u1
    u2 = u2
    h1 = h1
    d1 = d1
    k1 = k1
SYMMETRY Interchangeable
INVARIANTS
    SourcesArePreserved
    RetryIsSameDocument
