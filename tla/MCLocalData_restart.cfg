CONSTANTS
    a = a
    b = b
    Gone = Gone
    Contents = {a, b}
    Cases <- MCOwn
    MaxVersions = 2
    MaxCandidates = 3
    MaxRestores = 2

SPECIFICATION Spec

INVARIANT
    RestartServesOwnData

CHECK_DEADLOCK FALSE
