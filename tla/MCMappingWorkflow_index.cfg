SPECIFICATION Spec
CONSTANTS
    u1 = u1
    u2 = u2
    m1 = m1
    m2 = m2
    s1 = s1
    a1 = a1
    a2 = a2
    Nothing = Nothing
    Users = {u1, u2}
    Keys <- MCKeys
    Drafts <- MCDrafts
    Normalized <- MCNormalized
    MaxSources = 2
    MaxBuild = 2
    MaxEvents = 4
PROPERTIES
    MappedCandidatesAreIndexed
CHECK_DEADLOCK FALSE
