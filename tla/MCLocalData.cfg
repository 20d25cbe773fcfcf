CONSTANTS
    a = a
    b = b
    Gone = Gone
    Contents = {a, b}
    Cases <- MCCases
    MaxVersions = 2
    MaxCandidates = 3
    MaxRestores = 2

SPECIFICATION Spec

INVARIANTS
    BackupIsComplete
    ServedDataIsWhole
    RestoreIsAtomic

PROPERTIES
    UpgradeHasRollback
    UpgradeKeepsAuthority

CHECK_DEADLOCK FALSE
