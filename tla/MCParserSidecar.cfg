SPECIFICATION Spec
CONSTANTS
    upload = upload
    other = other
    b1 = b1
    b2 = b2
    b3 = b3
    None = None
    Adapter <- AdapterHandler
    SelfTest <- StartupSelfTest
    Shows <- Conserved
    Fits <- Bounded
    Limits <- MCLimits
    Items <- MCItems
    Loads <- MCLoads
    Builds <- MCBuilds
    Working <- MCWorking
    Enabled <- MCEnabled
    MaxFaults = 2
    MaxTries = 2
    MaxReprocess = 1
INVARIANTS
    NothingLeaks
    ParseIsFaithful
    PreviewIsWhole
    DriftWasSeen
    AdmittedByContent
PROPERTIES
    CallersAreAnswered
