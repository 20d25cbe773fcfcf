SPECIFICATION Spec
CONSTANTS
    Workers = {w1, w2}
    NoOwner = NoOwner
    MaxAttempts = 2
    MaxSources = 2
    MaxJobs = 3
    MaxExtractions = 2
    FaultKinds = {"crash", "lapse", "db"}
    MaxFaults = 1
    w1 = w1
    w2 = w2
SYMMETRY Interchangeable
INVARIANTS
    ReviewIsCurrent
    StatusIsTruthful
    SearchShowsCurrent
    PendingIsInReview
    OneExtractionPerJob
PROPERTIES
    HistoryIsKept
    RowsObeyContract
CHECK_DEADLOCK FALSE
