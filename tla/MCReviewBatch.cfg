SPECIFICATION Spec
CONSTANTS
    Docs = {d1, d2}
    Batches = {1, 2, 3}
    Cands = {1, 2, 3, 4}
    DocOf <- TwoDocuments
    BatchOf <- Cohorts
    Financial <- BillCandidates
    Keys = {k1}
    NoBill = NoBill
    Reviewers = {r1}
    Indexers = {i1}
    Nothing = Nothing
    MaxSources = 2
    MaxJobs = 2
    MaxEvents = 2
    Displayed = {2}
    MaxVersion = 3
    d1 = d1
    d2 = d2
CHECK_DEADLOCK FALSE
INVARIANTS
    AuthorityIsActiveCohort
    BillsFollowAuthority
    ChunksFollowSource
PROPERTIES
    PaymentSurvives
    ActivationIsWhatWasShown
    StaleBatchesAreInert
    TriggersNeverFire
