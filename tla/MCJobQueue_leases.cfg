SPECIFICATION Spec
CONSTANTS
  j1 = j1
  j2 = j2
  j3 = j3
  registry = registry
  retired = retired
  w1 = w1
  w2 = w2
  t1 = t1
  t2 = t2
  Jobs = {j1, j2}
  RebuildJobs = {j2}
  ModelJobs = {}
  Evidence = {legacy}
  Legacy = legacy
  EvidenceOfJob <- AllLegacyJobs
  Workers = {w1, w2}
  EvidenceOfWorker <- AllLegacyWorkers
  Tasks = {t1, t2}
  WorkerOf <- OneSlot
  NoOwner = NoOwner
  NoJob = NoJob
  MaxAttempts = 2
  Lease = 1
  RetryBase = 1
  MaxDelay = 1
  MaxFaults = 2
INVARIANTS OverlapNeedsExpiry
PROPERTIES ImplementsContract
