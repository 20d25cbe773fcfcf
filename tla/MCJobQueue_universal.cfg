SPECIFICATION FairSpec
CONSTANTS
  j1 = j1
  j2 = j2
  j3 = j3
  registry = registry
  retired = retired
  w1 = w1
  w2 = w2
  t1 = t1
  t2 = t2
  Jobs = {j1, j2, j3}
  RebuildJobs = {j2}
  ModelJobs = {j1}
  Evidence = {legacy, registry, retired}
  Legacy = legacy
  EvidenceOfJob <- UniversalJobs
  Workers = {w1}
  EvidenceOfWorker <- UniversalWorkers
  Tasks = {t1}
  WorkerOf <- OnlySlot
  NoOwner = NoOwner
  NoJob = NoJob
  MaxAttempts = 3
  Lease = 1
  RetryBase = 1
  MaxDelay = 1
  MaxFaults = 2
INVARIANTS IInv
PROPERTIES EveryJobSettles
