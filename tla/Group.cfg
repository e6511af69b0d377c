SPECIFICATION FairSpec
CONSTANTS
  Clients = {c1, c2, c3}
  Committer = owner
  Operations <- SomeOperations
  QueueDepth = 2
  MaxBatchPages = 3
  CheckpointAfter = 3
  Faults = {"log", "job", "share"}
  MaxCalls = 1
CHECK_DEADLOCK FALSE
INVARIANT JobsOwned
PROPERTY ImplementsCommitLog
PROPERTY EveryCallReturns
