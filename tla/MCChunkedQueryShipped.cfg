SPECIFICATION FairSpec
CONSTANTS
  Queries <- Long
  ChunkSize = 2
  MaxConcurrency = 2
  MaximumAttempts = 1
  PolledQueues <- AsShipped
PROPERTY EventuallyAnswered
CHECK_DEADLOCK FALSE
