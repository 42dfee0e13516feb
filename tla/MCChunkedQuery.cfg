SPECIFICATION FairSpec
CONSTANTS
  Queries <- Merged
  ChunkSize = 2
  MaxConcurrency = 2
  MaximumAttempts = 3
  PolledQueues <- AsDocumented
INVARIANTS
  TypeOK
  ConcurrencyBounded
  PartialAnswer
PROPERTIES
  ImplementsFanOut
  EventuallyAnswered
CHECK_DEADLOCK FALSE
