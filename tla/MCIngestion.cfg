SPECIFICATION FairSpec
CONSTANTS
  MaxPosts = 3
  BatchSizes = {1, 2}
  Answers = {TRUE}
  ContinueAsNewThreshold = 3
  MaximumAttempts = 3
  Registered <- AsInvoked
INVARIANTS
  TypeOK
  CountedIsStored
  CountedInOrder
  StoredAtMostOnce
  IndexedIsStored
  EveryBatchAccounted
PROPERTIES
  ImplementsEventLog
  EverySignalSettles
CHECK_DEADLOCK FALSE
