SPECIFICATION Spec
CONSTANTS
  MaxPosts = 1
  BatchSizes = {1}
  Answers = {TRUE, FALSE}
  ContinueAsNewThreshold = 3
  MaximumAttempts = 3
  Registered <- AsShipped
INVARIANT NoAckedBatchLost
CHECK_DEADLOCK FALSE
