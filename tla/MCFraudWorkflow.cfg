SPECIFICATION FairSpec
CONSTANTS
  p1 = p1
  p2 = p2
  alice = alice
  bob = bob
  Nanosecond = 1
  Hour = 2
  Distance <- Kilometres
  MinDistance = 5
  Reach = 3
  MinOverlaps = 2
  Parents <- TheParents
  Customers <- TheCustomers
  Batches <- TheBatches
  DefaultWindow = 2
  MaximumAttempts = 3
  Horizon = 10
INVARIANTS
  ResultsStayWithTheirRequests
  OnlyRefusedAreMissing
PROPERTIES
  SpansAreWhatTransactionsShow
  BatchesEnd
CHECK_DEADLOCK FALSE
