SPECIFICATION Spec
CONSTANTS
  Hour = 2
  MinimumSample = 2
  Histories <- TheHistories
  Requests <- TheRequests
  MaxWindows = 7
INVARIANTS
  RSIIsOfItsWindow
CHECK_DEADLOCK FALSE
