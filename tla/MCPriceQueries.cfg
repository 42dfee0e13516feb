SPECIFICATION Spec
CONSTANTS
  Hour = 2
  MinimumSample = 2
  Histories <- TheHistories
  Requests <- TheRequests
  MaxWindows = 7
INVARIANTS
  WindowsHoldTheirTimes
  EveryPriceCountedOnce
  ResultsFitThePrices
  ResultsDependOnTheirWindow
  FailuresHaveACause
PROPERTIES
  WindowsEnd
CHECK_DEADLOCK FALSE
