SPECIFICATION Spec
CONSTANTS
  None = None
  Workflows = {w1, w2}
  Events <- SomeEvents
  Requests <- SomeRequests
  Day = 2
  Nanosecond = 1
  Hour = 1
  RequiredDays <- Days
  MaximumAttempts = 2
  MaxEvents = 3
  Horizon = 3
SYMMETRY Symmetry
INVARIANTS
  PaymentsOnTimeEarnTheBadge
CHECK_DEADLOCK FALSE
