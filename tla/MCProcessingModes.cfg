SPECIFICATION ModesSpec
CONSTANTS
  Nanosecond = 1
  Hour = 2
  EventTimelines <- UpToThree
  Requests <- AllRequests
  Horizon = 7
  DefaultChunkSize = 2
  DefaultPartitionSize = 2
  ParallelRequests <- InParts
  MaxLost = 1
INVARIANTS
  TimelinesMeanTheirPoints
  MeasuresMeanTheirPoints
  ModesAgree
  ChunkedDurationsAreBounded
CHECK_DEADLOCK FALSE
