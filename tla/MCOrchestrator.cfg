SPECIFICATION FairSpec
CONSTANTS
  Requests <- AllRequests
  PartitionSize = 2
  ChildTimeout = 2
  OperatorTimeout = 2
  OrchestratorTimeout = 3
INVARIANTS
  TypeOK
  AnswerIsReal
  CountersAreTruthful
  AnswersInTime
PROPERTIES
  TimerNeverCutsShort
  ImplementsFanOut
  EventuallyAnswered
CHECK_DEADLOCK FALSE
