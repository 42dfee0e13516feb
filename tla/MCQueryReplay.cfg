SPECIFICATION FairSpec
CONSTANTS
  MaxPosts = 2
  Readers = {r1, r2}
  Requests <- BothKinds
  Time <- TwoTimes
  NoTime = NoTime
  Everything = Everything
  Matching <- OneMatching
  MaxForeign = 1
  ChunkSize = 2
INVARIANTS
  TypeOK
  ConfirmedIsVisible
  ReadsAreOrdered
PROPERTY EventuallyEnds
CHECK_DEADLOCK FALSE
