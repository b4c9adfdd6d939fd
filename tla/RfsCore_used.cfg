SPECIFICATION FairSpec
CONSTANTS
  blocks_count = 5
  root_inode = 1
  FirstCap = 1
  CommonCap = 2
  StackDepth = 3
  Names <- MCNames
  LongNames <- MCLongNames
  Stale <- UsedBefore
  Requests <- MCFewRequests
INVARIANTS CleanImage
PROPERTIES EveryRequestEnds
CHECK_DEADLOCK FALSE
