SPECIFICATION LastingSpec
CONSTANTS
  blocks_count = 8
  root_inode = 1
  FirstCap = 1
  CommonCap = 2
  StackDepth = 3
  Names <- MCNames
  LongNames <- MCLongNames
  Stale <- UsedUp
  Requests <- MCStat
INVARIANTS NoInternalError
CHECK_DEADLOCK FALSE
