SPECIFICATION LastingSpec
CONSTANTS
  blocks_count = 6
  root_inode = 1
  FirstCap = 1
  CommonCap = 2
  StackDepth = 3
  Names <- MCNames
  LongNames <- MCLongNames
  Stale <- NoStale
  Requests <- MCFill
INVARIANTS NoInternalError
CHECK_DEADLOCK FALSE
