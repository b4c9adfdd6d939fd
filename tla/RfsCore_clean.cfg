SPECIFICATION Spec
CONSTANTS
  blocks_count = 6
  root_inode = 1
  FirstCap = 1
  CommonCap = 2
  StackDepth = 3
  Names <- MCNames
  LongNames <- MCLongNames
  Stale <- NoStale
  Requests <- MCAll
INVARIANTS TypeOK CleanImage HandlerAgrees MetadataSafe RemoveNeverRunsOut
PROPERTIES LossesAreKnown CleanNeverFaults ImplementsStore
CONSTRAINT NotTorn
CHECK_DEADLOCK FALSE
