SPECIFICATION Spec
CONSTANTS
  Processes = {p1, p2}
  blocks_count = 8
  root_inode = 1
  FirstCap = 1
  CommonCap = 2
  BufSize = 2
  LongNames <- MCLongNames
  Prelude <- MCPrelude
  Commands <- MCCommands
  MaxCommands = 2
SYMMETRY Symmetry
INVARIANTS KeepsAndTells
CHECK_DEADLOCK FALSE
