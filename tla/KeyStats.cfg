SPECIFICATION Spec
CONSTANTS
  STOPPED_VALUE <- MCStopped
  MINUTE = 3
  HZ = 1
  Wrap = 16
  MaxLate = 4
  MaxKeys = 3
INVARIANTS TypeOK NoKeyLost NothingRunsAfterExit NoReportAfterStop AlwaysArmedOnce
PROPERTIES AheadOfTime ExitEnds KeepsReporting
