SPECIFICATION Spec
CONSTANTS
  Callers = {c1, c2}
  MaxLoads = 2
INVARIANTS NeverInsideGone PublishedIsMapped OnlyOldPointersMislead NoReferenceLeaks
PROPERTIES EveryCallReturns ExitEnds
CHECK_DEADLOCK FALSE
