SPECIFICATION FairSpec
CONSTANTS
  Objects = {o1, o2}
  Spans = {0, 2}
  DefaultSpan = 4
  HtbtSpans = {2}
  Steps = 2
  MaxTick = 4
  MaxTimers = 2
INVARIANTS
  IndexAgrees
  RefsExact
  CountsCover
PROPERTIES
  DueTimerLeaves
CHECK_DEADLOCK FALSE
