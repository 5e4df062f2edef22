SPECIFICATION Spec
CONSTANTS
  Objects = {o1}
  Spans = {2}
  DefaultSpan = 2
  HtbtSpans = {4}
  Steps = 1
  MaxTick = 1
  MaxTimers = 2
INVARIANTS
  IndexIsAStep
CHECK_DEADLOCK FALSE
