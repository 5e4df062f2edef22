SPECIFICATION FairSpec
CONSTANTS
  Threads = {t1, t2}
  MaxChanges = 3
  MaxTick = 4
  Capacity = 8
INVARIANTS
  LostOnlyWithinTick
PROPERTIES
  ApartFiniStopsWorker
CHECK_DEADLOCK FALSE
