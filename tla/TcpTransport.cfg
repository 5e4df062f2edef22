CONSTANTS
  r1 = r1
  r2 = r2
  Reactors = {r1, r2}
  NoReactor = NoReactor
  Sizes = {2}
  PoolSize = 1
  MaxPackets = 2
  MaxTimers = 1
SYMMETRY ReactorSymmetry
SPECIFICATION Spec
CHECK_DEADLOCK FALSE
INVARIANTS
  WriteWatched
  WireExact
  CompletionsMatch
PROPERTIES
  NothingAfterClose
