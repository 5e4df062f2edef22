CONSTANTS
  h1 = h1
  h2 = h2
  Handlers = {h1, h2}
  Reactor = Reactor
  None = None
  Sockets = {1, 2, 3}
  Requests <- MCRequests
  Reports <- MCReports
SYMMETRY HandlerSymmetry
SPECIFICATION Spec
CHECK_DEADLOCK FALSE
INVARIANTS
  RegisteredOwnsSocket
  RefsExact
