\* Two services and their hosts; one connection more than there are services, so that
\* a client can come back, and fewer descriptors than connections, so that numbers do.
CONSTANTS
  Services = {s1, s2}
  Hub = hub
  Stops = {hub, s1}
  MaxConns = 3
  MaxFds = 2
  Length = 1
SPECIFICATION FairSpec
CHECK_DEADLOCK FALSE
INVARIANTS
  DescriptorsOwned
  RightService
  PipesAgree
PROPERTY
  HubLetsGo
