CONSTANTS
  c1 = c1
  c2 = c2
  u1 = u1
  u2 = u2
  C2s = {c1, c2}
  Users = {u1, u2}
  Root = Root
  None = None
  MaxInputs = 4
  Redline = 3
  Uid <- MCUid
  MaxIids = 1
  MaxPending = 3
  MaxPendingC2s = 1
SYMMETRY Symmetry
SPECIFICATION Spec
CHECK_DEADLOCK FALSE
INVARIANTS
  UserIndexAgrees
  OnlineMatches
  SocketsOwned
  C2sIndexAgrees
  NoGhostUser
  LoggedInIsKnown
