SPECIFICATION FairSpec
CONSTANTS
  Reactors = {r1, r2}
  None = None
  SendSize = 2
  RecvSize = 2
INVARIANTS
  OneOwner
  AnsweredOnce
PROPERTIES
  NoUseAfterFree
  Ends
  Destroyed
CHECK_DEADLOCK FALSE
