SPECIFICATION FairSpec
CONSTANTS
  Clients = {t1, t2}
  Commands = {k1, k2, k3}
  NoCommand = none
  MaxStarts = 2
INVARIANTS
  NoLostWakeup
  StoppedMeansDrained
  LatchOnLiveStack
PROPERTIES
  BlockingPutIsSynchronous
  BlockedPutReturns
  AcceptedIsExecuted
  ImplementsMailbox
CHECK_DEADLOCK FALSE
