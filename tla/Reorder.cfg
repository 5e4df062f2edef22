SPECIFICATION ReorderSpec
CONSTANTS
  Width = 4
  MaxLoss = 4
  MaxPacketCount = 2
  MaxWaiting = 2
  MaxBroken = 2
  Reach = 7
  Numbers <- MCNumbers
INVARIANTS Reconstructed InOrder HoldBounded
