SPECIFICATION Spec
CONSTANTS
  Bytes = {b1, b2}
  Size = 5
INVARIANTS
  PeekIsPrefix
  CanReceive
PROPERTIES
  ImplementsFifo
