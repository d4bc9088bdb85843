CONSTANTS
  A = A
  B = B
  Sides = {A, B}
  FifoDepth = 1
  MaxSent = 2
  Uses <- OneWay
SPECIFICATION Spec
INVARIANTS
  InOrder
  WakeupKept
PROPERTY
  WaitEnds
CHECK_DEADLOCK FALSE
