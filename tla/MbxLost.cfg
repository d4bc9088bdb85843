CONSTANTS
  A = A
  B = B
  Sides = {A, B}
  FifoDepth = 1
  MaxSent = 1
  Uses <- Words
SPECIFICATION Safety
INVARIANT
  NoLostWakeup
CHECK_DEADLOCK FALSE
