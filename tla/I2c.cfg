CONSTANTS
  Blocking <- SomeBlocking
  WriteReads <- SomeWriteReads
  Async <- SomeAsync
  MaxCount = 2
  FifoDepth = 1
SPECIFICATION Spec
INVARIANTS
  FreshBytes
  BusReleased
PROPERTIES
  FramingContract
  BlockingEnds
CHECK_DEADLOCK FALSE
