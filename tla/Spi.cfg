CONSTANTS
  Kinds = {"new", "new_blocking"}
  Lengths = {0, 1, 2, 3}
  Words = {8, 16}
  BadConfigs = {TRUE, FALSE}
  CountMax = 2
  FifoDepth = 1
  MergeWidth = 2
SPECIFICATION SpiSpec
INVARIANTS
  SpiReceivesOwnWords
PROPERTIES
  SpiReturns
  SpiSentWhenOk
CHECK_DEADLOCK FALSE
