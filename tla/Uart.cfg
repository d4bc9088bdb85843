CONSTANTS
  LineErrors = {"overrun"}
  FifoDepth = 1
  MaxLen = 2
  RetryCount = 0
  DetectPrevious = FALSE
  E00018Fix = TRUE
  NineBit = TRUE
  TxOps <- BothTxOps
SPECIFICATION Spec
INVARIANTS
  NeutralBetweenReads
  NoMissedWakeup
  CountHonest
PROPERTIES
  PendingEnds
