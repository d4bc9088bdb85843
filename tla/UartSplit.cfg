CONSTANTS
  LineErrors = {}
  FifoDepth = 1
  MaxLen = 1
  RetryCount = 1
  DetectPrevious = FALSE
  E00018Fix = TRUE
  NineBit = TRUE
  TxOps <- BothTxOps
SPECIFICATION Spec
PROPERTY
  WriteEnds
