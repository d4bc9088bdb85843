CONSTANTS
  PA = PA
  t1 = t1
  t2 = t2
  Pins <- OnePort
  Tasks = {t1, t2}
  NoTask = NoTask
  TaskOf <- ByLine
  Wants <- AllWaits
  DualEdge = TRUE
  LatchesAll = TRUE
SPECIFICATION Spec
INVARIANTS
  NoLostWakeup
  EnabledOnlyWhileAwaited
PROPERTY
  LevelWaitEnds
