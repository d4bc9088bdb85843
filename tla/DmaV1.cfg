CONSTANTS
  Channels = {c1, c2}
  Tasks = {t1}
  NoTask = NoTask
  MaxLen = 1
  Options <- DefaultOrMasked
  Version = "v1"
  Controller = "XDMA"
SPECIFICATION Spec
SYMMETRY ChannelSymmetry
INVARIANTS
  BufferReturnedOnlyWhenStopped
  ReadyMeansComplete
  NoLostWakeup
