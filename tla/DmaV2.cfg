CONSTANTS
  Channels = {c1}
  Tasks = {t1, t2}
  NoTask = NoTask
  MaxLen = 2
  Options <- DefaultOrCircular
  Version = "v2"
  Controller = "HDMA"
SPECIFICATION FairSpec
PROPERTIES
  KeepsPromise
  AwaitedTransferResolves
  DropTerminates
