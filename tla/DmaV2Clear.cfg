CONSTANTS
  Channels = {c1, c2}
  Tasks = {t1}
  NoTask = NoTask
  MaxLen = 1
  Options <- OnlyDefault
  Version = "v2"
  Controller = "HDMA"
SPECIFICATION Spec
PROPERTY
  ClearsOwnStatusOnly
