CONSTANTS
  Focuses = {"usb"}
  Half = 4
  MaxTime = 13
  Period = 2
  Deadlines <- Few
  None = None
  ClkParts = {"v53", "v62", "v63", "v67", "v68", "v6e"}
  ClkCpu <- CpuClocks
  ClkBus <- BusClocks
  ClkSub = {0, 2}
  ClkPlls <- Plls
  ClkChecked = FALSE
  UartBauds = {0, 1152, 26900, 30001}
  UartFine = TRUE
  UartCalls = 2
  AdcDividers = {0, 1, 3}
  DacModes = {"direct", "step", "buffer"}
  DacPoints = {0, 100, 4095}
  DacSteps <- StepSizes
  UsbEndpoints <- BothHalves
  UsbBuffers <- PacketBuffers
  UsbPacket = 64
  UsbGroups <- OneConfiguration
  UsbDrops = 1
  UsbHost = 4
  FlashSectors = 2
  FlashLine = 2
  FlashSizes = {2, 3}
  FlashOffsets = {0, 2}
  FemcConfigs <- Sdrams
  FemcCalls = 3
  RtcSubs = 2
  RtcSeconds = 3
  RtcTimes = {1, 2}
  RtcIntervals = {0, 1}
  SmallUnits = {"QEI0", "MCAN0", "TRGM0"}
  SmallCalls = 2
  IrqSources = {1, 2}
  IrqLast = 3
  IrqStale = {1}
  IrqCalls = 2
  PinPads = {PY00, PY01}
  PinDelegated = TRUE
  PinReadsBack = FALSE
  PinCalls = 3
  I2cModes = {"Standard", "Fast", "FastPlus"}
  I2cKernel = 24000
SPECIFICATION SysSpec
INVARIANT UsbResetHeard
CHECK_DEADLOCK FALSE
