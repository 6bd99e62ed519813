CONSTANTS
  TxDepth = 2
  LineLen = 2
  MaxLines = 1
  MaxTicks = 1
  MaxFirmware = 0
CHECK_DEADLOCK FALSE
SPECIFICATION Spec
INVARIANT
  NoOverrun
