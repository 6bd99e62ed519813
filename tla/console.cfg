CONSTANTS
  TxDepth = 2
  LineLen = 2
  MaxLines = 2
  MaxTicks = 2
  MaxFirmware = 2
CHECK_DEADLOCK FALSE
SPECIFICATION FairSpec
INVARIANTS
  IsrLinesWhole
  IsrNeverOverruns
  NothingFlushed
PROPERTIES
  OutputReturns
