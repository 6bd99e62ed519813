CONSTANTS
  UART_BUFFER_SIZE = 4
  FifoDepth = 3
  Trigger = 1
  TimerId = 30
  UartIds = {33}
  MaxBytes = 3
  MaxTicks = 0
  Pacing = {FALSE}
SPECIFICATION FairSpec
PROPERTIES
  Delivered
