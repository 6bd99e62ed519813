CONSTANTS
  UART_BUFFER_SIZE = 3
  FifoDepth = 2
  Trigger = 1
  TimerId = 30
  UartIds = {33, 34}
  MaxBytes = 5
  MaxTicks = 2
  Pacing = {TRUE, FALSE}
SPECIFICATION FairSpec
INVARIANTS
  TypeOK
  BytesInOrder
  EveryByteAccounted
  HandlerSeesData
  ActiveWhileHandled
PROPERTIES
  ImplementsQueue
  DeliveredOneByOne
  TimerServed
  PollsForever
