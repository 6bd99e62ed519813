CONSTANTS
  EC = {21, 0}
  MaxDepth = 3
  StackWords = 108
CHECK_DEADLOCK FALSE
SPECIFICATION Spec
INVARIANTS
  SyscallNumber
  FramesSurvive
PROPERTY
  RoundTrip
