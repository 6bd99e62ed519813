CONSTANTS
  Half = 8
  MsPerSec = 4
  Freq = 7
  Ms = {0, 3, 4, 9, 17}
  Ticks = {0, 2, 7, 8, 15}
  MaxCalls = 3
SPECIFICATION FairSpec
INVARIANTS
  InWindow
PROPERTIES
  ArmRings
  TicksForever
CHECK_DEADLOCK FALSE
