CONSTANTS
  CPU = {c1, c2}
  MaxNest = 2
SPECIFICATION FairSpec
INVARIANTS
  TypeOK
  MutualExclusion
  NoSelfDeadlock
  IsrNotNested
  MaskTransparent
  MutexInv
PROPERTIES
  SomeoneEnters
