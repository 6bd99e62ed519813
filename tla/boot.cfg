CONSTANTS
  ResetWord <- MCResetWord
  Garbage <- MCGarbage
SPECIFICATION FairSpec
INVARIANTS
  UartBaseKnown
  EveryAccessMapped
PROPERTIES
  ConfiguredBeforeEnabled
  BootServes
