CONSTANTS
  PpiId = {27, 30}
  SpiId = {33, 34}
  Prio <- MCPrio
  Affinity = {0}
  ResetWord <- MCResetWord
  ResetRoute = {0}
SPECIFICATION Spec
INVARIANTS
  AwakeWhenReady
PROPERTIES
  ImplementsConfig
