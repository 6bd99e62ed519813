CONSTANTS
  MAX_DEVICES = 3
  MAX_PROPS = 2
  MAX_HANDLES = 1
  STACK_SIZE = 3
  MaxNodes = 4
  MaxNodeProps = 3
  Prop <- MCProp
CHECK_DEADLOCK FALSE
SPECIFICATION Spec
INVARIANTS
  TypeOK
  ParentsRight
  FoundIsReal
  LeavesComplete
  DriverSeesTree
  SetupOrder
  LeavesSetUp
