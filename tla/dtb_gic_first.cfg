CONSTANTS
  MAX_DEVICES = 4
  MAX_PROPS = 3
  MAX_HANDLES = 3
  STACK_SIZE = 3
  MaxNodes = 3
  MaxNodeProps = 2
  Prop <- MCProp
CHECK_DEADLOCK FALSE
SPECIFICATION Spec
INVARIANT
  GicReadyFirst
