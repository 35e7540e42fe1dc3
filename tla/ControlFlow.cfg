SPECIFICATION Spec
CONSTANTS
  Shapes = {"and"}
  MaxLabels = 2
  MaxSize = 5
INVARIANTS
  TypeOK
  BlocksVerify
  FlowExact
  NoFallOff
  BlamesRealPaths
CHECK_DEADLOCK FALSE
