SPECIFICATION Spec
CONSTANTS
  Name <- MCName
  GlobalKind <- MCGlobalKind
  ParamLists <- MCParamLists
  MaxText = 5
  MaxFns = 2
  MaxGap = 1
  OddForms = {"arm_declares"}

INVARIANTS
  SafeToLower
CHECK_DEADLOCK FALSE
