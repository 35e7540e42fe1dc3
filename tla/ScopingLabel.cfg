SPECIFICATION Spec
CONSTANTS
  Name <- MCName
  GlobalKind <- MCGlobalKind
  ParamLists <- MCParamLists
  MaxText = 5
  MaxFns = 2
  MaxGap = 1
  OddForms = {"label_hidden"}

INVARIANTS
  LabelsAreConstants
CHECK_DEADLOCK FALSE
