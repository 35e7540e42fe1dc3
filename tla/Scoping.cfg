SPECIFICATION Spec
CONSTANTS
  Name <- MCName
  GlobalKind <- MCGlobalKind
  ParamLists <- MCParamLists
  MaxText = 4
  MaxFns = 2
  MaxGap = 1
  OddForms = {}
INVARIANTS
  TypeOK
  FindsInnermost
  SameBinding
  SlotsDistinct
PROPERTIES
  SemaScopes
  LowerScopes
CHECK_DEADLOCK FALSE
