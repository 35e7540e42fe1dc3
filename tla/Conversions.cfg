SPECIFICATION Spec
CONSTANTS
  W8 = 2
  W32 = 3
  W64 = 4
  EnumBase <- MCEnumBase
  Families <- MCFamilies
  OddForms = {}
INVARIANTS
  MeaningKept
  NoInternalError
  CodeIsTyped
  WideningKeepsValue
  ContextReaches
  VariadicPromoted
CHECK_DEADLOCK FALSE
