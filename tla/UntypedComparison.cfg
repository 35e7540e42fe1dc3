SPECIFICATION Spec
CONSTANTS
  W8 = 2
  W32 = 3
  W64 = 4
  EnumBase <- MCEnumBase
  Families <- MCFamilies
  OddForms = {"untyped comparison"}
INVARIANT UntypedIsI32
CHECK_DEADLOCK FALSE
