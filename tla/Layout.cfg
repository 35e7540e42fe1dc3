SPECIFICATION MCSpec
CONSTANTS
  Struct = {"A", "B", "C"}
  Global = {"g"}
  Fn = {"f"}
  Core = {"i8", "i64"}
  CoreSize <- MCCoreSize
  Void = "void"
  Unknown = "nosuch"
  Poison = "poison"
  Name = {"p", "q"}
  TypeTerm <- MCTypeTerm
  MaxParts = 2
  MaxU32 = 1023
INVARIANTS
  TypeOK
  StackSound
  CyclesRejected
  LayoutIsC
  InternedSizesCurrent
  IrAgrees
PROPERTIES
  DoneIsFinal
  Terminates
CHECK_DEADLOCK FALSE
