SPECIFICATION Spec
CONSTANTS
  Ident = {"a", "b", "d", "e", "g", "_"}
  IntLit = {"0", "3", "7"}
  FloatLit = {}
  CharLit = {}
  StrLit = {"c", "dd"}
  BadTok = {"@"}
  AbiC = "c"
  IntOf <- MCIntOf
  MaxOf <- MCMaxOf
  MaxU64 = 7
  MaxReported = 2
  CountCap = 4
  MaxNesting = 4
  Unreadable = Unreadable
  TreeDepth = 11
  Commands <- MCCommands
INVARIANTS
  ParsesTheGrammar
  ErrorsInOrder
  DiagsHonest
  SemaSeesWholeTrees
  StatusTellsTheOutput
  Collected
PROPERTY
  Exits
CHECK_DEADLOCK FALSE
