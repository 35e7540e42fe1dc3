SPECIFICATION FairSpec
CONSTANTS
  Key <- MCKey
  Value = {v1, v2}
  Null = Null
  Hash <- MCHash
  InitialCap = 2
  MaxLen = 4
INVARIANTS
  TypeOK
  QuarterEmpty
  Findable
PROPERTIES
  IsDictionary
  CallsReturn
CHECK_DEADLOCK FALSE
