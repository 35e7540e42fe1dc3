SPECIFICATION Spec
CONSTANTS
  Texts <- MCTexts
  ByteOf <- MCByteOf
  MaxU64 = 63
INVARIANTS
  LexesTheGrammar
  TokensTile
PROPERTY
  Lexed
CHECK_DEADLOCK FALSE
