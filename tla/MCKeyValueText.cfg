SPECIFICATION Spec
CONSTANTS
  Alphabet <- MCAlphabet
  MaxLength = 7
  KnownKeys <- MCKnownKeys
  Sought <- MCSought
INVARIANTS
  TypeOK
  GetFindsFirst
  CreateStoresLast
  KeyNotOverrun
CHECK_DEADLOCK FALSE
