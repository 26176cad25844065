SPECIFICATION Spec
CONSTANTS
  a = a
  b = b
  Requests <- MCRequests
  MemorySize = 2
  MaxConnections = 2
  MaxStatSN = 5
INVARIANTS
  TypeOK
  AttachedSessionIsOpen
  ExecutesOnlyInNormalSession
  TagsFollowCommands
  AnnouncedInForce
  DataInsTileTheRead
PROPERTIES
  LoginAgreement
  StatSNsDense
CHECK_DEADLOCK FALSE
