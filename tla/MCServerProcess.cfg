SPECIFICATION FairSpec
CONSTANTS
  MaxConnections = 3
  MaxForks = 3
  MaxDescriptors = 2
INVARIANTS
  TypeOK
  ServedByOneProcess
  ForeignSessionOnlyAfterReturn
PROPERTIES
  PendingIsAccepted
  AcceptedIsServed
CHECK_DEADLOCK FALSE
