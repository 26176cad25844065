SPECIFICATION Spec
CONSTANTS
  a = a
  b = b
  Requests <- MCRequests
  MemorySize = 2
  MaxConnections = 1
  MaxStatSN = 5
INVARIANTS
  UnnumberedNeverIgnored
CHECK_DEADLOCK FALSE
