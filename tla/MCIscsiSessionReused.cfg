SPECIFICATION Spec
CONSTANTS
  a = a
  b = b
  Requests <- MCRequests
  MemorySize = 2
  MaxConnections = 2
  MaxStatSN = 5
PROPERTIES
  FullFeatureIsGranted
CHECK_DEADLOCK FALSE
