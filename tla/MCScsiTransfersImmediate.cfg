SPECIFICATION TransferSpec
CONSTANTS
  w1 = w1
  w2 = w2
  r1 = r1
  Requests <- NoRequests
  MemorySize = 3
  MaxConnections = 1
  MaxStatSN = 0
  Tasks = {w1, w2, r1}
  Plans <- ImmediateData
INVARIANTS
  WritesExecuteComplete
CHECK_DEADLOCK FALSE
