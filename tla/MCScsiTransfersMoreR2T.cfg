SPECIFICATION FairTransferSpec
CONSTANTS
  w1 = w1
  w2 = w2
  r1 = r1
  Requests <- NoRequests
  MemorySize = 3
  MaxConnections = 1
  MaxStatSN = 0
  Tasks = {w1, w2, r1}
  Plans <- OneOfThreeR2Ts
PROPERTIES
  EveryCommandAnswered
CHECK_DEADLOCK FALSE
