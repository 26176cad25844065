SPECIFICATION FairSpec
CONSTANTS
  Sizes <- MCSizes
  BufferSize = 152
  ChunkSize = 100
  Depths <- MCDepths
  MaxPdus = 4
INVARIANTS
  TypeOK
  ProcessedAsSent
  StuckOnlyBehindWholePdu
PROPERTIES
  EveryPduProcessed
  ClosedPeerIsDrained
CHECK_DEADLOCK FALSE
