SPECIFICATION FairSpec
CONSTANTS
  Layouts <- WellFramedLayouts
  BufferSize <- MCBufferSize
  GarbageLengths <- MCGarbageLengths
  MaxResponses = 4
PROPERTIES
  ImplementsPduStream
  HandlerGetsRoom
  StreamDrains
CHECK_DEADLOCK FALSE
