SPECIFICATION Spec
CONSTANTS
  Layouts <- AllLayouts
  BufferSize <- MCBufferSize
  GarbageLengths <- MCGarbageLengths
  MaxResponses = 4
INVARIANTS
  TypeOK
  LockDiscipline
  FlushAssertion
  HandlerWritesInside
  NothingLostOrRepeated
  FramedUnlessMisdeclared
CHECK_DEADLOCK FALSE
