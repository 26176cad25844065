------------------------- MODULE ResponseStreamProofs -------------------------
(***************************************************************************)
(* Proofs about ResponseStream, for every buffer size, every set of        *)
(* layouts and every number of responses.                                  *)
(*                                                                         *)
(* The mutual exclusion, the assert, the bounds of the buffer and the       *)
(* exactness of the stream follow from one inductive invariant, IInv.      *)
(* None of them is inductive alone: that the assert in iscsi_buffer_flush  *)
(* holds needs the length the transmit thread read without the lock to be  *)
(* a lower bound of the length at every later point                        *)
(* (UnlockedReadsStayTrue), which in turn needs the mutual exclusion of    *)
(* the two critical sections.                                              *)
(*                                                                         *)
(* That the stream stays framed needs FInv on top of it: the responses     *)
(* tile the stream (ResponsesTile), and what is sent is the length of the  *)
(* response at the front (MeasuredAtFront), although it was read without   *)
(* the lock.  From the two invariants the threads implement PduStream.     *)
(***************************************************************************)
EXTENDS ResponseStream, TLAPS

\* From the unlocked validity check to the end of the flush, the PDU measured
\* is in the buffer.
UnlockedReadsStayTrue ==
  /\ tx = "peek" => seen <= length
  /\ tx \in {"lock", "send", "unlock", "assert", "relock", "shift"}
       => BASIC_HEADER_SEGMENT_LENGTH <= pdu_length /\ pdu_length <= length

\* What the receive thread is building is a response of some handler.
BuildsLayout == rx \in {"wait", "check", "build"} => building \in Layouts

IInv ==
  /\ TypeOK
  /\ BuildsLayout
  /\ LockDiscipline
  /\ FlushAssertion
  /\ HandlerWritesInside
  /\ NothingLostOrRepeated
  /\ UnlockedReadsStayTrue

-------------------------------------------------------------------------------
\* The lengths the transmit thread can read off the buffer are lengths of PDUs.
LEMMA HeaderLengthsType ==
  ASSUME TypeOK, NEW o
  PROVE  \A d \in HeaderLengths(o) : d \in Nat /\ d >= BASIC_HEADER_SEGMENT_LENGTH
BY LayoutsAssumption, GarbageAssumption
   DEF TypeOK, HeaderLengths

\* The invariant holds of a new connection.
LEMMA InitIInv == Init => IInv
BY LayoutsAssumption
   DEF Init, HeaderOnlyLayout, Layout, BASIC_HEADER_SEGMENT_LENGTH,
       IInv, TypeOK, BuildsLayout,
         LockDiscipline, RxHoldsLock, TxHoldsLock, FlushAssertion,
         HandlerWritesInside, NothingLostOrRepeated, InFlight,
         UnlockedReadsStayTrue, RxStates, TxStates

\* Every step of the receive thread preserves the invariant.
LEMMA ReceiveThreadIInv == IInv /\ ReceiveThread => IInv'
<1> SUFFICES ASSUME IInv, ReceiveThread PROVE IInv'
  OBVIOUS
<1> USE LayoutsAssumption
<1>1. ASSUME NEW l \in Layouts, RxRespond(l) PROVE IInv'
  BY <1>1 DEF RxRespond, bufferVars, txVars, IInv, TypeOK, BuildsLayout,
         LockDiscipline, RxHoldsLock, TxHoldsLock, FlushAssertion,
         HandlerWritesInside, NothingLostOrRepeated, InFlight,
         UnlockedReadsStayTrue, RxStates, TxStates
<1>2. CASE RxAcquire
  BY <1>2 DEF RxAcquire, bufferVars, txVars, IInv, TypeOK, BuildsLayout,
         LockDiscipline, RxHoldsLock, TxHoldsLock, FlushAssertion,
         HandlerWritesInside, NothingLostOrRepeated, InFlight,
         UnlockedReadsStayTrue, RxStates, TxStates
<1>3. CASE RxNoSpace
  BY <1>3 DEF RxNoSpace, bufferVars, txVars, IInv, TypeOK, BuildsLayout,
         LockDiscipline, RxHoldsLock, TxHoldsLock, FlushAssertion,
         HandlerWritesInside, NothingLostOrRepeated, InFlight,
         UnlockedReadsStayTrue, RxStates, TxStates
<1>4. CASE RxSpace
  <2>1. length + building.size <= BufferSize
    <3>1. building \in Layouts
      BY <1>4 DEF RxSpace, IInv, BuildsLayout
    <3>2. building.size \in Nat
      BY <3>1 DEF BASIC_HEADER_SEGMENT_LENGTH
    <3>3. length \in Nat
      BY DEF IInv, TypeOK
    <3>4. BufferSize - length >= building.size
      BY <1>4 DEF RxSpace, FreeSpace
    <3> QED
      BY <3>2, <3>3, <3>4
  <2> QED
    BY <1>4, <2>1 DEF RxSpace, bufferVars, txVars, IInv, TypeOK, BuildsLayout,
         LockDiscipline, RxHoldsLock, TxHoldsLock, FlushAssertion,
         HandlerWritesInside, NothingLostOrRepeated, InFlight,
         UnlockedReadsStayTrue, RxStates, TxStates
<1>5. CASE RxPublish
  <2>1. building \in Layouts /\ building.size \in Nat
    BY <1>5 DEF RxPublish, IInv, BuildsLayout, BASIC_HEADER_SEGMENT_LENGTH
  <2>2. length + building.size <= BufferSize
    BY <1>5 DEF RxPublish, IInv, HandlerWritesInside
  <2>3. heads' \in [DOMAIN heads' -> Layouts] /\ DOMAIN heads' \subseteq Nat
    BY <1>5, <2>1 DEF RxPublish, IInv, TypeOK
  <2>4. length' \in 0 .. BufferSize /\ appended' \in Nat
    BY <1>5, <2>1, <2>2 DEF RxPublish, IInv, TypeOK
  <2>5. TypeOK' /\ BuildsLayout'
    BY <1>5, <2>3, <2>4
       DEF RxPublish, txVars, IInv, TypeOK, BuildsLayout, LockDiscipline,
           RxHoldsLock, TxHoldsLock, RxStates
  <2>6. LockDiscipline' /\ FlushAssertion' /\ HandlerWritesInside'
    BY <1>5
       DEF RxPublish, txVars, IInv, TypeOK, LockDiscipline, RxHoldsLock,
           TxHoldsLock, FlushAssertion, HandlerWritesInside
  <2>7. NothingLostOrRepeated' /\ UnlockedReadsStayTrue'
    BY <1>5, <2>1
       DEF RxPublish, txVars, IInv, TypeOK, NothingLostOrRepeated, InFlight,
           UnlockedReadsStayTrue, BASIC_HEADER_SEGMENT_LENGTH
  <2> QED
    BY <2>5, <2>6, <2>7 DEF IInv
<1>6. CASE RxClose
  BY <1>6 DEF RxClose, bufferVars, txVars, IInv, TypeOK, BuildsLayout,
         LockDiscipline, RxHoldsLock, TxHoldsLock, FlushAssertion,
         HandlerWritesInside, NothingLostOrRepeated, InFlight,
         UnlockedReadsStayTrue, RxStates, TxStates
<1>7. QED
  BY <1>1, <1>2, <1>3, <1>4, <1>5, <1>6 DEF ReceiveThread

\* Every step of the transmit thread preserves the invariant.
LEMMA TransmitThreadIInv == IInv /\ TransmitThread => IInv'
<1> SUFFICES ASSUME IInv, TransmitThread PROVE IInv'
  OBVIOUS
<1> USE LayoutsAssumption
<1>1. CASE TxPoll
  BY <1>1 DEF TxPoll, bufferVars, rxVars, IInv, TypeOK, BuildsLayout,
         LockDiscipline, RxHoldsLock, TxHoldsLock, FlushAssertion,
         HandlerWritesInside, NothingLostOrRepeated, InFlight,
         UnlockedReadsStayTrue, RxStates, TxStates
<1>2. CASE TxPeek
  <2>1. PICK d \in HeaderLengths(base) :
          \/ iscsi_pdu_valid(d, seen) /\ pdu_length' = d /\ tx' = "lock"
          \/ tx' = "poll" /\ UNCHANGED pdu_length
    BY <1>2 DEF TxPeek
  <2>2. d \in Nat /\ d >= BASIC_HEADER_SEGMENT_LENGTH
    BY <2>1, HeaderLengthsType DEF IInv
  <2>3. iscsi_pdu_valid(d, seen) => d <= seen
    BY <2>2 DEF iscsi_pdu_valid, max, BASIC_HEADER_SEGMENT_LENGTH, IInv, TypeOK
  <2>4. seen <= length
    BY <1>2 DEF TxPeek, IInv, UnlockedReadsStayTrue
  <2>5. TypeOK' /\ BuildsLayout'
    BY <1>2, <2>1, <2>2
       DEF TxPeek, bufferVars, rxVars, IInv, TypeOK, BuildsLayout, TxStates
  <2>6. LockDiscipline' /\ FlushAssertion' /\ HandlerWritesInside'
    BY <1>2, <2>1
       DEF TxPeek, bufferVars, rxVars, IInv, LockDiscipline, RxHoldsLock,
           TxHoldsLock, FlushAssertion, HandlerWritesInside
  <2>7. NothingLostOrRepeated' /\ UnlockedReadsStayTrue'
    BY <1>2, <2>1, <2>2, <2>3, <2>4
       DEF TxPeek, bufferVars, rxVars, IInv, TypeOK, NothingLostOrRepeated,
           InFlight, UnlockedReadsStayTrue
  <2> QED
    BY <2>5, <2>6, <2>7 DEF IInv
<1>3. CASE TxAcquire
  BY <1>3 DEF TxAcquire, bufferVars, rxVars, IInv, TypeOK, BuildsLayout,
         LockDiscipline, RxHoldsLock, TxHoldsLock, FlushAssertion,
         HandlerWritesInside, NothingLostOrRepeated, InFlight,
         UnlockedReadsStayTrue, RxStates, TxStates
<1>4. CASE TxSend
  BY <1>4 DEF TxSend, bufferVars, rxVars, IInv, TypeOK, BuildsLayout,
         LockDiscipline, RxHoldsLock, TxHoldsLock, FlushAssertion,
         HandlerWritesInside, NothingLostOrRepeated, InFlight,
         UnlockedReadsStayTrue, RxStates, TxStates
<1>5. CASE TxSendError
  BY <1>5 DEF TxSendError, bufferVars, rxVars, IInv, TypeOK, BuildsLayout,
         LockDiscipline, RxHoldsLock, TxHoldsLock, FlushAssertion,
         HandlerWritesInside, NothingLostOrRepeated, InFlight,
         UnlockedReadsStayTrue, RxStates, TxStates
<1>6. CASE TxRelease
  BY <1>6 DEF TxRelease, bufferVars, rxVars, IInv, TypeOK, BuildsLayout,
         LockDiscipline, RxHoldsLock, TxHoldsLock, FlushAssertion,
         HandlerWritesInside, NothingLostOrRepeated, InFlight,
         UnlockedReadsStayTrue, RxStates, TxStates
<1>7. CASE TxAssert
  BY <1>7 DEF TxAssert, bufferVars, rxVars, IInv, TypeOK, BuildsLayout,
         LockDiscipline, RxHoldsLock, TxHoldsLock, FlushAssertion,
         HandlerWritesInside, NothingLostOrRepeated, InFlight,
         UnlockedReadsStayTrue, RxStates, TxStates
<1>8. CASE TxFlushAcquire
  BY <1>8 DEF TxFlushAcquire, bufferVars, rxVars, IInv, TypeOK, BuildsLayout,
         LockDiscipline, RxHoldsLock, TxHoldsLock, FlushAssertion,
         HandlerWritesInside, NothingLostOrRepeated, InFlight,
         UnlockedReadsStayTrue, RxStates, TxStates
<1>9. CASE TxFlush
  BY <1>9 DEF TxFlush, rxVars, IInv, TypeOK, BuildsLayout,
         LockDiscipline, RxHoldsLock, TxHoldsLock, FlushAssertion,
         HandlerWritesInside, NothingLostOrRepeated, InFlight,
         UnlockedReadsStayTrue, RxStates, TxStates
<1>10. QED
  BY <1>1, <1>2, <1>3, <1>4, <1>5, <1>6, <1>7, <1>8, <1>9 DEF TransmitThread

\* A step that changes nothing preserves it.
LEMMA StutterIInv == IInv /\ UNCHANGED vars => IInv'
BY DEF vars, bufferVars, rxVars, txVars, IInv, TypeOK, BuildsLayout,
       LockDiscipline, RxHoldsLock, TxHoldsLock, FlushAssertion,
       HandlerWritesInside, NothingLostOrRepeated, InFlight,
       UnlockedReadsStayTrue

\* The invariant holds throughout every behaviour of the two threads.
THEOREM Invariance == Spec => []IInv
<1>1. Init => IInv
  BY InitIInv
<1>2. IInv /\ [Next]_vars => IInv'
  BY ReceiveThreadIInv, TransmitThreadIInv, StutterIInv DEF Next
<1>3. QED
  BY <1>1, <1>2, PTL DEF Spec

\* Every variable of the response path stays in its type; in particular
\* response_buffer.length never leaves 0 .. ISCSI_BUFFER_SIZE and the semaphore
\* is binary.
THEOREM TypeCorrectness == Spec => []TypeOK
<1>1. IInv => TypeOK
  BY DEF IInv
<1>2. QED
  BY <1>1, Invariance, PTL

\* The semaphore of the buffer is a mutex on every path of the two threads.
THEOREM MutualExclusion == Spec => []LockDiscipline
<1>1. IInv => LockDiscipline
  BY DEF IInv
<1>2. QED
  BY <1>1, Invariance, PTL

\* The assert of iscsi_buffer_flush never fails, although it is evaluated
\* without the lock and long after the length it tests was measured.
THEOREM AssertionHolds == Spec => []FlushAssertion
<1>1. IInv => FlushAssertion
  BY DEF IInv
<1>2. QED
  BY <1>1, Invariance, PTL

\* A handler that was given room writes inside the buffer.
THEOREM NoOverrun == Spec => []HandlerWritesInside
<1>1. IInv => HandlerWritesInside
  BY DEF IInv
<1>2. QED
  BY <1>1, Invariance, PTL

\* The bytes on the socket are those the handlers appended, once and in order.
THEOREM StreamIsExact == Spec => []NothingLostOrRepeated
<1>1. IInv => NothingLostOrRepeated
  BY DEF IInv
<1>2. QED
  BY <1>1, Invariance, PTL

-------------------------------------------------------------------------------
(***************************************************************************)
(* Framing.                                                                *)
(***************************************************************************)
\* Until it is sent, the PDU measured is the one at the front of the buffer.
MeasuredAtFront ==
  tx \in {"lock", "send"} => pdu_length \in HeaderLengths(base)

\* The responses follow each other in the stream, without gaps or overlaps.
ResponsesTile ==
  /\ \A o \in DOMAIN heads :
       /\ o < appended
       /\ o + heads[o].size <= appended
       /\ o + heads[o].size \in DOMAIN heads \cup {appended}
  /\ \A o, p \in DOMAIN heads : o < p => o + heads[o].size <= p

AllWellFramed == \A o \in DOMAIN heads : WellFramed(heads[o])

\* Where a response starts or will start.
Boundaries == DOMAIN heads \cup {appended}

FInv ==
  /\ MeasuredAtFront
  /\ ResponsesTile
  /\ 0 \in Boundaries
  /\ AllWellFramed => base \in Boundaries /\ wire \in Boundaries

\* Between the measurement and the flush there is a byte at base.
LEMMA FrontIsThere ==
  ASSUME IInv, tx \in {"lock", "send", "unlock", "assert", "relock", "shift"}
  PROVE  base < appended
BY DEF IInv, TypeOK, UnlockedReadsStayTrue, NothingLostOrRepeated,
       BASIC_HEADER_SEGMENT_LENGTH

\* What is published when is preserved by every other step.
LEMMA UnpublishedFInv ==
  ASSUME IInv, FInv, UNCHANGED <<appended, heads>>,
         MeasuredAtFront',
         AllWellFramed => base' \in Boundaries /\ wire' \in Boundaries
  PROVE  FInv'
BY DEF FInv, ResponsesTile, AllWellFramed, Boundaries

\* A new response goes right after the last one.
LEMMA PublishFInv == IInv /\ FInv /\ RxPublish => FInv'
<1> SUFFICES ASSUME IInv, FInv, RxPublish PROVE FInv'
  OBVIOUS
<1>1. building \in Layouts /\ building.size \in Nat /\ building.size >= 48
  BY LayoutsAssumption
     DEF RxPublish, IInv, BuildsLayout, BASIC_HEADER_SEGMENT_LENGTH
<1>2. \A o \in DOMAIN heads : o \in Nat /\ heads[o].size \in Nat
  BY LayoutsAssumption DEF IInv, TypeOK, BASIC_HEADER_SEGMENT_LENGTH
<1>3. appended \in Nat /\ appended' = appended + building.size
  BY DEF RxPublish, IInv, TypeOK
<1>4. DOMAIN heads' = Boundaries
  BY DEF RxPublish, Boundaries
<1>5. appended \notin DOMAIN heads
  BY <1>2, <1>3 DEF FInv, ResponsesTile
<1>6. \A o \in DOMAIN heads : heads'[o] = heads[o]
  BY <1>5 DEF RxPublish
<1>7. heads'[appended] = building
  BY DEF RxPublish
<1>8. ResponsesTile'
  <2>1. ASSUME NEW o \in DOMAIN heads'
        PROVE  /\ o < appended'
               /\ o + heads'[o].size <= appended'
               /\ o + heads'[o].size \in DOMAIN heads' \cup {appended'}
    <3>1. CASE o \in DOMAIN heads
      BY <3>1, <1>1, <1>2, <1>3, <1>4, <1>6 DEF FInv, ResponsesTile, Boundaries
    <3>2. CASE o = appended
      BY <3>2, <1>1, <1>3, <1>7
    <3> QED
      BY <2>1, <3>1, <3>2, <1>4 DEF Boundaries
  <2>2. ASSUME NEW o \in DOMAIN heads', NEW p \in DOMAIN heads', o < p
        PROVE  o + heads'[o].size <= p
    <3>1. CASE o \in DOMAIN heads /\ p \in DOMAIN heads
      BY <2>2, <3>1, <1>6 DEF FInv, ResponsesTile
    <3>2. CASE o \in DOMAIN heads /\ p = appended
      BY <3>2, <1>6 DEF FInv, ResponsesTile
    <3>3. CASE o = appended
      BY <2>2, <3>3, <1>2, <1>3, <1>4 DEF FInv, ResponsesTile, Boundaries
    <3> QED
      BY <2>2, <3>1, <3>2, <3>3, <1>4 DEF Boundaries
  <2> QED
    BY <2>1, <2>2 DEF ResponsesTile
<1>9. MeasuredAtFront'
  <2>1. UNCHANGED <<tx, pdu_length, base>>
    BY DEF RxPublish, txVars
  <2>2. CASE tx \in {"lock", "send"}
    <3>1. base < appended
      BY <2>2, FrontIsThere
    <3>2. base # appended
      BY <3>1, <1>3 DEF IInv, TypeOK
    <3>3. HeaderLengths(base)' = HeaderLengths(base)
      BY <2>1, <3>2, <1>4, <1>6 DEF HeaderLengths, Boundaries
    <3> QED
      BY <2>1, <2>2, <3>3 DEF FInv, MeasuredAtFront
  <2> QED
    BY <2>1, <2>2 DEF MeasuredAtFront
<1>10. AllWellFramed' => AllWellFramed
  BY <1>4, <1>6 DEF AllWellFramed, Boundaries
<1>11. Boundaries \subseteq Boundaries'
  BY <1>4 DEF Boundaries
<1>12. UNCHANGED <<base, wire>>
  BY DEF RxPublish
<1> QED
  BY <1>8, <1>9, <1>10, <1>11, <1>12 DEF FInv

\* The whole response at the front is sent: the socket stays between two
\* responses.
LEMMA SendFInv == IInv /\ FInv /\ TxSend => FInv'
<1> SUFFICES ASSUME IInv, FInv, TxSend PROVE FInv'
  OBVIOUS
<1>1. MeasuredAtFront'
  BY DEF TxSend, MeasuredAtFront
<1>2. ASSUME AllWellFramed PROVE wire' \in Boundaries
  <2>1. base \in DOMAIN heads
    <3>1. base < appended
      BY FrontIsThere DEF TxSend
    <3> QED
      BY <1>2, <3>1 DEF FInv, Boundaries, IInv, TypeOK
  <2>2. pdu_length = heads[base].declared
    BY <2>1 DEF TxSend, FInv, MeasuredAtFront, HeaderLengths
  <2>3. pdu_length = heads[base].size
    BY <1>2, <2>1, <2>2 DEF AllWellFramed, WellFramed
  <2> QED
    BY <2>1, <2>3 DEF TxSend, FInv, ResponsesTile, Boundaries
<1> QED
  BY <1>1, <1>2, UnpublishedFInv DEF TxSend, bufferVars, FInv

\* What is removed from the buffer is what was sent.
LEMMA FlushFInv == IInv /\ FInv /\ TxFlush => FInv'
<1> SUFFICES ASSUME IInv, FInv, TxFlush PROVE FInv'
  OBVIOUS
<1>1. MeasuredAtFront'
  BY DEF TxFlush, MeasuredAtFront
<1>2. base' = wire
  BY DEF TxFlush, IInv, NothingLostOrRepeated, InFlight
<1> QED
  BY <1>1, <1>2, UnpublishedFInv DEF TxFlush, FInv

\* Measuring reads the header of the PDU at the front.
LEMMA PeekFInv == IInv /\ FInv /\ TxPeek => FInv'
<1> SUFFICES ASSUME IInv, FInv, TxPeek PROVE FInv'
  OBVIOUS
<1>1. UNCHANGED <<base, heads, appended, wire>>
  BY DEF TxPeek, bufferVars
<1>2. HeaderLengths(base)' = HeaderLengths(base)
  BY <1>1 DEF HeaderLengths
<1>3. MeasuredAtFront'
  BY <1>2 DEF TxPeek, MeasuredAtFront
<1> QED
  BY <1>1, <1>3, UnpublishedFInv DEF FInv

\* The remaining steps touch neither the stream nor the measurement.
LEMMA OtherFInv ==
  ASSUME IInv, FInv, UNCHANGED <<base, appended, heads, wire, pdu_length>>,
         tx' \in {"lock", "send"} => tx \in {"lock", "send"}
  PROVE  FInv'
<1>1. HeaderLengths(base)' = HeaderLengths(base)
  BY DEF HeaderLengths
<1>2. MeasuredAtFront'
  BY <1>1 DEF FInv, MeasuredAtFront
<1> QED
  BY <1>2, UnpublishedFInv DEF FInv

\* Every step preserves the framing invariant.
LEMMA NextFInv == IInv /\ FInv /\ [Next]_vars => FInv'
<1> SUFFICES ASSUME IInv, FInv, [Next]_vars PROVE FInv'
  OBVIOUS
<1> USE DEF bufferVars, rxVars, txVars
<1>1. ASSUME NEW l \in Layouts, RxRespond(l) PROVE FInv'
  BY <1>1, OtherFInv DEF RxRespond
<1>2. CASE RxAcquire \/ RxNoSpace \/ RxSpace \/ RxClose
  BY <1>2, OtherFInv DEF RxAcquire, RxNoSpace, RxSpace, RxClose
<1>3. CASE RxPublish
  BY <1>3, PublishFInv
<1>4. CASE TxPoll \/ TxAcquire \/ TxSendError \/ TxRelease
  BY <1>4, OtherFInv DEF TxPoll, TxAcquire, TxSendError, TxRelease
<1>5. CASE TxAssert \/ TxFlushAcquire
  BY <1>5, OtherFInv DEF TxAssert, TxFlushAcquire
<1>6. CASE TxPeek
  BY <1>6, PeekFInv
<1>7. CASE TxSend
  BY <1>7, SendFInv
<1>8. CASE TxFlush
  BY <1>8, FlushFInv
<1>9. CASE UNCHANGED vars
  BY <1>9, OtherFInv DEF vars
<1>10. QED
  BY <1>1, <1>2, <1>3, <1>4, <1>5, <1>6, <1>7, <1>8, <1>9
     DEF Next, ReceiveThread, TransmitThread

\* The framing invariant holds of a new connection.
LEMMA InitFInv == Init => FInv
BY DEF Init, FInv, MeasuredAtFront, ResponsesTile, AllWellFramed, Boundaries

\* Both invariants hold throughout every behaviour.
LEMMA FramingInvariance == Spec => [](IInv /\ FInv)
<1>1. Init => IInv /\ FInv
  BY InitIInv, InitFInv
<1>2. IInv /\ FInv /\ [Next]_vars => (IInv /\ FInv)'
  BY ReceiveThreadIInv, TransmitThreadIInv, StutterIInv, NextFInv DEF Next
<1>3. QED
  BY <1>1, <1>2, PTL DEF Spec

\* The initiator can parse what it receives for as long as every handler
\* appends the number of bytes its header declares.
THEOREM StaysFramed == Spec => []FramedUnlessMisdeclared
<1>1. IInv /\ FInv => FramedUnlessMisdeclared
  BY DEF FInv, AllWellFramed, Boundaries, FramedUnlessMisdeclared
<1>2. QED
  BY <1>1, FramingInvariance, PTL

-------------------------------------------------------------------------------
(***************************************************************************)
(* Refinement of the abstract stream of whole PDUs.                        *)
(***************************************************************************)
HandlersDeclareLengths == \A l \in Layouts : WellFramed(l)

Ends == {0} \cup {o + heads[o].size : o \in DOMAIN heads}

\* Publishing a response is the abstract Accept.
LEMMA PublishRefinesAccept == IInv /\ FInv /\ RxPublish => Stream!Accept
<1> SUFFICES ASSUME IInv, FInv, RxPublish PROVE Stream!Accept
  OBVIOUS
<1>1. building \in Layouts /\ building.size \in Nat /\ building.size > 0
  BY LayoutsAssumption
     DEF RxPublish, IInv, BuildsLayout, BASIC_HEADER_SEGMENT_LENGTH
<1>2. appended \in Nat /\ appended' = appended + building.size
  BY DEF RxPublish, IInv, TypeOK
<1>3. appended \notin DOMAIN heads
  BY <1>2 DEF FInv, ResponsesTile
<1>4. DOMAIN heads' = DOMAIN heads \cup {appended}
  BY DEF RxPublish
<1>5. heads'[appended] = building /\ \A o \in DOMAIN heads : heads'[o] = heads[o]
  BY <1>3 DEF RxPublish
<1>6. Ends' = Ends \cup {appended'}
  <2>1. ASSUME NEW e \in Ends' PROVE e \in Ends \cup {appended'}
    BY <2>1, <1>2, <1>4, <1>5 DEF Ends
  <2>2. ASSUME NEW e \in Ends PROVE e \in Ends'
    BY <2>2, <1>4, <1>5 DEF Ends
  <2>3. appended' \in Ends'
    BY <1>2, <1>4, <1>5 DEF Ends
  <2> QED
    BY <2>1, <2>2, <2>3
<1>7. UNCHANGED wire
  BY DEF RxPublish
<1> QED
  BY <1>1, <1>2, <1>6, <1>7 DEF Stream!Accept, Ends

\* A successful send() is the abstract Deliver: it hands over the next PDU.
LEMMA SendRefinesDeliver ==
  HandlersDeclareLengths /\ IInv /\ FInv /\ TxSend => Stream!Deliver
<1> SUFFICES ASSUME HandlersDeclareLengths, IInv, FInv, TxSend
             PROVE  Stream!Deliver
  OBVIOUS
<1> DEFINE size == heads[base].size
<1>1. AllWellFramed
  BY DEF HandlersDeclareLengths, AllWellFramed, IInv, TypeOK
<1>2. base \in DOMAIN heads
  <2>1. base < appended
    BY FrontIsThere DEF TxSend
  <2> QED
    BY <1>1, <2>1 DEF FInv, Boundaries, IInv, TypeOK
<1>3. wire = base
  BY DEF TxSend, IInv, TypeOK, NothingLostOrRepeated, InFlight
<1>4. wire' = base + size
  BY <1>1, <1>2
     DEF TxSend, FInv, MeasuredAtFront, HeaderLengths, AllWellFramed, WellFramed
<1>5. \A o \in DOMAIN heads :
        o \in Nat /\ heads[o].size \in Nat /\ heads[o].size > 0
  BY LayoutsAssumption DEF IInv, TypeOK, BASIC_HEADER_SEGMENT_LENGTH
<1>6. wire' \in Ends /\ wire < wire'
  BY <1>2, <1>3, <1>4, <1>5 DEF Ends
<1>7. ASSUME NEW e \in Ends PROVE e <= wire \/ wire' <= e
  <2>1. CASE e = 0
    BY <2>1, <1>2, <1>3, <1>5
  <2>2. ASSUME NEW o \in DOMAIN heads, e = o + heads[o].size
        PROVE  e <= wire \/ wire' <= e
    <3>1. CASE o < base
      BY <2>2, <3>1, <1>2, <1>3 DEF FInv, ResponsesTile
    <3>2. CASE o = base
      BY <2>2, <3>2, <1>2, <1>4, <1>5
    <3>3. CASE base < o
      BY <2>2, <3>3, <1>2, <1>4, <1>5 DEF FInv, ResponsesTile
    <3> QED
      BY <3>1, <3>2, <3>3, <1>2, <1>5
  <2> QED
    BY <1>7, <2>1, <2>2 DEF Ends
<1>8. UNCHANGED <<appended, heads>>
  BY DEF TxSend, bufferVars
<1>9. UNCHANGED Ends
  BY <1>8 DEF Ends
<1> QED
  BY <1>6, <1>7, <1>8, <1>9 DEF Stream!Deliver, Ends

\* Every step of the two threads is a step of the abstract stream or a stutter.
LEMMA StepRefinement ==
  HandlersDeclareLengths /\ IInv /\ FInv /\ [Next]_vars
    => [Stream!Next]_(Stream!vars)
<1> SUFFICES ASSUME HandlersDeclareLengths, IInv, FInv, [Next]_vars
             PROVE  [Stream!Next]_(Stream!vars)
  OBVIOUS
<1>1. CASE RxPublish
  BY <1>1, PublishRefinesAccept DEF Stream!Next
<1>2. CASE TxSend
  BY <1>2, SendRefinesDeliver DEF Stream!Next
<1>3. ASSUME UNCHANGED <<appended, heads, wire>>
      PROVE  UNCHANGED Stream!vars
  BY <1>3 DEF Stream!vars
<1>4. CASE UNCHANGED vars
  BY <1>3, <1>4 DEF vars, bufferVars
<1>5. ASSUME ReceiveThread, ~RxPublish PROVE UNCHANGED <<appended, heads, wire>>
  BY <1>5 DEF ReceiveThread, RxRespond, RxAcquire, RxNoSpace, RxSpace, RxClose,
              bufferVars
<1>6. ASSUME TransmitThread, ~TxSend PROVE UNCHANGED <<appended, heads, wire>>
  BY <1>6 DEF TransmitThread, TxPoll, TxPeek, TxAcquire, TxSendError, TxRelease,
              TxAssert, TxFlushAcquire, TxFlush, bufferVars
<1> QED
  BY <1>1, <1>2, <1>3, <1>4, <1>5, <1>6 DEF Next

\* If every handler appends the number of bytes its header declares, then
\* response_buffer, its semaphore and the two threads implement a stream of
\* whole PDUs: each is accepted once and delivered once, whole and in order.
THEOREM Refinement ==
  ASSUME HandlersDeclareLengths
  PROVE  Spec => ImplementsPduStream
<1>1. Init => Stream!Init
  BY DEF Init, Stream!Init
<1>2. IInv /\ FInv /\ [Next]_vars => [Stream!Next]_(Stream!vars)
  BY StepRefinement
<1>3. QED
  BY <1>1, <1>2, FramingInvariance, PTL DEF Spec, Stream!Spec, ImplementsPduStream

================================================================================
