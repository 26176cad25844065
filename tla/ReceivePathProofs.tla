--------------------------- MODULE ReceivePathProofs ---------------------------
(***************************************************************************)
(* Theorems about ReceivePath, for every set of PDU lengths, every size of *)
(* the buffer and of what recv() returns, and every number of PDUs.        *)
(***************************************************************************)
EXTENDS ReceivePath, TLAPS

\* Where the PDU behind the i-th starts, or will start.
NextStart(i) == IF i = Len(starts) THEN sentEnd ELSE starts[i + 1]

\* The PDUs sent lie one behind another.
PdusTile ==
  /\ \A o \in DOMAIN sizes : o < sentEnd /\ \E i \in 1 .. Len(starts) : starts[i] = o
  /\ \A i \in 1 .. Len(starts) :
       /\ starts[i] \in DOMAIN sizes
       /\ starts[i] + sizes[starts[i]] = NextStart(i)
  /\ Len(starts) > 0 => starts[1] = 0
  /\ Len(starts) = 0 => sentEnd = 0

\* The buffer starts where the next PDU to process starts.
BaseIsNext ==
  /\ Len(processed) <= Len(starts)
  /\ base = IF Len(processed) = Len(starts) THEN sentEnd
                                            ELSE starts[Len(processed) + 1]
  /\ \A i \in 1 .. Len(processed) : processed[i] = starts[i]

\* The buffer holds what was received and not processed; a chunk for which there
\* was no room is not in it.
BufferHoldsTaken ==
  /\ taken <= sentEnd
  /\ rx = "stuck" => base + length < taken
  /\ rx # "stuck" => base + length = taken

IInv == TypeOK /\ PdusTile /\ BaseIsNext /\ BufferHoldsTaken

-------------------------------------------------------------------------------
\* Nothing was sent.
LEMMA InitEstablishes == Init => IInv
  BY ReceiveAssumption
  DEF Init, IInv, TypeOK, PdusTile, BaseIsNext, BufferHoldsTaken

\* What is known of the front of the buffer: between PDUs only after the last one,
\* and then nothing is left to receive.
LEMMA FrontIsPdu ==
  ASSUME IInv, base < sentEnd
  PROVE  /\ Len(processed) < Len(starts)
         /\ base = starts[Len(processed) + 1] /\ base \in DOMAIN sizes
         /\ Declared(base) = {sizes[base]}
         /\ sizes[base] \in Sizes /\ sizes[base] \in Nat
         /\ sizes[base] >= BASIC_HEADER_SEGMENT_LENGTH
         /\ base + sizes[base] = NextStart(Len(processed) + 1)
  <1>1. Len(processed) \in Nat /\ Len(starts) \in Nat /\ sentEnd \in Nat
    BY DEF IInv, TypeOK
  <1>2. Len(processed) < Len(starts) /\ base = starts[Len(processed) + 1]
    BY <1>1 DEF IInv, BaseIsNext
  <1>3. base \in DOMAIN sizes /\ base + sizes[base] = NextStart(Len(processed) + 1)
    BY <1>1, <1>2 DEF IInv, PdusTile
  <1>4. sizes[base] \in Sizes
    BY <1>3 DEF IInv, TypeOK
  <1> QED BY <1>2, <1>3, <1>4, SizesAssumption DEF Declared

\* One more PDU behind the others.
LEMMA PeerSendsKeeps ==
  ASSUME IInv, NEW size \in Sizes, PeerSends(size)
  PROVE  IInv'
  <1>1. /\ starts \in Seq(Nat) /\ sentEnd \in Nat /\ size \in Nat
        /\ size >= BASIC_HEADER_SEGMENT_LENGTH
        /\ Len(starts) \in Nat /\ Len(processed) \in Nat
    BY SizesAssumption DEF IInv, TypeOK
  <1>2. /\ starts' \in Seq(Nat) /\ Len(starts') = Len(starts) + 1
        /\ \A i \in 1 .. Len(starts) : starts'[i] = starts[i]
        /\ starts'[Len(starts) + 1] = sentEnd
        /\ sentEnd' = sentEnd + size /\ sentEnd' > sentEnd /\ sentEnd' \in Nat
    BY <1>1 DEF PeerSends, BASIC_HEADER_SEGMENT_LENGTH
  <1>3. /\ DOMAIN sizes' = DOMAIN sizes \cup {sentEnd}
        /\ sizes'[sentEnd] = size
        /\ \A o \in DOMAIN sizes : o < sentEnd /\ sizes'[o] = sizes[o]
        /\ \A o \in DOMAIN sizes' : sizes'[o] \in Sizes
    BY <1>1 DEF PeerSends, IInv, TypeOK, PdusTile
  <1>4. TypeOK'
    <2>1. sizes' \in [DOMAIN sizes' -> Sizes]
      BY <1>3 DEF PeerSends
    <2> QED BY <1>1, <1>2, <1>3, <2>1 DEF IInv, TypeOK, PeerSends, receiveVars
  <1>5. PdusTile'
    <2>1. \A i \in Nat : NextStart(i)' = IF i = Len(starts) + 1 THEN sentEnd'
                                         ELSE starts'[i + 1]
      BY <1>2 DEF NextStart
    <2>2. \A i \in 1 .. Len(starts) : NextStart(i)' = NextStart(i)
      <3> SUFFICES ASSUME NEW i \in 1 .. Len(starts)
                   PROVE  NextStart(i)' = NextStart(i)
        OBVIOUS
      <3>1. i \in Nat /\ i # Len(starts) + 1
        BY <1>1
      <3>2. NextStart(i)' = starts'[i + 1]
        BY <2>1, <3>1
      <3>3. CASE i = Len(starts)
        BY <1>2, <3>2, <3>3 DEF NextStart
      <3>4. CASE i # Len(starts)
        <4>1. i + 1 \in 1 .. Len(starts)
          BY <1>1, <3>4
        <4> QED BY <1>2, <3>2, <3>4, <4>1 DEF NextStart
      <3> QED BY <3>3, <3>4
    <2>3. \A i \in 1 .. Len(starts') :
            /\ starts'[i] \in DOMAIN sizes'
            /\ starts'[i] + sizes'[starts'[i]] = NextStart(i)'
      <3> SUFFICES ASSUME NEW i \in 1 .. Len(starts')
                   PROVE  /\ starts'[i] \in DOMAIN sizes'
                          /\ starts'[i] + sizes'[starts'[i]] = NextStart(i)'
        OBVIOUS
      <3>1. CASE i \in 1 .. Len(starts)
        <4>1. /\ starts[i] \in DOMAIN sizes
              /\ starts[i] + sizes[starts[i]] = NextStart(i)
          BY <3>1 DEF IInv, PdusTile
        <4> QED BY <1>2, <1>3, <2>2, <3>1, <4>1
      <3>2. CASE i = Len(starts) + 1
        <4>1. i \in Nat /\ NextStart(i)' = sentEnd'
          BY <1>1, <2>1, <3>2
        <4>2. starts'[i] = sentEnd
          BY <1>2, <3>2
        <4> QED BY <1>2, <1>3, <4>1, <4>2
      <3> QED BY <1>1, <1>2, <3>1, <3>2
    <2>4. \A o \in DOMAIN sizes' :
            o < sentEnd' /\ \E i \in 1 .. Len(starts') : starts'[i] = o
      <3> SUFFICES ASSUME NEW o \in DOMAIN sizes'
                   PROVE  o < sentEnd' /\ \E i \in 1 .. Len(starts') : starts'[i] = o
        OBVIOUS
      <3>1. CASE o \in DOMAIN sizes
        <4>1. PICK i \in 1 .. Len(starts) : starts[i] = o
          BY <3>1 DEF IInv, PdusTile
        <4>2. i \in 1 .. Len(starts') /\ starts'[i] = o
          BY <1>1, <1>2, <4>1
        <4>3. o \in Nat /\ o < sentEnd
          BY <1>3, <3>1 DEF IInv, TypeOK
        <4>4. o < sentEnd'
          BY <1>1, <1>2, <4>3
        <4> QED BY <4>2, <4>4
      <3>2. CASE o = sentEnd
        BY <1>1, <1>2, <3>2
      <3> QED BY <1>3, <3>1, <3>2
    <2>5. Len(starts') > 0 /\ starts'[1] = 0
      <3>1. CASE Len(starts) = 0
        BY <1>2, <3>1 DEF IInv, PdusTile
      <3>2. CASE Len(starts) > 0
        <4>1. starts[1] = 0
          BY <3>2 DEF IInv, PdusTile
        <4>2. 1 \in 1 .. Len(starts)
          BY <1>1, <3>2
        <4> QED BY <1>1, <1>2, <4>1, <4>2
      <3> QED BY <1>1, <3>1, <3>2
    <2> QED BY <1>1, <1>2, <2>3, <2>4, <2>5 DEF PdusTile
  <1>6. BaseIsNext'
    BY <1>1, <1>2 DEF IInv, BaseIsNext, PeerSends, receiveVars
  <1>7. BufferHoldsTaken'
    BY <1>1, <1>2 DEF IInv, TypeOK, BufferHoldsTaken, PeerSends, receiveVars
  <1> QED BY <1>4, <1>5, <1>6, <1>7 DEF IInv

\* n more bytes, for which there is room.
LEMMA IncomingKeeps ==
  ASSUME IInv, NEW n \in Nat, rx = "recv", n <= sentEnd - taken,
         n <= iscsi_buffer_free_space, incoming_request(n), taken' = taken + n,
         UNCHANGED peerVars
  PROVE  IInv'
  <1> DEFINE k == Len(processed)
  <1>0. /\ taken \in Nat /\ base \in Nat /\ length \in Nat /\ sentEnd \in Nat
        /\ starts \in Seq(Nat) /\ processed \in Seq(Nat) /\ BufferSize \in Nat
    BY ReceiveAssumption DEF IInv, TypeOK
  <1>1. /\ length + n <= BufferSize /\ base + length = taken
        /\ Len(starts) \in Nat /\ k \in Nat /\ k <= Len(starts)
    BY <1>0 DEF IInv, BufferHoldsTaken, BaseIsNext, iscsi_buffer_free_space
  <1>2. UNCHANGED <<depth, sizes, starts, sentEnd, peer>>
    BY DEF peerVars
  <1>3. PdusTile'
    BY <1>2 DEF IInv, PdusTile, NextStart
  <1>4. CASE UNCHANGED <<base, processed, rx>> /\ length' = length + n
    <2>1. TypeOK'
      BY <1>0, <1>1, <1>2, <1>4 DEF IInv, TypeOK
    <2>2. BaseIsNext'
      BY <1>2, <1>4 DEF IInv, BaseIsNext
    <2>3. BufferHoldsTaken'
      BY <1>0, <1>1, <1>2, <1>4 DEF BufferHoldsTaken
    <2> QED BY <1>3, <2>1, <2>2, <2>3 DEF IInv
  <1>5. ASSUME NEW d \in Declared(base), iscsi_pdu_valid(d, length + n),
               processed' = Append(processed, base), base' = base + d,
               length' = length + n - d, rx' \in {"recv", "ended"}
        PROVE  IInv'
    <2>1. d \in Nat /\ BASIC_HEADER_SEGMENT_LENGTH <= d
      BY <1>5, SizesAssumption DEF IInv, TypeOK, Declared
    <2>2. d <= length + n /\ length + n > 0
      BY <1>0, <1>1, <1>5, <2>1 DEF iscsi_pdu_valid, max, BASIC_HEADER_SEGMENT_LENGTH
    <2>3. base < sentEnd
      BY <1>0, <1>1, <2>2
    <2>4. d = sizes[base] /\ k < Len(starts) /\ base = starts[k + 1]
          /\ base + d = NextStart(k + 1)
      BY <1>5, <2>3, FrontIsPdu
    <2>5. /\ Len(processed') = k + 1 /\ processed' \in Seq(Nat)
          /\ \A i \in 1 .. k : processed'[i] = processed[i]
          /\ processed'[k + 1] = base
      BY <1>0, <1>1, <1>5
    <2>6. TypeOK'
      <3>1. base' \in Nat /\ length' \in 0 .. BufferSize
        BY <1>0, <1>1, <1>5, <2>1, <2>2
      <3> QED BY <1>0, <1>1, <1>2, <1>5, <2>5, <3>1 DEF IInv, TypeOK
    <2>7. BaseIsNext'
      <3>1. \A i \in 1 .. k + 1 : processed'[i] = starts[i]
        <4> SUFFICES ASSUME NEW i \in 1 .. k + 1 PROVE processed'[i] = starts[i]
          OBVIOUS
        <4>1. CASE i \in 1 .. k
          BY <2>5, <4>1 DEF IInv, BaseIsNext
        <4>2. CASE i = k + 1
          BY <2>4, <2>5, <4>2
        <4> QED BY <1>1, <4>1, <4>2
      <3>2. base' = IF k + 1 = Len(starts) THEN sentEnd ELSE starts[k + 1 + 1]
        BY <1>5, <2>4 DEF NextStart
      <3> HIDE DEF k
      <3> QED BY <1>0, <1>1, <1>2, <2>4, <2>5, <3>1, <3>2 DEF BaseIsNext
    <2>8. BufferHoldsTaken'
      BY <1>0, <1>1, <1>2, <1>5, <2>1 DEF BufferHoldsTaken
    <2> QED BY <1>3, <2>6, <2>7, <2>8 DEF IInv
  <1> QED BY <1>4, <1>5 DEF incoming_request

\* Every step keeps the invariant.
LEMMA NextKeeps == IInv /\ [Next]_vars => IInv'
  <1> SUFFICES ASSUME IInv, [Next]_vars PROVE IInv'
    OBVIOUS
  <1>1. ASSUME UNCHANGED <<sizes, starts, sentEnd, base, processed>>
        PROVE  PdusTile' /\ BaseIsNext'
    BY <1>1 DEF IInv, PdusTile, BaseIsNext, NextStart
  <1>2. CASE UNCHANGED vars
    BY <1>1, <1>2 DEF vars, peerVars, receiveVars, IInv, TypeOK, BufferHoldsTaken
  <1>3. CASE PeerCloses
    BY <1>1, <1>3 DEF PeerCloses, receiveVars, IInv, TypeOK, BufferHoldsTaken
  <1>4. CASE RecvBytes
    <2>1. PICK n \in 1 .. min(ChunkSize, sentEnd - taken) :
            /\ iscsi_buffer_free_space >= n
            /\ taken' = taken + n /\ incoming_request(n)
      BY <1>4 DEF RecvBytes
    <2>2. n \in Nat /\ n <= sentEnd - taken /\ n <= iscsi_buffer_free_space
      BY <2>1, ReceiveAssumption DEF min, IInv, TypeOK, iscsi_buffer_free_space
    <2> QED BY <1>4, <2>1, <2>2, IncomingKeeps DEF RecvBytes
  <1>5. CASE RecvWithoutRoom
    <2>1. /\ taken' \in Nat /\ taken' > taken /\ taken' <= sentEnd
          /\ rx = "recv" /\ rx' = "stuck"
          /\ UNCHANGED <<peerVars, base, length, processed>>
      BY <1>5, ReceiveAssumption DEF RecvWithoutRoom, min, IInv, TypeOK
    <2>2. PdusTile' /\ BaseIsNext'
      BY <1>1, <2>1 DEF peerVars
    <2>3. TypeOK' /\ BufferHoldsTaken'
      BY <2>1 DEF peerVars, IInv, TypeOK, BufferHoldsTaken
    <2> QED BY <2>2, <2>3 DEF IInv
  <1>6. CASE RecvEof
    <2>1. 0 <= sentEnd - taken /\ 0 <= iscsi_buffer_free_space /\ taken' = taken + 0
      BY <1>6, ReceiveAssumption
      DEF RecvEof, IInv, TypeOK, iscsi_buffer_free_space
    <2> QED BY <1>6, <2>1, IncomingKeeps DEF RecvEof
  <1>7. CASE RecvFails
    BY <1>1, <1>7 DEF RecvFails, peerVars, IInv, TypeOK, BufferHoldsTaken
  <1> QED BY <1>2, <1>3, <1>4, <1>5, <1>6, <1>7, PeerSendsKeeps DEF Next

\* IInv is an invariant.
THEOREM Invariance == Spec => []IInv
  BY InitEstablishes, NextKeeps, PTL DEF Spec

\* Every variable has its type; the buffer never holds more than its size.
THEOREM TypeCorrectness == Spec => []TypeOK
  <1>1. IInv => TypeOK
    BY DEF IInv
  <1> QED BY <1>1, Invariance, PTL

\* However recv() cuts the stream, the PDUs processed are those sent, each once and
\* in order, and none before its last byte.
THEOREM InOrder == Spec => []ProcessedAsSent
  <1>1. IInv => ProcessedAsSent
    <2> SUFFICES ASSUME IInv PROVE ProcessedAsSent
      OBVIOUS
    <2>1. /\ starts \in Seq(Nat) /\ processed \in Seq(Nat)
          /\ Len(processed) <= Len(starts)
          /\ \A i \in 1 .. Len(processed) : processed[i] = starts[i]
      BY DEF IInv, TypeOK, BaseIsNext
    <2>2. processed = SubSeq(starts, 1, Len(processed))
      BY <2>1
    <2>3. base <= taken
      BY DEF IInv, TypeOK, BufferHoldsTaken
    <2> QED BY <2>1, <2>2, <2>3 DEF ProcessedAsSent
  <1> QED BY <1>1, Invariance, PTL

-------------------------------------------------------------------------------
\* The buffer has room for a PDU of each length but its last byte, and for what
\* recv() may return.
RoomForPduAndChunk == \A s \in Sizes : s - 1 + ChunkSize <= BufferSize

\* The thread waits for room only while the buffer holds a whole PDU.
LEMMA StuckNext ==
  ASSUME RoomForPduAndChunk, IInv, StuckOnlyBehindWholePdu, [Next]_vars
  PROVE  StuckOnlyBehindWholePdu'
  <1>1. CASE RecvWithoutRoom
    <2>1. /\ length > BufferSize - ChunkSize /\ taken < sentEnd /\ rx = "recv"
          /\ UNCHANGED <<sizes, base, length>>
      BY <1>1, ReceiveAssumption
      DEF RecvWithoutRoom, iscsi_buffer_free_space, min, IInv, TypeOK, peerVars
    <2>2. base < sentEnd
      BY <2>1 DEF IInv, TypeOK, BufferHoldsTaken
    <2>3. base \in DOMAIN sizes /\ sizes[base] \in Sizes /\ sizes[base] \in Nat
          /\ sizes[base] >= BASIC_HEADER_SEGMENT_LENGTH
      BY <2>2, FrontIsPdu
    <2>4. sizes[base] <= length
      BY <2>1, <2>3, ReceiveAssumption DEF RoomForPduAndChunk, IInv, TypeOK
    <2>5. length \in Nat /\ max(sizes[base], BASIC_HEADER_SEGMENT_LENGTH) <= length
      BY <2>3, <2>4, ReceiveAssumption DEF max, IInv, TypeOK, BASIC_HEADER_SEGMENT_LENGTH
    <2>6. iscsi_pdu_valid(sizes[base], length)
      BY <2>5 DEF iscsi_pdu_valid
    <2>7. base' \in DOMAIN sizes' /\ iscsi_pdu_valid(sizes'[base'], length')
      BY <2>1, <2>3, <2>6
    <2> QED BY <2>7 DEF StuckOnlyBehindWholePdu
  <1>2. ASSUME NEW size \in Sizes, PeerSends(size) PROVE StuckOnlyBehindWholePdu'
    <2>1. /\ rx' = rx /\ base' = base /\ length' = length
          /\ sizes' = [o \in DOMAIN sizes \cup {sentEnd} |->
                         IF o = sentEnd THEN size ELSE sizes[o]]
      BY <1>2 DEF PeerSends, receiveVars
    <2>2. sentEnd \in Nat /\ \A o \in DOMAIN sizes : o # sentEnd
      BY DEF IInv, TypeOK, PdusTile
    <2>3. ASSUME base \in DOMAIN sizes PROVE base \in DOMAIN sizes' /\ sizes'[base] = sizes[base]
      BY ONLY <2>1, <2>2, <2>3
    <2> QED BY <2>1, <2>3 DEF StuckOnlyBehindWholePdu
  <1>3. CASE RecvBytes \/ RecvEof \/ RecvFails
    BY <1>3
    DEF RecvBytes, RecvEof, RecvFails, incoming_request, StuckOnlyBehindWholePdu
  <1>4. CASE PeerCloses \/ UNCHANGED vars
    BY <1>4 DEF PeerCloses, receiveVars, peerVars, vars, StuckOnlyBehindWholePdu
  <1> QED BY <1>1, <1>2, <1>3, <1>4 DEF Next

\* With room for a PDU and a chunk, the receive thread blocks for good only behind a
\* PDU it could process.
THEOREM StuckBehindWholePdu ==
  ASSUME RoomForPduAndChunk
  PROVE  Spec => []StuckOnlyBehindWholePdu
  <1>1. Init => StuckOnlyBehindWholePdu
    BY DEF Init, StuckOnlyBehindWholePdu
  <1>2. IInv /\ StuckOnlyBehindWholePdu /\ [Next]_vars => StuckOnlyBehindWholePdu'
    BY StuckNext
  <1> QED BY <1>1, <1>2, Invariance, PTL DEF Spec

================================================================================
