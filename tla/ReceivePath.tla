----------------------------- MODULE ReceivePath ------------------------------
(***************************************************************************)
(* The receive loop of a connection (main.c start_receiver) and what       *)
(* incoming_request does with the bytes: they are collected in             *)
(* receive_buffer, and each call processes at most one PDU of them.        *)
(*                                                                         *)
(* The receive buffer is used by the receive thread alone, so one turn of  *)
(* the loop is one step.  Its content is abstracted to offsets in the      *)
(* stream of the bytes the peer sends: base is the offset of data[0], and  *)
(* sizes maps the offset of each PDU to its length.  What a PDU does is in *)
(* IscsiSession; here a handler answers, or ends the connection.           *)
(***************************************************************************)
EXTENDS IscsiPdu, Sequences

CONSTANTS
  Sizes,        \* lengths of the PDUs the peer sends
  BufferSize,   \* ISCSI_BUFFER_SIZE
  ChunkSize,    \* BUFFER_SIZE of main.c, the most one recv() returns
  Depths,       \* how many PDUs a peer may send before it waits
  MaxPdus       \* bound: PDUs per behaviour

ASSUME SizesAssumption ==
  \A s \in Sizes : s \in Nat /\ s >= BASIC_HEADER_SEGMENT_LENGTH

ASSUME ReceiveAssumption ==
  BufferSize \in Nat /\ ChunkSize \in Nat \ {0} /\ Depths \subseteq Nat /\ MaxPdus \in Nat

VARIABLES
  depth,       \* how many PDUs this peer sends before it waits
  sizes,       \* stream offset of a PDU sent -> its length
  starts,      \* the offsets of the PDUs sent, in order
  sentEnd,     \* stream offset after the last byte sent
  peer,        \* "open", or "closed" after the last byte
  taken,       \* stream offset after the last byte received
  base,        \* stream offset of receive_buffer.data[0]
  length,      \* receive_buffer.length
  processed,   \* the offsets at which a PDU was processed, in order
  rx           \* the receive thread: in "recv", "stuck" or "ended"

peerVars == <<depth, sizes, starts, sentEnd, peer>>
receiveVars == <<taken, base, length, processed, rx>>
vars == <<peerVars, receiveVars>>

Init ==
  /\ depth \in Depths
  /\ sizes = [o \in {} |-> 0] /\ starts = <<>> /\ sentEnd = 0 /\ peer = "open"
  /\ taken = 0 /\ base = 0 /\ length = 0 /\ processed = <<>> /\ rx = "recv"

-------------------------------------------------------------------------------
\* The peer sends whole PDUs, at most depth of them ahead of the target.
PeerSends(size) ==
  /\ peer = "open"
  /\ Len(starts) < MaxPdus
  /\ Len(starts) - Len(processed) < depth
  /\ sizes' = [o \in DOMAIN sizes \cup {sentEnd} |->
                 IF o = sentEnd THEN size ELSE sizes[o]]
  /\ starts' = Append(starts, sentEnd)
  /\ sentEnd' = sentEnd + size
  /\ UNCHANGED <<depth, peer, receiveVars>>

PeerCloses ==
  /\ peer = "open"
  /\ peer' = "closed"
  /\ UNCHANGED <<depth, sizes, starts, sentEnd, receiveVars>>

-------------------------------------------------------------------------------
\* Mutant: room for one more header is held back.
FreeSpaceReservesHeader == BufferSize - length - BASIC_HEADER_SEGMENT_LENGTH

iscsi_buffer_free_space == BufferSize - length

\* Mutant: the header alone makes a PDU valid.
ValidWithHeader(declared, n) == BASIC_HEADER_SEGMENT_LENGTH <= n

\* Mutant: a PDU is taken when more than its length has arrived.
ValidWhenExceeded(declared, n) == max(declared, BASIC_HEADER_SEGMENT_LENGTH) < n

iscsi_pdu_valid(declared, n) == max(declared, BASIC_HEADER_SEGMENT_LENGTH) <= n

\* What iscsi_pdu_length reads at data[0]: the length of the PDU there; before a
\* header has arrived, or between PDUs, whatever the bytes say.
Declared(o) == IF o \in DOMAIN sizes THEN {sizes[o]} ELSE Sizes

\* Mutant: the flush removes everything received so far.
FlushesAll(n) ==
  \E d \in Declared(base) :
    \/ /\ iscsi_pdu_valid(d, length + n)
       /\ processed' = Append(processed, base)
       /\ base' = base + length + n
       /\ length' = 0
       /\ rx' \in {"recv", "ended"}
    \/ /\ ~iscsi_pdu_valid(d, length + n)
       /\ length' = length + n
       /\ UNCHANGED <<base, processed, rx>>

\* incoming_request with n more bytes: one PDU is processed and flushed, if one
\* is complete, whatever else is behind it.  SOCKET_TERMINATE ends the loop.
incoming_request(n) ==
  \E d \in Declared(base) :
    \/ /\ iscsi_pdu_valid(d, length + n)
       /\ processed' = Append(processed, base)
       /\ base' = base + d
       /\ length' = length + n - d
       /\ rx' \in {"recv", "ended"}
    \/ /\ ~iscsi_pdu_valid(d, length + n)
       /\ length' = length + n
       /\ UNCHANGED <<base, processed, rx>>

\* recv() returns the next n bytes.
RecvBytes ==
  /\ rx = "recv"
  /\ \E n \in 1 .. min(ChunkSize, sentEnd - taken) :
       /\ iscsi_buffer_free_space >= n
       /\ taken' = taken + n
       /\ incoming_request(n)
  /\ UNCHANGED peerVars

\* iscsi_buffer_receive asks for room in the buffer that only this thread could
\* empty, and sleeps and asks again for ever; BUFFER_FULL is never returned.
RecvWithoutRoom ==
  /\ rx = "recv"
  /\ \E n \in 1 .. min(ChunkSize, sentEnd - taken) :
       /\ iscsi_buffer_free_space < n
       /\ taken' = taken + n
  /\ rx' = "stuck"
  /\ UNCHANGED <<peerVars, base, length, processed>>

\* Mutant: without bytes there is nothing to do.
RecvEofIdles ==
  /\ rx = "recv"
  /\ peer = "closed" /\ taken = sentEnd
  /\ UNCHANGED vars

\* recv() returns 0 when the peer has closed: the loop goes on with no bytes.
RecvEof ==
  /\ rx = "recv"
  /\ peer = "closed" /\ taken = sentEnd
  /\ incoming_request(0)
  /\ UNCHANGED <<peerVars, taken>>

\* recv() returns -1, when the connection is reset or its descriptor was closed.
RecvFails ==
  /\ rx = "recv"
  /\ rx' = "ended"
  /\ UNCHANGED <<peerVars, taken, base, length, processed>>

Next ==
  \/ \E size \in Sizes : PeerSends(size)
  \/ PeerCloses
  \/ RecvBytes \/ RecvWithoutRoom \/ RecvEof \/ RecvFails

Spec == Init /\ [][Next]_vars

\* The receive thread runs: bytes that have arrived, or the end of the stream,
\* make recv() return.  The peer need not send anything.
FairSpec ==
  /\ Spec
  /\ WF_vars(RecvBytes \/ RecvWithoutRoom)
  /\ WF_vars(RecvEof)

-------------------------------------------------------------------------------
\* Every variable stays in its type; length counts bytes of the buffer.
TypeOK ==
  /\ depth \in Depths
  /\ sizes \in [DOMAIN sizes -> Sizes] /\ DOMAIN sizes \subseteq Nat
  /\ starts \in Seq(Nat) /\ sentEnd \in Nat /\ peer \in {"open", "closed"}
  /\ taken \in Nat /\ base \in Nat /\ length \in 0 .. BufferSize
  /\ processed \in Seq(Nat) /\ rx \in {"recv", "stuck", "ended"}

\* However recv() cuts the stream, the PDUs processed are the PDUs sent, from
\* the first one on, each once and in order, and none before its last byte.
ProcessedAsSent ==
  /\ Len(processed) <= Len(starts)
  /\ processed = SubSeq(starts, 1, Len(processed))
  /\ base <= taken

\* The receive thread blocks for good only behind a PDU it could process: the
\* buffer never fills up with less than one PDU.
StuckOnlyBehindWholePdu ==
  rx = "stuck" =>
    base \in DOMAIN sizes /\ iscsi_pdu_valid(sizes[base], length)

\* An initiator that waits for each answer gets it: every PDU is processed
\* without further bytes having to arrive.
EveryPduProcessed ==
  depth = 1 =>
    \A k \in 1 .. MaxPdus :
      (Len(starts) >= k) ~> (Len(processed) >= k \/ rx = "ended")

\* After the peer has closed, the PDUs it left behind are processed, one per
\* turn of the loop.
ClosedPeerIsDrained ==
  (peer = "closed") ~> (Len(processed) = Len(starts) \/ rx \in {"ended", "stuck"})

===============================================================================
