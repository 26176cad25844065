---------------------------- MODULE ResponseStream ----------------------------
(***************************************************************************)
(* The two threads of a connection and the response buffer between them.   *)
(*                                                                         *)
(* The receive thread runs the request handlers (main.c start_receiver,    *)
(* iscsi_connection.c incoming_request); each response a handler builds    *)
(* goes through iscsi_buffer_acquire_lock_for_length, is written in place  *)
(* and is published by iscsi_buffer_release_lock.  The transmit thread     *)
(* (main.c start_transmit) polls the buffer without the lock, sends the    *)
(* first PDU under the lock, releases it, and removes the PDU in           *)
(* iscsi_buffer_flush under the lock again.                                *)
(*                                                                         *)
(* A thread's program counter names the statement it executes next.  The   *)
(* content of the buffer is abstracted to stream offsets: base is the      *)
(* offset, in the stream of all response bytes, of data[0], and heads maps *)
(* the offset of the first byte of each response to its layout.            *)
(***************************************************************************)
EXTENDS IscsiPdu, FiniteSets

CONSTANTS
  Layouts,        \* layouts of the responses the handlers build
  BufferSize,     \* ISCSI_BUFFER_SIZE
  GarbageLengths, \* lengths iscsi_pdu_length may read off bytes that are no header
  MaxResponses    \* bound: responses per behaviour

\* Every response is built on a full header, and fits in the buffer: the
\* largest is a Data-In of 48 + 2^20 bytes, and ISCSI_BUFFER_SIZE is 2^22.
ASSUME LayoutsAssumption ==
  /\ BufferSize \in Nat
  /\ \A l \in Layouts :
       /\ l.size \in BASIC_HEADER_SEGMENT_LENGTH .. BufferSize
       /\ l.declared \in Nat
       /\ l.declared >= BASIC_HEADER_SEGMENT_LENGTH
       /\ l = Layout(l.size, l.declared)

\* iscsi_pdu_length adds unsigned fields to the length of the header.
ASSUME GarbageAssumption ==
  \A g \in GarbageLengths : g \in Nat /\ g >= BASIC_HEADER_SEGMENT_LENGTH

ASSUME BoundAssumption == MaxResponses \in Nat

VARIABLES
  length,      \* response_buffer.length
  lock,        \* value of the semaphore response_buffer.lock
  base,        \* stream offset of response_buffer.data[0]
  appended,    \* stream offset after the last response published
  heads,       \* stream offset of a response -> its layout
  wire,        \* stream offset after the last byte given to send()
  socket,      \* the descriptor socket_fd: "open" or "closed"
  rx,          \* receive thread: next statement
  building,    \* receive thread: the response being built
  tx,          \* transmit thread: next statement
  seen,        \* transmit thread: length read without the lock
  pdu_length   \* transmit thread: local variable length

rxVars == <<rx, building>>
txVars == <<tx, seen, pdu_length>>
bufferVars == <<length, base, appended, heads>>
vars == <<bufferVars, lock, wire, socket, rxVars, txVars>>

RxStates == {"idle", "wait", "check", "build", "closed"}
TxStates == {"poll", "peek", "lock", "send", "unlock", "assert",
             "relock", "shift", "ended", "aborted"}

\* iscsi_buffer_new; length is left to malloc, which returns zero pages for a
\* block of this size in a fresh process.
Init ==
  /\ length = 0 /\ lock = 1
  /\ base = 0 /\ appended = 0 /\ heads = [o \in {} |-> HeaderOnlyLayout]
  /\ wire = 0 /\ socket = "open"
  /\ rx = "idle" /\ building = HeaderOnlyLayout
  /\ tx = "poll" /\ seen = 0 /\ pdu_length = 0

-------------------------------------------------------------------------------
(***************************************************************************)
(* The receive thread: a handler builds and publishes one response.        *)
(***************************************************************************)
\* Mutant: the room is computed as if the header were not part of it.
FreeSpaceWithoutHeader == BufferSize - length + BASIC_HEADER_SEGMENT_LENGTH

FreeSpace == BufferSize - length

\* The handler of some request asks for room for its response.
RxRespond(l) ==
  /\ rx = "idle"
  /\ Cardinality(DOMAIN heads) < MaxResponses
  /\ rx' = "wait"
  /\ building' = l
  /\ UNCHANGED <<bufferVars, lock, wire, socket, txVars>>

\* sem_wait in iscsi_buffer_acquire_lock_for_length
RxAcquire ==
  /\ rx = "wait"
  /\ lock > 0
  /\ lock' = lock - 1
  /\ rx' = "check"
  /\ UNCHANGED <<bufferVars, wire, socket, building, txVars>>

\* Mutant: the semaphore is not posted before the retry.
RxNoSpaceKeepsLock ==
  /\ rx = "check"
  /\ FreeSpace < building.size
  /\ rx' = "wait"
  /\ UNCHANGED <<bufferVars, lock, wire, socket, building, txVars>>

\* Not enough room: post the semaphore, usleep(100), goto start.
RxNoSpace ==
  /\ rx = "check"
  /\ FreeSpace < building.size
  /\ lock' = lock + 1
  /\ rx' = "wait"
  /\ UNCHANGED <<bufferVars, wire, socket, building, txVars>>

\* Enough room: the handler gets data + length to write to, lock held.
RxSpace ==
  /\ rx = "check"
  /\ FreeSpace >= building.size
  /\ rx' = "build"
  /\ UNCHANGED <<bufferVars, lock, wire, socket, building, txVars>>

\* iscsi_buffer_release_lock(response, size)
RxPublish ==
  /\ rx = "build"
  /\ length' = length + building.size
  /\ heads' = [o \in DOMAIN heads \cup {appended} |->
                 IF o = appended THEN building ELSE heads[o]]
  /\ appended' = appended + building.size
  /\ lock' = lock + 1
  /\ rx' = "idle"
  /\ UNCHANGED <<base, wire, socket, building, txVars>>

\* SOCKET_TERMINATE, or recv() returned -1: the receive thread closes the
\* descriptor it shares with the transmit thread and ends.
RxClose ==
  /\ rx = "idle"
  /\ rx' = "closed"
  /\ socket' = "closed"
  /\ UNCHANGED <<bufferVars, lock, wire, building, txVars>>

-------------------------------------------------------------------------------
(***************************************************************************)
(* The transmit thread.                                                    *)
(***************************************************************************)
\* What iscsi_pdu_length can return for the bytes at stream offset o.
HeaderLengths(o) ==
  IF o \in DOMAIN heads THEN {heads[o].declared} ELSE GarbageLengths

\* Mutant: a header is taken for a PDU.
ValidIfHeaderPresent(declared, n) == BASIC_HEADER_SEGMENT_LENGTH <= n

\* Mutant: the last PDU of the buffer is never complete.
ValidIfMoreFollows(declared, n) == max(declared, BASIC_HEADER_SEGMENT_LENGTH) < n

iscsi_pdu_valid(declared, n) == max(declared, BASIC_HEADER_SEGMENT_LENGTH) <= n

\* The arguments of iscsi_pdu_valid are evaluated: length is read, unlocked.
TxPoll ==
  /\ tx = "poll"
  /\ seen' = length
  /\ tx' = "peek"
  /\ UNCHANGED <<bufferVars, lock, wire, socket, rxVars, pdu_length>>

\* Mutant: send() is called without the semaphore.
TxPeekSendsUnlocked ==
  /\ tx = "peek"
  /\ \E d \in HeaderLengths(base) :
       \/ /\ iscsi_pdu_valid(d, seen)
          /\ pdu_length' = d
          /\ tx' = "send"
       \/ /\ ~iscsi_pdu_valid(d, seen)
          /\ tx' = "poll"
          /\ UNCHANGED pdu_length
  /\ UNCHANGED <<bufferVars, lock, wire, socket, rxVars, seen>>

\* The header in data is read, unlocked: usleep(10000) unless it is a whole PDU.
TxPeek ==
  /\ tx = "peek"
  /\ \E d \in HeaderLengths(base) :
       \/ /\ iscsi_pdu_valid(d, seen)
          /\ pdu_length' = d
          /\ tx' = "lock"
       \/ /\ ~iscsi_pdu_valid(d, seen)
          /\ tx' = "poll"
          /\ UNCHANGED pdu_length
  /\ UNCHANGED <<bufferVars, lock, wire, socket, rxVars, seen>>

TxAcquire ==
  /\ tx = "lock"
  /\ lock > 0
  /\ lock' = lock - 1
  /\ tx' = "send"
  /\ UNCHANGED <<bufferVars, wire, socket, rxVars, seen, pdu_length>>

\* Mutant: only the header is sent.
TxSendsHeader ==
  /\ tx = "send"
  /\ socket = "open"
  /\ wire' = base + BASIC_HEADER_SEGMENT_LENGTH
  /\ tx' = "unlock"
  /\ UNCHANGED <<bufferVars, lock, socket, rxVars, seen, pdu_length>>

\* Mutant: everything seen in the buffer is sent.
TxSendsAllSeen ==
  /\ tx = "send"
  /\ socket = "open"
  /\ wire' = base + seen
  /\ tx' = "unlock"
  /\ UNCHANGED <<bufferVars, lock, socket, rxVars, seen, pdu_length>>

\* send() of the first pdu_length bytes of data
TxSend ==
  /\ tx = "send"
  /\ socket = "open"
  /\ wire' = base + pdu_length
  /\ tx' = "unlock"
  /\ UNCHANGED <<bufferVars, lock, socket, rxVars, seen, pdu_length>>

\* send() returned -1 (peer reset, or the receive thread closed the
\* descriptor): break, close, end -- without posting the semaphore.
TxSendError ==
  /\ tx = "send"
  /\ socket' = "closed"
  /\ tx' = "ended"
  /\ UNCHANGED <<bufferVars, lock, wire, rxVars, seen, pdu_length>>

TxRelease ==
  /\ tx = "unlock"
  /\ lock' = lock + 1
  /\ tx' = "assert"
  /\ UNCHANGED <<bufferVars, wire, socket, rxVars, seen, pdu_length>>

\* Mutant: iscsi_buffer_flush does not wait for the semaphore.
TxAssertSkipsLock ==
  /\ tx = "assert"
  /\ tx' = IF pdu_length <= length THEN "shift" ELSE "aborted"
  /\ UNCHANGED <<bufferVars, lock, wire, socket, rxVars, seen, pdu_length>>

\* assert (length <= buffer->length) in iscsi_buffer_flush, without the lock
TxAssert ==
  /\ tx = "assert"
  /\ tx' = IF pdu_length <= length THEN "relock" ELSE "aborted"
  /\ UNCHANGED <<bufferVars, lock, wire, socket, rxVars, seen, pdu_length>>

TxFlushAcquire ==
  /\ tx = "relock"
  /\ lock > 0
  /\ lock' = lock - 1
  /\ tx' = "shift"
  /\ UNCHANGED <<bufferVars, wire, socket, rxVars, seen, pdu_length>>

\* Mutant: everything seen is removed, not only the PDU sent.
TxFlushAllSeen ==
  /\ tx = "shift"
  /\ base' = base + seen
  /\ length' = length - seen
  /\ lock' = lock + 1
  /\ tx' = "poll"
  /\ UNCHANGED <<appended, heads, wire, socket, rxVars, seen, pdu_length>>

\* The remaining bytes are moved to the front; the loop runs under the lock.
TxFlush ==
  /\ tx = "shift"
  /\ base' = base + pdu_length
  /\ length' = length - pdu_length
  /\ lock' = lock + 1
  /\ tx' = "poll"
  /\ UNCHANGED <<appended, heads, wire, socket, rxVars, seen, pdu_length>>

-------------------------------------------------------------------------------
ReceiveThread ==
  \/ \E l \in Layouts : RxRespond(l)
  \/ RxAcquire \/ RxNoSpace \/ RxSpace \/ RxPublish \/ RxClose

TransmitThread ==
  \/ TxPoll \/ TxPeek \/ TxAcquire \/ TxSend \/ TxSendError
  \/ TxRelease \/ TxAssert \/ TxFlushAcquire \/ TxFlush

Next == ReceiveThread \/ TransmitThread

Spec == Init /\ [][Next]_vars

(***************************************************************************)
(* Scheduling.  A runnable thread runs, so each step is weakly fair.  The  *)
(* three sem_wait calls are strongly fair: whoever holds the semaphore     *)
(* posts it and then sleeps (usleep(100) or usleep(10000)) before it asks  *)
(* again, so a waiter is not overtaken for ever.  No fairness is assumed   *)
(* of RxRespond (requests need not come), RxClose or TxSendError.          *)
(***************************************************************************)
Fairness ==
  /\ WF_vars(RxNoSpace) /\ WF_vars(RxSpace) /\ WF_vars(RxPublish)
  /\ SF_vars(RxAcquire)
  /\ WF_vars(TxPoll) /\ WF_vars(TxPeek)
  /\ WF_vars(TxSend \/ TxSendError)
  /\ WF_vars(TxRelease) /\ WF_vars(TxAssert) /\ WF_vars(TxFlush)
  /\ SF_vars(TxAcquire) /\ SF_vars(TxFlushAcquire)

FairSpec == Spec /\ Fairness

(***************************************************************************)
(* Properties.                                                             *)
(***************************************************************************)
\* Every variable stays in its type; the semaphore is binary, and length is a
\* number of bytes of data.
TypeOK ==
  /\ length \in 0 .. BufferSize /\ lock \in {0, 1}
  /\ base \in Nat /\ appended \in Nat /\ wire \in Nat
  /\ DOMAIN heads \subseteq Nat
  /\ heads \in [DOMAIN heads -> Layouts]
  /\ socket \in {"open", "closed"}
  /\ rx \in RxStates /\ building \in Layouts \cup {HeaderOnlyLayout}
  /\ tx \in TxStates /\ seen \in Nat /\ pdu_length \in Nat

RxHoldsLock == rx \in {"check", "build"}
TxHoldsLock == tx \in {"send", "unlock", "shift", "ended"}

\* The semaphore is a mutex over every exit path of both threads: the two are
\* never in a critical section together, and the semaphore is at zero exactly
\* while one of them is in one, or after the transmit thread has left its own
\* through the failed send() of main.c, which never posts.
LockDiscipline ==
  /\ ~(RxHoldsLock /\ TxHoldsLock)
  /\ lock = IF RxHoldsLock \/ TxHoldsLock THEN 0 ELSE 1

\* The assert in iscsi_buffer_flush, evaluated without the lock and with a
\* length measured two critical sections earlier, never fails.
FlushAssertion == tx # "aborted"

\* The place a handler writes its response to lies inside the buffer for as
\* long as the handler writes, whatever the transmit thread does meanwhile.
HandlerWritesInside ==
  rx = "build" => length + building.size <= BufferSize

\* Bytes the transmit thread has sent and not yet removed from the buffer.
InFlight == IF tx \in {"unlock", "assert", "relock", "shift"} THEN pdu_length ELSE 0

\* No response byte is lost, repeated or reordered on the way from the buffer
\* to the socket: what was sent is what was removed plus the PDU now being
\* removed, it was all appended before, and the buffer holds the rest.
NothingLostOrRepeated ==
  /\ wire = base + InFlight
  /\ wire <= appended
  /\ length = appended - base

\* While every response appended so far is well framed, the socket stands
\* between two responses: the initiator can parse the stream.  A handler that
\* appends fewer bytes than its header declares is the only way to lose this.
FramedUnlessMisdeclared ==
  (\A o \in DOMAIN heads : WellFramed(heads[o]))
     => wire \in DOMAIN heads \cup {appended}

\* The abstract response path, seen through the buffer.
Stream == INSTANCE PduStream WITH
            accepted  <- appended,
            ends      <- {0} \cup {o + heads[o].size : o \in DOMAIN heads},
            delivered <- wire

\* When the handlers declare the lengths they append, the buffer and the two
\* threads implement the abstract stream of whole PDUs.
ImplementsPduStream == Stream!Spec

\* A handler waiting for room gets it, unless send() has failed.
HandlerGetsRoom ==
  (rx \in {"wait", "check"}) ~> (rx = "build" \/ tx = "ended")

\* Everything the handlers appended is sent, again and again, unless send()
\* has failed.
StreamDrains == []<>(wire = appended \/ tx = "ended")

===============================================================================
