------------------------------- MODULE IscsiPdu -------------------------------
(***************************************************************************)
(* The arithmetic of PDU sizes (iscsi_pdu.h, iscsi_utility.c) and, for     *)
(* every kind of response the request handlers build, its layout:          *)
(*                                                                         *)
(*   size      the bytes the handler adds to response_buffer.length,       *)
(*   declared  the length iscsi_pdu_length() computes from the header the  *)
(*             handler wrote, which is what the transmit thread sends and  *)
(*             removes.                                                    *)
(*                                                                         *)
(* The two are computed in different places of the code; a layout where    *)
(* they agree is WellFramed.                                               *)
(***************************************************************************)
EXTENDS Integers

BASIC_HEADER_SEGMENT_LENGTH == 48

min(a, b) == IF a < b THEN a ELSE b
max(a, b) == IF a > b THEN a ELSE b

\* C division truncates; the callers only pass a >= 1 - b, where it is \div.
divide_round_up(a, b) == (a + b - 1) \div b

\* (length + 0x03) & ~0x03
iscsi_pdu_padded_length(n) == 4 * ((n + 3) \div 4)

iscsi_pdu_calc_size(ahs, data) ==
  iscsi_pdu_padded_length(BASIC_HEADER_SEGMENT_LENGTH + ahs + data)

-------------------------------------------------------------------------------
Layout(size, declared) == [size |-> size, declared |-> declared]

WellFramed(layout) == layout.size = layout.declared

\* A header-only response whose header was cleared: R2T, Logout response, the
\* "not logged in" Login response.
HeaderOnlyLayout ==
  Layout(BASIC_HEADER_SEGMENT_LENGTH, iscsi_pdu_calc_size(0, 0))

\* A response with a cleared header and a data segment padded to four bytes:
\* Data-In, Reject.
PaddedLayout(data) ==
  Layout(iscsi_pdu_padded_length(BASIC_HEADER_SEGMENT_LENGTH + data),
         iscsi_pdu_calc_size(0, data))

\* A padded response whose header starts as a copy of the request's, the final
\* Login response and the SendTargets response: its DataSegmentLength is set, but
\* TotalAHSLength stays that of the request ("ahs").
EchoedHeaderDataLayout(ahs, data) ==
  Layout(iscsi_pdu_padded_length(BASIC_HEADER_SEGMENT_LENGTH + data),
         iscsi_pdu_calc_size(ahs, data))

\* SCSI response: two bytes of sense length and the sense data.
ScsiResponseLayout(sense) ==
  Layout(iscsi_pdu_calc_size(0, 2 + sense), iscsi_pdu_calc_size(0, 2 + sense))

\* NOP-In: the ping data is copied back, total_length is not padded.  (The length
\* given to iscsi_pdu_pad0 is never positive: it adds nothing to the response.)
NopInLayout(data) ==
  Layout(BASIC_HEADER_SEGMENT_LENGTH + data, iscsi_pdu_calc_size(0, data))

\* A header-only response that starts as a copy of the request's header and
\* keeps both its lengths: partial Login, Login error, Text with bit 1 of byte 2
\* set.  "ahs" and "data" are the TotalAHSLength and the DataSegmentLength of the
\* request.
EchoedHeaderLayout(ahs, data) ==
  Layout(BASIC_HEADER_SEGMENT_LENGTH, iscsi_pdu_calc_size(ahs, data))

===============================================================================
