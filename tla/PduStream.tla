------------------------------ MODULE PduStream -------------------------------
(***************************************************************************)
(* What the response path of a connection promises to its two users, the   *)
(* request handlers and the initiator: the bytes accepted from the         *)
(* handlers are put on the socket once each and in order, and the socket   *)
(* always stands at the end of a whole PDU.                                *)
(*                                                                         *)
(* Positions are offsets in the stream of all response bytes of the        *)
(* connection.                                                             *)
(***************************************************************************)
EXTENDS Integers

VARIABLES
  accepted,    \* end of the last PDU accepted from a handler
  ends,        \* ends of all the PDUs accepted, and 0
  delivered    \* end of the last PDU put on the socket

vars == <<accepted, ends, delivered>>

Init ==
  /\ accepted = 0
  /\ ends = {0}
  /\ delivered = 0

\* A handler hands over one more PDU, of any size.
Accept ==
  /\ accepted' \in Nat
  /\ accepted < accepted'
  /\ ends' = ends \cup {accepted'}
  /\ UNCHANGED delivered

\* The next PDU, whole, goes to the socket.
Deliver ==
  /\ delivered' \in ends
  /\ delivered < delivered'
  /\ \A e \in ends : e <= delivered \/ delivered' <= e
  /\ UNCHANGED <<accepted, ends>>

Next == Accept \/ Deliver

Spec == Init /\ [][Next]_vars

===============================================================================
