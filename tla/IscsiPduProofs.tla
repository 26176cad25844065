--------------------------- MODULE IscsiPduProofs ---------------------------
(***************************************************************************)
(* Lemmas about the arithmetic of PDU sizes and the layouts of responses,  *)
(* for every length of data, and the induction on numbers that the other   *)
(* proofs need.                                                            *)
(***************************************************************************)
EXTENDS IscsiPdu, WellFoundedInduction, TLAPS

\* A nonempty set of natural numbers has a least element.  A property of all
\* numbers follows from it: the set of numbers without the property is empty.
LEMMA LeastNatural ==
  ASSUME NEW S \in SUBSET Nat, S # {}
  PROVE  \E x \in S : \A y \in S : x <= y
  <1> DEFINE Less == {r \in Nat \X Nat : r[1] < r[2]}
  <1>1. IsWellFoundedOn(Less, Nat)
    <2>1. Less = OpToRel(<, Nat)
      BY DEF OpToRel
    <2>2. IsWellFoundedOn(OpToRel(<, Nat), Nat)
      BY NatLessThanWellFounded
    <2> QED BY <2>1, <2>2
  <1>2. PICK x \in S : \A y \in S : <<y, x>> \notin Less
    <2> HIDE DEF Less
    <2> QED BY <1>1, WFMin
  <1>3. ASSUME NEW y \in S PROVE x <= y
    <2>1. <<y, x>> \notin Less /\ x \in Nat /\ y \in Nat
      BY <1>2
    <2>2. ~(y < x)
      BY <2>1
    <2> QED BY <2>1, <2>2
  <1> QED BY <1>3

\* A nonempty set of natural numbers below a bound has a greatest element.
LEMMA GreatestNatural ==
  ASSUME NEW S \in SUBSET Nat, S # {}, NEW b \in Nat, \A y \in S : y <= b
  PROVE  \E x \in S : \A y \in S : y <= x
  <1> DEFINE bounds == {n \in Nat : \A y \in S : y <= n}
  <1>1. PICK x \in bounds : \A n \in bounds : x <= n
    <2>1. b \in bounds
      OBVIOUS
    <2> HIDE DEF bounds
    <2>2. bounds # {} /\ bounds \in SUBSET Nat
      BY <2>1 DEF bounds
    <2> QED BY <2>2, LeastNatural
  <1>2. x \in S
    <2> SUFFICES ASSUME x \notin S PROVE FALSE
      OBVIOUS
    <2>1. PICK y \in S : y <= x
      BY <1>1
    <2>2. x > 0
      BY <1>1, <2>1
    <2>3. x - 1 \in bounds
      BY <1>1, <2>2
    <2> QED BY <1>1, <2>3
  <1> QED BY <1>1, <1>2

-------------------------------------------------------------------------------
\* A transfer of a bytes in pieces of b bytes takes divide_round_up(a, b) pieces:
\* every piece but the last is full, and the last one ends the transfer.
LEMMA RoundUp ==
  ASSUME NEW a \in Nat \ {0}, NEW b \in Nat \ {0}
  PROVE  LET n == divide_round_up(a, b)
         IN n \in Nat \ {0} /\ (n - 1) * b < a /\ a <= n * b
  <1> DEFINE q == (a + b - 1) \div b
  <1>1. /\ q \in Int /\ b * q <= a + b - 1 /\ a + b - 1 < b * q + b
    OBVIOUS
  <1>2. q > 0
    <2> SUFFICES ASSUME q <= 0 PROVE FALSE
      BY <1>1
    <2>1. b * q <= 0
      BY <1>1
    <2> QED BY <1>1, <2>1
  <1>3. (q - 1) * b = b * q - b /\ q * b = b * q
    BY <1>1
  <1> HIDE DEF q
  <1>4. (q - 1) * b < a /\ a <= q * b
    BY <1>1, <1>3
  <1> QED BY <1>1, <1>2, <1>4 DEF divide_round_up, q

\* The piece before piece i of a transfer ends where piece i starts.
LEMMA FullPieces ==
  ASSUME NEW n \in Nat, NEW b \in Nat, NEW i \in 1 .. n
  PROVE  /\ (i - 1) * b \in Nat
         /\ (i - 1) * b <= (n - 1) * b
         /\ i * b = (i - 1) * b + b
         /\ i < n => i * b <= (n - 1) * b
  OBVIOUS

-------------------------------------------------------------------------------
\* Padding rounds up to the next multiple of four.
LEMMA Padding ==
  ASSUME NEW n \in Nat
  PROVE  /\ iscsi_pdu_padded_length(n) \in n .. n + 3
         /\ iscsi_pdu_padded_length(n) % 4 = 0
         /\ iscsi_pdu_padded_length(n) = n <=> n % 4 = 0
  BY DEF iscsi_pdu_padded_length

\* R2T, Logout response and the Login response before a login: the header is all
\* they append and all they declare.
THEOREM HeaderOnlyFramed == WellFramed(HeaderOnlyLayout)
  BY DEF WellFramed, HeaderOnlyLayout, Layout, iscsi_pdu_calc_size,
         iscsi_pdu_padded_length, BASIC_HEADER_SEGMENT_LENGTH

\* Data-In, Reject and SCSI response declare what they append, however long their
\* data.
THEOREM PaddedFramed ==
  ASSUME NEW data \in Nat
  PROVE  WellFramed(PaddedLayout(data)) /\ WellFramed(ScsiResponseLayout(data))
  <1>1. BASIC_HEADER_SEGMENT_LENGTH + data = BASIC_HEADER_SEGMENT_LENGTH + 0 + data
    BY DEF BASIC_HEADER_SEGMENT_LENGTH
  <1>2. iscsi_pdu_padded_length(BASIC_HEADER_SEGMENT_LENGTH + data)
          = iscsi_pdu_calc_size(0, data)
    BY <1>1 DEF iscsi_pdu_calc_size
  <1> QED BY <1>2 DEF WellFramed, PaddedLayout, ScsiResponseLayout, Layout

\* A NOP-In declares what it appends exactly for ping data that needs no padding.
THEOREM NopInFramed ==
  ASSUME NEW data \in Nat
  PROVE  WellFramed(NopInLayout(data)) <=> data % 4 = 0
  BY DEF WellFramed, NopInLayout, Layout, iscsi_pdu_calc_size,
         iscsi_pdu_padded_length, BASIC_HEADER_SEGMENT_LENGTH

\* The final Login response and the SendTargets response declare what they append
\* exactly when the additional header segments that the request declared fit in
\* the padding of the response's data; none always do.
THEOREM EchoedHeaderDataFramed ==
  ASSUME NEW ahs \in Nat, NEW data \in Nat
  PROVE  WellFramed(EchoedHeaderDataLayout(ahs, data)) <=>
           ahs <= iscsi_pdu_padded_length(data) - data
  BY DEF WellFramed, EchoedHeaderDataLayout, Layout, iscsi_pdu_calc_size,
         iscsi_pdu_padded_length, BASIC_HEADER_SEGMENT_LENGTH

\* A response that keeps the lengths in the header of the request declares what it
\* appends exactly for a request of a header alone.
THEOREM EchoedHeaderFramed ==
  ASSUME NEW ahs \in Nat, NEW data \in Nat
  PROVE  WellFramed(EchoedHeaderLayout(ahs, data)) <=> ahs = 0 /\ data = 0
  BY DEF WellFramed, EchoedHeaderLayout, Layout, iscsi_pdu_calc_size,
         iscsi_pdu_padded_length, BASIC_HEADER_SEGMENT_LENGTH

===============================================================================
