--------------------------- MODULE IscsiParameters ---------------------------
(***************************************************************************)
(* The operational parameters of a connection                              *)
(* (iscsi_connection_parameter.c): their defaults, what a login text makes *)
(* of them, and the text the target answers with.                          *)
(*                                                                         *)
(* A text is the sequence of its <<key, value>> pairs.  A number is        *)
(* written as the sequence of its decimal digits (its value is below 2^31, *)
(* the width of an int), a boolean as one of the strings "Yes", "No",      *)
(* "YES" and "NO": the parser knows the first spelling, the generator      *)
(* writes the last two.                                                    *)
(***************************************************************************)
EXTENDS IscsiPdu, Sequences

\* Keys whose value is bounded from above, from below, and boolean keys.
MinKeys == {"MaxRecvDataSegmentLength", "MaxConnections", "MaxBurstLength",
            "FirstBurstLength", "MaxOutstandingR2T"}
MaxKeys == {"DefaultTime2Wait", "DefaultTime2Retain"}
BoolKeys == {"InitialR2T", "ImmediateData", "DataPDUInOrder",
             "DataSequenceInOrder"}
Keys == MinKeys \cup MaxKeys \cup BoolKeys

\* ISCSI_CONNECTION_PARAMETER_BUFFER_SIZE
PARAMETER_BUFFER_SIZE == 1048576

set_default_parameter ==
  [MaxRecvDataSegmentLength |-> PARAMETER_BUFFER_SIZE, MaxConnections |-> 1,
   MaxBurstLength |-> 8192, FirstBurstLength |-> 8192, MaxOutstandingR2T |-> 10,
   DefaultTime2Wait |-> 10, DefaultTime2Retain |-> 10,
   InitialR2T |-> TRUE, ImmediateData |-> TRUE,
   DataPDUInOrder |-> TRUE, DataSequenceInOrder |-> TRUE]

\* What the numbers declared by the initiator are compared with.
Bound(k) ==
  IF k = "MaxRecvDataSegmentLength" THEN PARAMETER_BUFFER_SIZE - 1000
                                    ELSE set_default_parameter[k]

\* The loop over the digits of s: val[i] is the number after i of them.
string_to_int(s) ==
  LET val[i \in 0 .. Len(s)] == IF i = 0 THEN 0 ELSE 10 * val[i - 1] + s[i]
  IN val[Len(s)]

Digits[n \in Nat] == IF n = 0 THEN <<>> ELSE Append(Digits[n \div 10], n % 10)

\* Zero is written apart: the loops write no digit for it, nor for a negative number.
int_to_string(n) == IF n = 0 THEN <<0>> ELSE Digits[max(n, 0)]

\* Mutant: a boolean is what was written, its default does not matter.
TakesBooleanAsWritten(k, value) ==
  CASE k \in MinKeys  -> min(string_to_int(value), Bound(k))
    [] k \in MaxKeys  -> max(string_to_int(value), Bound(k))
    [] OTHER -> value = "Yes"

\* The value that update_information stores for key k.
update_information(k, value) ==
  CASE k \in MinKeys  -> min(string_to_int(value), Bound(k))
    [] k \in MaxKeys  -> max(string_to_int(value), Bound(k))
    [] OTHER -> value = "Yes" \/ set_default_parameter[k]

\* A text as initiators write it: what stands for a number are digits.  (The code
\* reads any bytes as digits.)
IsText(text) ==
  /\ Len(text) \in Nat /\ DOMAIN text = 1 .. Len(text)
  /\ \A i \in DOMAIN text :
       text[i][1] \in MinKeys \cup MaxKeys => text[i][2] \in Seq(0 .. 9)

\* Positions of a text at which key k is given a value.
Occurrences(text, k) == {i \in DOMAIN text : text[i][1] = k}

NULL == "NULL"

\* The first value of a key.
iscsi_parameter_get(text, k) ==
  IF Occurrences(text, k) = {} THEN NULL
  ELSE text[CHOOSE i \in Occurrences(text, k) :
              \A j \in Occurrences(text, k) : i <= j][2]

\* The loop of iscsi_connection_parameter_create stores a value for every
\* occurrence of a key, over the one before: the last one stays.
iscsi_connection_parameter_create(text) ==
  [k \in Keys |->
     IF Occurrences(text, k) = {} THEN set_default_parameter[k]
     ELSE update_information(k,
            text[CHOOSE i \in Occurrences(text, k) :
                   \A j \in Occurrences(text, k) : j <= i][2])]

bool_to_string(b) == IF b THEN "YES" ELSE "NO"

\* The keys of the answer, in the order they are written.
OperationalKeys ==
  <<"MaxConnections", "InitialR2T", "ImmediateData", "MaxBurstLength",
    "FirstBurstLength", "DataPDUInOrder", "DataSequenceInOrder",
    "DefaultTime2Wait", "DefaultTime2Retain", "MaxOutstandingR2T">>

\* The text iscsi_connection_parameter_generate_operational_data writes.
OperationalText(parameter) ==
  [i \in DOMAIN OperationalKeys |->
     LET k == OperationalKeys[i]
     IN <<k, IF k \in BoolKeys THEN bool_to_string(parameter[k])
                               ELSE int_to_string(parameter[k])>>]

\* Each pair written is also read back by update_information.
iscsi_connection_parameter_generate_operational_data(parameter) ==
  LET text == OperationalText(parameter)
  IN [k \in Keys |->
        IF \E i \in DOMAIN text : text[i][1] = k
          THEN update_information(k, iscsi_parameter_get(text, k))
          ELSE parameter[k]]

TenTo[n \in Nat] == IF n = 0 THEN 1 ELSE 10 * TenTo[n - 1]

\* What the receiver of a text understands by one of its pairs: numerals are not
\* empty, have no needless zeros, and mean the number with these digits.
Numeral(value, n) ==
  /\ value # <<>> /\ (value[1] = 0 => Len(value) = 1)
  /\ n < TenTo[Len(value)]
  /\ \A i \in DOMAIN value : value[i] = (n \div TenTo[Len(value) - i]) % 10

Means(k, value, v) ==
  IF k \in BoolKeys THEN v = (value \in {"Yes", "YES"}) ELSE Numeral(value, v)

===============================================================================
