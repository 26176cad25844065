----------------------------- MODULE KeyValueText ------------------------------
(***************************************************************************)
(* The two scanners that read a key-value text byte by byte                *)
(* (iscsi_connection_parameter.c): the loop of                             *)
(* iscsi_connection_parameter_create, which stores the values of the keys  *)
(* it knows, and then iscsi_parameter_get, which looks for one key.  A     *)
(* login runs them in this order.                                          *)
(*                                                                         *)
(* Bytes are symbols, so that all texts up to a length can be tried; a     *)
(* position in the text is counted from 1.  IscsiParameters describes the  *)
(* same functions on the pairs of a text: the properties say for which     *)
(* texts that is right.                                                    *)
(***************************************************************************)
EXTENDS Integers, SequencesExt

CONSTANTS
  Alphabet,    \* symbols that texts are made of
  MaxLength,   \* bound: symbols of a text
  KnownKeys,   \* keys of update_information
  Sought       \* the key that iscsi_parameter_get is asked for

EQUAL == "="
COMMA == ","
NUL == "NUL"

ASSUME TextAssumption ==
  /\ {EQUAL, COMMA, NUL} \subseteq Alphabet /\ MaxLength \in Nat
  /\ KnownKeys \cup {Sought} \subseteq Seq(Alphabet \ {EQUAL, COMMA, NUL}) \ {<<>>}

VARIABLES
  text,         \* the data segment
  pc,           \* "create", "get" or "done"
  i,            \* position of the loop
  key,          \* create: where the key of the current pair starts
  stored,       \* create: known key -> where its value starts, 0 for none
  symbol,       \* get: kind of the last byte
  count,        \* get: bytes of Sought matched
  still_valid,  \* get: no byte of the current key differed
  result        \* get: where the value starts, 0 for NULL

createVars == <<key, stored>>
getVars == <<symbol, count, still_valid, result>>
vars == <<text, pc, i, createVars, getVars>>

Init ==
  /\ text \in BoundedSeq(Alphabet, MaxLength)
  /\ pc = "create" /\ i = 2 /\ key = 1
  /\ stored = [k \in KnownKeys |-> 0]
  /\ symbol = "KEY" /\ count = 0 /\ still_valid = TRUE /\ result = 0

-------------------------------------------------------------------------------
\* key_equal: k is what the bytes from position start to before end begin with.
key_equal(k, start, end) ==
  start + Len(k) <= end /\ SubSeq(text, start, start + Len(k) - 1) = k

\* Mutant: the first byte of a value is skipped.
ValueBehind(n) == n + 2

\* data + i+1: where the value behind the equal sign at n starts.
Value(n) == n + 1

\* Mutant: the first value of a key is kept.
CreateKeepsFirst ==
  /\ pc = "create" /\ i <= Len(text)
  /\ key' = IF text[i - 1] = NUL THEN i ELSE key
  /\ stored' = [k \in KnownKeys |->
                  IF text[i] = EQUAL /\ key_equal(k, key', i) /\ stored[k] = 0
                    THEN Value(i) ELSE stored[k]]
  /\ i' = i + 1
  /\ UNCHANGED <<text, pc, getVars>>

\* One turn of the loop of iscsi_connection_parameter_create.  For as long as
\* update_information runs, the byte at i is zero and ends the key.
CreateTurn ==
  /\ pc = "create" /\ i <= Len(text)
  /\ key' = IF text[i - 1] = NUL THEN i ELSE key
  /\ stored' = [k \in KnownKeys |->
                  IF text[i] = EQUAL /\ key_equal(k, key', i) THEN Value(i)
                                                              ELSE stored[k]]
  /\ i' = i + 1
  /\ UNCHANGED <<text, pc, getVars>>

CreateEnds ==
  /\ pc = "create" /\ i > Len(text)
  /\ pc' = "get" /\ i' = 1
  /\ UNCHANGED <<text, createVars, getVars>>

-------------------------------------------------------------------------------
\* Mutant: only a comma separates.
NextKeyCommaOnly(s, b) ==
  CASE b = EQUAL -> "EQUAL"
    [] b = COMMA -> "SEPARATOR"
    [] OTHER -> IF s = "EQUAL" THEN "VALUE" ELSE IF s = "SEPARATOR" THEN "KEY" ELSE s

next_key(s, b) ==
  CASE b = EQUAL -> "EQUAL"
    [] b \in {COMMA, NUL} -> "SEPARATOR"
    [] OTHER -> IF s = "EQUAL" THEN "VALUE" ELSE IF s = "SEPARATOR" THEN "KEY" ELSE s

\* key[n] of iscsi_parameter_get: the string ends with a zero byte.
SoughtByte(n) == IF n < Len(Sought) THEN Sought[n + 1] ELSE NUL

\* Mutant: a new key does not start with a clean slate.
GetTurnKeepsValid ==
  /\ pc = "get" /\ i <= Len(text)
  /\ symbol' = next_key(symbol, text[i])
  /\ \/ /\ symbol' = "EQUAL" /\ still_valid
        /\ result' = Value(i) /\ pc' = "done"
        /\ UNCHANGED <<i, count, still_valid>>
     \/ /\ ~(symbol' = "EQUAL" /\ still_valid)
        /\ i' = i + 1
        /\ still_valid' = (still_valid
                             /\ (symbol' = "KEY" => text[i] = SoughtByte(count)))
        /\ count' = CASE symbol' = "SEPARATOR" -> 0
                      [] symbol' = "KEY" /\ text[i] = SoughtByte(count) -> count + 1
                      [] OTHER -> count
        /\ UNCHANGED <<pc, result>>
  /\ UNCHANGED <<text, createVars>>

\* One turn of the loop of iscsi_parameter_get: it returns at an equal sign
\* when no byte of the key before it differed from Sought.
GetTurn ==
  /\ pc = "get" /\ i <= Len(text)
  /\ symbol' = next_key(symbol, text[i])
  /\ \/ /\ symbol' = "EQUAL" /\ still_valid
        /\ result' = Value(i) /\ pc' = "done"
        /\ UNCHANGED <<i, count, still_valid>>
     \/ /\ ~(symbol' = "EQUAL" /\ still_valid)
        /\ i' = i + 1
        /\ still_valid' = CASE symbol' = "SEPARATOR" -> TRUE
                            [] symbol' = "KEY" /\ text[i] # SoughtByte(count) -> FALSE
                            [] OTHER -> still_valid
        /\ count' = CASE symbol' = "SEPARATOR" -> 0
                      [] symbol' = "KEY" /\ text[i] = SoughtByte(count) -> count + 1
                      [] OTHER -> count
        /\ UNCHANGED <<pc, result>>
  /\ UNCHANGED <<text, createVars>>

GetEnds ==
  /\ pc = "get" /\ i > Len(text)
  /\ pc' = "done"
  /\ UNCHANGED <<text, i, createVars, getVars>>

Next == CreateTurn \/ CreateEnds \/ GetTurn \/ GetEnds

Spec == Init /\ [][Next]_vars

-------------------------------------------------------------------------------
(***************************************************************************)
(* What a text means: its strings end in NUL, and each is a key, an equal  *)
(* sign and a value.  A string and its value are known by where they       *)
(* start.                                                                  *)
(***************************************************************************)
Starts == {1} \cup {p + 1 : p \in {q \in DOMAIN text : text[q] = NUL /\ q < Len(text)}}
Ends(s) == Min({p \in DOMAIN text : p >= s /\ text[p] = NUL})
Equals(s) == {p \in s .. Ends(s) : text[p] = EQUAL}
EqualSign(s) == Min(Equals(s))
KeyAt(s) == SubSeq(text, s, EqualSign(s) - 1)
ValueAt(s) == EqualSign(s) + 1

\* The strings that give key k a value.
Given(k) == {s \in Starts : KeyAt(s) = k}

\* No key is confused with another by its first bytes.
Distinct(k, l) == (IsPrefix(k, l) \/ IsPrefix(l, k)) => k = l

\* Every string is terminated and has one equal sign, with a key before it that
\* holds no comma and is not a prefix of a key of the program, nor the reverse.
Regular ==
  /\ text # <<>> /\ Last(text) = NUL
  /\ \A s \in Starts :
       /\ Cardinality(Equals(s)) = 1
       /\ COMMA \notin ToSet(KeyAt(s))
       /\ \A k \in KnownKeys \cup {Sought} : Distinct(k, KeyAt(s))

\* Every variable stays in its type: the loops and their results stay inside the
\* text, or one behind it.
TypeOK ==
  /\ text \in Seq(Alphabet) /\ pc \in {"create", "get", "done"}
  /\ i \in 1 .. MaxLength + 2 /\ key \in 1 .. MaxLength + 1
  /\ stored \in [KnownKeys -> 0 .. MaxLength + 1]
  /\ symbol \in {"EQUAL", "KEY", "SEPARATOR", "VALUE"}
  /\ count \in Nat /\ still_valid \in BOOLEAN
  /\ result \in 0 .. MaxLength + 1

\* On regular texts iscsi_parameter_get finds the first value of the key, or
\* none when the key does not occur: commas in values, other keys before it and
\* keys that start like it do not lead the scanner astray.
GetFindsFirst ==
  pc = "done" /\ Regular =>
    result = IF Given(Sought) = {} THEN 0 ELSE ValueAt(Min(Given(Sought)))

\* On regular texts the loop of iscsi_connection_parameter_create leaves the
\* last value of each key that it knows.
CreateStoresLast ==
  pc # "create" /\ Regular =>
    \A k \in KnownKeys :
      stored[k] = IF Given(k) = {} THEN 0 ELSE ValueAt(Max(Given(k)))

\* Whatever the text, well formed or not, iscsi_parameter_get compares its bytes
\* with bytes of the key or the zero byte that ends it, never behind that.
KeyNotOverrun == count <= Len(Sought)

===============================================================================
