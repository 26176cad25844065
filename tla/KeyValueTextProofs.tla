--------------------------- MODULE KeyValueTextProofs --------------------------
(***************************************************************************)
(* Theorems about KeyValueText, for texts of every length over every       *)
(* alphabet, and all keys: the scanners stay inside the text and the key,  *)
(* and what they find in a regular text is what it means.                  *)
(***************************************************************************)
EXTENDS KeyValueText, IscsiPduProofs, FiniteSetTheorems, TLAPS

IInv == TypeOK /\ Len(text) <= MaxLength /\ KeyNotOverrun

\* A text of the instance is a sequence of at most MaxLength symbols.
LEMMA BoundedText ==
  ASSUME NEW t \in BoundedSeq(Alphabet, MaxLength)
  PROVE  t \in Seq(Alphabet) /\ Len(t) <= MaxLength
  <1>1. PICK m \in 0 .. MaxLength : t \in [1 .. m -> Alphabet]
    BY DEF BoundedSeq, SeqOf
  <1>2. m \in Nat /\ m <= MaxLength
    BY <1>1, TextAssumption
  <1>3. t \in Seq(Alphabet) /\ Len(t) = m
    BY <1>1, <1>2
  <1> QED BY <1>2, <1>3

\* The scanners start with nothing matched.
LEMMA InitEstablishes == Init => IInv
  <1> SUFFICES ASSUME Init PROVE IInv
    OBVIOUS
  <1>1. text \in Seq(Alphabet) /\ Len(text) <= MaxLength
    BY BoundedText DEF Init
  <1>2. Len(Sought) \in Nat
    BY TextAssumption
  <1> QED BY <1>1, <1>2, TextAssumption DEF Init, IInv, TypeOK, KeyNotOverrun

\* A turn of the loop of iscsi_parameter_get that goes on.
Continues ==
  /\ pc = "get" /\ i <= Len(text) /\ i' = i + 1
  /\ symbol' = next_key(symbol, text[i])
  /\ still_valid' \in BOOLEAN
  /\ \/ count' \in {0, count}
     \/ symbol' = "KEY" /\ text[i] = SoughtByte(count) /\ count' = count + 1
  /\ UNCHANGED <<text, pc, key, stored, result>>

\* One that returns.
Finds ==
  /\ pc = "get" /\ i <= Len(text) /\ i' = i
  /\ symbol' = "EQUAL" /\ result' = Value(i) /\ pc' = "done"
  /\ UNCHANGED <<text, key, stored, count, still_valid>>

\* A turn goes on or returns.
LEMMA GetTurns ==
  ASSUME IInv, GetTurn
  PROVE  Continues \/ Finds
  <1>1. /\ pc = "get" /\ i <= Len(text) /\ symbol' = next_key(symbol, text[i])
        /\ UNCHANGED <<text, key, stored>>
    BY DEF GetTurn, createVars
  <1>2. CASE symbol' = "EQUAL" /\ still_valid
    BY <1>1, <1>2 DEF GetTurn, Finds
  <1>3. CASE ~(symbol' = "EQUAL" /\ still_valid)
    <2>1. i' = i + 1 /\ UNCHANGED <<pc, result>>
      BY <1>3 DEF GetTurn
    <2>2. still_valid \in BOOLEAN
      BY DEF IInv, TypeOK
    <2>3. still_valid' \in BOOLEAN
      BY <1>3, <2>2 DEF GetTurn
    <2>4. count' = CASE symbol' = "SEPARATOR" -> 0
                     [] symbol' = "KEY" /\ text[i] = SoughtByte(count) -> count + 1
                     [] OTHER -> count
      BY <1>3 DEF GetTurn
    <2>5. CASE symbol' = "SEPARATOR"
      BY <1>1, <2>1, <2>3, <2>4, <2>5 DEF Continues
    <2>6. CASE symbol' = "KEY" /\ text[i] = SoughtByte(count)
      BY <1>1, <2>1, <2>3, <2>4, <2>6 DEF Continues
    <2>7. CASE symbol' # "SEPARATOR" /\ ~(symbol' = "KEY" /\ text[i] = SoughtByte(count))
      BY <1>1, <2>1, <2>3, <2>4, <2>7 DEF Continues
    <2> QED BY <2>5, <2>6, <2>7
  <1> QED BY <1>2, <1>3

\* The zero byte that ends the key matches no byte that next_key takes for a part of
\* a key: it is a separator.
LEMMA MatchesInsideKey ==
  ASSUME IInv, Continues
  PROVE  count' \in Nat /\ count' <= Len(Sought)
  <1>1. count \in Nat /\ count <= Len(Sought) /\ Len(Sought) \in Nat
    BY TextAssumption DEF IInv, TypeOK, KeyNotOverrun
  <1>2. CASE symbol' = "KEY" /\ text[i] = SoughtByte(count) /\ count' = count + 1
    <2>1. text[i] # NUL
      BY <1>2 DEF Continues, next_key, EQUAL, COMMA, NUL
    <2>2. count < Len(Sought)
      BY <1>2, <2>1 DEF SoughtByte
    <2> QED BY <1>1, <1>2, <2>2
  <1>3. CASE count' \in {0, count}
    BY <1>1, <1>3
  <1> QED BY <1>2, <1>3 DEF Continues

\* Every step keeps the invariant.
LEMMA NextKeeps == IInv /\ [Next]_vars => IInv'
  <1> SUFFICES ASSUME IInv, [Next]_vars PROVE IInv'
    OBVIOUS
  <1>1. MaxLength \in Nat /\ Len(text) \in Nat /\ Len(text) <= MaxLength
    BY TextAssumption DEF IInv, TypeOK
  <1>2. CASE CreateTurn
    <2>1. i \in 1 .. MaxLength /\ i' = i + 1 /\ Value(i) \in 0 .. MaxLength + 1
      BY <1>1, <1>2 DEF CreateTurn, IInv, TypeOK, Value
    <2>2. key' \in 1 .. MaxLength + 1
      BY <1>1, <1>2, <2>1 DEF CreateTurn, IInv, TypeOK
    <2>3. stored' \in [KnownKeys -> 0 .. MaxLength + 1]
      BY <1>2, <2>1 DEF CreateTurn, IInv, TypeOK
    <2> QED BY <1>1, <1>2, <2>1, <2>2, <2>3
      DEF CreateTurn, IInv, TypeOK, KeyNotOverrun, getVars
  <1>3. CASE CreateEnds \/ GetEnds \/ UNCHANGED vars
    BY <1>1, <1>3
    DEF CreateEnds, GetEnds, vars, createVars, getVars, IInv, TypeOK, KeyNotOverrun
  <1>4. CASE GetTurn
    <2>1. CASE Continues
      <3>1. i \in 1 .. MaxLength /\ i' \in 1 .. MaxLength + 1
        BY <1>1, <2>1 DEF Continues, IInv, TypeOK
      <3>2. symbol' \in {"EQUAL", "KEY", "SEPARATOR", "VALUE"}
        BY <2>1 DEF Continues, next_key, IInv, TypeOK
      <3> QED BY <1>1, <2>1, <3>1, <3>2, MatchesInsideKey
        DEF Continues, IInv, TypeOK, KeyNotOverrun
    <2>2. CASE Finds
      BY <1>1, <2>2 DEF Finds, Value, IInv, TypeOK, KeyNotOverrun
    <2> QED BY <1>4, <2>1, <2>2, GetTurns
  <1> QED BY <1>2, <1>3, <1>4 DEF Next

\* IInv is an invariant.
THEOREM Invariance == Spec => []IInv
  BY InitEstablishes, NextKeeps, PTL DEF Spec

\* The loops and what they find stay inside the text, or one behind it.
THEOREM TypeCorrectness == Spec => []TypeOK
  <1>1. IInv => TypeOK
    BY DEF IInv
  <1> QED BY <1>1, Invariance, PTL

\* iscsi_parameter_get never compares with a byte behind the key it looks for,
\* whatever bytes the text is made of.
THEOREM InsideKey == Spec => []KeyNotOverrun
  <1>1. IInv => KeyNotOverrun
    BY DEF IInv
  <1> QED BY <1>1, Invariance, PTL

-------------------------------------------------------------------------------
(***************************************************************************)
(* What the scanners find in a regular text.                               *)
(***************************************************************************)
LEMMA MinIs ==
  ASSUME NEW S \in SUBSET Int, NEW x \in S, \A y \in S : x <= y
  PROVE  Min(S) = x
  <1>1. \A y \in S : (\A z \in S : y <= z) => y = x
    OBVIOUS
  <1> QED BY <1>1 DEF Min

LEMMA MaxIs ==
  ASSUME NEW S \in SUBSET Int, NEW x \in S, \A y \in S : y <= x
  PROVE  Max(S) = x
  <1>1. \A y \in S : (\A z \in S : y >= z) => y = x
    OBVIOUS
  <1> QED BY <1>1 DEF Max

\* Where the strings of a text start.
LEMMA StartsInside ==
  ASSUME text \in Seq(Alphabet), Regular
  PROVE  /\ Len(text) \in Nat \ {0} /\ text[Len(text)] = NUL
         /\ 1 \in Starts /\ Starts \subseteq 1 .. Len(text)
         /\ \A n \in 1 .. Len(text) - 1 : text[n] = NUL => n + 1 \in Starts
         /\ \A s \in Starts : s # 1 => text[s - 1] = NUL
  <1>1. Len(text) \in Nat /\ DOMAIN text = 1 .. Len(text) /\ text # <<>>
    BY DEF Regular
  <1>2. Len(text) # 0
    BY <1>1
  <1>3. text[Len(text)] = NUL
    BY DEF Regular, Last
  <1> QED BY <1>1, <1>2, <1>3 DEF Starts

\* A string is a key, an equal sign, a value and the zero byte that ends it.
IsString(s) ==
  /\ s \in Nat \ {0} /\ EqualSign(s) \in Nat /\ Ends(s) \in Nat
  /\ s <= EqualSign(s) /\ EqualSign(s) < Ends(s) /\ Ends(s) <= Len(text)
  /\ text[EqualSign(s)] = EQUAL /\ text[Ends(s)] = NUL
  /\ \A p \in s .. Ends(s) : (text[p] = EQUAL <=> p = EqualSign(s))
                               /\ (text[p] = NUL <=> p = Ends(s))

\* Every string of a regular text is one.
LEMMA Strings ==
  ASSUME text \in Seq(Alphabet), Regular, NEW s \in Starts
  PROVE  IsString(s)
  <1> DEFINE zeros == {p \in DOMAIN text : p >= s /\ text[p] = NUL}
             z == Ends(s)
             e == EqualSign(s)
  <1>1. /\ Len(text) \in Nat \ {0} /\ text[Len(text)] = NUL /\ s \in 1 .. Len(text)
        /\ DOMAIN text = 1 .. Len(text)
    BY StartsInside
  <1>2. z \in zeros /\ \A p \in zeros : z <= p
    <2>1. Len(text) \in zeros /\ zeros \subseteq Nat
      BY <1>1
    <2> HIDE DEF zeros
    <2>2. PICK x \in zeros : \A p \in zeros : x <= p
      BY <2>1, LeastNatural
    <2>3. Min(zeros) = x
      BY <2>1, <2>2, MinIs
    <2> QED BY <2>2, <2>3 DEF Ends, zeros
  <1>3. z \in s .. Len(text) /\ text[z] = NUL
    BY <1>1, <1>2
  <1> HIDE DEF z
  <1>4. \E x : Equals(s) = {x}
    <2>1. IsFiniteSet(s .. z) /\ Equals(s) \in SUBSET (s .. z)
      BY <1>1, <1>3, FS_Interval DEF Equals, z
    <2>2. IsFiniteSet(Equals(s))
      BY <2>1, FS_Subset
    <2>3. Cardinality(Equals(s)) = 1
      BY DEF Regular
    <2> QED BY <2>2, <2>3, FS_Singleton
  <1>5. PICK x : Equals(s) = {x}
    BY <1>4
  <1>6. x \in s .. z /\ text[x] = EQUAL
    BY <1>5 DEF Equals, z
  <1>7. e = x
    <2>1. x \in Int
      BY <1>1, <1>3, <1>6
    <2>2. {x} \in SUBSET Int /\ x \in {x} /\ \A y \in {x} : x <= y
      BY <2>1
    <2>3. Min({x}) = x
      BY <2>2, MinIs
    <2> QED BY <1>5, <2>3 DEF EqualSign
  <1>8. x # z
    BY <1>3, <1>6 DEF EQUAL, NUL
  <1>9. \A p \in s .. z : text[p] = EQUAL <=> p = x
    BY <1>5, <1>6 DEF Equals, z
  <1>10. \A p \in s .. z : text[p] = NUL <=> p = z
    <2> SUFFICES ASSUME NEW p \in s .. z, text[p] = NUL PROVE p = z
      BY <1>3
    <2>1. p \in zeros
      BY <1>1, <1>3
    <2> QED BY <1>2, <1>3, <2>1
  <1> QED BY <1>1, <1>3, <1>6, <1>7, <1>8, <1>9, <1>10 DEF IsString, z

\* A string ends before the next one starts.
LEMMA StringsApart ==
  ASSUME text \in Seq(Alphabet), Regular, NEW s \in Starts, NEW t \in Starts, s < t
  PROVE  Ends(s) < t
  <1>1. t \in 1 .. Len(text) /\ s \in 1 .. Len(text) /\ Len(text) \in Nat
    BY StartsInside
  <1>2. t - 1 \in 1 .. Len(text) /\ s <= t - 1 /\ text[t - 1] = NUL
    BY <1>1, StartsInside
  <1>3. IsString(s)
    BY Strings
  <1>4. t - 1 <= Ends(s) => t - 1 = Ends(s)
    BY <1>2, <1>3, <1>1 DEF IsString
  <1> QED BY <1>1, <1>3, <1>4 DEF IsString

\* A position is inside one string only.
LEMMA OneString ==
  ASSUME text \in Seq(Alphabet), Regular, NEW s \in Starts, NEW t \in Starts,
         NEW n \in Nat, s <= n, n <= Ends(s), t <= n, n <= Ends(t)
  PROVE  s = t
  <1>1. s \in Nat /\ t \in Nat /\ Ends(s) \in Nat /\ Ends(t) \in Nat
    BY Strings DEF IsString
  <1> QED BY <1>1, StringsApart

\* The bytes of a key, which are letters.
LEMMA KeyBytes ==
  ASSUME text \in Seq(Alphabet), Regular, NEW s \in Starts
  PROVE  /\ KeyAt(s) \in Seq(Alphabet) /\ Len(KeyAt(s)) = EqualSign(s) - s
         /\ \A n \in 1 .. EqualSign(s) - s : KeyAt(s)[n] = text[s + n - 1]
         /\ \A n \in s .. EqualSign(s) - 1 : text[n] \notin {EQUAL, COMMA, NUL}
  <1>1. IsString(s)
    BY Strings
  <1>2. /\ KeyAt(s) \in Seq(Alphabet) /\ Len(KeyAt(s)) = EqualSign(s) - s
        /\ \A n \in 1 .. EqualSign(s) - s : KeyAt(s)[n] = text[s + n - 1]
    BY <1>1 DEF IsString, KeyAt
  <1>3. ASSUME NEW n \in s .. EqualSign(s) - 1
        PROVE  text[n] \notin {EQUAL, COMMA, NUL}
    <2>1. n - s + 1 \in 1 .. Len(KeyAt(s)) /\ KeyAt(s)[n - s + 1] = text[n]
      BY <1>1, <1>2 DEF IsString
    <2>2. text[n] \in ToSet(KeyAt(s))
      BY <1>2, <2>1 DEF ToSet
    <2>3. text[n] # COMMA
      BY <2>2 DEF Regular
    <2> QED BY <1>1, <2>3 DEF IsString
  <1> QED BY <1>2, <1>3

\* A key that begins like a key of the program is that key.
LEMMA WholeKey ==
  ASSUME text \in Seq(Alphabet), Regular, NEW s \in Starts,
         NEW k \in KnownKeys \cup {Sought}
  PROVE  /\ k \in Seq(Alphabet) /\ k # <<>>
         /\ (Len(k) <= EqualSign(s) - s
               /\ \A n \in 1 .. Len(k) : k[n] = text[s + n - 1]) => KeyAt(s) = k
         /\ (EqualSign(s) - s <= Len(k)
               /\ \A n \in 1 .. EqualSign(s) - s : k[n] = text[s + n - 1]) => KeyAt(s) = k
  <1>1. k \in Seq(Alphabet) /\ k # <<>>
    <2>1. k \in Seq(Alphabet \ {EQUAL, COMMA, NUL}) /\ k # <<>>
      BY TextAssumption
    <2> QED BY <2>1
  <1> DEFINE key_at == KeyAt(s)
             m == EqualSign(s) - s
  <1>2. /\ key_at \in Seq(Alphabet) /\ Len(key_at) = m
        /\ \A n \in 1 .. m : key_at[n] = text[s + n - 1]
    BY KeyBytes
  <1>3. IsPrefix(k, key_at) \/ IsPrefix(key_at, k) => k = key_at
    BY DEF Regular, Distinct
  <1> HIDE DEF key_at, m
  <1>4. m \in Nat /\ Len(k) \in Nat
    BY <1>1, <1>2
  <1>5. ASSUME Len(k) <= m, \A n \in 1 .. Len(k) : k[n] = text[s + n - 1]
        PROVE  k = key_at
    <2>1. ASSUME NEW n \in 1 .. Len(k) PROVE k[n] = key_at[n]
      <3>1. n \in 1 .. m
        BY <1>4, <1>5
      <3> QED BY <1>2, <1>5, <3>1
    <2>2. SubSeq(k, 1, Len(k)) = SubSeq(key_at, 1, Len(k))
      BY <1>1, <1>2, <1>4, <1>5, <2>1
    <2> QED BY <1>2, <1>3, <1>5, <2>2 DEF IsPrefix
  <1>6. ASSUME m <= Len(k), \A n \in 1 .. m : k[n] = text[s + n - 1]
        PROVE  k = key_at
    <2>1. \A n \in 1 .. m : k[n] = key_at[n]
      BY <1>2, <1>6
    <2>2. SubSeq(key_at, 1, Len(key_at)) = SubSeq(k, 1, Len(key_at))
      BY <1>1, <1>2, <1>4, <1>6, <2>1
    <2> QED BY <1>2, <1>3, <1>6, <2>2 DEF IsPrefix
  <1> QED BY <1>1, <1>5, <1>6 DEF key_at, m

-------------------------------------------------------------------------------
(***************************************************************************)
(* The loop of iscsi_connection_parameter_create.                          *)
(***************************************************************************)
\* v is where the last value starts that the text up to position n gives key k.
LastUpTo(k, v, n) ==
  LET found == {s \in Given(k) : EqualSign(s) <= n}
  IN \/ found = {} /\ v = 0
     \/ \E s \in found : v = ValueAt(s) /\ \A t \in found : t <= s

\* key is the start of the string that holds the last byte read, and of what has
\* been read the last values are stored.
CreateFollows ==
  /\ pc = "create" =>
       /\ i \in 2 .. Len(text) + 1
       /\ key \in Starts /\ key <= i - 1 /\ i - 1 <= Ends(key)
       /\ \A k \in KnownKeys : LastUpTo(k, stored[k], i - 1)
  /\ pc # "create" =>
       \A k \in KnownKeys : LastUpTo(k, stored[k], Len(text))

\* key_equal says whether the key of a string is k.
LEMMA KeyEqual ==
  ASSUME text \in Seq(Alphabet), Regular, NEW s \in Starts, NEW k \in KnownKeys
  PROVE  key_equal(k, s, EqualSign(s)) <=> KeyAt(s) = k
  <1> DEFINE e == EqualSign(s)
  <1>1. /\ s \in Nat \ {0} /\ e \in Nat /\ s <= e /\ e <= Len(text) /\ Len(text) \in Nat
        /\ k \in Seq(Alphabet) /\ Len(k) \in Nat
    BY Strings, WholeKey DEF IsString
  <1>2. ASSUME s + Len(k) <= e
        PROVE  SubSeq(text, s, s + Len(k) - 1) = k
                 <=> \A n \in 1 .. Len(k) : k[n] = text[s + n - 1]
    <2> DEFINE front == SubSeq(text, s, s + Len(k) - 1)
    <2>1. /\ front \in Seq(Alphabet) /\ Len(front) = Len(k)
          /\ \A n \in 1 .. Len(k) : front[n] = text[s + n - 1]
      BY <1>1, <1>2
    <2> HIDE DEF front
    <2>2. front = k <=> \A n \in 1 .. Len(k) : front[n] = k[n]
      <3>1. /\ front = [n \in 1 .. Len(k) |-> front[n]]
            /\ k = [n \in 1 .. Len(k) |-> k[n]]
        BY <1>1, <2>1
      <3> QED BY <3>1
    <2>3. (\A n \in 1 .. Len(k) : front[n] = k[n])
            <=> \A n \in 1 .. Len(k) : k[n] = text[s + n - 1]
      BY <2>1
    <2> QED BY <2>2, <2>3 DEF front
  <1>3. ASSUME key_equal(k, s, e) PROVE KeyAt(s) = k
    <2>1. s + Len(k) <= e /\ SubSeq(text, s, s + Len(k) - 1) = k
      BY <1>3 DEF key_equal
    <2>2. Len(k) <= e - s /\ \A n \in 1 .. Len(k) : k[n] = text[s + n - 1]
      BY <1>1, <1>2, <2>1
    <2> QED BY <2>2, WholeKey
  <1>4. ASSUME KeyAt(s) = k PROVE key_equal(k, s, e)
    <2>1. Len(k) = e - s /\ \A n \in 1 .. e - s : k[n] = text[s + n - 1]
      BY <1>4, KeyBytes
    <2>2. s + Len(k) <= e
      BY <1>1, <2>1
    <2> QED BY <1>2, <2>1, <2>2 DEF key_equal
  <1> QED BY <1>3, <1>4

\* What a text means changes only with the text.
LEMMA SameText ==
  ASSUME text' = text
  PROVE  /\ Regular' => Regular
         /\ Starts' = Starts /\ Len(text') = Len(text)
         /\ \A s : Ends(s)' = Ends(s) /\ EqualSign(s)' = EqualSign(s)
                     /\ ValueAt(s)' = ValueAt(s)
         /\ \A k : Given(k)' = Given(k)
         /\ \A k, v, n : LastUpTo(k, v, n)' = LastUpTo(k, v, n)
  <1>1. Starts' = Starts
    BY DEF Starts
  <1>2. ASSUME NEW s PROVE Ends(s)' = Ends(s)
    BY DEF Ends
  <1>3. ASSUME NEW s PROVE Equals(s)' = Equals(s)
    BY <1>2 DEF Equals
  <1>4. ASSUME NEW s PROVE EqualSign(s)' = EqualSign(s) /\ ValueAt(s)' = ValueAt(s)
    BY <1>3 DEF EqualSign, ValueAt
  <1>5. ASSUME NEW s PROVE KeyAt(s)' = KeyAt(s)
    BY <1>4 DEF KeyAt
  <1>6. ASSUME NEW k PROVE Given(k)' = Given(k)
    BY <1>1, <1>5 DEF Given
  <1>7. ASSUME NEW k, NEW v, NEW n PROVE LastUpTo(k, v, n)' = LastUpTo(k, v, n)
    BY <1>4, <1>6 DEF LastUpTo
  <1>8. Last(text)' = Last(text)
    OBVIOUS
  <1>9. Regular' => Regular
    BY <1>1, <1>3, <1>5, <1>8 DEF Regular, Distinct
  <1> QED BY <1>1, <1>2, <1>4, <1>6, <1>7, <1>9

\* One more byte: s is the string that holds it.
LEMMA OneMoreByte ==
  ASSUME text \in Seq(Alphabet), Regular, NEW k \in KnownKeys, NEW v,
         NEW n \in Nat, LastUpTo(k, v, n),
         NEW s \in Starts, s <= n + 1, n + 1 <= Ends(s)
  PROVE  LastUpTo(k, IF text[n + 1] = EQUAL /\ key_equal(k, s, n + 1)
                       THEN Value(n + 1) ELSE v, n + 1)
  <1> DEFINE before == {t \in Given(k) : EqualSign(t) <= n}
             found == {t \in Given(k) : EqualSign(t) <= n + 1}
  <1>1. IsString(s)
    BY Strings
  <1>2. text[n + 1] = EQUAL <=> EqualSign(s) = n + 1
    BY <1>1 DEF IsString
  <1>3. ASSUME NEW t \in Starts
        PROVE  EqualSign(t) \in Nat /\ (EqualSign(t) = n + 1 => t = s)
    <2>1. IsString(t)
      BY Strings
    <2> QED BY <2>1, OneString DEF IsString
  <1>4. CASE EqualSign(s) = n + 1 /\ KeyAt(s) = k
    <2>1. text[n + 1] = EQUAL /\ key_equal(k, s, n + 1)
      BY <1>2, <1>4, KeyEqual
    <2>2. s \in found /\ Value(n + 1) = ValueAt(s)
      BY <1>4 DEF Given, Value, ValueAt
    <2>3. ASSUME NEW t \in found PROVE t <= s
      <3> SUFFICES ASSUME s < t PROVE FALSE
        BY StartsInside DEF Given
      <3>1. t \in Starts /\ EqualSign(t) <= n + 1
        BY DEF Given
      <3>2. IsString(t) /\ Ends(s) < t
        BY <3>1, Strings, StringsApart
      <3> QED BY <1>1, <1>4, <3>1, <3>2 DEF IsString
    <2> QED BY <2>1, <2>2, <2>3 DEF LastUpTo
  <1>5. CASE ~(EqualSign(s) = n + 1 /\ KeyAt(s) = k)
    <2>1. ~(text[n + 1] = EQUAL /\ key_equal(k, s, n + 1))
      BY <1>2, <1>5, KeyEqual
    <2>2. found = before
      BY <1>3, <1>5 DEF Given
    <2> HIDE DEF found, before
    <2>3. \/ before = {} /\ v = 0
          \/ \E t \in before : v = ValueAt(t) /\ \A u \in before : u <= t
      BY DEF LastUpTo, before
    <2>4. \/ found = {} /\ v = 0
          \/ \E t \in found : v = ValueAt(t) /\ \A u \in found : u <= t
      BY <2>2, <2>3
    <2> QED BY <2>1, <2>4 DEF LastUpTo, found
  <1> QED BY <1>4, <1>5

\* A turn of the loop follows the text.
LEMMA CreateTurnFollows ==
  ASSUME IInv, Regular, CreateFollows, CreateTurn
  PROVE  CreateFollows'
  <1>1. /\ text \in Seq(Alphabet) /\ Len(text) \in Nat /\ i <= Len(text)
        /\ i \in 2 .. Len(text) + 1
        /\ key \in Starts /\ key <= i - 1 /\ i - 1 <= Ends(key)
        /\ \A k \in KnownKeys : LastUpTo(k, stored[k], i - 1)
    BY DEF IInv, TypeOK, CreateTurn, CreateFollows
  <1>2. /\ key' = IF text[i - 1] = NUL THEN i ELSE key
        /\ text' = text /\ pc' = "create" /\ i' = i + 1 /\ i' - 1 = i
        /\ stored' = [k \in KnownKeys |->
                        IF text[i] = EQUAL /\ key_equal(k, key', i) THEN Value(i)
                                                                    ELSE stored[k]]
    BY <1>1 DEF CreateTurn
  <1>3. IsString(key)
    BY <1>1, Strings
  <1>4. key' \in Starts /\ key' <= i /\ i <= Ends(key')
    <2>1. CASE text[i - 1] = NUL
      <3>1. i \in Starts
        <4>1. i - 1 \in 1 .. Len(text) - 1 /\ (i - 1) + 1 = i
          BY <1>1
        <4> QED BY <1>1, <2>1, <4>1, StartsInside
      <3>2. IsString(i)
        BY <1>1, <3>1, Strings
      <3> QED BY <1>2, <2>1, <3>1, <3>2 DEF IsString
    <2>2. CASE text[i - 1] # NUL
      <3>1. i - 1 # Ends(key)
        BY <1>3, <2>2 DEF IsString
      <3>2. i - 1 \in Int /\ Ends(key) \in Int /\ key \in Int
        BY <1>1, <1>3 DEF IsString
      <3>3. key <= i /\ i <= Ends(key)
        BY <1>1, <3>1, <3>2
      <3> QED BY <1>1, <1>2, <2>2, <3>3
    <2> QED BY <2>1, <2>2
  <1>5. ASSUME NEW k \in KnownKeys
        PROVE  LastUpTo(k, stored'[k], i)
    <2> DEFINE n == i - 1
               s == key'
    <2>1. n \in Nat /\ n + 1 = i /\ LastUpTo(k, stored[k], n)
      BY <1>1
    <2>2. s \in Starts /\ s <= n + 1 /\ n + 1 <= Ends(s)
      BY <1>4, <2>1
    <2>3. stored'[k] = IF text[n + 1] = EQUAL /\ key_equal(k, s, n + 1)
                         THEN Value(n + 1) ELSE stored[k]
      BY <1>2, <2>1
    <2> HIDE DEF n, s
    <2>4. LastUpTo(k, stored'[k], n + 1)
      BY <1>1, <2>1, <2>2, <2>3, OneMoreByte
    <2> QED BY <2>1, <2>4
  <1>6. /\ Starts' = Starts /\ Ends(key)' = Ends(key')
        /\ \A k \in KnownKeys : LastUpTo(k, stored[k], i - 1)' = LastUpTo(k, stored'[k], i)
    <2>1. Ends(key)' = Ends(key')
      BY <1>2 DEF Ends
    <2> QED BY <1>2, <2>1, SameText DEF LastUpTo
  <1> QED BY <1>1, <1>2, <1>4, <1>5, <1>6 DEF CreateFollows

\* The loop of create follows the text.
LEMMA CreateFollowing ==
  ASSUME IInv, [Next]_vars, Regular => CreateFollows
  PROVE  Regular' => CreateFollows'
  <1> SUFFICES ASSUME Regular' PROVE CreateFollows'
    OBVIOUS
  <1>1. text' = text
    BY DEF Next, vars, CreateTurn, CreateEnds, GetTurn, GetEnds
  <1>2. Regular /\ CreateFollows
    BY <1>1, SameText
  <1>3. CASE CreateTurn
    BY <1>2, <1>3, CreateTurnFollows
  <1>4. /\ Starts' = Starts /\ Len(text') = Len(text)
        /\ \A s : Ends(s)' = Ends(s)
        /\ \A k, v, n : LastUpTo(k, v, n)' = LastUpTo(k, v, n)
    BY <1>1, SameText
  <1>5. CASE CreateEnds
    <2>1. i - 1 = Len(text)
      BY <1>2, <1>5 DEF CreateEnds, CreateFollows, IInv, TypeOK
    <2>2. pc = "create" /\ pc' # "create" /\ stored' = stored
      BY <1>5 DEF CreateEnds, createVars
    <2> QED BY <1>2, <1>4, <2>1, <2>2 DEF CreateFollows
  <1>6. CASE GetTurn \/ GetEnds
    <2>1. pc # "create" /\ pc' # "create" /\ stored' = stored
      BY <1>6 DEF GetTurn, GetEnds, createVars
    <2> QED BY <1>2, <1>4, <2>1 DEF CreateFollows
  <1>7. CASE UNCHANGED vars
    <2>1. pc' = pc /\ stored' = stored /\ i' = i /\ key' = key
      BY <1>7 DEF vars, createVars
    <2> QED BY <1>2, <1>4, <2>1 DEF CreateFollows
  <1> QED BY <1>3, <1>5, <1>6, <1>7 DEF Next

-------------------------------------------------------------------------------
(***************************************************************************)
(* The loop of iscsi_parameter_get.                                        *)
(***************************************************************************)
\* Strings before position n do not give a value to the key sought.
NotBefore(n) == \A s \in Given(Sought) : n <= s

\* The scan is in the key of string s, and remembers whether what it has read
\* matches the key sought.
InKey(s) ==
  /\ s <= i /\ i <= EqualSign(s)
  /\ symbol = "KEY" \/ (i = s /\ symbol = "SEPARATOR")
  /\ still_valid =>
       /\ count = i - s /\ count <= Len(Sought)
       /\ \A n \in 1 .. count : Sought[n] = text[s + n - 1]
  /\ ~still_valid =>
       \E n \in s .. i - 1 : n - s + 1 > Len(Sought) \/ Sought[n - s + 1] # text[n]

\* It is in the value of string s, or at the zero byte behind it.
InValue(s) == EqualSign(s) < i /\ i <= Ends(s) /\ KeyAt(s) # Sought

\* What the scan has passed gives no value to the key; what it returns is the first.
GetFollows ==
  /\ pc # "done" => result = 0
  /\ pc = "create" => symbol = "KEY" /\ count = 0 /\ still_valid
  /\ pc = "get" =>
       \/ \E s \in Starts : NotBefore(s) /\ (InKey(s) \/ InValue(s))
       \/ i = Len(text) + 1 /\ Given(Sought) = {}
  /\ pc = "done" =>
       \/ Given(Sought) = {} /\ result = 0
       \/ \E s \in Given(Sought) : result = ValueAt(s) /\ NotBefore(s)

\* A key that matches in all its bytes is the key sought; one with a byte that
\* differs is not.
LEMMA KeyMatches ==
  ASSUME IInv, Regular, NEW s \in Starts, InKey(s), i = EqualSign(s)
  PROVE  KeyAt(s) = Sought <=> still_valid
  <1>1. /\ text \in Seq(Alphabet) /\ still_valid \in BOOLEAN
        /\ Sought \in Seq(Alphabet) /\ Len(Sought) \in Nat
    BY WholeKey DEF IInv, TypeOK
  <1>2. IsString(s) /\ Len(KeyAt(s)) = i - s
    BY <1>1, Strings, KeyBytes
  <1>3. s \in Nat /\ i \in Nat /\ s <= i
    BY <1>2 DEF IsString, IInv, TypeOK
  <1>4. CASE still_valid
    BY <1>1, <1>4, WholeKey DEF InKey
  <1>5. CASE ~still_valid
    <2> SUFFICES ASSUME KeyAt(s) = Sought PROVE FALSE
      BY <1>5
    <2>1. PICK n \in s .. i - 1 : n - s + 1 > Len(Sought) \/ Sought[n - s + 1] # text[n]
      BY <1>5 DEF InKey
    <2>2. n - s + 1 \in 1 .. i - s
      BY <1>3, <2>1
    <2>3. KeyAt(s)[n - s + 1] = text[s + (n - s + 1) - 1]
      BY <1>1, <2>2, KeyBytes
    <2>4. s + (n - s + 1) - 1 = n
      BY <1>3, <2>1
    <2> QED BY <1>2, <1>3, <2>1, <2>2, <2>3, <2>4
  <1> QED BY <1>1, <1>4, <1>5

\* A turn inside a key goes on in it, matching one more byte or none from then on.
LEMMA TurnInKey ==
  ASSUME IInv, Regular, GetTurn, NEW s \in Starts, InKey(s), i < EqualSign(s)
  PROVE  InKey(s)' /\ pc' = "get" /\ result' = result /\ text' = text
  <1>1. /\ text \in Seq(Alphabet) /\ still_valid \in BOOLEAN
        /\ count \in Nat /\ i \in Nat /\ Len(Sought) \in Nat
    <2>1. Sought \in Seq(Alphabet \ {EQUAL, COMMA, NUL})
      BY TextAssumption
    <2>2. Len(Sought) \in Nat
      BY <2>1
    <2> QED BY <2>2 DEF IInv, TypeOK
  <1>2. IsString(s) /\ s \in Nat /\ s <= i
    BY <1>1, Strings DEF IsString, InKey
  <1>3. text[i] \notin {EQUAL, COMMA, NUL}
    <2>1. i \in s .. EqualSign(s) - 1
      BY <1>1, <1>2 DEF IsString
    <2> QED BY <1>1, <2>1, KeyBytes
  <1>4. symbol \in {"KEY", "SEPARATOR"}
    BY DEF InKey
  <1>5. symbol' = next_key(symbol, text[i])
    BY DEF GetTurn
  <1>6. symbol' = "KEY"
    BY <1>3, <1>4, <1>5 DEF next_key
  <1>7. /\ i' = i + 1 /\ pc' = "get" /\ result' = result /\ text' = text
        /\ still_valid' = (still_valid /\ text[i] = SoughtByte(count))
        /\ count' = IF text[i] = SoughtByte(count) THEN count + 1 ELSE count
    BY <1>1, <1>6 DEF GetTurn
  <1>8. EqualSign(s)' = EqualSign(s)
    BY <1>7, SameText
  <1>9. CASE still_valid /\ text[i] = SoughtByte(count)
    <2>1. count < Len(Sought) /\ text[i] = Sought[count + 1]
      BY <1>3, <1>9 DEF SoughtByte
    <2>2. count = i - s /\ \A n \in 1 .. count : Sought[n] = text[s + n - 1]
      BY <1>9 DEF InKey
    <2>3. still_valid' /\ count' = count + 1
      BY <1>7, <1>9
    <2>4. count' = i' - s /\ count' <= Len(Sought)
      BY <1>1, <1>2, <1>7, <2>1, <2>2, <2>3
    <2>5. ASSUME NEW n \in 1 .. count' PROVE Sought[n] = text'[s + n - 1]
      <3>1. CASE n = count + 1
        <4>1. s + n - 1 = i
          BY <1>1, <1>2, <2>2, <3>1
        <4> QED BY <1>7, <2>1, <3>1, <4>1
      <3>2. CASE n # count + 1
        <4>1. n \in 1 .. count
          BY <1>1, <2>3, <3>2
        <4> QED BY <1>7, <2>2, <4>1
      <3> QED BY <3>1, <3>2
    <2>6. s <= i' /\ i' <= EqualSign(s)
      BY <1>1, <1>2, <1>7 DEF IsString
    <2>7. \A n \in 1 .. count' : Sought[n] = text'[s + n - 1]
      BY <2>5
    <2> QED BY ONLY <1>6, <1>7, <1>8, <2>3, <2>4, <2>6, <2>7 DEF InKey
  <1>10. CASE ~(still_valid /\ text[i] = SoughtByte(count))
    <2>1. ~still_valid'
      BY <1>7, <1>10
    <2>2. \E n \in s .. i' - 1 : n - s + 1 > Len(Sought) \/ Sought[n - s + 1] # text[n]
      <3>1. CASE still_valid
        <4>1. count = i - s /\ text[i] # SoughtByte(count)
          BY <1>10, <3>1 DEF InKey
        <4>2. i - s + 1 > Len(Sought) \/ Sought[i - s + 1] # text[i]
          <5>1. CASE count < Len(Sought)
            BY <4>1, <5>1 DEF SoughtByte
          <5>2. CASE ~(count < Len(Sought))
            BY <1>1, <1>2, <4>1, <5>2
          <5> QED BY <5>1, <5>2
        <4>3. i \in s .. i' - 1
          BY <1>1, <1>2, <1>7
        <4> QED BY <4>2, <4>3
      <3>2. CASE ~still_valid
        <4>1. PICK n \in s .. i - 1 :
                n - s + 1 > Len(Sought) \/ Sought[n - s + 1] # text[n]
          BY <3>2 DEF InKey
        <4>2. n \in s .. i' - 1
          BY <1>1, <1>2, <1>7, <4>1
        <4> QED BY <4>1, <4>2
      <3> QED BY <3>1, <3>2
    <2>3. s <= i' /\ i' <= EqualSign(s)
      BY <1>1, <1>2, <1>7 DEF IsString
    <2> QED BY <1>6, <1>7, <1>8, <2>1, <2>2, <2>3 DEF InKey
  <1> QED BY <1>7, <1>9, <1>10

\* At the equal sign the scan returns the value, or passes into it.
LEMMA TurnAtEqualSign ==
  ASSUME IInv, Regular, GetTurn, NEW s \in Starts, InKey(s), i = EqualSign(s)
  PROVE  /\ text' = text
         /\ \/ pc' = "done" /\ KeyAt(s) = Sought /\ result' = ValueAt(s)
            \/ pc' = "get" /\ result' = result /\ InValue(s)'
  <1>1. text \in Seq(Alphabet) /\ i \in Nat
    BY DEF IInv, TypeOK
  <1>2. IsString(s)
    BY <1>1, Strings
  <1>3. text[i] = EQUAL
    BY <1>2 DEF IsString
  <1>4. symbol' = next_key(symbol, text[i]) /\ text' = text
    BY DEF GetTurn
  <1>5. symbol' = "EQUAL"
    BY <1>3, <1>4 DEF next_key, EQUAL, COMMA, NUL
  <1>6. CASE still_valid
    <2>1. result' = Value(i) /\ pc' = "done"
      BY <1>5, <1>6 DEF GetTurn
    <2> QED BY <1>4, <1>6, <2>1, KeyMatches DEF Value, ValueAt
  <1>7. CASE ~still_valid
    <2>1. i' = i + 1 /\ result' = result /\ pc' = "get"
      BY <1>5, <1>7 DEF GetTurn
    <2>2. KeyAt(s) # Sought
      BY <1>7, KeyMatches
    <2>3. EqualSign(s)' = EqualSign(s) /\ Ends(s)' = Ends(s)
      BY <1>4, SameText
    <2>4. KeyAt(s)' = KeyAt(s)
      BY <1>4, <2>3 DEF KeyAt
    <2> QED BY <1>1, <1>2, <1>4, <2>1, <2>2, <2>3, <2>4 DEF IsString, InValue
  <1> QED BY <1>6, <1>7

\* In a value nothing is found; behind it the next string starts, or the text ends.
LEMMA TurnInValue ==
  ASSUME IInv, Regular, GetTurn, NEW s \in Starts, InValue(s), NotBefore(s)
  PROVE  /\ text' = text /\ pc' = "get" /\ result' = result
         /\ \/ InValue(s)'
            \/ \E t \in Starts : NotBefore(t) /\ InKey(t)'
            \/ i' = Len(text) + 1 /\ Given(Sought) = {}
  <1>1. text \in Seq(Alphabet) /\ i \in Nat /\ Len(text) \in Nat
    BY DEF IInv, TypeOK
  <1>2. IsString(s)
    BY <1>1, Strings
  <1>3. text[i] # EQUAL /\ (text[i] = NUL <=> i = Ends(s))
    BY <1>1, <1>2 DEF IsString, InValue
  <1>4. symbol' = next_key(symbol, text[i]) /\ text' = text
    BY DEF GetTurn
  <1>5. symbol' # "EQUAL" \/ symbol = "EQUAL"
    BY <1>3, <1>4 DEF next_key
  <1>6. symbol' # "EQUAL"
    <2>1. CASE symbol = "EQUAL"
      BY <1>3, <1>4, <2>1 DEF next_key
    <2> QED BY <1>5, <2>1
  <1>7. i' = i + 1 /\ result' = result /\ pc' = "get"
    BY <1>6 DEF GetTurn
  <1>8. CASE i # Ends(s)
    <2>1. i' <= Ends(s) /\ EqualSign(s) < i' /\ KeyAt(s) # Sought
      BY <1>1, <1>2, <1>7, <1>8 DEF IsString, InValue
    <2>2. EqualSign(s)' = EqualSign(s) /\ Ends(s)' = Ends(s)
      BY <1>4, SameText
    <2>3. KeyAt(s)' = KeyAt(s)
      BY <1>4, <2>2 DEF KeyAt
    <2> QED BY <1>4, <1>7, <2>1, <2>2, <2>3 DEF InValue
  <1>9. CASE i = Ends(s)
    <2>1. symbol' = "SEPARATOR"
      BY <1>3, <1>4, <1>9 DEF next_key, EQUAL, NUL
    <2>2. still_valid' /\ count' = 0
      BY <1>6, <2>1 DEF GetTurn
    <2>3. ASSUME NEW t \in Given(Sought) PROVE i < t /\ t \in Starts
      <3>1. t \in Starts /\ KeyAt(t) = Sought /\ s <= t
        BY DEF Given, NotBefore
      <3>2. s # t /\ s \in Nat /\ t \in Nat
        BY <1>1, <1>2, <3>1, Strings DEF InValue, IsString
      <3> QED BY <1>1, <1>9, <3>1, <3>2, StringsApart
    <2>4. CASE i = Len(text)
      <3>1. ASSUME NEW t \in Given(Sought) PROVE FALSE
        BY <1>1, <2>3, <2>4, StartsInside
      <3> QED BY <1>4, <1>7, <2>4, <3>1
    <2>5. CASE i # Len(text)
      <3>1. i \in 1 .. Len(text) - 1 /\ text[i] = NUL
        BY <1>1, <1>2, <1>3, <1>9, <2>5 DEF IsString
      <3>2. PICK t \in Starts : t = i + 1
        BY <1>1, <3>1, StartsInside
      <3>3. NotBefore(t)
        <4>1. ASSUME NEW u \in Given(Sought) PROVE t <= u
          <5>1. u \in Nat
            BY <1>1, <2>3, StartsInside
          <5> QED BY <1>1, <2>3, <3>2, <5>1
        <4> QED BY <4>1 DEF NotBefore
      <3>4. InKey(t)'
        <4>1. IsString(t) /\ EqualSign(t)' = EqualSign(t)
          BY <1>1, <1>4, <3>2, Strings, SameText
        <4>2. i' = t /\ t <= i' /\ i' <= EqualSign(t) /\ count' = i' - t
          BY <1>1, <1>7, <2>2, <3>2, <4>1 DEF IsString
        <4>3. count' <= Len(Sought) /\ 1 .. count' = {}
          BY <2>2, TextAssumption
        <4> QED BY <2>1, <2>2, <4>1, <4>2, <4>3 DEF InKey
      <3> QED BY <1>4, <1>7, <3>2, <3>3, <3>4
    <2> QED BY <2>4, <2>5
  <1> QED BY <1>4, <1>7, <1>8, <1>9

\* A turn follows the text.
LEMMA GetTurnFollows ==
  ASSUME IInv, Regular, GetFollows, GetTurn
  PROVE  GetFollows'
  <1>1. pc = "get" /\ i <= Len(text) /\ Len(text) \in Nat /\ i \in Nat
    BY DEF GetTurn, IInv, TypeOK
  <1>2. PICK s \in Starts : NotBefore(s) /\ (InKey(s) \/ InValue(s))
    BY <1>1 DEF GetFollows
  <1>3. text \in Seq(Alphabet) /\ IsString(s)
    BY Strings DEF IInv, TypeOK
  <1>4. result = 0
    BY <1>1 DEF GetFollows
  <1>5. ASSUME text' = text
        PROVE  /\ \A k : Given(k)' = Given(k) /\ Starts' = Starts /\ Len(text') = Len(text)
               /\ \A t : (NotBefore(t)' <=> NotBefore(t)) /\ ValueAt(t)' = ValueAt(t)
    BY <1>5, SameText DEF NotBefore
  <1>6. CASE InKey(s) /\ i < EqualSign(s)
    BY <1>2, <1>4, <1>5, <1>6, TurnInKey DEF GetFollows
  <1>7. CASE InKey(s) /\ i = EqualSign(s)
    <2>1. text' = text
      BY <1>7, TurnAtEqualSign
    <2>2. CASE pc' = "done" /\ KeyAt(s) = Sought /\ result' = ValueAt(s)
      <3>1. s \in Given(Sought)
        BY <2>2 DEF Given
      <3> QED BY <1>2, <1>5, <2>1, <2>2, <3>1 DEF GetFollows
    <2>3. CASE pc' = "get" /\ result' = result /\ InValue(s)'
      BY <1>2, <1>4, <1>5, <2>1, <2>3 DEF GetFollows
    <2> QED BY <1>7, <2>2, <2>3, TurnAtEqualSign
  <1>8. CASE InValue(s)
    <2>1. /\ text' = text /\ pc' = "get" /\ result' = result
          /\ \/ InValue(s)'
             \/ \E t \in Starts : NotBefore(t) /\ InKey(t)'
             \/ i' = Len(text) + 1 /\ Given(Sought) = {}
      BY <1>2, <1>8, TurnInValue
    <2> QED BY <1>2, <1>4, <1>5, <2>1 DEF GetFollows
  <1>9. InKey(s) => i <= EqualSign(s) /\ EqualSign(s) \in Nat
    BY <1>3 DEF InKey, IsString
  <1> QED BY <1>1, <1>2, <1>6, <1>7, <1>8, <1>9

\* The loop of get follows the text.
LEMMA GetFollowing ==
  ASSUME IInv, [Next]_vars, Regular => GetFollows
  PROVE  Regular' => GetFollows'
  <1> SUFFICES ASSUME Regular' PROVE GetFollows'
    OBVIOUS
  <1>1. text' = text
    BY DEF Next, vars, CreateTurn, CreateEnds, GetTurn, GetEnds
  <1>2. Regular /\ GetFollows
    BY <1>1, SameText
  <1>3. /\ \A k : Given(k)' = Given(k) /\ Starts' = Starts /\ Len(text') = Len(text)
        /\ \A t : /\ NotBefore(t)' <=> NotBefore(t)
                  /\ ValueAt(t)' = ValueAt(t) /\ EqualSign(t)' = EqualSign(t)
                  /\ Ends(t)' = Ends(t) /\ KeyAt(t)' = KeyAt(t)
    <2>1. \A t : EqualSign(t)' = EqualSign(t)
      BY <1>1, SameText
    <2>2. \A t : KeyAt(t)' = KeyAt(t)
      BY <1>1, <2>1 DEF KeyAt
    <2> QED BY <1>1, <2>2, SameText DEF NotBefore
  <1>4. CASE CreateTurn
    BY <1>2, <1>4 DEF CreateTurn, getVars, GetFollows
  <1>5. CASE CreateEnds
    <2>1. /\ pc' = "get" /\ i' = 1 /\ symbol' = "KEY" /\ count' = 0 /\ still_valid'
          /\ result' = 0
      BY <1>2, <1>5 DEF CreateEnds, getVars, GetFollows
    <2>2. 1 \in Starts /\ NotBefore(1) /\ IsString(1)
      <3>1. text \in Seq(Alphabet)
        BY DEF IInv, TypeOK
      <3>2. 1 \in Starts /\ \A s \in Starts : 1 <= s
        BY <1>2, <3>1, StartsInside
      <3> QED BY <1>2, <3>1, <3>2, Strings DEF NotBefore, Given
    <2>3. InKey(1)'
      <3>1. 0 <= Len(Sought) /\ 1 .. 0 = {}
        BY TextAssumption
      <3> QED BY <1>3, <2>1, <2>2, <3>1 DEF InKey, IsString
    <2> QED BY <1>3, <2>1, <2>2, <2>3 DEF GetFollows
  <1>6. CASE GetTurn
    BY <1>2, <1>6, GetTurnFollows
  <1>7. CASE GetEnds
    <2>1. pc = "get" /\ pc' = "done" /\ result' = result /\ i > Len(text)
      BY <1>7 DEF GetEnds, getVars
    <2>2. Given(Sought) = {}
      <3> SUFFICES ASSUME NEW s \in Starts, InKey(s) \/ InValue(s) PROVE FALSE
        BY <1>2, <2>1 DEF GetFollows
      <3>1. text \in Seq(Alphabet) /\ i \in Nat /\ Len(text) \in Nat
        BY DEF IInv, TypeOK
      <3>2. IsString(s)
        BY <1>2, <3>1, Strings
      <3> QED BY <2>1, <3>1, <3>2 DEF IsString, InKey, InValue
    <2> QED BY <1>2, <1>3, <2>1, <2>2 DEF GetFollows
  <1>8. CASE UNCHANGED vars
    <2>1. /\ pc' = pc /\ i' = i /\ symbol' = symbol /\ count' = count
          /\ still_valid' = still_valid /\ result' = result
      BY <1>8 DEF vars, getVars
    <2>2. \A s : (InKey(s)' <=> InKey(s)) /\ (InValue(s)' <=> InValue(s))
      BY <1>1, <1>3, <2>1 DEF InKey, InValue
    <2> QED BY <1>2, <1>3, <2>1, <2>2 DEF GetFollows
  <1> QED BY <1>4, <1>5, <1>6, <1>7, <1>8 DEF Next

-------------------------------------------------------------------------------
ScanInv == IInv /\ (Regular => CreateFollows /\ GetFollows)

\* The scans start at the first string.
LEMMA ScanStarts == Init => ScanInv
  <1> SUFFICES ASSUME Init PROVE ScanInv
    OBVIOUS
  <1>1. IInv
    BY InitEstablishes
  <1>2. ASSUME Regular PROVE CreateFollows
    <2>1. text \in Seq(Alphabet) /\ pc = "create" /\ i = 2 /\ key = 1
      BY <1>1 DEF IInv, TypeOK, Init
    <2>2. Len(text) \in Nat \ {0} /\ 1 \in Starts /\ IsString(1)
      BY <1>2, <2>1, StartsInside, Strings
    <2>3. ASSUME NEW k \in KnownKeys PROVE LastUpTo(k, stored[k], 1)
      <3>1. stored[k] = 0
        BY DEF Init
      <3>2. ASSUME NEW s \in Given(k), EqualSign(s) <= 1 PROVE FALSE
        <4>1. s \in Starts /\ KeyAt(s) = k
          BY DEF Given
        <4>2. IsString(s) /\ Len(KeyAt(s)) = EqualSign(s) - s
          BY <1>2, <2>1, <4>1, Strings, KeyBytes
        <4>3. Len(k) = 0 /\ k \in Seq(Alphabet) /\ k # <<>>
          BY <1>2, <2>1, <3>2, <4>1, <4>2, WholeKey DEF IsString
        <4> QED BY <4>3
      <3> QED BY <3>1, <3>2 DEF LastUpTo
    <2>4. i - 1 = 1
      BY <2>1
    <2> QED BY <2>1, <2>2, <2>3, <2>4 DEF CreateFollows, IsString
  <1>3. GetFollows
    BY DEF Init, GetFollows
  <1> QED BY <1>1, <1>2, <1>3 DEF ScanInv

\* ScanInv is an invariant.
THEOREM ScanInvariance == Spec => []ScanInv
  <1>1. ScanInv /\ [Next]_vars => ScanInv'
    BY NextKeeps, CreateFollowing, GetFollowing, SameText
    DEF ScanInv
  <1> QED BY <1>1, ScanStarts, PTL DEF Spec

\* In every regular text, of any length, iscsi_parameter_get finds the first value
\* of the key it looks for, or none when the key does not occur.
THEOREM FindsFirst == Spec => []GetFindsFirst
  <1>1. ScanInv => GetFindsFirst
    <2> SUFFICES ASSUME ScanInv, pc = "done", Regular
                 PROVE  result = IF Given(Sought) = {} THEN 0
                                 ELSE ValueAt(Min(Given(Sought)))
      BY DEF GetFindsFirst
    <2>1. GetFollows /\ text \in Seq(Alphabet)
      BY DEF ScanInv, IInv, TypeOK
    <2>2. Given(Sought) \in SUBSET Int
      BY <2>1, StartsInside DEF Given
    <2>3. ASSUME NEW s \in Given(Sought), NotBefore(s) PROVE Min(Given(Sought)) = s
      BY <2>2, <2>3, MinIs DEF NotBefore
    <2> QED BY <2>1, <2>3 DEF GetFollows
  <1> QED BY <1>1, ScanInvariance, PTL

\* In every regular text iscsi_connection_parameter_create leaves the last value of
\* each key that it knows.
THEOREM StoresLast == Spec => []CreateStoresLast
  <1>1. ScanInv => CreateStoresLast
    <2> SUFFICES ASSUME ScanInv, pc # "create", Regular, NEW k \in KnownKeys
                 PROVE  stored[k] = IF Given(k) = {} THEN 0 ELSE ValueAt(Max(Given(k)))
      BY DEF CreateStoresLast
    <2>1. LastUpTo(k, stored[k], Len(text)) /\ text \in Seq(Alphabet)
      BY DEF ScanInv, CreateFollows, IInv, TypeOK
    <2>2. ASSUME NEW s \in Given(k) PROVE s \in Int /\ EqualSign(s) <= Len(text)
      <3>1. IsString(s)
        BY <2>1, Strings DEF Given
      <3> QED BY <2>1, <3>1 DEF IsString
    <2>3. {s \in Given(k) : EqualSign(s) <= Len(text)} = Given(k)
      BY <2>2
    <2>4. \/ Given(k) = {} /\ stored[k] = 0
          \/ \E s \in Given(k) : stored[k] = ValueAt(s) /\ \A t \in Given(k) : t <= s
      BY <2>1, <2>3 DEF LastUpTo
    <2>5. Given(k) \in SUBSET Int
      BY <2>2
    <2> QED BY <2>4, <2>5, MaxIs
  <1> QED BY <1>1, ScanInvariance, PTL

===============================================================================
