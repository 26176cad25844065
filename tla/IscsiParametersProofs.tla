------------------------- MODULE IscsiParametersProofs -------------------------
(***************************************************************************)
(* Lemmas about the operational parameters: the conversions of numbers     *)
(* undo each other, for every number; the parameters a login text leaves   *)
(* are typed; and what the target announces is what it keeps.              *)
(***************************************************************************)
EXTENDS IscsiParameters, IscsiPduProofs

(***************************************************************************)
(* string_to_int.                                                          *)
(***************************************************************************)
\* val is what the loop of string_to_int computes, for the first m digits of s.
Reads(val, s, m) ==
  val = [i \in 0 .. m |-> IF i = 0 THEN 0 ELSE 10 * val[i - 1] + s[i]]

\* The recursion of string_to_int defines a function.
LEMMA ReadingExists ==
  ASSUME NEW s, NEW m \in Nat
  PROVE  \E val : Reads(val, s, m)
  <1> DEFINE without == {n \in Nat : ~\E val : Reads(val, s, n)}
  <1> SUFFICES ASSUME without # {} PROVE FALSE
    OBVIOUS
  <1>1. PICK n \in without : \A k \in without : n <= k
    <2> HIDE DEF without
    <2>1. without \in SUBSET Nat
      BY DEF without
    <2> QED BY <2>1, LeastNatural
  <1>2. CASE n = 0
    <2>1. Reads([i \in 0 .. 0 |-> 0], s, 0)
      BY DEF Reads
    <2> QED BY <1>2, <2>1
  <1>3. CASE n # 0
    <2>1. n - 1 \in Nat /\ n - 1 \notin without
      BY <1>1, <1>3
    <2>2. PICK val : Reads(val, s, n - 1)
      BY <2>1
    <2> DEFINE more == [i \in 0 .. n |-> IF i = n THEN 10 * val[n - 1] + s[n]
                                                  ELSE val[i]]
    <2>3. more = [i \in 0 .. n |-> IF i = 0 THEN 0 ELSE 10 * more[i - 1] + s[i]]
      <3>1. ASSUME NEW i \in 0 .. n
            PROVE  more[i] = IF i = 0 THEN 0 ELSE 10 * more[i - 1] + s[i]
        <4>1. CASE i = 0
          <5>1. val[0] = 0 /\ 0 \in 0 .. n - 1
            BY <2>1, <2>2 DEF Reads
          <5> QED BY <1>3, <4>1, <5>1
        <4>2. CASE i \in 1 .. n - 1
          <5>1. val[i] = 10 * val[i - 1] + s[i]
            BY <2>1, <2>2, <4>2 DEF Reads
          <5>2. more[i] = val[i] /\ more[i - 1] = val[i - 1]
            BY <2>1, <4>2
          <5> QED BY <4>2, <5>1, <5>2
        <4>3. CASE i = n
          <5>1. more[n - 1] = val[n - 1]
            BY <2>1
          <5> QED BY <1>3, <4>3, <5>1
        <4> QED BY <2>1, <4>1, <4>2, <4>3
      <3> QED BY <3>1
    <2>4. Reads(more, s, n)
      BY <2>3 DEF Reads
    <2> QED BY <2>4
  <1> QED BY <1>2, <1>3

\* The first m digits of s and t are the same.
SameDigits(s, t, m) == \A i \in 1 .. m : s[i] = t[i]

\* Reading one more digit does not change the numbers read before.
LEMMA ReadingsAgree ==
  ASSUME NEW s, NEW t, NEW m \in Nat, NEW n \in Nat, m <= n,
         SameDigits(s, t, m), NEW val, Reads(val, s, m), NEW more, Reads(more, t, n)
  PROVE  \A i \in 0 .. m : val[i] = more[i]
  <1> DEFINE differ == {i \in 0 .. m : val[i] # more[i]}
  <1> SUFFICES ASSUME differ # {} PROVE FALSE
    OBVIOUS
  <1>1. PICK i \in differ : \A k \in differ : i <= k
    <2> HIDE DEF differ
    <2>1. differ \in SUBSET Nat
      BY DEF differ
    <2> QED BY <2>1, LeastNatural
  <1>2. i # 0
    BY <1>1 DEF Reads
  <1>3. i - 1 \in 0 .. m /\ i - 1 \notin differ
    BY <1>1, <1>2
  <1>4. /\ val[i] = 10 * val[i - 1] + s[i]
        /\ more[i] = 10 * more[i - 1] + t[i]
        /\ s[i] = t[i]
    BY <1>1, <1>2 DEF Reads, SameDigits
  <1> QED BY <1>1, <1>3, <1>4

\* string_to_int is what the loop has after the last digit.
LEMMA StringToInt ==
  ASSUME NEW s, Len(s) \in Nat
  PROVE  \E val : Reads(val, s, Len(s)) /\ string_to_int(s) = val[Len(s)]
  BY ReadingExists DEF Reads, string_to_int

\* A string of digits is a natural number.
LEMMA NumberType ==
  ASSUME NEW s \in Seq(0 .. 9)
  PROVE  string_to_int(s) \in Nat
  <1>1. PICK val : Reads(val, s, Len(s)) /\ string_to_int(s) = val[Len(s)]
    BY StringToInt
  <1> DEFINE untyped == {i \in 0 .. Len(s) : val[i] \notin Nat}
  <1> SUFFICES ASSUME untyped # {} PROVE FALSE
    BY <1>1
  <1>2. PICK i \in untyped : \A k \in untyped : i <= k
    <2> HIDE DEF untyped
    <2>1. untyped \in SUBSET Nat
      BY DEF untyped
    <2> QED BY <2>1, LeastNatural
  <1>3. i # 0
    BY <1>1, <1>2 DEF Reads
  <1>4. i - 1 \in 0 .. Len(s) /\ i - 1 \notin untyped
    BY <1>2, <1>3
  <1>5. val[i] = 10 * val[i - 1] + s[i] /\ s[i] \in 0 .. 9
    <2>1. i \in 0 .. Len(s) /\ Len(s) \in Nat
      BY <1>2
    <2>2. i \in 1 .. Len(s)
      BY <1>3, <2>1
    <2>3. s[i] \in 0 .. 9
      BY <2>2
    <2>4. val[i] = IF i = 0 THEN 0 ELSE 10 * val[i - 1] + s[i]
      BY <1>1, <2>1 DEF Reads
    <2> QED BY ONLY <1>3, <2>3, <2>4
  <1>6. val[i - 1] \in Nat
    BY <1>4
  <1>7. val[i] \notin Nat
    BY <1>2
  <1> DEFINE a == val[i]
             b == val[i - 1]
             c == s[i]
  <1>8. a = 10 * b + c /\ c \in 0 .. 9 /\ b \in Nat /\ a \notin Nat
    BY <1>5, <1>6, <1>7
  <1> HIDE DEF a, b, c
  <1> QED BY ONLY <1>8

\* One more digit multiplies by ten.
LEMMA AppendDigit ==
  ASSUME NEW s \in Seq(0 .. 9), NEW d \in 0 .. 9
  PROVE  string_to_int(Append(s, d)) = 10 * string_to_int(s) + d
  <1> DEFINE t == Append(s, d)
  <1>1. /\ Len(s) \in Nat /\ Len(t) \in Nat /\ Len(t) = Len(s) + 1 /\ t[Len(t)] = d
        /\ Len(s) <= Len(t) /\ SameDigits(s, t, Len(s))
    BY DEF SameDigits
  <1> HIDE DEF t
  <1>2. PICK val : Reads(val, s, Len(s)) /\ string_to_int(s) = val[Len(s)]
    BY <1>1, StringToInt
  <1>3. PICK more : Reads(more, t, Len(t)) /\ string_to_int(t) = more[Len(t)]
    BY <1>1, StringToInt
  <1>4. val[Len(s)] = more[Len(s)]
    <2>1. \A i \in 0 .. Len(s) : val[i] = more[i]
      BY <1>1, <1>2, <1>3, ReadingsAgree
    <2> QED BY <1>1, <2>1
  <1>5. more[Len(t)] = 10 * more[Len(t) - 1] + t[Len(t)]
    BY <1>1, <1>3 DEF Reads
  <1> QED BY <1>1, <1>2, <1>3, <1>4, <1>5 DEF t

-------------------------------------------------------------------------------
(***************************************************************************)
(* int_to_string.                                                          *)
(***************************************************************************)
\* f writes the digits of every number up to m.
Writes(f, m) ==
  f = [i \in 0 .. m |-> IF i = 0 THEN <<>> ELSE Append(f[i \div 10], i % 10)]

\* Dropping the last digit makes a number smaller.
LEMMA DropDigit ==
  ASSUME NEW n \in Nat \ {0}
  PROVE  /\ n \div 10 \in Nat /\ n \div 10 < n /\ n % 10 \in 0 .. 9
         /\ n = 10 * (n \div 10) + (n % 10)
  OBVIOUS

\* The recursion of Digits defines a function on every initial segment.
LEMMA WritingExists ==
  ASSUME NEW m \in Nat
  PROVE  \E f : Writes(f, m)
  <1> DEFINE without == {n \in Nat : ~\E f : Writes(f, n)}
  <1> SUFFICES ASSUME without # {} PROVE FALSE
    OBVIOUS
  <1>1. PICK n \in without : \A k \in without : n <= k
    <2> HIDE DEF without
    <2>1. without \in SUBSET Nat
      BY DEF without
    <2> QED BY <2>1, LeastNatural
  <1>2. CASE n = 0
    <2>1. Writes([i \in 0 .. 0 |-> <<>>], 0)
      BY DEF Writes
    <2> QED BY <1>2, <2>1
  <1>3. CASE n # 0
    <2>1. n - 1 \in Nat /\ n - 1 \notin without /\ n \in Nat \ {0}
      BY <1>1, <1>3
    <2>2. PICK f : Writes(f, n - 1)
      BY <2>1
    <2> DEFINE g == [i \in 0 .. n |-> IF i = n THEN Append(f[n \div 10], n % 10)
                                               ELSE f[i]]
    <2>3. g = [i \in 0 .. n |-> IF i = 0 THEN <<>> ELSE Append(g[i \div 10], i % 10)]
      <3>1. ASSUME NEW i \in 0 .. n
            PROVE  g[i] = IF i = 0 THEN <<>> ELSE Append(g[i \div 10], i % 10)
        <4>1. CASE i = 0
          <5>1. f[0] = <<>> /\ 0 \in 0 .. n - 1
            BY <2>1, <2>2 DEF Writes
          <5> QED BY <1>3, <4>1, <5>1
        <4>2. CASE i # 0
          <5>1. i \div 10 \in 0 .. n - 1 /\ i \div 10 # n
            BY <2>1, <4>2, DropDigit
          <5>2. g[i \div 10] = f[i \div 10]
            BY <2>1, <5>1
          <5>3. CASE i = n
            BY <4>2, <5>2, <5>3
          <5>4. CASE i # n
            <6>1. i \in 0 .. n - 1
              BY <2>1, <5>4
            <6>2. f[i] = Append(f[i \div 10], i % 10)
              BY <2>2, <4>2, <6>1 DEF Writes
            <6> QED BY <4>2, <5>2, <5>4, <6>2
          <5> QED BY <5>3, <5>4
        <4> QED BY <4>1, <4>2
      <3> QED BY <3>1
    <2>4. Writes(g, n)
      BY <2>3 DEF Writes
    <2> QED BY <2>4
  <1> QED BY <1>2, <1>3

\* The digits of a number do not depend on the segment.
LEMMA WritingsAgree ==
  ASSUME NEW m \in Nat, NEW n \in Nat, NEW f, Writes(f, m), NEW g, Writes(g, n),
         NEW j \in Nat, j <= m, j <= n
  PROVE  f[j] = g[j]
  <1> DEFINE differ == {i \in Nat : i <= m /\ i <= n /\ f[i] # g[i]}
  <1> SUFFICES ASSUME differ # {} PROVE FALSE
    OBVIOUS
  <1>1. PICK i \in differ : \A k \in differ : i <= k
    <2> HIDE DEF differ
    <2>1. differ \in SUBSET Nat
      BY DEF differ
    <2> QED BY <2>1, LeastNatural
  <1>2. i # 0
    BY <1>1 DEF Writes
  <1>3. i \div 10 \in Nat /\ i \div 10 < i
    BY <1>1, <1>2, DropDigit
  <1>4. i \div 10 \notin differ /\ i \div 10 <= m /\ i \div 10 <= n
    BY <1>1, <1>3
  <1>5. f[i \div 10] = g[i \div 10]
    BY <1>3, <1>4
  <1>6. /\ f[i] = Append(f[i \div 10], i % 10)
        /\ g[i] = Append(g[i \div 10], i % 10)
    <2>1. i \in 0 .. m /\ i \in 0 .. n
      BY <1>1
    <2> QED BY ONLY Writes(f, m), Writes(g, n), <2>1, <1>2 DEF Writes
  <1> QED BY <1>1, <1>5, <1>6

\* Digits is the function its recursion describes.
LEMMA DigitsDefined ==
  /\ Digits[0] = <<>>
  /\ \A n \in Nat \ {0} : Digits[n] = Append(Digits[n \div 10], n % 10)
  <1> DEFINE F == [i \in Nat |-> (CHOOSE f : Writes(f, i))[i]]
             Is(f) == f = [n \in Nat |-> IF n = 0 THEN <<>>
                                        ELSE Append(f[n \div 10], n % 10)]
  <1>1. \A i \in Nat : Writes(CHOOSE f : Writes(f, i), i)
    BY WritingExists
  <1>2. ASSUME NEW n \in Nat
        PROVE  F[n] = IF n = 0 THEN <<>> ELSE Append(F[n \div 10], n % 10)
    <2> DEFINE f == CHOOSE f : Writes(f, n)
    <2>1. Writes(f, n) /\ F[n] = f[n]
      BY <1>1
    <2>2. CASE n = 0
      <3> HIDE DEF f, F
      <3> QED BY <2>1, <2>2 DEF Writes
    <2>3. CASE n # 0
      <3> DEFINE m == n \div 10
                 g == CHOOSE g : Writes(g, m)
      <3>1. m \in Nat /\ m < n
        BY <2>3, DropDigit
      <3>2. Writes(g, m) /\ F[m] = g[m]
        BY <1>1, <3>1
      <3> HIDE DEF f, F, g
      <3>3. f[m] = g[m]
        <4> HIDE DEF m
        <4>1. m <= n /\ m <= m
          BY <3>1
        <4> QED BY <2>1, <3>1, <3>2, <4>1, WritingsAgree
      <3>4. f[n] = Append(f[m], n % 10)
        <4>1. n \in 0 .. n
          OBVIOUS
        <4> QED BY ONLY <2>1, <2>3, <4>1 DEF Writes
      <3> QED BY <2>1, <2>3, <3>2, <3>3, <3>4
    <2> QED BY <2>2, <2>3
  <1>3. Is(F)
    <2>1. F = [n \in Nat |-> F[n]]
      OBVIOUS
    <2> HIDE DEF F
    <2> QED BY <1>2, <2>1
  <1>4. Digits = CHOOSE f : Is(f)
    BY DEF Digits
  <1>5. Is(Digits)
    <2> HIDE DEF Is, F
    <2> QED BY <1>3, <1>4
  <1> QED BY <1>5

\* The digits of a number are digits, and read back as the number.
LEMMA DigitsRead ==
  ASSUME NEW n \in Nat
  PROVE  Digits[n] \in Seq(0 .. 9) /\ string_to_int(Digits[n]) = n
  <1> DEFINE wrong == {i \in Nat : ~(/\ Digits[i] \in Seq(0 .. 9)
                                    /\ string_to_int(Digits[i]) = i)}
  <1> SUFFICES ASSUME wrong # {} PROVE FALSE
    OBVIOUS
  <1>1. PICK i \in wrong : \A k \in wrong : i <= k
    <2> HIDE DEF wrong
    <2>1. wrong \in SUBSET Nat
      BY DEF wrong
    <2> QED BY <2>1, LeastNatural
  <1>2. CASE i = 0
    <2>1. <<>> \in Seq(0 .. 9) /\ Len(<<>>) = 0 /\ Len(<<>>) \in Nat
      OBVIOUS
    <2>2. string_to_int(<<>>) = 0
      <3>1. PICK val : Reads(val, <<>>, Len(<<>>)) /\ string_to_int(<<>>) = val[Len(<<>>)]
        BY <2>1, StringToInt
      <3>2. val[0] = 0
        BY <2>1, <3>1 DEF Reads
      <3> QED BY <2>1, <3>1, <3>2
    <2> QED BY <1>1, <1>2, <2>1, <2>2, DigitsDefined
  <1>3. CASE i # 0
    <2> DEFINE m == i \div 10
               d == i % 10
    <2>1. /\ i \in Nat /\ m \in Nat /\ m < i /\ d \in 0 .. 9 /\ i = 10 * m + d
          /\ Digits[i] = Append(Digits[m], d)
      BY <1>1, <1>3, DropDigit, DigitsDefined
    <2> HIDE DEF m, d
    <2>2. m \notin wrong
      BY <1>1, <2>1
    <2>3. Digits[m] \in Seq(0 .. 9) /\ string_to_int(Digits[m]) = m
      BY <2>1, <2>2
    <2>4. Digits[i] \in Seq(0 .. 9)
      BY <2>1, <2>3
    <2>5. string_to_int(Digits[i]) = i
      BY <2>1, <2>3, AppendDigit
    <2> QED BY <1>1, <2>4, <2>5
  <1> QED BY <1>2, <1>3

\* The two conversions of iscsi_utility.c undo each other, for every number.
THEOREM ConversionsAgree ==
  ASSUME NEW n \in Nat
  PROVE  int_to_string(n) \in Seq(0 .. 9) /\ string_to_int(int_to_string(n)) = n
  <1>1. CASE n = 0
    <2>1. <<0>> = Append(<<>>, 0) /\ <<>> \in Seq(0 .. 9) /\ 0 \in 0 .. 9
          /\ <<0>> \in Seq(0 .. 9)
      OBVIOUS
    <2>2. Digits[0] = <<>> /\ string_to_int(Digits[0]) = 0
      <3>1. 0 \in Nat
        OBVIOUS
      <3>2. Digits[0] = <<>>
        BY ONLY <3>1, DigitsDefined
      <3>3. string_to_int(Digits[0]) = 0
        BY ONLY <3>1, DigitsRead
      <3> QED BY <3>2, <3>3
    <2>3. string_to_int(<<0>>) = 0
      <3> DEFINE empty == <<>>
                 zero == 0
      <3>1. empty \in Seq(0 .. 9) /\ zero \in 0 .. 9 /\ string_to_int(empty) = 0
            /\ Append(empty, zero) = <<0>> /\ zero = 0
        BY <2>1, <2>2
      <3> HIDE DEF empty, zero
      <3>2. string_to_int(Append(empty, zero)) = 10 * string_to_int(empty) + zero
        BY <3>1, AppendDigit
      <3> QED BY ONLY <3>1, <3>2
    <2> QED BY <1>1, <2>1, <2>3 DEF int_to_string
  <1>2. CASE n # 0
    BY <1>2, DigitsRead DEF int_to_string, max
  <1> QED BY <1>1, <1>2

-------------------------------------------------------------------------------
(***************************************************************************)
(* What a numeral means.                                                   *)
(***************************************************************************)
\* TenTo is the function its recursion describes: the numbers written as a one
\* and zeros.
LEMMA TenToDefined ==
  /\ TenTo[0] = 1
  /\ \A n \in Nat \ {0} : TenTo[n] = 10 * TenTo[n - 1]
  <1> DEFINE s(n) == [i \in 1 .. n + 1 |-> IF i = 1 THEN 1 ELSE 0]
             F == [n \in Nat |-> string_to_int(s(n))]
             Is(f) == f = [n \in Nat |-> IF n = 0 THEN 1 ELSE 10 * f[n - 1]]
  <1>1. F[0] = 1
    <2>1. s(0) = Append(<<>>, 1) /\ <<>> \in Seq(0 .. 9) /\ 1 \in 0 .. 9
      OBVIOUS
    <2>2. string_to_int(<<>>) = 0
      BY DigitsRead, DigitsDefined
    <2>3. string_to_int(Append(<<>>, 1)) = 10 * 0 + 1
      BY <2>1, <2>2, AppendDigit
    <2> QED BY <2>1, <2>3
  <1>2. ASSUME NEW n \in Nat \ {0} PROVE F[n] = 10 * F[n - 1]
    <2> DEFINE t == s(n - 1)
    <2>1. t \in Seq(0 .. 9) /\ s(n) = Append(t, 0) /\ 0 \in 0 .. 9 /\ n - 1 \in Nat
      OBVIOUS
    <2>2. F[n] = string_to_int(s(n)) /\ F[n - 1] = string_to_int(t)
      BY <2>1
    <2> HIDE DEF t, s, F
    <2>3. string_to_int(Append(t, 0)) = 10 * string_to_int(t) + 0
      BY <2>1, AppendDigit
    <2>4. string_to_int(t) \in Nat
      BY <2>1, NumberType
    <2> QED BY <2>1, <2>2, <2>3, <2>4
  <1>3. Is(F)
    <2>1. F = [n \in Nat |-> F[n]]
      OBVIOUS
    <2> HIDE DEF F
    <2>2. F = [n \in Nat |-> IF n = 0 THEN 1 ELSE 10 * F[n - 1]]
      <3>1. \A n \in Nat : F[n] = IF n = 0 THEN 1 ELSE 10 * F[n - 1]
        BY <1>1, <1>2
      <3> QED BY <2>1, <3>1
    <2> QED BY <2>2
  <1>4. TenTo = CHOOSE f : Is(f)
    BY DEF TenTo
  <1>5. Is(TenTo)
    <2> HIDE DEF Is, F
    <2> QED BY <1>3, <1>4
  <1> QED BY <1>5

\* Powers of ten are positive numbers.
LEMMA TenToType ==
  ASSUME NEW n \in Nat
  PROVE  TenTo[n] \in Nat \ {0}
  <1> DEFINE wrong == {i \in Nat : TenTo[i] \notin Nat \ {0}}
  <1> SUFFICES ASSUME wrong # {} PROVE FALSE
    OBVIOUS
  <1>1. PICK i \in wrong : \A k \in wrong : i <= k
    <2> HIDE DEF wrong
    <2>1. wrong \in SUBSET Nat
      BY DEF wrong
    <2> QED BY <2>1, LeastNatural
  <1>2. i \in Nat \ {0}
    BY <1>1, TenToDefined
  <1>3. i - 1 \in Nat /\ i - 1 \notin wrong
    BY <1>1, <1>2
  <1>4. TenTo[i - 1] \in Nat \ {0} /\ TenTo[i] = 10 * TenTo[i - 1]
    BY <1>2, <1>3, TenToDefined
  <1>5. TenTo[i] \in Nat \ {0}
    BY ONLY <1>4
  <1> QED BY <1>1, <1>5

\* A quotient is determined by its bounds.
LEMMA Quotient ==
  ASSUME NEW n \in Nat, NEW b \in Nat \ {0}, NEW q \in Nat,
         b * q <= n, n < b * q + b
  PROVE  n \div b = q
  <1> DEFINE r == n \div b
  <1>1. r \in Int /\ b * r <= n /\ n < b * r + b
    OBVIOUS
  <1> HIDE DEF r
  <1>2. CASE r < q
    <2>1. b * (r + 1) <= b * q
      BY <1>1, <1>2
    <2> QED BY <1>1, <2>1
  <1>3. CASE q < r
    <2>1. b * (q + 1) <= b * r
      BY <1>1, <1>3
    <2> QED BY <1>1, <2>1
  <1> QED BY <1>1, <1>2, <1>3 DEF r

\* Dropping a digit, then more of them.
LEMMA DropDigits ==
  ASSUME NEW n \in Nat, NEW t \in Nat \ {0}
  PROVE  (n \div 10) \div t = n \div (10 * t)
  <1> DEFINE m == n \div 10
             q == m \div t
  <1>1. m \in Nat /\ 10 * m <= n /\ n < 10 * m + 10
    OBVIOUS
  <1> HIDE DEF m
  <1>2. q \in Int /\ t * q <= m /\ m < t * q + t
    BY <1>1
  <1>3. q \in Nat
    BY <1>1
  <1> HIDE DEF q
  <1> DEFINE b == 10 * t
  <1>4. b * q = 10 * (t * q) /\ b \in Nat \ {0} /\ t * q \in Nat
    BY <1>3
  <1>5. b * q <= n /\ n < b * q + b
    BY <1>1, <1>2, <1>4
  <1> HIDE DEF b
  <1>6. n \div b = q
    BY <1>3, <1>4, <1>5, Quotient
  <1> QED BY <1>6 DEF m, q, b

\* The digits of a positive number are a numeral that means it.
LEMMA DigitsMean ==
  ASSUME NEW n \in Nat \ {0}
  PROVE  Numeral(Digits[n], n) /\ Digits[n][1] # 0
  <1> DEFINE wrong == {i \in Nat \ {0} : ~(Numeral(Digits[i], i) /\ Digits[i][1] # 0)}
  <1> SUFFICES ASSUME wrong # {} PROVE FALSE
    OBVIOUS
  <1>1. PICK i \in wrong : \A k \in wrong : i <= k
    <2> HIDE DEF wrong
    <2>1. wrong \in SUBSET Nat
      BY DEF wrong
    <2> QED BY <2>1, LeastNatural
  <1> DEFINE m == i \div 10
             d == i % 10
             s == Digits[m]
             v == Digits[i]
  <1>2. /\ i \in Nat \ {0} /\ m \in Nat /\ m < i /\ d \in 0 .. 9 /\ i = 10 * m + d
        /\ v = Append(s, d) /\ s \in Seq(0 .. 9)
    <2>1. i \in Nat \ {0}
      BY <1>1
    <2> QED BY <2>1, DropDigit, DigitsDefined, DigitsRead
  <1>3. /\ Len(v) = Len(s) + 1 /\ Len(s) \in Nat /\ v[Len(v)] = d
        /\ DOMAIN v = 1 .. Len(v) /\ DOMAIN s = 1 .. Len(s)
        /\ \A k \in 1 .. Len(s) : v[k] = s[k]
    <2> HIDE DEF v, s, d
    <2> QED BY <1>2
  <1>4. TenTo[0] = 1 /\ i \div TenTo[0] = i
    BY <1>2, TenToDefined
  <1>5. CASE m = 0
    <2>1. s = <<>> /\ Len(s) = 0 /\ i = d /\ d # 0
      BY <1>2, <1>5, DigitsDefined
    <2>2. TenTo[1] = 10
      BY TenToDefined
    <2>3. v # <<>> /\ v[1] = i /\ Len(v) = 1 /\ DOMAIN v = {1}
      BY <1>3, <2>1
    <2>4. i < TenTo[Len(v)] /\ i % 10 = i
      BY <1>2, <2>1, <2>2, <2>3
    <2>5. \A k \in DOMAIN v : v[k] = (i \div TenTo[Len(v) - k]) % 10
      BY <1>4, <2>3, <2>4
    <2>6. Numeral(v, i) /\ v[1] # 0
      BY <1>2, <2>1, <2>3, <2>4, <2>5 DEF Numeral
    <2> QED BY <1>1, <2>6
  <1>6. CASE m # 0
    <2>1. m \in Nat \ {0} /\ m \notin wrong
      <3> HIDE DEF wrong, m, d, s, v
      <3> QED BY <1>1, <1>2, <1>6
    <2>2. Numeral(s, m) /\ s[1] # 0
      BY <2>1
    <2> HIDE DEF wrong, m, d, s, v
    <2>3. Len(s) # 0
      BY <1>2, <2>2 DEF Numeral
    <2>4. i < TenTo[Len(v)]
      <3>1. TenTo[Len(v)] = 10 * TenTo[Len(s)] /\ TenTo[Len(s)] \in Nat
        BY <1>3, TenToDefined, TenToType
      <3>2. m < TenTo[Len(s)]
        BY <2>2 DEF Numeral
      <3> QED BY <1>2, <3>1, <3>2
    <2>5. ASSUME NEW k \in 1 .. Len(v) PROVE v[k] = (i \div TenTo[Len(v) - k]) % 10
      <3>1. CASE k = Len(v)
        <4>1. Len(v) - k = 0 /\ v[k] = d
          BY <1>3, <3>1
        <4> QED BY <1>4, <4>1 DEF d
      <3>2. CASE k \in 1 .. Len(s)
        <4> DEFINE e == Len(s) - k
        <4>1. e \in Nat /\ Len(v) - k = e + 1
          BY <1>3, <3>2
        <4>2. v[k] = (m \div TenTo[e]) % 10
          BY <1>3, <2>2, <3>2 DEF Numeral
        <4> HIDE DEF e
        <4>3. TenTo[e] \in Nat \ {0} /\ TenTo[e + 1] = 10 * TenTo[e]
          <5>1. TenTo[e + 1] = 10 * TenTo[(e + 1) - 1] /\ (e + 1) - 1 = e
            BY <4>1, TenToDefined
          <5> QED BY <4>1, <5>1, TenToType
        <4>4. m \div TenTo[e] = i \div TenTo[e + 1]
          BY <1>2, <4>3, DropDigits DEF m
        <4> QED BY ONLY <4>1, <4>2, <4>4
      <3>3. k = Len(v) \/ k \in 1 .. Len(s)
        BY <1>3
      <3> QED BY <3>1, <3>2, <3>3
    <2>6. v # <<>> /\ v[1] = s[1] /\ v[1] # 0
      BY <1>2, <1>3, <2>2, <2>3
    <2>7. Numeral(v, i) /\ v[1] # 0
      BY <1>3, <2>4, <2>5, <2>6 DEF Numeral
    <2> QED BY <1>1, <2>7 DEF wrong, v
  <1> QED BY <1>5, <1>6

\* What int_to_string writes is a numeral that means the number, zero included.
THEOREM NumberMeans ==
  ASSUME NEW n \in Nat
  PROVE  Numeral(int_to_string(n), n)
  <1>1. CASE n = 0
    <2>1. int_to_string(0) = <<0>>
      BY DEF int_to_string
    <2>2. TenTo[0] = 1 /\ TenTo[1] = 10
      BY TenToDefined
    <2>3. Len(<<0>>) = 1 /\ DOMAIN <<0>> = {1} /\ <<0>>[1] = 0
      OBVIOUS
    <2>4. \A i \in DOMAIN <<0>> : <<0>>[i] = (0 \div TenTo[Len(<<0>>) - i]) % 10
      BY <2>2, <2>3
    <2>5. Numeral(<<0>>, 0)
      BY <2>2, <2>3, <2>4 DEF Numeral
    <2> QED BY <1>1, <2>1, <2>5
  <1>2. CASE n # 0
    BY <1>2, DigitsMean DEF int_to_string, max
  <1> QED BY <1>1, <1>2

-------------------------------------------------------------------------------
(***************************************************************************)
(* Parameters and texts.                                                   *)
(***************************************************************************)
NumberKeys == MinKeys \cup MaxKeys

\* A key is a number bounded from above or from below, or a boolean.
LEMMA KeyKinds ==
  /\ Keys = NumberKeys \cup BoolKeys
  /\ \A k \in MinKeys : k \notin MaxKeys /\ k \notin BoolKeys
  /\ \A k \in MaxKeys : k \notin MinKeys /\ k \notin BoolKeys
  /\ \A k \in BoolKeys : k \notin MinKeys /\ k \notin MaxKeys
  BY DEF Keys, NumberKeys, MinKeys, MaxKeys, BoolKeys

\* The value v of key k has the type of the key; no text sets a Boolean to FALSE.
IsValue(k, v) ==
  /\ k \in NumberKeys => v \in Nat
  /\ k \in BoolKeys => v = TRUE

IsParameter(parameter) ==
  /\ parameter = [k \in Keys |-> parameter[k]]
  /\ \A k \in Keys : IsValue(k, parameter[k])

\* The size of a connection's buffer, and the bound derived from it.
LEMMA BufferSizeType == PARAMETER_BUFFER_SIZE \in Nat /\ PARAMETER_BUFFER_SIZE - 1000 \in Nat
  BY SMT DEF PARAMETER_BUFFER_SIZE

\* The defaults of the booleans are all true.
LEMMA DefaultTrue == \A k \in BoolKeys : set_default_parameter[k] = TRUE
  BY DEF set_default_parameter, BoolKeys

\* The defaults are typed.
LEMMA DefaultType ==
  /\ IsParameter(set_default_parameter)
  /\ \A k \in NumberKeys : Bound(k) \in Nat
  <1>1. \A k \in Keys : IsValue(k, set_default_parameter[k])
    <2>1. \A k \in NumberKeys : set_default_parameter[k] \in Nat
      BY BufferSizeType DEF set_default_parameter, NumberKeys, MinKeys, MaxKeys
    <2>2. \A k \in BoolKeys : set_default_parameter[k] = TRUE
      BY DefaultTrue
    <2> QED BY <2>1, <2>2 DEF IsValue
  <1>2. set_default_parameter = [k \in Keys |-> set_default_parameter[k]]
    BY DEF set_default_parameter, Keys, MinKeys, MaxKeys, BoolKeys
  <1>3. ASSUME NEW k \in NumberKeys PROVE Bound(k) \in Nat
    <2>1. k \in Keys /\ set_default_parameter[k] \in Nat
      BY <1>1 DEF IsValue, Keys, NumberKeys
    <2> QED BY <2>1, BufferSizeType DEF Bound
  <1> QED BY <1>1, <1>2, <1>3 DEF IsParameter

\* So is every value stored for a key: a number is never beyond its bound, and no
\* boolean can be turned off.
LEMMA UpdateType ==
  ASSUME NEW k \in Keys, NEW value, k \in NumberKeys => value \in Seq(0 .. 9)
  PROVE  /\ IsValue(k, update_information(k, value))
         /\ k \in MinKeys => update_information(k, value) <= Bound(k)
         /\ k \in MaxKeys => update_information(k, value) >= Bound(k)
         /\ k \in BoolKeys => update_information(k, value) = TRUE
  <1>1. CASE k \in MinKeys
    <2>1. Bound(k) \in Nat /\ string_to_int(value) \in Nat
      BY <1>1, DefaultType, NumberType DEF NumberKeys
    <2>2. update_information(k, value) = min(string_to_int(value), Bound(k))
      BY <1>1, KeyKinds DEF update_information
    <2> QED BY <1>1, <2>1, <2>2, KeyKinds DEF IsValue, min
  <1>2. CASE k \in MaxKeys
    <2>1. Bound(k) \in Nat /\ string_to_int(value) \in Nat
      BY <1>2, DefaultType, NumberType DEF NumberKeys
    <2>2. update_information(k, value) = max(string_to_int(value), Bound(k))
      BY <1>2, KeyKinds DEF update_information
    <2> QED BY <1>2, <2>1, <2>2, KeyKinds DEF IsValue, max
  <1>3. CASE k \in BoolKeys
    <2>1. set_default_parameter[k] = TRUE
      BY <1>3, DefaultTrue
    <2>2. update_information(k, value) = TRUE
      BY <1>3, <2>1, KeyKinds DEF update_information
    <2> QED BY <1>3, <2>2, KeyKinds DEF IsValue, NumberKeys
  <1> QED BY <1>1, <1>2, <1>3 DEF Keys

\* A key that occurs in a text has a last value.
LEMMA LastOccurrence ==
  ASSUME NEW text, IsText(text), NEW k, Occurrences(text, k) # {}
  PROVE  LET i == CHOOSE i \in Occurrences(text, k) :
                    \A j \in Occurrences(text, k) : j <= i
         IN i \in DOMAIN text /\ text[i][1] = k
  <1> DEFINE S == Occurrences(text, k)
  <1>1. S \in SUBSET Nat /\ Len(text) \in Nat /\ \A y \in S : y <= Len(text)
    BY DEF IsText, Occurrences
  <1>2. \E i \in S : \A j \in S : j <= i
    <2> HIDE DEF S
    <2> QED BY <1>1, GreatestNatural DEF S
  <1> QED BY <1>2 DEF Occurrences

\* The parameters a login text leaves.
LEMMA CreateType ==
  ASSUME NEW text, IsText(text)
  PROVE  LET created == iscsi_connection_parameter_create(text)
         IN /\ IsParameter(created)
            /\ \A k \in Keys \ {"MaxRecvDataSegmentLength"} :
                 /\ k \in MinKeys => created[k] <= Bound(k)
                 /\ k \in MaxKeys => created[k] >= Bound(k)
                 /\ k \in BoolKeys => created[k] = TRUE
  <1> DEFINE created == iscsi_connection_parameter_create(text)
  <1>1. ASSUME NEW k \in Keys
        PROVE  /\ IsValue(k, created[k])
               /\ k # "MaxRecvDataSegmentLength" =>
                    /\ k \in MinKeys => created[k] <= Bound(k)
                    /\ k \in MaxKeys => created[k] >= Bound(k)
                    /\ k \in BoolKeys => created[k] = TRUE
    <2>1. CASE Occurrences(text, k) = {}
      <3>1. created[k] = set_default_parameter[k]
        BY <2>1 DEF iscsi_connection_parameter_create
      <3>2. k # "MaxRecvDataSegmentLength" => Bound(k) = set_default_parameter[k]
        BY DEF Bound
      <3>3. k \in BoolKeys => set_default_parameter[k] = TRUE
        BY DefaultTrue
      <3>4. IsValue(k, set_default_parameter[k])
        BY DefaultType DEF IsParameter
      <3> HIDE DEF created
      <3> QED BY <3>1, <3>2, <3>3, <3>4 DEF IsValue, NumberKeys
    <2>2. CASE Occurrences(text, k) # {}
      <3> DEFINE i == CHOOSE i \in Occurrences(text, k) :
                        \A j \in Occurrences(text, k) : j <= i
                 value == text[i][2]
      <3>1. i \in DOMAIN text /\ text[i][1] = k
        BY <2>2, LastOccurrence
      <3>2. created[k] = update_information(k, value)
        BY <2>2 DEF iscsi_connection_parameter_create
      <3> HIDE DEF i, created
      <3>3. k \in NumberKeys => value \in Seq(0 .. 9)
        BY <3>1 DEF IsText, NumberKeys
      <3> HIDE DEF value
      <3> QED BY <3>2, <3>3, UpdateType
    <2> QED BY <2>1, <2>2
  <1>2. created = [k \in Keys |-> created[k]]
    BY DEF iscsi_connection_parameter_create
  <1> HIDE DEF created
  <1>3. IsParameter(created)
    BY <1>1, <1>2 DEF IsParameter
  <1> QED BY <1>1, <1>3 DEF created

\* A key that occurs in a text has a first value.
LEMMA FirstOccurrence ==
  ASSUME NEW text, IsText(text), NEW k, Occurrences(text, k) # {}
  PROVE  \E i \in DOMAIN text :
           text[i][1] = k /\ iscsi_parameter_get(text, k) = text[i][2]
  <1> DEFINE S == Occurrences(text, k)
             i == CHOOSE i \in S : \A j \in S : i <= j
  <1>1. S \in SUBSET Nat
    BY DEF IsText, Occurrences
  <1>2. \E n \in S : \A j \in S : n <= j
    <2> HIDE DEF S
    <2> QED BY <1>1, LeastNatural DEF S
  <1>3. i \in S
    <2> HIDE DEF S
    <2> QED BY <1>2
  <1>4. i \in DOMAIN text /\ text[i][1] = k
    BY <1>3 DEF Occurrences
  <1>5. iscsi_parameter_get(text, k) = text[i][2]
    BY DEF iscsi_parameter_get
  <1> HIDE DEF i
  <1> QED BY <1>4, <1>5

\* The value written for a key.
ValueText(parameter, k) ==
  IF k \in BoolKeys THEN bool_to_string(parameter[k]) ELSE int_to_string(parameter[k])

\* The pairs of the answer.
LEMMA OperationalPairs ==
  ASSUME NEW parameter, IsParameter(parameter)
  PROVE  LET text == OperationalText(parameter)
         IN /\ IsText(text)
            /\ \A i \in DOMAIN text :
                 /\ text[i][1] \in Keys \ {"MaxRecvDataSegmentLength"}
                 /\ text[i][2] = ValueText(parameter, text[i][1])
  <1> DEFINE text == OperationalText(parameter)
             K == OperationalKeys
  <1>1. /\ DOMAIN K = 1 .. 10
        /\ \A i \in 1 .. 10 : K[i] \in Keys \ {"MaxRecvDataSegmentLength"}
    BY DEF OperationalKeys, Keys, MinKeys, MaxKeys, BoolKeys
  <1>2. text = [i \in 1 .. 10 |-> <<K[i], ValueText(parameter, K[i])>>]
    <2> HIDE DEF K
    <2> QED BY <1>1 DEF OperationalText, ValueText, K
  <1> HIDE DEF K
  <1>3. /\ DOMAIN text = 1 .. 10 /\ Len(text) = 10
        /\ \A i \in 1 .. 10 : text[i][1] = K[i] /\ text[i][2] = ValueText(parameter, K[i])
    BY <1>2
  <1> HIDE DEF text
  <1>4. ASSUME NEW i \in 1 .. 10, K[i] \in NumberKeys
        PROVE  ValueText(parameter, K[i]) \in Seq(0 .. 9)
    <2>1. K[i] \in Keys /\ K[i] \notin BoolKeys
      BY <1>4, KeyKinds DEF NumberKeys
    <2>2. parameter[K[i]] \in Nat
      BY <1>4, <2>1 DEF IsParameter, IsValue
    <2> QED BY <2>1, <2>2, ConversionsAgree DEF ValueText
  <1>5. IsText(text)
    BY <1>3, <1>4 DEF IsText, NumberKeys
  <1> QED BY <1>1, <1>3, <1>5 DEF text

\* What update_information reads back of a value of the answer is what the receiver
\* of the answer understands by it.
LEMMA ReadBack ==
  ASSUME NEW text, IsText(text),
         NEW k \in Keys \ {"MaxRecvDataSegmentLength"}
  PROVE  LET value == ValueText(iscsi_connection_parameter_create(text), k)
         IN Means(k, value, update_information(k, value))
  <1> DEFINE created == iscsi_connection_parameter_create(text)
             value == ValueText(created, k)
  <1>1. /\ IsValue(k, created[k])
        /\ k \in MinKeys => created[k] <= Bound(k)
        /\ k \in MaxKeys => created[k] >= Bound(k)
        /\ k \in BoolKeys => created[k] = TRUE
    BY CreateType DEF IsParameter
  <1> HIDE DEF created
  <1>2. CASE k \in BoolKeys
    <2>1. value = "YES"
      BY <1>1, <1>2 DEF ValueText, bool_to_string
    <2>2. update_information(k, value) = TRUE
      BY <1>2, KeyKinds, UpdateType DEF NumberKeys
    <2> QED BY <1>2, <2>1, <2>2 DEF Means, created
  <1>3. CASE k \notin BoolKeys
    <2> DEFINE n == created[k]
    <2>1. k \in NumberKeys /\ n \in Nat
      BY <1>1, <1>3, KeyKinds DEF IsValue
    <2>2. value = int_to_string(n)
      BY <1>3 DEF ValueText
    <2>3. string_to_int(value) = n /\ Numeral(value, n)
      BY <2>1, <2>2, ConversionsAgree, NumberMeans
    <2>4. Bound(k) \in Nat
      BY <2>1, DefaultType
    <2> HIDE DEF value
    <2>5. CASE k \in MinKeys
      <3>1. update_information(k, value) = min(n, Bound(k))
        BY <2>3, <2>5 DEF update_information, MinKeys, MaxKeys, BoolKeys
      <3>2. min(n, Bound(k)) = n
        BY <1>1, <2>1, <2>4, <2>5 DEF min
      <3> QED BY <1>3, <2>3, <3>1, <3>2 DEF Means, value, created
    <2>6. CASE k \in MaxKeys
      <3>1. update_information(k, value) = max(n, Bound(k))
        BY <2>3, <2>6 DEF update_information, MinKeys, MaxKeys, BoolKeys
      <3>2. max(n, Bound(k)) = n
        BY <1>1, <2>1, <2>4, <2>6 DEF max
      <3> QED BY <1>3, <2>3, <3>1, <3>2 DEF Means, value, created
    <2> QED BY <2>1, <2>5, <2>6 DEF NumberKeys
  <1> QED BY <1>2, <1>3

\* The values of the answer, read back by the target, are in force; those that are
\* not written keep the type they had.
THEOREM AnswerInForce ==
  ASSUME NEW text, IsText(text)
  PROVE  LET created == iscsi_connection_parameter_create(text)
             answer == OperationalText(created)
             parameter == iscsi_connection_parameter_generate_operational_data(created)
         IN /\ IsParameter(parameter)
            /\ \A i \in DOMAIN answer :
                 Means(answer[i][1], answer[i][2], parameter[answer[i][1]])
  <1> DEFINE created == iscsi_connection_parameter_create(text)
             answer == OperationalText(created)
             parameter == iscsi_connection_parameter_generate_operational_data(created)
             Written(k) == \E i \in DOMAIN answer : answer[i][1] = k
  <1>1. IsParameter(created)
    BY CreateType
  <1>2. /\ IsText(answer)
        /\ \A i \in DOMAIN answer :
             /\ answer[i][1] \in Keys \ {"MaxRecvDataSegmentLength"}
             /\ answer[i][2] = ValueText(created, answer[i][1])
    BY <1>1, OperationalPairs
  <1>3. parameter = [k \in Keys |->
                       IF Written(k)
                         THEN update_information(k, iscsi_parameter_get(answer, k))
                         ELSE created[k]]
    BY DEF iscsi_connection_parameter_generate_operational_data
  <1> HIDE DEF parameter, answer, created
  <1>4. ASSUME NEW k \in Keys, Written(k)
        PROVE  /\ k # "MaxRecvDataSegmentLength"
               /\ iscsi_parameter_get(answer, k) = ValueText(created, k)
    <2>1. Occurrences(answer, k) # {}
      BY <1>4 DEF Occurrences
    <2>2. PICK i \in DOMAIN answer :
            answer[i][1] = k /\ iscsi_parameter_get(answer, k) = answer[i][2]
      BY <1>2, <2>1, FirstOccurrence
    <2> QED BY <1>2, <2>2
  <1>5. ASSUME NEW k \in Keys, Written(k)
        PROVE  Means(k, ValueText(created, k), parameter[k])
    <2>1. parameter[k] = update_information(k, ValueText(created, k))
      BY <1>3, <1>4, <1>5
    <2>2. k \in Keys \ {"MaxRecvDataSegmentLength"}
      BY <1>4, <1>5
    <2> QED BY <2>1, <2>2, ReadBack DEF created
  <1>6. ASSUME NEW k \in Keys PROVE IsValue(k, parameter[k])
    <2>1. CASE Written(k)
      <3>1. PICK i \in DOMAIN answer : answer[i][1] = k
        BY <2>1
      <3>2. k \in NumberKeys => ValueText(created, k) \in Seq(0 .. 9)
        BY <1>2, <3>1 DEF IsText, NumberKeys
      <3>3. parameter[k] = update_information(k, ValueText(created, k))
        BY <1>3, <1>4, <2>1
      <3> QED BY <3>2, <3>3, UpdateType
    <2>2. CASE ~Written(k)
      BY <1>1, <1>3, <2>2 DEF IsParameter
    <2> QED BY <2>1, <2>2
  <1>7. IsParameter(parameter)
    BY <1>3, <1>6 DEF IsParameter
  <1>8. \A i \in DOMAIN answer :
          Means(answer[i][1], answer[i][2], parameter[answer[i][1]])
    BY <1>2, <1>5
  <1> QED BY <1>7, <1>8 DEF parameter, answer, created

===============================================================================
