-------------------------- MODULE CommandParsersProofs ------------------------
(***************************************************************************)
(* The parsers lose nothing and misread no number, whatever the largest    *)
(* int and the length of the text.                                         *)
(***************************************************************************)
EXTENDS CommandParsers, FiniteSetTheorems, SequenceTheorems, TLAPS

\* The texts a client can have made.
TextInv == text \in Seq(Tokens) /\ Len(text) <= MaxLength

DigitStrings == Seq(DOMAIN Digit)
-------------------------------------------------------------------------------
(* Induction over the natural numbers, in terms of sets.                   *)

\* A set of natural numbers has a least element: the intervals below them are
\* finite sets, and strict inclusion of these is well-founded.
LEMMA LeastNumber ==
    ASSUME NEW T \in SUBSET Nat, T # {}
    PROVE  \E m \in T : \A n \in T : m <= n
<1> DEFINE R == StrictSubsetOrdering(Nat)
           S == FiniteSubsetsOf(Nat)
           U == {0..(n - 1) : n \in T}
<1>1. IsWellFoundedOn(R, S)
  BY FS_StrictSubsetOrderingWellFounded, Zenon
<1>2. U \subseteq S /\ U # {}
  <2>1. \A n \in T : 0..(n - 1) \in SUBSET Nat /\ IsFiniteSet(0..(n - 1))
    BY FS_Interval
  <2>2. \A n \in T : 0..(n - 1) \in S
    BY <2>1 DEF FiniteSubsetsOf
  <2>. QED
    BY <2>2
<1> HIDE DEF U, S
<1>3. PICK x \in U : \A y \in U : <<y, x>> \notin R
  BY <1>1, <1>2, WFMin
<1>4. PICK m \in T : x = 0..(m - 1)
  BY DEF U
<1>5. ASSUME NEW n \in T, ~ (m <= n)
      PROVE  FALSE
  <2>1. 0..(n - 1) \subseteq 0..(m - 1) /\ 0..(n - 1) # 0..(m - 1)
    <3>1. n \in 0..(m - 1) /\ n \notin 0..(n - 1)
      BY <1>5
    <3>. QED
      BY <1>5, <3>1
  <2>2. <<0..(n - 1), x>> \in R
    BY <2>1, <1>4 DEF StrictSubsetOrdering
  <2>. QED
    BY <2>2, <1>3 DEF U
<1>. QED
  BY <1>5

LEMMA AllNumbers ==
    ASSUME NEW S \in SUBSET Nat, \A n \in Nat : (\A k \in 0..(n - 1) : k \in S) => n \in S
    PROVE  S = Nat
<1>1. SUFFICES ASSUME Nat \ S # {}
               PROVE  FALSE
  OBVIOUS
<1>2. PICK m \in Nat \ S : \A n \in Nat \ S : m <= n
  BY <1>1, LeastNumber
<1>3. \A k \in 0..(m - 1) : k \in S
  BY <1>2
<1>. QED
  BY <1>2, <1>3

LEMMA GreatestNumber ==
    ASSUME NEW N \in Nat, NEW S \in SUBSET (0..N), S # {}
    PROVE  Max(S) \in S /\ \A k \in S : k <= Max(S)
<1> DEFINE T == {N - k : k \in S}
<1>1. T \in SUBSET Nat /\ T # {}
  <2>1. \A k \in S : N - k \in Nat
    OBVIOUS
  <2>2. \E k \in S : N - k \in T
    OBVIOUS
  <2>. QED
    BY <2>1, <2>2
<1>2. PICK m \in T : \A n \in T : m <= n
  BY <1>1, LeastNumber
<1>3. PICK x \in S : m = N - x
  BY <1>2
<1>4. \A k \in S : x >= k
  BY <1>2, <1>3
<1>5. Max(S) \in S /\ \A k \in S : Max(S) >= k
  BY <1>4, Zenon DEF Max
<1>. QED
  BY <1>5
-------------------------------------------------------------------------------
(* The number that digits make.                                            *)

\* f holds the numbers that the first digits of s make, up to place n.
Makes(f, s, n) == f = [i \in 0..n |-> IF i = 0 THEN 0 ELSE 10 * f[i - 1] + Digit[s[i]]]

LEMMA MakesExists ==
    ASSUME NEW s, NEW n \in Nat
    PROVE  \E f : Makes(f, s, n)
<1> DEFINE S == {k \in Nat : \E f : Makes(f, s, k)}
<1>1. ASSUME NEW k \in Nat, \A j \in 0..(k - 1) : j \in S
      PROVE  k \in S
  <2>1. CASE k = 0
    <3> DEFINE g == [i \in 0..0 |-> 0]
    <3>1. Makes(g, s, 0)
      BY DEF Makes
    <3>. QED
      BY <2>1, <3>1
  <2>2. CASE k # 0
    <3>1. PICK f : Makes(f, s, k - 1)
      BY <1>1, <2>2
    <3> DEFINE g == [i \in 0..k |-> IF i = k THEN 10 * f[k - 1] + Digit[s[k]] ELSE f[i]]
    <3>2. ASSUME NEW i \in 0..k
          PROVE  g[i] = IF i = 0 THEN 0 ELSE 10 * g[i - 1] + Digit[s[i]]
      <4>1. CASE i = k
        BY <4>1, <2>2
      <4>2. CASE i # k
        <5>1. i \in 0..(k - 1)
          BY <4>2
        <5>2. f[i] = IF i = 0 THEN 0 ELSE 10 * f[i - 1] + Digit[s[i]]
          BY <3>1, <5>1 DEF Makes
        <5>3. g[i] = f[i] /\ (i # 0 => g[i - 1] = f[i - 1])
          BY <5>1
        <5>. QED
          BY <5>2, <5>3
      <4>. QED
        BY <4>1, <4>2
    <3>3. g = [i \in 0..k |-> g[i]]
      OBVIOUS
    <3> HIDE DEF g
    <3>4. g = [i \in 0..k |-> IF i = 0 THEN 0 ELSE 10 * g[i - 1] + Digit[s[i]]]
      BY <3>2, <3>3
    <3>. QED
      BY <3>4 DEF Makes
  <2>. QED
    BY <2>1, <2>2
<1>2. S = Nat
  <2>1. S \in SUBSET Nat
    OBVIOUS
  <2> HIDE DEF S
  <2>. QED
    BY <2>1, <1>1, AllNumbers
<1>. QED
  BY <1>2

LEMMA ValueIsMade ==
    ASSUME NEW s \in DigitStrings
    PROVE  \E f : Makes(f, s, Len(s)) /\ Value(s) = f[Len(s)]
<1>. Len(s) \in Nat
  BY DEF DigitStrings
<1>1. \E f : f = [i \in 0..Len(s) |-> IF i = 0 THEN 0 ELSE 10 * f[i - 1] + Digit[s[i]]]
  BY MakesExists DEF Makes
<1> DEFINE g == CHOOSE f : f = [i \in 0..Len(s) |->
                                  IF i = 0 THEN 0 ELSE 10 * f[i - 1] + Digit[s[i]]]
<1>2. Makes(g, s, Len(s))
  BY <1>1, Zenon DEF Makes
<1>3. Value(s) = g[Len(s)]
  BY Zenon DEF Value
<1>. QED
  BY <1>2, <1>3

LEMMA DigitProperties ==
    /\ \A d \in DOMAIN Digit : Digit[d] \in 0..9
    /\ \A k \in 0..9 : \E d \in DOMAIN Digit : Digit[d] = k
    /\ \A d, e \in DOMAIN Digit : Digit[d] = Digit[e] => d = e
    /\ "0" \in DOMAIN Digit /\ Digit["0"] = 0
<1>1. DOMAIN Digit = {"0", "1", "2", "3", "4", "5", "6", "7", "8", "9"}
  BY DEF Digit
<1>2. /\ Digit["0"] = 0 /\ Digit["1"] = 1 /\ Digit["2"] = 2 /\ Digit["3"] = 3
      /\ Digit["4"] = 4 /\ Digit["5"] = 5 /\ Digit["6"] = 6 /\ Digit["7"] = 7
      /\ Digit["8"] = 8 /\ Digit["9"] = 9
  BY DEF Digit
<1>3. \A d, e \in DOMAIN Digit : Digit[d] = Digit[e] => d = e
  BY <1>1, <1>2
<1>4. \A k \in 0..9 : \E d \in DOMAIN Digit : Digit[d] = k
  <2>1. \A k \in 0..9 : k = 0 \/ k = 1 \/ k = 2 \/ k = 3 \/ k = 4 \/ k = 5 \/ k = 6
                            \/ k = 7 \/ k = 8 \/ k = 9
    OBVIOUS
  <2>. QED
    BY <1>1, <1>2, <2>1
<1>. QED
  BY <1>1, <1>2, <1>3, <1>4

LEMMA MadeAgree ==
    ASSUME NEW s, NEW t, NEW n \in Nat, NEW m \in Nat, n <= m,
           \A i \in 1..n : s[i] = t[i],
           NEW f, Makes(f, s, n), NEW g, Makes(g, t, m)
    PROVE  f[n] = g[n]
<1> DEFINE S == {k \in Nat : k <= n => f[k] = g[k]}
<1>1. ASSUME NEW k \in Nat, \A j \in 0..(k - 1) : j \in S
      PROVE  k \in S
  <2>1. SUFFICES ASSUME k <= n
                 PROVE  f[k] = g[k]
    OBVIOUS
  <2>2. /\ f[k] = IF k = 0 THEN 0 ELSE 10 * f[k - 1] + Digit[s[k]]
        /\ g[k] = IF k = 0 THEN 0 ELSE 10 * g[k - 1] + Digit[t[k]]
    BY <2>1 DEF Makes
  <2>3. CASE k = 0
    BY <2>2, <2>3
  <2>4. CASE k # 0
    <3>1. k - 1 \in S /\ k - 1 <= n
      BY <1>1, <2>1, <2>4
    <3>2. f[k - 1] = g[k - 1] /\ s[k] = t[k]
      BY <3>1, <2>1, <2>4
    <3>. QED
      BY <2>2, <2>4, <3>2
  <2>. QED
    BY <2>3, <2>4
<1>2. S = Nat
  <2>1. S \in SUBSET Nat
    OBVIOUS
  <2> HIDE DEF S
  <2>. QED
    BY <2>1, <1>1, AllNumbers
<1>. QED
  BY <1>2

LEMMA ValueOfNone ==
    Value(<<>>) = 0
<1>1. PICK f : Makes(f, <<>>, 0) /\ Value(<<>>) = f[0]
  <2>1. <<>> \in DigitStrings /\ Len(<<>>) = 0
    BY DEF DigitStrings
  <2>. QED
    BY <2>1, ValueIsMade
<1>. QED
  BY <1>1 DEF Makes

LEMMA ValueOfAppend ==
    ASSUME NEW s \in DigitStrings, NEW d \in DOMAIN Digit
    PROVE  Value(Append(s, d)) = 10 * Value(s) + Digit[d]
<1>0. PICK t : t = Append(s, d)
  OBVIOUS
<1>1. /\ Len(s) \in Nat /\ Len(t) = Len(s) + 1 /\ t[Len(s) + 1] = d
      /\ \A i \in 1..Len(s) : s[i] = t[i]
      /\ t \in DigitStrings
  BY <1>0 DEF DigitStrings
<1>2. PICK f : Makes(f, s, Len(s)) /\ Value(s) = f[Len(s)]
  BY ValueIsMade
<1>3. PICK g : Makes(g, t, Len(t)) /\ Value(t) = g[Len(t)]
  BY <1>1, ValueIsMade
<1>4. f[Len(s)] = g[Len(s)]
  <2>1. PICK n, m : n = Len(s) /\ m = Len(t)
    OBVIOUS
  <2>2. n \in Nat /\ m \in Nat /\ n <= m /\ \A i \in 1..n : s[i] = t[i]
    BY <1>1, <2>1
  <2>3. Makes(f, s, n) /\ Makes(g, t, m)
    BY <1>2, <1>3, <2>1
  <2>4. f[n] = g[n]
    BY ONLY <2>2, <2>3, MadeAgree, SMTT(30)
  <2>. QED
    BY <2>1, <2>4
<1>5. g[Len(s) + 1] = 10 * g[Len(s)] + Digit[d]
  BY <1>1, <1>3 DEF Makes
<1>6. Value(t) = 10 * Value(s) + Digit[d]
  BY <1>1, <1>2, <1>3, <1>4, <1>5
<1>. QED
  BY <1>0, <1>6

\* Induction over strings of digits.
LEMMA AllDigitStrings ==
    ASSUME NEW S \in SUBSET DigitStrings, <<>> \in S,
           \A s \in S, d \in DOMAIN Digit : Append(s, d) \in S
    PROVE  S = DigitStrings
<1> DEFINE T == {n \in Nat : \A s \in DigitStrings : Len(s) = n => s \in S}
<1>1. ASSUME NEW n \in Nat, \A k \in 0..(n - 1) : k \in T
      PROVE  n \in T
  <2>1. SUFFICES ASSUME NEW s \in DigitStrings, Len(s) = n
                 PROVE  s \in S
    OBVIOUS
  <2>2. CASE n = 0
    <3>1. s = <<>>
      BY <2>1, <2>2 DEF DigitStrings
    <3>. QED
      BY <3>1
  <2>3. CASE n # 0
    <3> DEFINE r == SubSeq(s, 1, n - 1)
    <3>1. /\ r \in DigitStrings /\ Len(r) = n - 1
          /\ s[n] \in DOMAIN Digit /\ s = Append(r, s[n])
      <4>1. s \in Seq(DOMAIN Digit) /\ n \in 1..Len(s)
        BY <2>1, <2>3 DEF DigitStrings
      <4>2. s[n] \in DOMAIN Digit
        BY <4>1
      <4>3. r \in Seq(DOMAIN Digit) /\ Len(r) = n - 1 /\ \A i \in 1..(n - 1) : r[i] = s[i]
        BY <4>1, <2>1
      <4>4. /\ Append(r, s[n]) \in Seq(DOMAIN Digit) /\ Len(Append(r, s[n])) = n
            /\ \A i \in 1..n : Append(r, s[n])[i] = s[i]
        <5> HIDE DEF r
        <5>. QED
          BY <4>2, <4>3
      <4> HIDE DEF r
      <4>5. s = Append(r, s[n])
        BY <4>1, <4>4, <2>1
      <4>. QED
        BY <4>2, <4>3, <4>5 DEF DigitStrings
    <3>2. n - 1 \in T
      BY <1>1, <2>3
    <3>3. r \in S
      BY <3>1, <3>2
    <3>. QED
      BY <3>1, <3>3
  <2>. QED
    BY <2>2, <2>3
<1>2. T = Nat
  <2>1. T \in SUBSET Nat
    OBVIOUS
  <2> HIDE DEF T
  <2>. QED
    BY <2>1, <1>1, AllNumbers
<1>3. ASSUME NEW s \in DigitStrings
      PROVE  s \in S
  <2>1. Len(s) \in T
    BY <1>2 DEF DigitStrings
  <2>. QED
    BY <2>1
<1>. QED
  BY <1>3

LEMMA ValueType ==
    ASSUME NEW s \in DigitStrings
    PROVE  Value(s) \in Nat
<1> DEFINE S == {r \in DigitStrings : Value(r) \in Nat}
<1>1. <<>> \in S
  BY ValueOfNone DEF DigitStrings
<1>2. ASSUME NEW r \in S, NEW d \in DOMAIN Digit
      PROVE  Append(r, d) \in S
  <2>1. Value(Append(r, d)) = 10 * Value(r) + Digit[d] /\ Append(r, d) \in DigitStrings
    BY ValueOfAppend DEF DigitStrings
  <2>. QED
    BY <2>1, DigitProperties
<1>3. S = DigitStrings
  <2>1. S \in SUBSET DigitStrings
    OBVIOUS
  <2> HIDE DEF S
  <2>. QED
    BY <2>1, <1>1, <1>2, AllDigitStrings
<1>. QED
  BY <1>3
-------------------------------------------------------------------------------
(* The digits of a number.                                                 *)

Last(k) == CHOOSE d \in DOMAIN Digit : Digit[d] = k % 10

\* f holds the decimal forms of the numbers up to n.
Writes(f, n) == f = [k \in 0..n |-> IF k < 10 THEN <<Last(k)>>
                                    ELSE Append(f[k \div 10], Last(k))]

LEMMA LastDigit ==
    ASSUME NEW k \in Nat
    PROVE  Last(k) \in DOMAIN Digit /\ Digit[Last(k)] = k % 10
<1>1. k % 10 \in 0..9
  OBVIOUS
<1>2. \E d \in DOMAIN Digit : Digit[d] = k % 10
  BY <1>1, DigitProperties
<1>. QED
  BY <1>2, Zenon DEF Last

LEMMA WritesExists ==
    ASSUME NEW n \in Nat
    PROVE  \E f : Writes(f, n)
<1> DEFINE S == {k \in Nat : \E f : Writes(f, k)}
<1>1. ASSUME NEW k \in Nat, \A j \in 0..(k - 1) : j \in S
      PROVE  k \in S
  <2>1. CASE k = 0
    <3> DEFINE g == [i \in 0..0 |-> <<Last(0)>>]
    <3>1. Writes(g, 0)
      <4>1. \A i \in 0..0 : i < 10 /\ i = 0
        OBVIOUS
      <4>. QED
        BY <4>1 DEF Writes
    <3>. QED
      BY <2>1, <3>1
  <2>2. CASE k # 0
    <3>1. PICK f : Writes(f, k - 1)
      BY <1>1, <2>2
    <3> DEFINE g == [i \in 0..k |-> IF i = k THEN IF k < 10 THEN <<Last(k)>>
                                                  ELSE Append(f[k \div 10], Last(k))
                                    ELSE f[i]]
    <3>2. ASSUME NEW i \in 0..k
          PROVE  g[i] = IF i < 10 THEN <<Last(i)>> ELSE Append(g[i \div 10], Last(i))
      <4>1. i >= 10 => i \div 10 \in 0..(k - 1) /\ i \div 10 # k
        OBVIOUS
      <4>2. CASE i = k
        BY <4>1, <4>2
      <4>3. CASE i # k
        <5>1. i \in 0..(k - 1)
          BY <4>3
        <5>2. f[i] = IF i < 10 THEN <<Last(i)>> ELSE Append(f[i \div 10], Last(i))
          BY <3>1, <5>1 DEF Writes
        <5>3. g[i] = f[i] /\ (i >= 10 => g[i \div 10] = f[i \div 10])
          BY <4>1, <5>1
        <5>. QED
          BY <5>2, <5>3
      <4>. QED
        BY <4>2, <4>3
    <3>3. g = [i \in 0..k |-> g[i]]
      OBVIOUS
    <3> HIDE DEF g
    <3>4. g = [i \in 0..k |-> IF i < 10 THEN <<Last(i)>> ELSE Append(g[i \div 10], Last(i))]
      BY <3>2, <3>3
    <3>. QED
      BY <3>4 DEF Writes
  <2>. QED
    BY <2>1, <2>2
<1>2. S = Nat
  <2>1. S \in SUBSET Nat
    OBVIOUS
  <2> HIDE DEF S
  <2>. QED
    BY <2>1, <1>1, AllNumbers
<1>. QED
  BY <1>2

LEMMA WrittenForm ==
    ASSUME NEW n \in Nat, NEW f, Writes(f, n), NEW k \in 0..n
    PROVE  f[k] = IF k < 10 THEN <<Last(k)>> ELSE Append(f[k \div 10], Last(k))
  BY Zenon DEF Writes

LEMMA DecimalIsWritten ==
    ASSUME NEW n \in Nat
    PROVE  \E f : Writes(f, n) /\ Decimal(n) = f[n]
<1>1. \E f : f = [k \in 0..n |-> IF k < 10 THEN <<Last(k)>> ELSE Append(f[k \div 10], Last(k))]
  BY WritesExists DEF Writes
<1> DEFINE g == CHOOSE f : f = [k \in 0..n |-> IF k < 10 THEN <<Last(k)>>
                                               ELSE Append(f[k \div 10], Last(k))]
<1>2. Writes(g, n)
  BY <1>1, Zenon DEF Writes
<1>3. Decimal(n) = g[n]
  BY Zenon DEF Decimal, Last
<1>. QED
  BY <1>2, <1>3

LEMMA WrittenAgree ==
    ASSUME NEW n \in Nat, NEW m \in Nat, n <= m,
           NEW f, Writes(f, n), NEW g, Writes(g, m)
    PROVE  f[n] = g[n]
<1> DEFINE S == {k \in Nat : k <= n => f[k] = g[k]}
<1>1. ASSUME NEW k \in Nat, \A j \in 0..(k - 1) : j \in S
      PROVE  k \in S
  <2>1. SUFFICES ASSUME k <= n
                 PROVE  f[k] = g[k]
    OBVIOUS
  <2>2. /\ f[k] = IF k < 10 THEN <<Last(k)>> ELSE Append(f[k \div 10], Last(k))
        /\ g[k] = IF k < 10 THEN <<Last(k)>> ELSE Append(g[k \div 10], Last(k))
    <3>1. k \in 0..n /\ k \in 0..m
      BY <2>1
    <3>. QED
      BY <3>1, WrittenForm, Zenon
  <2>3. CASE k < 10
    BY <2>2, <2>3
  <2>4. CASE ~ (k < 10)
    <3>1. k \div 10 \in 0..(k - 1)
      BY <2>4
    <3>2. f[k \div 10] = g[k \div 10]
      BY <3>1, <1>1, <2>1
    <3>. QED
      BY <2>2, <2>4, <3>2
  <2>. QED
    BY <2>3, <2>4
<1>2. S = Nat
  <2>1. S \in SUBSET Nat
    OBVIOUS
  <2> HIDE DEF S
  <2>. QED
    BY <2>1, <1>1, AllNumbers
<1>. QED
  BY <1>2

LEMMA DecimalOfNumber ==
    ASSUME NEW n \in Nat
    PROVE  Decimal(n) = IF n < 10 THEN <<Last(n)>> ELSE Append(Decimal(n \div 10), Last(n))
<1>1. PICK f : Writes(f, n) /\ Decimal(n) = f[n]
  BY DecimalIsWritten
<1>2. f[n] = IF n < 10 THEN <<Last(n)>> ELSE Append(f[n \div 10], Last(n))
  <2>1. n \in 0..n
    OBVIOUS
  <2>. QED
    BY <1>1, <2>1, WrittenForm, Zenon
<1>3. ASSUME ~ (n < 10)
      PROVE  Decimal(n \div 10) = f[n \div 10]
  <2>1. n \div 10 \in Nat /\ n \div 10 <= n
    OBVIOUS
  <2> DEFINE m == n \div 10
  <2> HIDE DEF m
  <2>2. PICK g : Writes(g, m) /\ Decimal(m) = g[m]
    BY <2>1, DecimalIsWritten DEF m
  <2>3. g[m] = f[m]
    BY <2>1, <2>2, <1>1, WrittenAgree DEF m
  <2>. QED
    BY <2>2, <2>3 DEF m
<1>. QED
  BY <1>1, <1>2, <1>3

LEMMA LastOfSum ==
    ASSUME NEW v \in Nat, NEW d \in DOMAIN Digit
    PROVE  /\ 10 * v + Digit[d] \in Nat
           /\ (10 * v + Digit[d]) \div 10 = v
           /\ Last(10 * v + Digit[d]) = d
<1>1. Digit[d] \in 0..9
  BY DigitProperties
<1>2. PICK x \in 0..9 : x = Digit[d]
  BY <1>1
<1>3. 10 * v + x \in Nat /\ (10 * v + x) \div 10 = v /\ (10 * v + x) % 10 = x
  BY ONLY v \in Nat, x \in 0..9
<1>4. /\ Last(10 * v + x) \in DOMAIN Digit
      /\ Digit[Last(10 * v + x)] = x
  BY <1>3, LastDigit
<1>. QED
  BY <1>2, <1>3, <1>4, DigitProperties

LEMMA StringOfOne ==
    ASSUME NEW d \in DOMAIN Digit
    PROVE  <<d>> \in DigitStrings /\ <<d>> # <<>>
  BY DEF DigitStrings

LEMMA StringGrows ==
    ASSUME NEW s \in DigitStrings, NEW d \in DOMAIN Digit
    PROVE  /\ Append(s, d) \in DigitStrings /\ Append(s, d) # <<>>
           /\ Len(s) \in Nat /\ Len(Append(s, d)) = Len(s) + 1
           /\ s \o <<d>> = Append(s, d) /\ <<>> \o s = s
  BY DEF DigitStrings

LEMMA StringsConcat ==
    ASSUME NEW s \in DigitStrings, NEW t \in DigitStrings, NEW d \in DOMAIN Digit
    PROVE  /\ s \o t \in DigitStrings /\ Len(s \o t) = Len(s) + Len(t)
           /\ s \o Append(t, d) = Append(s \o t, d)
  BY DEF DigitStrings

LEMMA CopiesGrow ==
    ASSUME NEW S, NEW token \in S, NEW k \in Nat
    PROVE  /\ Copies(token, k) \in Seq(S) /\ Len(Copies(token, k)) = k
           /\ Copies(token, k + 1) = Append(Copies(token, k), token)
           /\ Copies(token, 0) = <<>>
  BY DEF Copies

LEMMA ZerosAreNothing ==
    ASSUME NEW z \in Nat
    PROVE  Copies("0", z) \in DigitStrings /\ Value(Copies("0", z)) = 0
<1> DEFINE S == {k \in Nat : Value(Copies("0", k)) = 0}
<1>1. ASSUME NEW k \in Nat, \A j \in 0..(k - 1) : j \in S
      PROVE  k \in S
  <2>1. CASE k = 0
    <3>1. Copies("0", 0) = <<>>
      BY CopiesGrow, DigitProperties
    <3>. QED
      BY <2>1, <3>1, ValueOfNone
  <2>2. CASE k # 0
    <3>1. k - 1 \in S
      BY <1>1, <2>2
    <3>2. PICK j \in Nat : k = j + 1
      BY <2>2
    <3>3. /\ Copies("0", j) \in DigitStrings
          /\ Copies("0", k) = Append(Copies("0", j), "0")
      BY <3>2, CopiesGrow, DigitProperties DEF DigitStrings
    <3>4. Value(Copies("0", k)) = 10 * Value(Copies("0", j)) + Digit["0"]
      BY <3>3, ValueOfAppend, DigitProperties
    <3>5. Value(Copies("0", j)) = 0
      BY <3>1, <3>2
    <3>. QED
      BY <3>4, <3>5, DigitProperties
  <2>. QED
    BY <2>1, <2>2
<1>2. S = Nat
  <2>1. S \in SUBSET Nat
    OBVIOUS
  <2> HIDE DEF S
  <2>. QED
    BY <2>1, <1>1, AllNumbers
<1>. QED
  BY <1>2, CopiesGrow, DigitProperties DEF DigitStrings

LEMMA DecimalType ==
    ASSUME NEW n \in Nat
    PROVE  Decimal(n) \in DigitStrings /\ Decimal(n) # <<>>
<1> DEFINE S == {k \in Nat : Decimal(k) \in DigitStrings /\ Decimal(k) # <<>>}
<1>1. ASSUME NEW k \in Nat, \A j \in 0..(k - 1) : j \in S
      PROVE  k \in S
  <2>1. /\ Decimal(k) = IF k < 10 THEN <<Last(k)>> ELSE Append(Decimal(k \div 10), Last(k))
        /\ Last(k) \in DOMAIN Digit
    BY DecimalOfNumber, LastDigit
  <2>2. CASE k < 10
    <3>1. Decimal(k) = <<Last(k)>>
      BY <2>1, <2>2
    <3>. QED
      BY <2>1, <3>1, StringOfOne, Zenon
  <2>3. CASE ~ (k < 10)
    <3>1. k \div 10 \in 0..(k - 1)
      BY <2>3
    <3>2. PICK m : m = Decimal(k \div 10)
      OBVIOUS
    <3>3. m \in DigitStrings
      BY <3>1, <3>2, <1>1
    <3>4. Decimal(k) = Append(m, Last(k))
      BY <3>2, <2>1, <2>3
    <3>. QED
      <4>1. Append(m, Last(k)) \in DigitStrings /\ Append(m, Last(k)) # <<>>
        BY <3>3, <2>1, StringGrows
      <4>. QED
        BY <3>4, <4>1, Zenon
  <2>. QED
    BY <2>2, <2>3
<1>2. S = Nat
  <2>1. S \in SUBSET Nat
    OBVIOUS
  <2> HIDE DEF S
  <2>. QED
    BY <2>1, <1>1, AllNumbers
<1>. QED
  BY <1>2

\* A decimal form is read as the number it is the form of, whatever zeros lead it.
LEMMA PaddedValue ==
    ASSUME NEW z \in Nat, NEW n \in Nat
    PROVE  Value(Copies("0", z) \o Decimal(n)) = n
<1>0. PICK p : p = Copies("0", z)
  OBVIOUS
<1>1. p \in DigitStrings /\ Value(p) = 0
  BY <1>0, ZerosAreNothing
<1> DEFINE S == {k \in Nat : Value(p \o Decimal(k)) = k}
<1>2. ASSUME NEW k \in Nat, \A j \in 0..(k - 1) : j \in S
      PROVE  k \in S
  <2>1. PICK d \in DOMAIN Digit : d = Last(k) /\ Digit[d] = k % 10
    BY LastDigit
  <2>2. CASE k < 10
    <3>1. Decimal(k) = <<d>>
      BY DecimalOfNumber, <2>1, <2>2
    <3>2. p \o <<d>> = Append(p, d)
      BY <1>1, StringGrows
    <3>3. Value(Append(p, d)) = 10 * Value(p) + Digit[d]
      BY <1>1, ValueOfAppend
    <3>4. k % 10 = k
      BY <2>2
    <3>5. Value(p \o Decimal(k)) = Value(Append(p, d))
      BY <3>1, <3>2, Zenon
    <3>6. 10 * 0 + Digit[d] = k
      BY <2>1, <3>4
    <3>. QED
      BY <3>3, <3>5, <3>6, <1>1
  <2>3. CASE ~ (k < 10)
    <3>1. PICK m \in 0..(k - 1) : m = k \div 10
      BY <2>3
    <3>2. PICK t : t = Decimal(m)
      OBVIOUS
    <3>3. Decimal(k) = Append(t, d)
      BY DecimalOfNumber, <2>1, <2>3, <3>1, <3>2
    <3>4. t \in DigitStrings
      BY <3>2, <3>1, DecimalType
    <3>5. p \o Append(t, d) = Append(p \o t, d) /\ p \o t \in DigitStrings
      BY <1>1, <3>4, StringsConcat, Zenon
    <3>6. Value(Append(p \o t, d)) = 10 * Value(p \o t) + Digit[d]
      BY <3>5, ValueOfAppend
    <3>7. Value(p \o t) = m
      <4>1. Value(p \o Decimal(m)) = m
        BY <1>2, <3>1
      <4>. QED
        BY <3>2, <4>1, Zenon
    <3>8. k = 10 * m + (k % 10)
      <4>1. k = 10 * (k \div 10) + (k % 10)
        BY ONLY k \in Nat
      <4>. QED
        BY <4>1, <3>1, Zenon
    <3>9. Value(p \o Decimal(k)) = Value(Append(p \o t, d))
      BY <3>3, <3>5, Zenon
    <3>10. Value(p \o Decimal(k)) = 10 * m + (k % 10)
      <4>1. Value(p \o Decimal(k)) = 10 * Value(p \o t) + Digit[d]
        BY <3>6, <3>9, Zenon
      <4>2. Digit[d] = k % 10
        BY <2>1
      <4>. QED
        BY <4>1, <4>2, <3>7, Zenon
    <3>. QED
      BY <3>8, <3>10, Zenon
  <2>. QED
    BY <2>2, <2>3
<1>3. S = Nat
  <2>1. S \in SUBSET Nat
    OBVIOUS
  <2> HIDE DEF S
  <2>. QED
    BY <2>1, <1>2, AllNumbers
<1>. QED
  BY <1>0, <1>3

\* Every string of digits is the decimal form of its number, zeros before it.
LEMMA DigitsArePadded ==
    ASSUME NEW s \in DigitStrings, s # <<>>
    PROVE  \E z \in 0..(Len(s) - 1) : s = Copies("0", z) \o Decimal(Value(s))
<1> DEFINE Padded(r) == \E z \in 0..(Len(r) - 1) : r = Copies("0", z) \o Decimal(Value(r))
           S == {r \in DigitStrings : r # <<>> => Padded(r)}
<1>1. <<>> \in S
  BY DEF DigitStrings
<1>2. ASSUME NEW r \in S, NEW d \in DOMAIN Digit
      PROVE  Append(r, d) \in S
  <2>1. PICK v \in Nat : v = Value(r)
    BY ValueType
  <2>2. Value(Append(r, d)) = 10 * v + Digit[d]
    BY <2>1, ValueOfAppend
  <2>3. PICK t : t = Append(r, d)
    OBVIOUS
  <2>4. /\ t \in DigitStrings /\ Len(t) = Len(r) + 1 /\ Len(r) \in Nat
        /\ r \in DigitStrings
    BY <2>3 DEF DigitStrings
  <2>5. PICK w \in Nat : /\ w = 10 * v + Digit[d] /\ w \div 10 = v /\ Last(w) = d
                         /\ w = Value(t)
    BY <2>2, <2>3, LastOfSum
  <2>6. SUFFICES \E z \in 0..(Len(t) - 1) : t = Copies("0", z) \o Decimal(w)
    BY <2>3, <2>4, <2>5
  <2>7. v = 0 => Decimal(w) = <<d>>
    <3>1. Digit[d] \in 0..9
      BY DigitProperties
    <3>2. v = 0 => w < 10
      BY <3>1, <2>5
    <3>. QED
      BY <3>2, <2>5, DecimalOfNumber
  <2>8. CASE r = <<>>
    <3>1. v = 0
      BY <2>1, <2>8, ValueOfNone
    <3>2. t = Copies("0", 0) \o <<d>>
      <4>1. Copies("0", 0) = <<>>
        BY CopiesGrow, DigitProperties
      <4>. QED
        BY <4>1, <2>3, <2>8
    <3>3. 0 \in 0..(Len(t) - 1)
      BY <2>4
    <3>. QED
      BY <3>1, <3>2, <3>3, <2>7, Zenon
  <2>9. CASE r # <<>>
    <3>1. PICK z \in 0..(Len(r) - 1) : r = Copies("0", z) \o Decimal(v)
      BY <2>1, <2>9
    <3>2. PICK p : p = Copies("0", z)
      OBVIOUS
    <3>3. p \in DigitStrings /\ Copies("0", z + 1) = Append(p, "0")
      <4>1. z \in Nat /\ "0" \in DOMAIN Digit
        BY DigitProperties
      <4>. QED
        BY <4>1, <3>2, CopiesGrow, ZerosAreNothing
    <3>4. CASE v = 0
      <4>1. Decimal(0) = <<"0">>
        <5>1. Last(0) = "0"
          BY LastDigit, DigitProperties
        <5>. QED
          BY <5>1, DecimalOfNumber
      <4>2. r = Append(p, "0")
        <5>1. r = p \o <<"0">>
          BY <4>1, <3>1, <3>2, <3>4, Zenon
        <5>. QED
          BY <5>1, <3>3, StringGrows, DigitProperties
      <4>3. t = Copies("0", z + 1) \o <<d>>
        <5>1. r = Copies("0", z + 1)
          BY <4>2, <3>3
        <5>. QED
          BY <5>1, <2>3, <2>4, StringGrows, Zenon
      <4>4. z + 1 \in 0..(Len(t) - 1)
        BY <2>4
      <4>. QED
        BY <4>3, <4>4, <3>4, <2>7, Zenon
    <3>5. CASE v # 0
      <4>1. PICK q : q = Decimal(v) /\ q \in DigitStrings
        BY DecimalType
      <4>2. ~ (w < 10)
        <5>1. Digit[d] \in 0..9
          BY DigitProperties
        <5>. QED
          BY <5>1, <2>5, <3>5
      <4>3. Decimal(w) = Append(q, d)
        BY <4>1, <4>2, <2>5, DecimalOfNumber
      <4>4. t = p \o Append(q, d)
        <5>1. r = p \o q
          BY <3>1, <3>2, <4>1, Zenon
        <5>2. p \o Append(q, d) = Append(p \o q, d)
          BY <3>3, <4>1, StringsConcat, Zenon
        <5>. QED
          BY <5>1, <5>2, <2>3, Zenon
      <4>5. z \in 0..(Len(t) - 1)
        BY <2>4
      <4>. QED
        BY <4>3, <4>4, <4>5, <3>2, Zenon
    <3>. QED
      BY <3>4, <3>5
  <2>. QED
    BY <2>8, <2>9
<1>3. S = DigitStrings
  <2>1. S \in SUBSET DigitStrings
    OBVIOUS
  <2> HIDE DEF S
  <2>. QED
    BY <2>1, <1>1, <1>2, AllDigitStrings
<1>. QED
  BY <1>3
-------------------------------------------------------------------------------
(* What the readers of numbers take for a number.                          *)

\* The tokens of a text and of every spelling of a number.
Alphabet == Tokens \cup DOMAIN Digit
Texts == Seq(Alphabet)

\* What an int can hold.
IsInt(n) == n \in (- MAX_INT - 1)..MAX_INT

Signed(sign, v) == IF sign = <<"-">> THEN - v ELSE v
Signs(signs) == {<<>>} \cup {<<x>> : x \in signs}

LEMMA Regrouped ==
    ASSUME NEW s \in Seq(Alphabet), NEW t \in Seq(Alphabet), NEW u \in Seq(Alphabet)
    PROVE  (s \o t) \o u = s \o (t \o u)
BY ConcatAssociative

LEMMA AlphabetProperties ==
    /\ {"-", "+", " "} \subseteq Alphabet
    /\ {"-", "+", " "} \cap DOMAIN Digit = {}
    /\ DigitStrings \subseteq Texts
<1>1. DOMAIN Digit = {"0", "1", "2", "3", "4", "5", "6", "7", "8", "9"}
  BY DEF Digit
<1>2. {"-", "+", " "} \cap DOMAIN Digit = {}
  BY <1>1
<1>3. {"-", "+", " "} \subseteq Alphabet /\ DOMAIN Digit \subseteq Alphabet
  BY DEF Alphabet, Tokens, Characters
<1>4. DigitStrings \subseteq Texts
  <2>1. \A S, T : S \subseteq T => Seq(S) \subseteq Seq(T)
    OBVIOUS
  <2>. QED
    BY <1>3, <2>1, Zenon DEF DigitStrings, Texts
<1>. QED
  BY <1>2, <1>3, <1>4

LEMMA SignProperties ==
    ASSUME NEW signs \in SUBSET {"-", "+"}, NEW sign \in Signs(signs)
    PROVE  /\ sign \in Seq(Alphabet) /\ <<>> \o sign = sign
           /\ \/ Len(sign) = 0 /\ sign = <<>>
              \/ Len(sign) = 1 /\ sign = <<sign[1]>> /\ sign[1] \in signs
<1>1. CASE sign = <<>>
  BY <1>1
<1>2. CASE sign # <<>>
  <2>1. PICK x \in signs : sign = <<x>>
    BY <1>2 DEF Signs
  <2>2. x \in Alphabet
    BY AlphabetProperties
  <2>. QED
    BY <2>1, <2>2
<1>. QED
  BY <1>1, <1>2

LEMMA DigitsProperties ==
    ASSUME NEW digits \in DigitStrings, digits # <<>>
    PROVE  /\ digits \in Seq(Alphabet) /\ digits \in Seq(DOMAIN Digit)
           /\ Len(digits) \in Nat \ {0}
           /\ digits[1] \in DOMAIN Digit \ {"-", "+", " "}
<1>1. digits \in Seq(Alphabet) /\ digits \in Seq(DOMAIN Digit)
  BY AlphabetProperties DEF DigitStrings, Texts
<1>2. Len(digits) \in Nat \ {0}
  BY <1>1
<1>3. 1 \in 1..Len(digits)
  BY <1>2
<1>4. digits[1] \in DOMAIN Digit
  BY ONLY <1>1, <1>3, ElementOfSeq
<1>. QED
  BY <1>1, <1>2, <1>4, AlphabetProperties

LEMMA BlanksProperties ==
    ASSUME NEW b \in Nat
    PROVE  /\ Copies(" ", b) \in Seq(Alphabet) /\ Len(Copies(" ", b)) = b
           /\ \A i \in 1..b : Copies(" ", b)[i] = " "
           /\ Copies(" ", 0) = <<>>
<1>1. " " \in Alphabet
  BY AlphabetProperties
<1>2. \A i \in 1..b : Copies(" ", b)[i] = " "
  BY DEF Copies
<1>. QED
  BY <1>1, <1>2, CopiesGrow

LEMMA RunProperties ==
    ASSUME NEW s, Len(s) \in Nat, NEW i \in 1..(Len(s) + 1), NEW set
    PROVE  /\ Run(s, i, set) \in 0..(Len(s) - i + 1)
           /\ \A j \in i..(i + Run(s, i, set) - 1) : s[j] \in set
           /\ i + Run(s, i, set) <= Len(s) => s[i + Run(s, i, set)] \notin set
<1>1. PICK N \in Nat : N = Len(s) - i + 1
  OBVIOUS
<1> DEFINE S == {k \in 0..N : \A j \in i..(i + k - 1) : s[j] \in set}
<1>2. S \in SUBSET (0..N) /\ 0 \in S
  OBVIOUS
<1>3. PICK m : m = Max(S)
  OBVIOUS
<1>4. m \in S /\ \A k \in S : k <= m
  <2> HIDE DEF S
  <2>. QED
    BY <1>2, <1>3, GreatestNumber
<1>5. Run(s, i, set) = m
  BY <1>1, <1>3, Zenon DEF Run
<1>6. ASSUME i + m <= Len(s), s[i + m] \in set
      PROVE  FALSE
  <2>1. m + 1 \in 0..N
    BY <1>1, <1>4, <1>6
  <2>2. \A j \in i..(i + (m + 1) - 1) : s[j] \in set
    <3>1. ASSUME NEW j \in i..(i + (m + 1) - 1)
          PROVE  s[j] \in set
      <4>1. j \in i..(i + m - 1) \/ j = i + m
        BY <1>4
      <4>. QED
        BY <4>1, <1>4, <1>6
    <3>. QED
      BY <3>1
  <2>3. m + 1 \in S
    BY <2>1, <2>2
  <2>4. m + 1 <= m
    BY <2>3, <1>4
  <2>. QED
    BY <2>4, <1>4
<1>. QED
  BY <1>1, <1>4, <1>5, <1>6

LEMMA RunIs ==
    ASSUME NEW s, Len(s) \in Nat, NEW i \in 1..(Len(s) + 1), NEW set,
           NEW k \in 0..(Len(s) - i + 1),
           \A j \in i..(i + k - 1) : s[j] \in set,
           i + k <= Len(s) => s[i + k] \notin set
    PROVE  Run(s, i, set) = k
<1>1. PICK m : m = Run(s, i, set)
  OBVIOUS
<1>2. /\ m \in 0..(Len(s) - i + 1)
      /\ \A j \in i..(i + m - 1) : s[j] \in set
      /\ i + m <= Len(s) => s[i + m] \notin set
  BY <1>1, RunProperties
<1>3. ~ (m < k)
  <2>1. SUFFICES ASSUME m < k
                 PROVE  FALSE
    OBVIOUS
  <2>2. i + m \in i..(i + k - 1) /\ i + m <= Len(s)
    BY <1>2, <2>1
  <2>. QED
    BY <1>2, <2>2
<1>4. ~ (k < m)
  <2>1. SUFFICES ASSUME k < m
                 PROVE  FALSE
    OBVIOUS
  <2>2. i + k \in i..(i + m - 1) /\ i + k <= Len(s)
    BY <1>2, <2>1
  <2>. QED
    BY <1>2, <2>2
<1>. QED
  BY <1>1, <1>2, <1>3, <1>4

\* From place i on, s is a sign or none, and digits, which spell the int n.
SpelledFrom(s, i, signs, n) ==
    \E sign \in Signs(signs), digits \in DigitStrings :
        /\ digits # <<>>
        /\ SubSeq(s, i, Len(s)) = sign \o digits
        /\ n = Signed(sign, Value(digits))
        /\ IsInt(n)

\* A number read to the end of a text is a sign, or none, and digits.
LEMMA ReadsSignAndDigits ==
    ASSUME NEW s \in Texts, NEW i \in 1..(Len(s) + 1), NEW signs \in SUBSET {"-", "+"},
           IsWhole(s, ReadInt(s, i, signs))
    PROVE  SpelledFrom(s, i, signs, ReadInt(s, i, signs).value)
<1>0. Len(s) \in Nat /\ s \in Seq(Alphabet)
  BY DEF Texts
<1> DEFINE signed == i <= Len(s) /\ s[i] \in signs
           first == IF signed THEN i + 1 ELSE i
           count == IF first <= Len(s) THEN Run(s, first, DOMAIN Digit) ELSE 0
           size == Value(SubSeq(s, first, first + count - 1))
           value == IF signed /\ s[i] = "-" THEN - size ELSE size
<1>1. /\ count > 0 /\ IsInt(value)
      /\ first + count = Len(s) + 1
      /\ ReadInt(s, i, signs).value = value
  BY Zenon DEF IsWhole, ReadInt, IsInt
<1> DEFINE digits == SubSeq(s, first, Len(s))
           sign == IF signed THEN <<s[i]>> ELSE <<>>
<1>2. /\ first \in 1..Len(s) /\ first \in Nat /\ count = Run(s, first, DOMAIN Digit)
      /\ count \in Nat
  <2>1. first \in 1..(Len(s) + 1) /\ first \in Nat
    BY <1>0
  <2>2. first <= Len(s)
    BY <1>1
  <2>3. count = Run(s, first, DOMAIN Digit)
    BY <2>2
  <2> HIDE DEF first
  <2>4. Run(s, first, DOMAIN Digit) \in 0..(Len(s) - first + 1)
    BY <2>1, <1>0, RunProperties
  <2>. QED
    BY <2>1, <2>2, <2>3, <2>4, <1>0
<1>3. \A j \in first..Len(s) : s[j] \in DOMAIN Digit
  <2>1. PICK c \in Nat : c = count
    BY <1>2
  <2>2. PICK f \in 1..(Len(s) + 1) : f = first
    BY <1>2
  <2>3. \A j \in f..(f + c - 1) : s[j] \in DOMAIN Digit
    BY <1>0, <2>1, <2>2, <1>2, RunProperties, Zenon
  <2>4. f + c - 1 = Len(s)
    BY <1>1, <2>1, <2>2, <1>0
  <2>. QED
    BY <2>2, <2>3, <2>4
<1>4. /\ digits \in DigitStrings /\ digits # <<>>
      /\ first + count - 1 = Len(s)
  <2>1. PICK f \in 1..Len(s) : f = first
    BY <1>2
  <2>2. /\ SubSeq(s, f, Len(s)) \in Seq(DOMAIN Digit)
        /\ Len(SubSeq(s, f, Len(s))) = Len(s) - f + 1
    <3>1. \A j \in f..Len(s) : s[j] \in DOMAIN Digit
      BY <2>1, <1>3
    <3>. QED
      BY ONLY <3>1, <1>0, f \in 1..Len(s), SubSeqProperties
  <2>3. first + count - 1 = Len(s)
    BY <1>1, <1>2, <1>0
  <2>. QED
    <3>1. PICK t : t = SubSeq(s, f, Len(s))
      OBVIOUS
    <3>2. t \in DigitStrings /\ t # <<>>
      <4>1. t \in Seq(DOMAIN Digit) /\ Len(t) = Len(s) - f + 1
        BY <2>2, <3>1, Zenon
      <4>2. Len(t) > 0
        BY ONLY <4>1, <1>0, f \in 1..Len(s)
      <4>. QED
        BY <4>1, <4>2 DEF DigitStrings
    <3>. QED
      BY <2>1, <2>3, <3>1, <3>2, Zenon
<1>5. value = Signed(sign, Value(digits))
  <2>1. size = Value(digits)
    BY <1>4, Zenon
  <2>2. signed /\ s[i] = "-" <=> sign = <<"-">>
    OBVIOUS
  <2> HIDE DEF size, digits, sign, signed
  <2>. QED
    BY <2>1, <2>2, Zenon DEF Signed
<1>6. SubSeq(s, i, Len(s)) = sign \o digits
  <2>1. CASE signed
    <3>1. i \in 1..Len(s)
      BY <2>1
    <3>2. SubSeq(s, i, Len(s)) = <<s[i]>> \o SubSeq(s, i + 1, Len(s))
      BY ONLY <3>1, <1>0, SubSeqRecursiveFirst
    <3>. QED
      BY <2>1, <3>2
  <2>2. CASE ~ signed
    <3>1. digits \in Seq(DOMAIN Digit)
      BY <1>4 DEF DigitStrings
    <3>2. <<>> \o digits = digits
      <4> HIDE DEF digits
      <4>. QED
        BY <3>1
    <3>. QED
      BY <2>2, <3>2
  <2>. QED
    BY <2>1, <2>2
<1>7. sign \in Signs(signs)
  BY Zenon DEF Signs
<1>8. IsInt(Signed(sign, Value(digits)))
  BY <1>1, <1>5, Zenon
<1>9. ReadInt(s, i, signs).value = Signed(sign, Value(digits))
  BY <1>1, <1>5, Zenon
<1> HIDE DEF sign, digits
<1>. QED
  BY <1>4, <1>6, <1>7, <1>8, <1>9, Zenon DEF SpelledFrom

\* A sign, or none, and digits are read as their number, if an int can hold it.
LEMMA SignAndDigitsAreRead ==
    ASSUME NEW s \in Texts, NEW i \in 1..(Len(s) + 1), NEW signs \in SUBSET {"-", "+"},
           NEW v, SpelledFrom(s, i, signs, v)
    PROVE  IsWhole(s, ReadInt(s, i, signs)) /\ ReadInt(s, i, signs).value = v
<1>0. PICK sign \in Signs(signs), digits \in DigitStrings :
          /\ digits # <<>>
          /\ SubSeq(s, i, Len(s)) = sign \o digits
          /\ v = Signed(sign, Value(digits))
          /\ IsInt(v)
  BY Zenon DEF SpelledFrom
<1>1. /\ s \in Seq(Alphabet) /\ sign \in Seq(Alphabet) /\ digits \in Seq(Alphabet)
      /\ digits \in Seq(DOMAIN Digit)
  BY <1>0, SignProperties, DigitsProperties DEF Texts
<1>2. PICK a \in Nat, b \in Nat, n \in Nat : a = i - 1 /\ b = Len(sign) /\ n = Len(digits)
  <2>1. Len(s) \in Nat /\ Len(sign) \in Nat /\ Len(digits) \in Nat
    BY <1>1, LenProperties
  <2>2. i - 1 \in Nat
    BY <2>1
  <2>. QED
    BY <2>1, <2>2, Zenon
<1>3. /\ n > 0
      /\ \/ b = 0 /\ sign = <<>>
         \/ b = 1 /\ sign = <<sign[1]>> /\ sign[1] \in signs
  <2>1. n \in Nat \ {0}
    BY <1>0, <1>2, DigitsProperties
  <2>. QED
    <3>1. \/ Len(sign) = 0 /\ sign = <<>>
          \/ Len(sign) = 1 /\ sign = <<sign[1]>> /\ sign[1] \in signs
      BY SignProperties, Zenon
    <3>. QED
      BY <2>1, <3>1, <1>2
<1>4. /\ Len(s) = a + b + n
      /\ \A j \in 1..b : s[a + j] = sign[j]
      /\ \A j \in 1..n : s[a + b + j] = digits[j]
  <2>0. PICK l \in Nat : l = Len(s)
    BY <1>1, LenProperties
  <2>1. PICK t : l = Len(s) /\ t = SubSeq(s, i, l)
    BY <2>0, Zenon
  <2>2. /\ Len(t) = l - a
        /\ \A j \in 1..(l - a) : t[j] = s[a + j]
    <3>1. \A j \in i..l : s[j] \in Alphabet
      <4>1. \A j \in i..l : j \in 1..Len(s)
        BY <2>1
      <4>. QED
        BY ONLY <4>1, <1>1, ElementOfSeq
    <3>2. i \in Nat /\ i = a + 1 /\ a <= l
      BY <1>2, <2>1
    <3>3. /\ Len(t) = IF i <= l THEN l - i + 1 ELSE 0
          /\ \A j \in 1..(l - i + 1) : t[j] = s[i + j - 1]
      BY ONLY <2>1, <3>1, <3>2, l \in Nat, SubSeqProperties, SMTT(30)
    <3>4. l - i + 1 = l - a /\ (IF i <= l THEN l - i + 1 ELSE 0) = l - a
      BY ONLY <3>2, l \in Nat, a \in Nat
    <3>5. \A j \in 1..(l - a) : i + j - 1 = a + j
      BY ONLY <3>2, l \in Nat, a \in Nat
    <3>. QED
      BY <3>3, <3>4, <3>5, Zenon
  <2>3. t = sign \o digits
    BY <1>0, <2>1, Zenon
  <2>4. /\ Len(t) = b + n
        /\ \A j \in 1..b : t[j] = sign[j]
        /\ \A j \in 1..n : t[b + j] = digits[j]
    BY ONLY <2>3, <1>1, <1>2, b \in Nat, n \in Nat
  <2>5. l - a = b + n /\ l = a + b + n
    BY <2>2, <2>4
  <2>6. \A j \in 1..b : s[a + j] = sign[j]
    <3>1. \A j \in 1..b : j \in 1..(l - a)
      BY <2>5
    <3>. QED
      BY <3>1, <2>2, <2>4, Zenon
  <2>7. \A j \in 1..n : s[a + b + j] = digits[j]
    <3>1. \A j \in 1..n : b + j \in 1..(l - a) /\ a + (b + j) = a + b + j
      BY <2>5
    <3>2. \A j \in 1..n : s[a + (b + j)] = digits[j]
      BY <3>1, <2>2, <2>4, Zenon
    <3>. QED
      BY <3>1, <3>2, Zenon
  <2>8. Len(s) = a + b + n
    BY ONLY <2>1, <2>5
  <2>. QED
    BY <2>8, <2>6, <2>7, Zenon
<1>5. i = a + 1 /\ i <= Len(s)
  <2>1. n > 0 /\ Len(s) = a + b + n
    BY <1>3, <1>4, Zenon
  <2>. QED
    BY ONLY <2>1, <1>2, a \in Nat, b \in Nat, n \in Nat
<1>6. digits[1] \in DOMAIN Digit /\ digits[1] \notin {"-", "+"}
  BY <1>0, DigitsProperties
<1> DEFINE signed == i <= Len(s) /\ s[i] \in signs
           first == IF signed THEN i + 1 ELSE i
           count == IF first <= Len(s) THEN Run(s, first, DOMAIN Digit) ELSE 0
           size == Value(SubSeq(s, first, first + count - 1))
           value == IF signed /\ s[i] = "-" THEN - size ELSE size
<1>7. /\ signed <=> b = 1
      /\ signed /\ s[i] = "-" <=> sign = <<"-">>
  <2>1. CASE b = 0
    <3>1. s[i] = digits[1]
      BY <1>3, <1>4, <1>5, <2>1
    <3>. QED
      BY <3>1, <1>6, <1>3, <2>1
  <2>2. CASE b = 1
    <3>1. s[i] = sign[1]
      <4>1. 1 \in 1..b /\ i = a + 1
        BY <1>5, <2>2
      <4>. QED
        BY <4>1, <1>4, Zenon
    <3>. QED
      BY <3>1, <1>3, <1>5, <2>2
  <2>. QED
    BY <1>3, <2>1, <2>2
<1>8. first = a + b + 1
  BY <1>5, <1>7, <1>3
<1>9. count = n
  <2>1. PICK f \in Nat : f = a + b + 1
    OBVIOUS
  <2>2. \A j \in f..(f + n - 1) : s[j] \in DOMAIN Digit
    <3>1. ASSUME NEW j \in f..(f + n - 1)
          PROVE  s[j] \in DOMAIN Digit
      <4>1. j - f + 1 \in 1..n /\ a + b + (j - f + 1) = j
        BY <2>1
      <4>2. s[a + b + (j - f + 1)] = digits[j - f + 1]
        BY <4>1, <1>4, Zenon
      <4>3. digits[j - f + 1] \in DOMAIN Digit
        BY <4>1, <1>1, <1>2, ElementOfSeq, Zenon
      <4>. QED
        BY <4>1, <4>2, <4>3
    <3>. QED
      BY <3>1
  <2>3. /\ Len(s) \in Nat /\ f \in 1..(Len(s) + 1) /\ n \in 0..(Len(s) - f + 1)
        /\ ~ (f + n <= Len(s))
    BY <1>4, <2>1
  <2>4. Run(s, f, DOMAIN Digit) = n
    BY ONLY <2>2, <2>3, RunIs
  <2>5. first <= Len(s)
    <3> HIDE DEF first
    <3>. QED
      BY <1>8, <1>3, <1>4
  <2>. QED
    BY <2>4, <2>5, <2>1, <1>8, Zenon
<1>10. size = Value(digits)
  <2>1. SubSeq(s, a + b + 1, a + b + n) = digits
    <3>1. PICK f \in Nat, g \in Nat : f = a + b + 1 /\ g = a + b + n
      OBVIOUS
    <3>2. PICK t : t = SubSeq(s, f, g)
      OBVIOUS
    <3>3. /\ t \in Seq(Alphabet) /\ Len(t) = n
          /\ \A j \in 1..n : t[j] = s[f + j - 1]
      <4>1. \A j \in f..g : s[j] \in Alphabet
        <5>1. \A j \in f..g : j \in 1..Len(s)
          BY <3>1, <1>4
        <5>. QED
          BY ONLY <5>1, <1>1, ElementOfSeq
      <4>2. /\ t \in Seq(Alphabet) /\ Len(t) = IF f <= g THEN g - f + 1 ELSE 0
            /\ \A j \in 1..(g - f + 1) : t[j] = s[f + j - 1]
        BY ONLY <3>2, <4>1, f \in Nat, g \in Nat, SubSeqProperties, SMTT(30)
      <4>3. g - f + 1 = n /\ f <= g
        BY ONLY <3>1, <1>3, a \in Nat, b \in Nat, n \in Nat
      <4>. QED
        BY <4>2, <4>3, Zenon
    <3>4. \A j \in 1..n : t[j] = digits[j]
      <4>1. \A j \in 1..n : f + j - 1 = a + b + j
        BY <3>1
      <4>. QED
        BY <4>1, <3>3, <1>4, Zenon
    <3>5. t = digits
      BY ONLY <3>3, <3>4, <1>1, <1>2, SeqEqual
    <3>. QED
      BY <3>1, <3>2, <3>5
  <2>2. first + count - 1 = a + b + n
    <3> HIDE DEF first, count
    <3>. QED
      BY <1>8, <1>9
  <2>. QED
    BY <2>1, <2>2, <1>8, Zenon
<1>11. value = v
  <2> HIDE DEF signed, size
  <2>. QED
    BY <1>0, <1>7, <1>10, Zenon DEF Signed
<1>12. count > 0 /\ first + count = Len(s) + 1
  <2> HIDE DEF first, count
  <2>. QED
    BY <1>3, <1>4, <1>8, <1>9
<1>13. ReadInt(s, i, signs) = [ok |-> count > 0 /\ IsInt(value),
                               value |-> value, end |-> first + count]
  BY Zenon DEF ReadInt, IsInt
<1> HIDE DEF value, count, first
<1>14. PICK r : r = ReadInt(s, i, signs)
  OBVIOUS
<1>15. /\ r.ok = (count > 0 /\ IsInt(value))
       /\ r.value = value /\ r.end = first + count
  BY <1>13, <1>14
<1>. QED
  BY <1>0, <1>11, <1>12, <1>14, <1>15, Zenon DEF IsWhole


LEMMA ReadsNumbers ==
    ASSUME NEW s \in Texts, NEW i \in 1..(Len(s) + 1), NEW signs \in SUBSET {"-", "+"}, NEW n
    PROVE  SpelledFrom(s, i, signs, n)
               <=> IsWhole(s, ReadInt(s, i, signs)) /\ n = ReadInt(s, i, signs).value
<1>1. ASSUME SpelledFrom(s, i, signs, n)
      PROVE  IsWhole(s, ReadInt(s, i, signs)) /\ n = ReadInt(s, i, signs).value
  BY <1>1, SignAndDigitsAreRead, Zenon
<1>2. ASSUME IsWhole(s, ReadInt(s, i, signs)), n = ReadInt(s, i, signs).value
      PROVE  SpelledFrom(s, i, signs, n)
  BY <1>2, ReadsSignAndDigits, Zenon
<1>. QED
  BY <1>1, <1>2

\* s spells n: b spaces, a sign or none, and digits, and n is an int.
SpellsAt(s, n, b, signs) ==
    \E sign \in Signs(signs), digits \in DigitStrings :
        /\ digits # <<>>
        /\ s = (Copies(" ", b) \o sign) \o digits
        /\ n = Signed(sign, Value(digits))
        /\ IsInt(n)

Spells(s, n, blanks, signs) == \E b \in blanks : SpellsAt(s, n, b, signs)

LEMMA Suffix ==
    ASSUME NEW S, NEW p \in Seq(S), NEW q \in Seq(S), NEW a \in Nat, a = Len(p)
    PROVE  SubSeq(p \o q, a + 1, Len(p \o q)) = q
<1>1. PICK s \in Seq(S), n \in Nat : s = p \o q /\ n = Len(q)
  BY ConcatProperties, LenProperties, Zenon
<1>2. Len(s) = a + n /\ \A j \in 1..n : s[a + j] = q[j]
  BY ONLY <1>1, p \in Seq(S), q \in Seq(S), a \in Nat, a = Len(p), n \in Nat
<1>0. PICK f \in Nat, g \in Nat : f = a + 1 /\ g = a + n
  <2>1. a + 1 \in Nat /\ a + n \in Nat
    OBVIOUS
  <2>. QED
    BY <2>1, Zenon
<1>3. PICK t : t = SubSeq(s, f, g)
  OBVIOUS
<1>4. \A j \in f..g : s[j] \in S
  <2>1. \A j \in f..g : j \in 1..Len(s)
    BY <1>0, <1>2
  <2>. QED
    BY ONLY <2>1, s \in Seq(S), ElementOfSeq
<1>5. /\ t \in Seq(S) /\ Len(t) = IF f <= g THEN g - f + 1 ELSE 0
      /\ \A j \in 1..(g - f + 1) : t[j] = s[f + j - 1]
  BY ONLY <1>3, <1>4, f \in Nat, g \in Nat, SubSeqProperties, SMTT(30)
<1>6. /\ g - f + 1 = n /\ (IF f <= g THEN g - f + 1 ELSE 0) = n
      /\ \A j \in 1..n : f + j - 1 = a + j
  BY ONLY <1>0, a \in Nat, n \in Nat
<1>7. Len(t) = n /\ \A j \in 1..n : t[j] = q[j]
  BY <1>2, <1>5, <1>6, Zenon
<1>8. t = q
  BY ONLY <1>1, <1>5, <1>7, q \in Seq(S), SeqEqual
<1>. QED
  BY <1>0, <1>1, <1>2, <1>3, <1>8, Zenon

LEMMA Prefixed ==
    ASSUME NEW S, NEW s \in Seq(S), NEW p \in Seq(S), NEW a \in Nat, a = Len(p), a <= Len(s),
           \A j \in 1..a : s[j] = p[j]
    PROVE  s = p \o SubSeq(s, a + 1, Len(s))
<1>0. PICK f \in Nat, g \in Nat : f = a + 1 /\ g = Len(s)
  <2>1. a + 1 \in Nat /\ Len(s) \in Nat
    BY LenProperties
  <2>. QED
    BY <2>1, Zenon
<1>1. PICK t : t = SubSeq(s, f, g)
  OBVIOUS
<1>2. \A j \in f..g : s[j] \in S
  <2>1. \A j \in f..g : j \in 1..Len(s)
    BY <1>0
  <2>. QED
    BY ONLY <2>1, s \in Seq(S), ElementOfSeq
<1>3. /\ t \in Seq(S) /\ Len(t) = IF f <= g THEN g - f + 1 ELSE 0
      /\ \A j \in 1..(g - f + 1) : t[j] = s[f + j - 1]
  BY ONLY <1>1, <1>2, f \in Nat, g \in Nat, SubSeqProperties, SMTT(30)
<1>4. PICK n \in Nat : n = g - a
  BY <1>0
<1>5. /\ g - f + 1 = n /\ (IF f <= g THEN g - f + 1 ELSE 0) = n /\ g = a + n
      /\ \A j \in 1..n : f + j - 1 = a + j
  BY ONLY <1>0, <1>4, a \in Nat, n \in Nat, g \in Nat
<1>6. Len(t) = n /\ \A j \in 1..n : t[j] = s[a + j]
  BY <1>3, <1>5, Zenon
<1>7. PICK r \in Seq(S) : r = p \o t
  BY <1>3, ConcatProperties
<1>8. Len(r) = a + n /\ \A j \in 1..(a + n) : r[j] = IF j <= a THEN p[j] ELSE t[j - a]
  <2>1. /\ Len(p \o t) = Len(p) + Len(t)
        /\ \A j \in 1..(Len(p) + Len(t)) : (p \o t)[j] = IF j <= Len(p) THEN p[j]
                                                        ELSE t[j - Len(p)]
    BY ONLY <1>3, p \in Seq(S), ConcatProperties
  <2>. QED
    BY <2>1, <1>6, <1>7, Zenon
<1>9. \A j \in 1..(a + n) : r[j] = s[j]
  <2>1. ASSUME NEW j \in 1..(a + n)
        PROVE  r[j] = s[j]
    <3>1. CASE j <= a
      <4>1. j \in 1..a
        BY <3>1
      <4>. QED
        BY <3>1, <4>1, <1>8, Zenon
    <3>2. CASE ~ (j <= a)
      <4>1. j - a \in 1..n /\ a + (j - a) = j
        BY <3>2
      <4>. QED
        BY <3>2, <4>1, <1>6, <1>8, Zenon
    <3>. QED
      BY <3>1, <3>2
  <2>. QED
    BY <2>1
<1>10. Len(s) = a + n
  BY <1>0, <1>5
<1>11. r = s
  BY ONLY <1>8, <1>9, <1>10, r \in Seq(S), s \in Seq(S), SeqEqual
<1>. QED
  BY <1>0, <1>1, <1>7, <1>11, Zenon

LEMMA SpellsAtIs ==
    ASSUME NEW s \in Texts, NEW b \in Nat, NEW signs \in SUBSET {"-", "+"}, NEW n
    PROVE  /\ SpellsAt(s, n, b, signs)
                  <=> /\ b < Len(s) /\ \A j \in 1..b : s[j] = " "
                      /\ SpelledFrom(s, b + 1, signs, n)
           /\ SpellsAt(s, n, b, signs) => s[b + 1] # " "
<1>0. PICK p : p = Copies(" ", b)
  OBVIOUS
<1>1. /\ p \in Seq(Alphabet) /\ b = Len(p) /\ \A j \in 1..b : p[j] = " "
      /\ s \in Seq(Alphabet)
  BY <1>0, BlanksProperties DEF Texts
<1>4. PICK l \in Nat : l = Len(s)
  BY <1>1, LenProperties, Zenon
<1>5. p \in Seq(Alphabet)
  BY <1>1, Zenon
<1>2. ASSUME SpellsAt(s, n, b, signs)
      PROVE  /\ b < Len(s) /\ s[b + 1] # " " /\ SpelledFrom(s, b + 1, signs, n)
             /\ \A j \in 1..b : s[j] = " "
  <2>1. PICK sign \in Signs(signs), digits \in DigitStrings :
            /\ digits # <<>>
            /\ s = (p \o sign) \o digits
            /\ n = Signed(sign, Value(digits))
            /\ IsInt(n)
    BY <1>0, <1>2, Zenon DEF SpellsAt
  <2>2. sign \in Seq(Alphabet) /\ digits \in Seq(Alphabet)
    BY <2>1, SignProperties, DigitsProperties
  <2>3. PICK q \in Seq(Alphabet) : q = sign \o digits
    BY <2>2, ConcatProperties
  <2>4. s = p \o q
    <3>1. (p \o sign) \o digits = p \o (sign \o digits)
      BY <2>2, <1>5, Regrouped, Zenon
    <3>. QED
      BY <2>1, <2>3, <3>1, Zenon
  <2>5. SubSeq(s, b + 1, Len(s)) = q
    <3>1. SubSeq(p \o q, b + 1, Len(p \o q)) = q
      BY ONLY <1>1, q \in Seq(Alphabet), b \in Nat, Suffix
    <3>. QED
      BY <2>4, <3>1, Zenon
  <2>6. SpelledFrom(s, b + 1, signs, n)
    BY <2>1, <2>3, <2>5, Zenon DEF SpelledFrom
  <2>7. Len(q) \in Nat \ {0} /\ q[1] # " "
    <3>1. /\ Len(digits) \in Nat \ {0}
          /\ digits[1] \in DOMAIN Digit \ {"-", "+", " "}
      BY <2>1, DigitsProperties
    <3>2. CASE sign = <<>>
      <4>1. q = digits
        BY <2>2, <2>3, <3>2
      <4>. QED
        BY <4>1, <3>1
    <3>3. CASE sign # <<>>
      <4>1. Len(sign) = 1 /\ sign[1] \in signs
        BY <3>3, SignProperties, Zenon
      <4>2. sign[1] # " "
        BY <4>1
      <4>3. Len(q) = 1 + Len(digits) /\ q[1] = sign[1]
        <5>1. PICK k \in Nat \ {0} : k = Len(digits)
          BY <3>1
        <5>2. /\ Len(sign \o digits) = Len(sign) + Len(digits)
              /\ \A j \in 1..(Len(sign) + Len(digits)) :
                     (sign \o digits)[j] = IF j <= Len(sign) THEN sign[j]
                                           ELSE digits[j - Len(sign)]
          BY ONLY <2>2, ConcatProperties
        <5>3. 1 \in 1..(1 + k) /\ 1 <= 1
          OBVIOUS
        <5>. QED
          BY <2>3, <4>1, <5>1, <5>2, <5>3, Zenon
      <4>4. 1 + Len(digits) \in Nat \ {0}
        <5>1. PICK k \in Nat \ {0} : k = Len(digits)
          BY <3>1
        <5>2. 1 + k \in Nat \ {0}
          OBVIOUS
        <5>. QED
          BY <5>1, <5>2, Zenon
      <4>. QED
        BY <4>2, <4>3, <4>4, Zenon
    <3>. QED
      BY <3>2, <3>3
  <2>8. /\ b < Len(s) /\ s[b + 1] = q[1]
        /\ \A j \in 1..b : s[j] = p[j]
    <3>1. PICK k \in Nat \ {0} : k = Len(q)
      BY <2>7
    <3>2. /\ Len(s) = b + k
          /\ \A j \in 1..(b + k) : s[j] = IF j <= b THEN p[j] ELSE q[j - b]
      <4>1. /\ Len(p \o q) = Len(p) + Len(q)
            /\ \A j \in 1..(Len(p) + Len(q)) : (p \o q)[j] = IF j <= Len(p) THEN p[j]
                                                            ELSE q[j - Len(p)]
        BY ONLY <1>5, q \in Seq(Alphabet), ConcatProperties
      <4>. QED
        BY <4>1, <2>4, <3>1, <1>1, Zenon
    <3>3. b + 1 \in 1..(b + k) /\ (b + 1) - b = 1 /\ ~ (b + 1 <= b)
      OBVIOUS
    <3>4. \A j \in 1..b : j \in 1..(b + k) /\ j <= b
      OBVIOUS
    <3>5. s[b + 1] = q[1]
      BY <3>2, <3>3, Zenon
    <3>6. \A j \in 1..b : s[j] = p[j]
      BY <3>2, <3>4, Zenon
    <3>7. b < b + k
      OBVIOUS
    <3>. QED
      BY <3>2, <3>5, <3>6, <3>7, Zenon
  <2>. QED
    BY <2>6, <2>7, <2>8, <1>1, Zenon
<1>3. ASSUME b < Len(s), \A j \in 1..b : s[j] = " ", SpelledFrom(s, b + 1, signs, n)
      PROVE  SpellsAt(s, n, b, signs)
  <2>1. PICK sign \in Signs(signs), digits \in DigitStrings :
            /\ digits # <<>>
            /\ SubSeq(s, b + 1, Len(s)) = sign \o digits
            /\ n = Signed(sign, Value(digits))
            /\ IsInt(n)
    BY <1>3, Zenon DEF SpelledFrom
  <2>2. sign \in Seq(Alphabet) /\ digits \in Seq(Alphabet)
    BY <2>1, SignProperties, DigitsProperties
  <2>3. s = p \o SubSeq(s, b + 1, Len(s))
    <3>1. \A j \in 1..b : s[j] = p[j]
      BY <1>1, <1>3, Zenon
    <3>2. b <= Len(s)
      <4>1. b < l => b <= l
        OBVIOUS
      <4>. QED
        BY <4>1, <1>3, <1>4, Zenon
    <3>. QED
      BY ONLY <1>1, <3>1, <3>2, b \in Nat, Prefixed
  <2>4. s = p \o (sign \o digits)
    BY <2>1, <2>3, Zenon
  <2>5. s = (p \o sign) \o digits
    <3>1. (p \o sign) \o digits = p \o (sign \o digits)
      BY <2>2, <1>5, Regrouped, Zenon
    <3>. QED
      BY <2>4, <3>1, Zenon
  <2>. QED
    BY <2>1, <2>5, <1>0, Zenon DEF SpellsAt
<1>. QED
  BY <1>2, <1>3

LEMMA CountsAreRead ==
    ASSUME NEW s \in Texts, NEW n
    PROVE  n \in ParseCount(s) <=> Spells(s, n, {0}, {"-"})
<1>1. Len(s) \in Nat /\ (s = <<>> <=> ~ (0 < Len(s)))
  <2>1. s \in Seq(Alphabet)
    BY DEF Texts
  <2>. QED
    BY <2>1
<1>2. 1 \in 1..(Len(s) + 1) /\ 0 + 1 = 1 /\ 0 \in Nat /\ 1..0 = {}
  <2>1. PICK l \in Nat : l = Len(s)
    BY <1>1
  <2>2. 1 \in 1..(l + 1)
    OBVIOUS
  <2>. QED
    BY <2>1, <2>2
<1>3. PICK signs \in SUBSET {"-", "+"} : signs = {"-"}
  OBVIOUS
<1>4. SpelledFrom(s, 1, signs, n)
          <=> IsWhole(s, ReadInt(s, 1, signs)) /\ n = ReadInt(s, 1, signs).value
  BY <1>2, ReadsNumbers, Zenon
<1>5. n \in ParseCount(s)
          <=> s # <<>> /\ IsWhole(s, ReadInt(s, 1, signs)) /\ n = ReadInt(s, 1, signs).value
  BY <1>3, Zenon DEF ParseCount, FromChars
<1>6. SpellsAt(s, n, 0, signs) <=> s # <<>> /\ SpelledFrom(s, 1, signs, n)
  <2>1. SpellsAt(s, n, 0, signs)
            <=> /\ 0 < Len(s) /\ \A j \in 1..0 : s[j] = " "
                /\ SpelledFrom(s, 0 + 1, signs, n)
    BY <1>2, SpellsAtIs, Zenon
  <2>. QED
    BY <2>1, <1>1, <1>2, Zenon
<1>7. Spells(s, n, {0}, signs) <=> SpellsAt(s, n, 0, signs)
  BY Zenon DEF Spells
<1>. QED
  BY <1>3, <1>4, <1>5, <1>6, <1>7, Zenon

LEMMA RoomsAreRead ==
    ASSUME NEW s \in Texts, Len(s) <= MaxLength, NEW n
    PROVE  n \in RoomNumber(s) <=> Spells(s, n, 0..MaxLength, {"-", "+"})
<1>1. PICK l \in Nat : l = Len(s) /\ (s = <<>> <=> l = 0) /\ l <= MaxLength
  <2>1. s \in Seq(Alphabet)
    BY DEF Texts
  <2>. QED
    BY <2>1
<1>2. PICK signs \in SUBSET {"-", "+"} : signs = {"-", "+"}
  OBVIOUS
<1>3. PICK b : b = IF s = <<>> THEN 0 ELSE Run(s, 1, {" "})
  OBVIOUS
<1>4. /\ b \in 0..l
      /\ \A j \in 1..b : s[j] = " "
  <2>1. CASE s = <<>>
    BY <2>1, <1>1, <1>3
  <2>2. CASE s # <<>>
    <3>1. Len(s) \in Nat /\ 1 \in 1..(Len(s) + 1)
      <4>1. 1 \in 1..(l + 1)
        OBVIOUS
      <4>. QED
        BY <4>1, <1>1, Zenon
    <3>2. /\ Run(s, 1, {" "}) \in 0..(Len(s) - 1 + 1)
          /\ \A j \in 1..(1 + Run(s, 1, {" "}) - 1) : s[j] \in {" "}
      BY <3>1, RunProperties, Zenon
    <3>3. b \in 0..(l - 1 + 1) /\ \A j \in 1..(1 + b - 1) : s[j] = " "
      <4>1. b = Run(s, 1, {" "})
        BY <1>3, <2>2, Zenon
      <4>2. b \in 0..(l - 1 + 1) /\ \A j \in 1..(1 + b - 1) : s[j] \in {" "}
        BY <3>2, <4>1, <1>1, Zenon
      <4>. QED
        BY <4>2, Zenon
    <3>4. b \in 0..l
      <4>1. b \in 0..(l - 1 + 1)
        BY <3>3, Zenon
      <4>. QED
        BY ONLY <4>1, l \in Nat
    <3>5. 1 + b - 1 = b
      BY <3>4
    <3>. QED
      BY <3>3, <3>4, <3>5, Zenon
  <2>. QED
    BY <2>1, <2>2
<1>5. b \in Nat /\ b + 1 \in 1..(Len(s) + 1) /\ 1 + b = b + 1 /\ b \in 0..MaxLength
  <2>1. b \in Nat /\ b + 1 \in 1..(l + 1) /\ 1 + b = b + 1 /\ b \in 0..MaxLength
    <3>1. l <= MaxLength /\ MaxLength \in Nat /\ b \in 0..l
      BY <1>1, <1>4, BoundsAssumption, Zenon
    <3>. QED
      BY ONLY <3>1, l \in Nat
  <2>. QED
    BY <2>1, <1>1, Zenon
<1>6. n \in RoomNumber(s) <=> SpelledFrom(s, b + 1, signs, n)
  <2>1. Stoi(s) = ReadInt(s, b + 1, signs)
    BY <1>2, <1>3, <1>5, Zenon DEF Stoi
  <2>2. n \in RoomNumber(s) <=> IsWhole(s, Stoi(s)) /\ n = Stoi(s).value
    BY Zenon DEF RoomNumber
  <2>3. SpelledFrom(s, b + 1, signs, n)
            <=> /\ IsWhole(s, ReadInt(s, b + 1, signs))
                /\ n = ReadInt(s, b + 1, signs).value
    BY <1>5, ReadsNumbers, Zenon
  <2>. QED
    BY <2>1, <2>2, <2>3, Zenon
<1>7. ASSUME SpelledFrom(s, b + 1, signs, n)
      PROVE  SpellsAt(s, n, b, signs)
  <2>1. b < Len(s)
    <3>1. SUFFICES ASSUME b = l
                   PROVE  FALSE
      <4>1. b # l => b < l
        <5>1. b \in 0..l
          BY <1>4, Zenon
        <5>. QED
          BY ONLY <5>1, l \in Nat
      <4>. QED
        BY <4>1, <1>1, Zenon
    <3>2. PICK sign \in Signs(signs), digits \in DigitStrings :
              /\ digits # <<>>
              /\ SubSeq(s, b + 1, Len(s)) = sign \o digits
      BY <1>7, Zenon DEF SpelledFrom
    <3>3. SubSeq(s, l + 1, l) = <<>>
      <4>1. l + 1 \in Int /\ l \in Int /\ l < l + 1
        OBVIOUS
      <4>. QED
        BY ONLY <4>1, SubSeqEmpty
    <3>4. sign \o digits = <<>>
      BY <3>1, <3>2, <3>3, <1>1, Zenon
    <3>5. sign \in Seq(Alphabet) /\ digits \in Seq(Alphabet)
      BY <3>2, SignProperties, DigitsProperties
    <3>. QED
      BY ONLY <3>2, <3>4, <3>5, ConcatEqualIffEmpty, ConcatSimplifications
  <2>. QED
    BY <2>1, <1>4, <1>5, <1>7, SpellsAtIs, Zenon
<1>8. ASSUME NEW a \in 0..MaxLength, SpellsAt(s, n, a, signs)
      PROVE  a = b
  <2>1. /\ a < Len(s) /\ s[a + 1] # " "
        /\ \A j \in 1..a : s[j] = " "
    <3>1. a \in Nat
      OBVIOUS
    <3>. QED
      BY <3>1, <1>8, SpellsAtIs, Zenon
  <2>2. /\ Len(s) \in Nat /\ 1 \in 1..(Len(s) + 1) /\ a \in 0..(Len(s) - 1 + 1)
        /\ 1 + a - 1 = a /\ 1 + a = a + 1
    <3>1. /\ 1 \in 1..(l + 1) /\ a \in 0..(l - 1 + 1)
          /\ 1 + a - 1 = a /\ 1 + a = a + 1
      <4>1. a < l /\ a \in Nat
        <5>1. a < l
          BY <2>1, <1>1, Zenon
        <5>. QED
          BY <5>1
      <4>. QED
        BY ONLY <4>1, l \in Nat
    <3>. QED
      BY <3>1, <1>1, Zenon
  <2>3. \A j \in 1..(1 + a - 1) : s[j] \in {" "}
    BY <2>1, <2>2, Zenon
  <2>4. 1 + a <= Len(s) => s[1 + a] \notin {" "}
    BY <2>1, <2>2, Zenon
  <2>5. Run(s, 1, {" "}) = a
    BY ONLY <2>2, <2>3, <2>4, RunIs
  <2>6. s # <<>>
    <3>1. a < l
      BY <2>1, <1>1, Zenon
    <3>2. l # 0
      BY ONLY <3>1, l \in Nat, a \in 0..MaxLength
    <3>. QED
      BY <3>2, <1>1, Zenon
  <2>. QED
    BY <2>5, <2>6, <1>3, Zenon
<1>9. Spells(s, n, 0..MaxLength, signs) <=> SpelledFrom(s, b + 1, signs, n)
  <2>1. ASSUME Spells(s, n, 0..MaxLength, signs)
        PROVE  SpelledFrom(s, b + 1, signs, n)
    <3>1. SpellsAt(s, n, b, signs)
      BY <2>1, <1>8, Zenon DEF Spells
    <3>. QED
      BY <3>1, <1>5, SpellsAtIs, Zenon
  <2>2. ASSUME SpelledFrom(s, b + 1, signs, n)
        PROVE  Spells(s, n, 0..MaxLength, signs)
    BY <2>2, <1>5, <1>7, Zenon DEF Spells
  <2>. QED
    BY <2>1, <2>2
<1>. QED
  BY <1>2, <1>6, <1>9, Zenon
-------------------------------------------------------------------------------
(* The reference: the spellings of the ints.                               *)

Form(b, sign, z, m) == Copies(" ", b) \o sign \o Copies("0", z) \o Decimal(m)

LEMMA SpellingsAre ==
    ASSUME NEW blanks, NEW plus, NEW q
    PROVE  q \in Spellings(blanks, plus)
             <=> \/ \E m \in 0..MAX_INT, b \in blanks, z \in 0..MaxLength, sign \in plus :
                        q = [number |-> m, text |-> Form(b, sign, z, m)]
                 \/ \E m \in 0..(MAX_INT + 1), b \in blanks, z \in 0..MaxLength :
                        q = [number |-> - m, text |-> Form(b, <<"-">>, z, m)]
<1>1. Spellings(blanks, plus) =
        {[number |-> m, text |-> Form(b, sign, z, m)] :
            m \in 0..MAX_INT, b \in blanks, z \in 0..MaxLength, sign \in plus}
        \cup
        {[number |-> - m, text |-> Form(b, <<"-">>, z, m)] :
            m \in 0..(MAX_INT + 1), b \in blanks, z \in 0..MaxLength}
  BY DEF Spellings, Form
<1>. QED
  BY <1>1

PlusSpells(n, blanks, plus) ==
    \E m \in 0..MAX_INT, b \in blanks, z \in 0..MaxLength, sign \in plus :
        n = m /\ text = Form(b, sign, z, m)
MinusSpells(n, blanks) ==
    \E m \in 0..(MAX_INT + 1), b \in blanks, z \in 0..MaxLength :
        n = - m /\ text = Form(b, <<"-">>, z, m)

LEMMA SpelledAre ==
    ASSUME NEW blanks, NEW plus, NEW n
    PROVE  n \in Spelled(Spellings(blanks, plus))
             <=> PlusSpells(n, blanks, plus) \/ MinusSpells(n, blanks)
<1>1. ASSUME n \in Spelled(Spellings(blanks, plus))
      PROVE  PlusSpells(n, blanks, plus) \/ MinusSpells(n, blanks)
  <2>1. PICK q \in Spellings(blanks, plus) : q.text = text /\ q.number = n
    BY <1>1, Zenon DEF Spelled
  <2>. QED
    BY <2>1, SpellingsAre DEF PlusSpells, MinusSpells
<1>2. \A q \in Spellings(blanks, plus) :
          q.number = n /\ q.text = text => n \in Spelled(Spellings(blanks, plus))
  BY Zenon DEF Spelled
<1>3. ASSUME NEW m \in 0..MAX_INT, NEW b \in blanks, NEW z \in 0..MaxLength, NEW sign \in plus,
             n = m, text = Form(b, sign, z, m)
      PROVE  n \in Spelled(Spellings(blanks, plus))
  <2> DEFINE q == [number |-> m, text |-> Form(b, sign, z, m)]
  <2>1. q \in Spellings(blanks, plus)
    BY SpellingsAre
  <2>2. q.number = n /\ q.text = text
    BY <1>3
  <2>. QED
    BY <1>2, <2>1, <2>2, Zenon
<1>4. ASSUME NEW m \in 0..(MAX_INT + 1), NEW b \in blanks, NEW z \in 0..MaxLength,
             n = - m, text = Form(b, <<"-">>, z, m)
      PROVE  n \in Spelled(Spellings(blanks, plus))
  <2> DEFINE q == [number |-> - m, text |-> Form(b, <<"-">>, z, m)]
  <2>1. q \in Spellings(blanks, plus)
    BY SpellingsAre
  <2>2. q.number = n /\ q.text = text
    BY <1>4
  <2>. QED
    BY <1>2, <2>1, <2>2, Zenon
<1>. QED
  BY <1>1, <1>3, <1>4, Zenon DEF PlusSpells, MinusSpells

LEMMA FormSpelled ==
    ASSUME NEW b \in Nat, NEW z \in Nat, NEW m \in Nat, NEW signs \in SUBSET {"-", "+"},
           NEW sign \in Signs(signs), IsInt(Signed(sign, m))
    PROVE  SpellsAt(Form(b, sign, z, m), Signed(sign, m), b, signs)
<1>1. PICK zeros \in DigitStrings, form \in DigitStrings :
          zeros = Copies("0", z) /\ form = Decimal(m) /\ form # <<>>
  BY ZerosAreNothing, DecimalType
<1>2. PICK digits \in DigitStrings : digits = zeros \o form
  BY ConcatProperties DEF DigitStrings
<1>3. digits # <<>>
  BY ONLY <1>1, <1>2, zeros \in DigitStrings, form \in DigitStrings DEF DigitStrings
<1>4. Value(digits) = m
  BY <1>1, <1>2, PaddedValue, Zenon
<1>5. zeros \in Seq(Alphabet) /\ form \in Seq(Alphabet)
  BY AlphabetProperties DEF Texts
<1>6. Copies(" ", b) \o sign \in Seq(Alphabet)
  BY SignProperties, BlanksProperties, ConcatProperties
<1>7. PICK p \in Seq(Alphabet) : p = Copies(" ", b) \o sign
  BY <1>6
<1>8. (p \o zeros) \o form = p \o (zeros \o form)
  BY <1>5, Regrouped, Zenon
<1>9. Form(b, sign, z, m) = (Copies(" ", b) \o sign) \o digits
  BY <1>1, <1>2, <1>7, <1>8, Zenon DEF Form
<1>. QED
  BY <1>3, <1>4, <1>9, Zenon DEF SpellsAt

LEMMA SpelledForm ==
    ASSUME text \in Texts, Len(text) <= MaxLength, NEW n, NEW b \in Nat,
           NEW signs \in SUBSET {"-", "+"}, SpellsAt(text, n, b, signs)
    PROVE  \E sign \in Signs(signs), z \in 0..MaxLength, m \in Nat :
               text = Form(b, sign, z, m) /\ n = Signed(sign, m) /\ IsInt(n)
<1>1. PICK sign \in Signs(signs), digits \in DigitStrings :
          /\ digits # <<>>
          /\ text = (Copies(" ", b) \o sign) \o digits
          /\ n = Signed(sign, Value(digits))
          /\ IsInt(n)
  BY Zenon DEF SpellsAt
<1>2. PICK v \in Nat : v = Value(digits)
  BY ValueType
<1>3. PICK k \in 0..(Len(digits) - 1) : digits = Copies("0", k) \o Decimal(v)
  BY <1>1, <1>2, DigitsArePadded
<1>4. PICK p \in Seq(Alphabet) : p = Copies(" ", b) \o sign
  BY SignProperties, BlanksProperties, ConcatProperties
<1>5. k \in 0..MaxLength /\ k \in Nat
  <2>1. digits \in Seq(Alphabet)
    BY <1>1, DigitsProperties
  <2>2. Len(p \o digits) = Len(p) + Len(digits)
    BY <2>1, ConcatProperties
  <2>3. PICK x \in Nat, y \in Nat : x = Len(p) /\ y = Len(digits)
    BY <2>1, LenProperties
  <2>4. x + y <= MaxLength
    BY <1>1, <1>4, <2>2, <2>3, Zenon
  <2>5. k \in 0..(y - 1)
    BY <2>3, Zenon
  <2>6. MaxLength \in Nat
    BY BoundsAssumption
  <2>. QED
    BY ONLY <2>4, <2>5, <2>6, x \in Nat, y \in Nat
<1>6. text = Form(b, sign, k, v)
  <2>1. PICK zeros \in DigitStrings, form \in DigitStrings :
            zeros = Copies("0", k) /\ form = Decimal(v)
    BY <1>5, ZerosAreNothing, DecimalType
  <2>2. zeros \in Seq(Alphabet) /\ form \in Seq(Alphabet)
    BY AlphabetProperties DEF Texts
  <2>3. (p \o zeros) \o form = p \o (zeros \o form)
    BY <2>2, Regrouped, Zenon
  <2>. QED
    BY <1>1, <1>3, <1>4, <2>1, <2>3, Zenon DEF Form
<1>. QED
  BY <1>1, <1>2, <1>5, <1>6, Zenon

LEMMA SpellingsSpell ==
    ASSUME text \in Texts, Len(text) <= MaxLength, NEW n,
           NEW blanks \in SUBSET Nat, NEW plus \in SUBSET {<<>>, <<"+">>},
           NEW signs \in SUBSET {"-", "+"}, Signs(signs) = plus \cup {<<"-">>}
    PROVE  n \in Spelled(Spellings(blanks, plus)) <=> Spells(text, n, blanks, signs)
<1>1. <<"-">> \in Signs(signs) /\ \A sign \in plus : sign \in Signs(signs) /\ sign # <<"-">>
  <2>1. <<>> # <<"-">> /\ <<"+">> # <<"-">>
    OBVIOUS
  <2>2. \A sign \in plus : sign = <<>> \/ sign = <<"+">>
    BY Zenon
  <2>. QED
    BY <2>1, <2>2, Zenon
<1>2. /\ \A m \in 0..MAX_INT : m \in Nat /\ IsInt(m)
      /\ \A m \in 0..(MAX_INT + 1) : m \in Nat /\ IsInt(- m)
      /\ \A m \in Nat : IsInt(m) => m \in 0..MAX_INT
      /\ \A m \in Nat : IsInt(- m) => m \in 0..(MAX_INT + 1)
  BY BoundsAssumption DEF IsInt
<1>3. /\ \A m : Signed(<<"-">>, m) = - m
      /\ \A m, sign : sign # <<"-">> => Signed(sign, m) = m
  BY Zenon DEF Signed
<1>4. ASSUME NEW m \in 0..MAX_INT, NEW b \in blanks, NEW z \in 0..MaxLength, NEW sign \in plus,
             n = m, text = Form(b, sign, z, m)
      PROVE  Spells(text, n, blanks, signs)
  <2>1. m \in Nat /\ b \in Nat /\ z \in Nat
    OBVIOUS
  <2>2. Signed(sign, m) = m /\ IsInt(m) /\ sign \in Signs(signs)
    BY <1>1, <1>2, <1>3, Zenon
  <2>3. SpellsAt(Form(b, sign, z, m), Signed(sign, m), b, signs)
    BY <2>1, <2>2, FormSpelled, Zenon
  <2>. QED
    BY <1>4, <2>2, <2>3, Zenon DEF Spells
<1>5. ASSUME NEW m \in 0..(MAX_INT + 1), NEW b \in blanks, NEW z \in 0..MaxLength,
             n = - m, text = Form(b, <<"-">>, z, m)
      PROVE  Spells(text, n, blanks, signs)
  <2>1. m \in Nat /\ b \in Nat /\ z \in Nat
    BY BoundsAssumption
  <2>2. Signed(<<"-">>, m) = - m /\ IsInt(- m)
    BY <1>2, <1>3, Zenon
  <2>3. SpellsAt(Form(b, <<"-">>, z, m), Signed(<<"-">>, m), b, signs)
    BY <1>1, <2>1, <2>2, FormSpelled, Zenon
  <2>. QED
    BY <1>5, <2>2, <2>3, Zenon DEF Spells
<1>6. ASSUME NEW b \in blanks, SpellsAt(text, n, b, signs)
      PROVE  n \in Spelled(Spellings(blanks, plus))
  <2>1. PICK sign \in Signs(signs), z \in 0..MaxLength, m \in Nat :
            text = Form(b, sign, z, m) /\ n = Signed(sign, m) /\ IsInt(n)
    <3>1. b \in Nat
      OBVIOUS
    <3>. QED
      BY <1>6, <3>1, SpelledForm, Zenon
  <2>2. CASE sign = <<"-">>
    <3>1. n = - m /\ m \in 0..(MAX_INT + 1) /\ text = Form(b, <<"-">>, z, m)
      BY <1>2, <1>3, <2>1, <2>2, Zenon
    <3>2. MinusSpells(n, blanks)
      BY <3>1, Zenon DEF MinusSpells
    <3>. QED
      BY <3>2, SpelledAre, Zenon
  <2>3. CASE sign # <<"-">>
    <3>1. n = m /\ m \in 0..MAX_INT /\ sign \in plus
      BY <1>2, <1>3, <2>1, <2>3, Zenon
    <3>2. PlusSpells(n, blanks, plus)
      BY <2>1, <3>1, Zenon DEF PlusSpells
    <3>. QED
      BY <3>2, SpelledAre, Zenon
  <2>. QED
    BY <2>2, <2>3
<1>7. Spells(text, n, blanks, signs) => \E b \in blanks : SpellsAt(text, n, b, signs)
  BY Zenon DEF Spells
<1>8. ASSUME n \in Spelled(Spellings(blanks, plus))
      PROVE  Spells(text, n, blanks, signs)
  <2>1. CASE PlusSpells(n, blanks, plus)
    BY <1>4, <2>1 DEF PlusSpells
  <2>2. CASE MinusSpells(n, blanks)
    BY <1>5, <2>2 DEF MinusSpells
  <2>. QED
    BY <1>8, <2>1, <2>2, SpelledAre, Zenon
<1>9. Spells(text, n, blanks, signs) => n \in Spelled(Spellings(blanks, plus))
  BY <1>6, <1>7, Zenon
<1>. QED
  BY <1>8, <1>9
-------------------------------------------------------------------------------
(* Theorems.                                                               *)

LEMMA TextInvariance ==
    Spec => []TextInv
<1>1. Init => TextInv
  BY BoundsAssumption DEF Init, TextInv
<1>2. TextInv /\ [Next]_text => TextInv'
  BY BoundsAssumption DEF TextInv, Next
<1>. QED
  BY <1>1, <1>2, PTL DEF Spec

LEMMA TextIsText ==
    ASSUME TextInv
    PROVE  text \in Texts /\ Len(text) <= MaxLength
<1>1. \A S, T : S \subseteq T => Seq(S) \subseteq Seq(T)
  OBVIOUS
<1>2. Tokens \subseteq Alphabet
  BY DEF Alphabet
<1>. QED
  BY <1>1, <1>2, Zenon DEF TextInv, Texts

\* A count is read exactly when the text spells an int from its first to its last
\* character, and so is the number of a room, for every text, length and width of int.
THEOREM NumbersReadExactly == Spec => []NumbersAreExact
<1>1. ASSUME TextInv
      PROVE  NumbersAreExact
  <2>1. text \in Texts /\ Len(text) <= MaxLength
    BY <1>1, TextIsText
  <2>2. \A n : n \in ParseCount(text) <=> n \in Spelled(CountSpellings)
    <3>1. ASSUME NEW n
          PROVE  n \in ParseCount(text) <=> n \in Spelled(CountSpellings)
      <4>1. n \in ParseCount(text) <=> Spells(text, n, {0}, {"-"})
        BY <2>1, CountsAreRead, Zenon
      <4>2. /\ Signs({"-"}) = {<<>>} \cup {<<"-">>} /\ {"-"} \in SUBSET {"-", "+"}
            /\ {0} \in SUBSET Nat /\ <<>> \in {<<>>}
            /\ {<<>>} \in SUBSET {<<>>, <<"+">>}
        BY DEF Signs
      <4>3. n \in Spelled(Spellings({0}, {<<>>})) <=> Spells(text, n, {0}, {"-"})
        BY <2>1, <4>2, SpellingsSpell, Zenon
      <4>. QED
        BY <4>1, <4>3, Zenon DEF CountSpellings
    <3>. QED
      BY <3>1
  <2>3. \A n : n \in RoomNumber(text) <=> n \in Spelled(RoomSpellings)
    <3>1. ASSUME NEW n
          PROVE  n \in RoomNumber(text) <=> n \in Spelled(RoomSpellings)
      <4>1. n \in RoomNumber(text) <=> Spells(text, n, 0..MaxLength, {"-", "+"})
        BY <2>1, RoomsAreRead, Zenon
      <4>2. /\ Signs({"-", "+"}) = {<<>>, <<"+">>} \cup {<<"-">>}
            /\ {"-", "+"} \in SUBSET {"-", "+"}
            /\ 0..MaxLength \in SUBSET Nat /\ <<>> \in {<<>>, <<"+">>}
            /\ {<<>>, <<"+">>} \in SUBSET {<<>>, <<"+">>}
        BY DEF Signs
      <4>3. n \in Spelled(Spellings(0..MaxLength, {<<>>, <<"+">>}))
                <=> Spells(text, n, 0..MaxLength, {"-", "+"})
        BY <2>1, <4>2, SpellingsSpell, Zenon
      <4>. QED
        BY <4>1, <4>3, Zenon DEF RoomSpellings
    <3>. QED
      BY <3>1
  <2>. QED
    BY <2>2, <2>3 DEF NumbersAreExact
<1>. QED
  BY <1>1, TextInvariance, PTL

LEMMA NamedIsNamed ==
    ASSUME NEW table, NEW word \in Words(table)
    PROVE  Named(table, word) \in DOMAIN table /\ table[Named(table, word)] = word
<1>1. \E type \in DOMAIN table : table[type] = word
  BY DEF Words
<1>. QED
  BY <1>1, Zenon DEF Named

LEMMA TypesDiffer ==
    /\ "CHAT" \notin DOMAIN FixedCommands /\ "CHAT" \notin DOMAIN PrefixCommands
    /\ DOMAIN FixedCommands \cap DOMAIN PrefixCommands = {}
BY DEF FixedCommands, PrefixCommands

\* A command word and its payload make up the text of a client again.
THEOREM CommandsLoseNothing == Spec => []NothingIsLost
<1>1. ASSUME TextInv
      PROVE  NothingIsLost
  <2>1. text \in Seq(Tokens)
    BY <1>1 DEF TextInv
  <2>2. CASE Len(text) = 1 /\ StartsWith(text, FixedCommands)
    <3>1. PICK type : type = Named(FixedCommands, text[1])
      OBVIOUS
    <3>2. type \in DOMAIN FixedCommands /\ FixedCommands[type] = text[1]
      BY <2>2, <3>1, NamedIsNamed, Zenon DEF StartsWith
    <3>3. ParseClientCommand(text) = [type |-> type, payload |-> <<>>]
      BY <2>2, <3>1, Zenon DEF ParseClientCommand
    <3>4. text = <<text[1]>>
      BY <2>1, <2>2
    <3>. QED
      BY <3>2, <3>3, <3>4, TypesDiffer DEF NothingIsLost
  <2>3. CASE ~ (Len(text) = 1 /\ StartsWith(text, FixedCommands))
                 /\ StartsWith(text, PrefixCommands)
    <3>1. PICK type : type = Named(PrefixCommands, text[1])
      OBVIOUS
    <3>2. type \in DOMAIN PrefixCommands /\ PrefixCommands[type] = text[1]
      BY <2>3, <3>1, NamedIsNamed, Zenon DEF StartsWith
    <3>3. ParseClientCommand(text) = [type |-> type, payload |-> Tail(text)]
      BY <2>3, <3>1, Zenon DEF ParseClientCommand, Payload
    <3>4. text = <<text[1]>> \o Tail(text)
      <4>1. text # <<>>
        BY <2>3 DEF StartsWith
      <4>. QED
        BY <2>1, <4>1
    <3>. QED
      <4>1. type # "CHAT" /\ type \notin DOMAIN FixedCommands
        BY <3>2, TypesDiffer
      <4>2. /\ ParseClientCommand(text).type = type
            /\ ParseClientCommand(text).payload = Tail(text)
        BY <3>3
      <4>. QED
        BY <3>2, <3>4, <4>1, <4>2, Zenon DEF NothingIsLost
  <2>4. CASE /\ ~ (Len(text) = 1 /\ StartsWith(text, FixedCommands))
             /\ ~ StartsWith(text, PrefixCommands)
    <3>1. ParseClientCommand(text) = [type |-> "CHAT", payload |-> text]
      BY <2>4, Zenon DEF ParseClientCommand
    <3>. QED
      BY <3>1 DEF NothingIsLost
  <2>. QED
    BY <2>2, <2>3, <2>4
<1>. QED
  BY <1>1, TextInvariance, PTL
===============================================================================
