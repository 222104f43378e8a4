----------------------------- MODULE DictLemmas -----------------------------
(***************************************************************************)
(* Lemmas about redis' dict, for any keys and hashes and tables of any     *)
(* size: what the reversed cursor of dictScan passes at each call, and     *)
(* what each operation of dict.c does to the chains, the tables and the    *)
(* dict made of them.  DictProofs puts the steps together.                 *)
(***************************************************************************)
EXTENDS Dict, FiniteSetTheorems, SequenceTheorems, TLAPS

\* A nonempty set of naturals has a least element.
LEMMA LeastNat ==
    ASSUME NEW S \in SUBSET Nat, S # {}
    PROVE  \E x \in S : \A y \in S : x <= y
<1>1. PICK x \in S : \A y \in S : ~(<<y, x>> \in OpToRel(<, Nat))
  BY NatLessThanWellFounded, WFMin, Zenon
<1>2. \A y \in S : ~(y < x)
  BY <1>1, Zenon DEF OpToRel
<1>3. \A y \in S : x <= y
  BY <1>2
<1> QED BY <1>3

\* Induction, for a set.
LEMMA Induction ==
    ASSUME NEW S, 0 \in S, \A n \in Nat : n \in S => n + 1 \in S
    PROVE  \A n \in Nat : n \in S
<1> SUFFICES ASSUME Nat \ S # {} PROVE FALSE
  OBVIOUS
<1>1. PICK x \in Nat \ S : \A y \in Nat \ S : x <= y
  BY LeastNat, Zenon
<1>2. x - 1 \in Nat /\ x - 1 \notin Nat \ S
  BY <1>1
<1> QED BY <1>1, <1>2

\* The number of subsets of 1 .. e.
LEMMA PowerOfTwo == ASSUME NEW e \in Nat PROVE 2 ^ e \in Nat \ {0}
<1>1. IsFiniteSet(1 .. e) /\ Cardinality(1 .. e) = e
  BY FS_Interval
<1>2. IsFiniteSet(SUBSET (1 .. e)) /\ Cardinality(SUBSET (1 .. e)) = 2 ^ e
  BY <1>1, FS_SUBSET
<1>3. SUBSET (1 .. e) # {}
  BY Zenon
<1> QED BY <1>2, <1>3, FS_EmptySet, FS_CardinalityType

\* The subsets of 1 .. n + 1 are those of 1 .. n, without n + 1 and with it.
LEMMA PowerStep ==
    /\ 2 ^ 0 = 1
    /\ \A n \in Nat : 2 ^ (n + 1) = 2 * 2 ^ n
<1>1. ASSUME NEW n \in Nat PROVE 2 ^ (n + 1) = 2 * 2 ^ n
  <2> DEFINE m == n + 1
             A == SUBSET (1 .. n)
             B == {X \cup {m} : X \in A}
             f == [X \in A |-> X \cup {m}]
  <2>1. /\ IsFiniteSet(1 .. n) /\ Cardinality(1 .. n) = n
        /\ IsFiniteSet(1 .. m) /\ Cardinality(1 .. m) = m
    BY FS_Interval
  <2>2. /\ IsFiniteSet(A) /\ Cardinality(A) = 2 ^ n
        /\ Cardinality(SUBSET (1 .. m)) = 2 ^ m
    BY <2>1, FS_SUBSET, Zenon
  <2>3. m \notin 1 .. n /\ 1 .. m = (1 .. n) \cup {m}
    OBVIOUS
  <2> HIDE DEF m
  <2>4. SUBSET (1 .. m) = A \cup B /\ A \cap B = {}
    <3>1. ASSUME NEW X \in SUBSET (1 .. m) PROVE X \in A \cup B
      <4>1. CASE m \in X
        <5>1. X \ {m} \in A /\ X = (X \ {m}) \cup {m}
          BY <2>3, <4>1
        <5> QED BY <5>1, Zenon
      <4>2. CASE m \notin X
        BY <2>3, <4>2
      <4> QED BY <4>1, <4>2
    <3>2. ASSUME NEW X \in A \cup B PROVE X \in SUBSET (1 .. m)
      BY <2>3
    <3>3. A \cap B = {}
      BY <2>3
    <3>4. SUBSET (1 .. m) \subseteq A \cup B
      BY <3>1
    <3>5. A \cup B \subseteq SUBSET (1 .. m)
      BY <3>2, Zenon
    <3> QED BY <3>3, <3>4, <3>5, Zenon
  <2>5. f \in Bijection(A, B)
    <3>1. f \in Injection(A, B)
      <4>1. ASSUME NEW X \in A, NEW Y \in A, f[X] = f[Y] PROVE X = Y
        <5>1. X = f[X] \ {m} /\ Y = f[Y] \ {m}
          BY <2>3
        <5> QED BY <4>1, <5>1, Zenon
      <4>2. f \in [A -> B]
        OBVIOUS
      <4> QED BY <4>1, <4>2, Zenon DEF Injection, IsInjective
    <3>2. f \in Surjection(A, B)
      BY Zenon DEF Surjection
    <3> QED BY <3>1, <3>2, Zenon DEF Bijection
  <2>6. IsFiniteSet(B) /\ Cardinality(B) = 2 ^ n
    <3>1. ExistsBijection(A, B)
      BY <2>5, Zenon DEF ExistsBijection
    <3> HIDE DEF A, B
    <3> QED BY ONLY <2>2, <3>1, FS_Bijection, Zenon
  <2>7. Cardinality(A \cup B) = Cardinality(A) + Cardinality(B) - Cardinality(A \cap B)
    <3> HIDE DEF A, B
    <3> QED BY ONLY <2>2, <2>6, FS_Union, Zenon
  <2> HIDE DEF A, B
  <2>8. 2 ^ m = 2 ^ n + 2 ^ n - 0
    BY <2>2, <2>4, <2>6, <2>7, FS_EmptySet, Zenon
  <2>9. 2 ^ n \in Nat
    BY PowerOfTwo
  <2> QED BY <2>8, <2>9 DEF m
<1>2. 2 ^ 0 = 1
  OBVIOUS
<1> QED BY <1>1, <1>2

\* A number is its quotient times the divisor, and the remainder.
LEMMA Quotient == ASSUME NEW z \in Int, NEW m \in Int, m > 0 PROVE z = m * (z \div m) + (z % m)
OBVIOUS

\* The same for naturals, with the ranges of both.
LEMMA Divided ==
    ASSUME NEW z \in Nat, NEW m \in Nat \ {0}
    PROVE  z \div m \in Nat /\ z % m \in 0 .. m - 1 /\ z = m * (z \div m) + (z % m)
<1>1. z % m \in 0 .. m - 1
  OBVIOUS
<1>2. z \div m \in Nat
  OBVIOUS
<1>3. z = m * (z \div m) + (z % m)
  BY Quotient
<1> QED BY <1>1, <1>2, <1>3, Zenon

\* Quotient and remainder are unique.
LEMMA DivUnique ==
    ASSUME NEW m \in Nat \ {0}, NEW q \in Nat, NEW r \in 0 .. m - 1
    PROVE  (m * q + r) \div m = q /\ (m * q + r) % m = r
OBVIOUS

\* Dividing twice is dividing by the product.
LEMMA DivDiv ==
    ASSUME NEW z \in Nat, NEW m \in Nat \ {0}, NEW n \in Nat \ {0}
    PROVE  (z \div m) \div n = z \div (m * n)
OBVIOUS

\* Taking a number modulo a larger power of two leaves the bit of a smaller one.
LEMMA LowBits ==
    ASSUME NEW z \in Nat, NEW m \in Nat \ {0}, NEW n \in Nat \ {0}
    PROVE  ((z % (m * (2 * n))) \div m) % 2 = (z \div m) % 2
<1> DEFINE w == m * (2 * n)
           q == z \div w
           r == z % w
           a == r \div m
           b == r % m
           g == n * q
           c == 2 * g + a
<1>1. w \in Nat \ {0}
  OBVIOUS
<1> HIDE DEF w
<1>2. q \in Nat /\ r \in Nat /\ z = w * q + r
  BY <1>1, Divided
<1> HIDE DEF q, r
<1>3. a \in Nat /\ b \in 0 .. m - 1 /\ r = m * a + b
  BY <1>2, Divided, Zenon
<1> HIDE DEF a, b
<1>4. w * q = m * (2 * g) /\ g \in Nat
  BY <1>2 DEF w
<1> HIDE DEF g
<1>5. c \in Nat /\ c % 2 = a % 2
  BY <1>3, <1>4
<1>6. z = m * c + b
  BY <1>2, <1>3, <1>4
<1> HIDE DEF c
<1>7. z \div m = c
  BY <1>3, <1>5, <1>6, DivUnique
<1> QED BY <1>5, <1>7 DEF a, r, w

\* Powers of two multiply.
LEMMA PowerSum ==
    ASSUME NEW a \in Nat, NEW b \in Nat
    PROVE  2 ^ (a + b) = 2 ^ a * 2 ^ b
<1> DEFINE S == {n \in Nat : 2 ^ (a + n) = 2 ^ a * 2 ^ n}
<1>1. 0 \in S
  <2>1. 2 ^ a \in Nat /\ a + 0 = a
    BY PowerOfTwo
  <2> QED BY <2>1, PowerStep
<1>2. ASSUME NEW n \in Nat, n \in S PROVE n + 1 \in S
  <2> DEFINE p == 2 ^ a
             q == 2 ^ n
             r == 2 ^ (a + n)
  <2>1. p \in Nat /\ q \in Nat /\ r = p * q
    BY <1>2, PowerOfTwo
  <2>2. 2 ^ (n + 1) = 2 * q
    BY PowerStep
  <2>3. 2 ^ ((a + n) + 1) = 2 * r /\ (a + n) + 1 = a + (n + 1)
    BY PowerStep
  <2> HIDE DEF p, q, r
  <2>4. 2 * r = p * (2 * q)
    BY <2>1
  <2> QED BY <2>2, <2>3, <2>4 DEF p
<1> HIDE DEF S
<1>3. b \in S
  BY <1>1, <1>2, Induction
<1> QED BY <1>3 DEF S

\* The bits of half a number.
LEMMA BitOfHalf ==
    ASSUME NEW v \in Nat, NEW i \in Nat
    PROVE  v \div 2 \in Nat /\ Bit(v \div 2, i) = Bit(v, i + 1) /\ Bit(v, 0) = v % 2
<1>1. (v \div 2) \div 2 ^ i = v \div (2 * 2 ^ i)
  BY PowerOfTwo, DivDiv
<1>2. 2 ^ (i + 1) = 2 * 2 ^ i /\ 2 ^ 0 = 1
  BY PowerStep
<1>3. v \div 1 = v /\ v \div 2 \in Nat
  OBVIOUS
<1> QED BY <1>1, <1>2, <1>3, Zenon DEF Bit

\* A number of n bits is half of one of n + 1.
LEMMA HalfFits ==
    ASSUME NEW n \in Nat, NEW v \in 0 .. 2 ^ (n + 1) - 1
    PROVE  v \in Nat /\ v \div 2 \in 0 .. 2 ^ n - 1 /\ v = 2 * (v \div 2) + (v % 2) /\ v % 2 \in 0 .. 1
<1> DEFINE p == 2 ^ n
<1>1. p \in Nat /\ 2 ^ (n + 1) = 2 * p
  BY PowerOfTwo, PowerStep
<1> HIDE DEF p
<1>2. v \in 0 .. 2 * p - 1
  BY <1>1
<1>3. v \div 2 \in 0 .. p - 1
  BY <1>1, <1>2
<1> QED BY <1>2, <1>3 DEF p

\* Its bits determine a number.
LEMMA BitsDecide ==
    ASSUME NEW n \in Nat, NEW u \in 0 .. 2 ^ n - 1, NEW v \in 0 .. 2 ^ n - 1,
           \A i \in 0 .. n - 1 : Bit(u, i) = Bit(v, i)
    PROVE  u = v
<1> DEFINE Same(m, x, y) == \A i \in 0 .. m - 1 : Bit(x, i) = Bit(y, i)
           S == {m \in Nat : \A x, y \in 0 .. 2 ^ m - 1 : Same(m, x, y) => x = y}
<1>1. 0 \in S
  BY PowerStep
<1>2. ASSUME NEW m \in Nat, m \in S PROVE m + 1 \in S
  <2> SUFFICES ASSUME NEW x \in 0 .. 2 ^ (m + 1) - 1, NEW y \in 0 .. 2 ^ (m + 1) - 1, Same(m + 1, x, y)
               PROVE  x = y
    OBVIOUS
  <2>1. /\ x \in Nat /\ x \div 2 \in 0 .. 2 ^ m - 1 /\ x = 2 * (x \div 2) + (x % 2)
        /\ y \in Nat /\ y \div 2 \in 0 .. 2 ^ m - 1 /\ y = 2 * (y \div 2) + (y % 2)
    BY HalfFits
  <2>2. Bit(x, 0) = x % 2 /\ Bit(y, 0) = y % 2
    BY <2>1, BitOfHalf
  <2>3. Same(m, x \div 2, y \div 2)
    <3> SUFFICES ASSUME NEW i \in 0 .. m - 1 PROVE Bit(x \div 2, i) = Bit(y \div 2, i)
      OBVIOUS
    <3>1. i \in Nat /\ i + 1 \in 0 .. (m + 1) - 1
      OBVIOUS
    <3>2. Bit(x, i + 1) = Bit(y, i + 1)
      BY <3>1
    <3> QED BY <2>1, <3>1, <3>2, BitOfHalf, Zenon
  <2>4. x \div 2 = y \div 2
    BY <1>2, <2>1, <2>3
  <2>5. x % 2 = y % 2
    <3>1. 0 \in 0 .. (m + 1) - 1
      OBVIOUS
    <3> QED BY <2>2, <3>1
  <2> QED BY <2>1, <2>4, <2>5
<1> HIDE DEF S
<1>3. n \in S
  BY <1>1, <1>2, Induction
<1> QED BY <1>3 DEF S

\* The remainder by 2 ^ e, which is v & mask, has the bits below e.
LEMMA BitsBelow ==
    ASSUME NEW z \in Nat, NEW e \in Nat
    PROVE  /\ z % 2 ^ e \in 0 .. 2 ^ e - 1
           /\ \A i \in 0 .. e - 1 : Bit(z % 2 ^ e, i) = Bit(z, i)
<1>1. z % 2 ^ e \in 0 .. 2 ^ e - 1
  BY PowerOfTwo, Divided
<1>2. ASSUME NEW i \in 0 .. e - 1 PROVE Bit(z % 2 ^ e, i) = Bit(z, i)
  <2> DEFINE j == e - i - 1
             m == 2 ^ i
             n == 2 ^ j
  <2>1. i \in Nat /\ j \in Nat /\ i + (j + 1) = e
    OBVIOUS
  <2> HIDE DEF j
  <2>2. m \in Nat \ {0} /\ n \in Nat \ {0} /\ 2 ^ (j + 1) = 2 * n
    BY <2>1, PowerOfTwo, PowerStep
  <2>3. 2 ^ e = m * 2 ^ (j + 1)
    <3>1. j + 1 \in Nat
      BY <2>1
    <3>2. 2 ^ (i + (j + 1)) = 2 ^ i * 2 ^ (j + 1)
      BY <2>1, <3>1, PowerSum
    <3> QED BY <2>1, <3>2
  <2>4. 2 ^ e = m * (2 * n)
    BY <2>2, <2>3, Zenon
  <2> HIDE DEF m, n
  <2>5. ((z % (m * (2 * n))) \div m) % 2 = (z \div m) % 2
    BY <2>2, LowBits, Zenon
  <2> QED BY <2>4, <2>5, Zenon DEF Bit, m
<1> QED BY <1>1, <1>2

\* The quotient by 2 ^ c has the bits from c on.
LEMMA BitsAbove ==
    ASSUME NEW z \in Nat, NEW c \in Nat
    PROVE  z \div 2 ^ c \in Nat /\ \A i \in Nat : Bit(z \div 2 ^ c, i) = Bit(z, c + i)
<1>1. z \div 2 ^ c \in Nat
  BY PowerOfTwo, Divided
<1>2. ASSUME NEW i \in Nat PROVE Bit(z \div 2 ^ c, i) = Bit(z, c + i)
  <2>1. 2 ^ (c + i) = 2 ^ c * 2 ^ i
    BY PowerSum
  <2>2. (z \div 2 ^ c) \div 2 ^ i = z \div (2 ^ c * 2 ^ i)
    BY PowerOfTwo, DivDiv, Zenon
  <2> QED BY <2>1, <2>2, Zenon DEF Bit
<1> QED BY <1>1, <1>2

\* A number below 2^(a + b) has a quotient by 2^a below 2^b.
LEMMA QuotientFits ==
    ASSUME NEW a \in Nat, NEW b \in Nat, NEW z \in 0 .. 2 ^ (a + b) - 1
    PROVE  z \in Nat /\ z \div 2 ^ a \in 0 .. 2 ^ b - 1
<1> DEFINE p == 2 ^ a
           q == 2 ^ b
           r == z \div p
           s == z % p
<1>1. p \in Nat \ {0} /\ q \in Nat \ {0} /\ 2 ^ (a + b) = p * q
  BY PowerOfTwo, PowerSum
<1>2. z \in Nat /\ z < p * q
  <2>1. p * q \in Nat
    BY <1>1
  <2> QED BY <1>1, <2>1
<1> HIDE DEF p, q
<1>3. r \in Nat /\ s \in 0 .. p - 1 /\ z = p * r + s
  BY <1>1, <1>2, Divided, Zenon
<1> HIDE DEF r, s
<1>4. ASSUME r >= q PROVE FALSE
  <2>1. p * r >= p * q
    BY <1>1, <1>3, <1>4
  <2> QED BY <1>1, <1>2, <1>3, <2>1
<1>5. r \in 0 .. q - 1
  BY <1>1, <1>3, <1>4
<1> QED BY <1>2, <1>5 DEF r, p, q

\* Every number of n bits has a reversal.
LEMMA HasReversal ==
    ASSUME NEW n \in Nat, NEW v \in 0 .. 2 ^ n - 1
    PROVE  \E u \in 0 .. 2 ^ n - 1 : \A i \in 0 .. n - 1 : Bit(u, i) = Bit(v, n - 1 - i)
<1> DEFINE Reversed(m, x, y) == \A i \in 0 .. m - 1 : Bit(y, i) = Bit(x, m - 1 - i)
           S == {m \in Nat : \A x \in 0 .. 2 ^ m - 1 : \E y \in 0 .. 2 ^ m - 1 : Reversed(m, x, y)}
<1>1. 0 \in S
  <2>1. 0 .. 2 ^ 0 - 1 = {0}
    BY PowerStep
  <2> QED BY <2>1
<1>2. ASSUME NEW m \in Nat, m \in S PROVE m + 1 \in S
  <2> SUFFICES ASSUME NEW x \in 0 .. 2 ^ (m + 1) - 1
               PROVE  \E y \in 0 .. 2 ^ (m + 1) - 1 : Reversed(m + 1, x, y)
    OBVIOUS
  <2> DEFINE p == 2 ^ m
             h == x \div 2
             b == x % 2
  <2>1. x \in Nat /\ h \in 0 .. p - 1 /\ b \in 0 .. 1
    BY HalfFits, Zenon
  <2>2. PICK g \in 0 .. 2 ^ m - 1 : Reversed(m, h, g)
    BY <1>2, <2>1
  <2> DEFINE y == p * b + g
  <2>3. p \in Nat \ {0} /\ 2 ^ (m + 1) = 2 * p
    BY PowerOfTwo, PowerStep
  <2>9. b = Bit(x, 0) /\ \A i \in Nat : Bit(h, i) = Bit(x, i + 1)
    BY <2>1, BitOfHalf
  <2> HIDE DEF b, h
  <2>4. g \in 0 .. p - 1
    OBVIOUS
  <2>5. y \in 0 .. 2 ^ (m + 1) - 1 /\ y \in Nat
    <3> HIDE DEF p
    <3>1. p * b \in {0, p}
      BY <2>1, <2>3
    <3> QED BY <2>3, <2>4, <3>1
  <2>6. y \div p = b /\ y % p = g
    <3> HIDE DEF p
    <3>1. b \in Nat
      BY <2>1
    <3> QED BY <2>3, <2>4, <3>1, DivUnique
  <2>7. ASSUME NEW i \in 0 .. (m + 1) - 1 PROVE Bit(y, i) = Bit(x, (m + 1) - 1 - i)
    <3>1. CASE i = m
      <4>1. Bit(y, m) = b % 2
        BY <2>6, Zenon DEF Bit
      <4>2. b % 2 = b /\ (m + 1) - 1 - m = 0
        BY <2>1
      <4> QED BY <3>1, <4>1, <4>2, <2>9
    <3>2. CASE i \in 0 .. m - 1
      <4>1. Bit(y, i) = Bit(g, i)
        <5> HIDE DEF y
        <5>1. Bit(y % 2 ^ m, i) = Bit(y, i)
          BY <2>5, <3>2, BitsBelow
        <5> QED BY <2>6, <5>1
      <4>2. Bit(g, i) = Bit(h, m - 1 - i)
        BY <2>2, <3>2
      <4>3. m - 1 - i \in Nat /\ (m - 1 - i) + 1 = (m + 1) - 1 - i
        BY <3>2
      <4> QED BY <4>1, <4>2, <4>3, <2>9
    <3> QED BY <3>1, <3>2
  <2> HIDE DEF y
  <2> QED BY <2>5, <2>7
<1> HIDE DEF S
<1>3. n \in S
  BY <1>1, <1>2, Induction
<1> QED BY <1>3 DEF S

\* rev puts bit Bits - 1 - i in the place of bit i.
LEMMA RevBits ==
    ASSUME NEW v \in Words
    PROVE  Rev[v] \in Words /\ \A i \in 0 .. Bits - 1 : Bit(Rev[v], i) = Bit(v, Bits - 1 - i)
<1> DEFINE IsRev(u) == \A i \in 0 .. Bits - 1 : Bit(u, i) = Bit(v, Bits - 1 - i)
<1>1. \E u \in Words : IsRev(u)
  BY HasReversal, DictAssumption DEF Words
<1>2. Rev[v] = CHOOSE u \in Words : IsRev(u)
  BY DEF Rev
<1> QED BY <1>1, <1>2, Zenon

\* The words are the numbers of Bits bits.
LEMMA WordsAre == Bits \in Nat /\ 2 ^ Bits \in Nat \ {0} /\ 0 \in Words /\ Words = 0 .. 2 ^ Bits - 1
  BY PowerOfTwo, DictAssumption DEF Words

\* rev is its own inverse.
LEMMA RevRev ==
    ASSUME NEW v \in Words
    PROVE  Rev[Rev[v]] = v
<1>1. Rev[v] \in Words /\ Rev[Rev[v]] \in Words /\ Bits \in Nat
  BY RevBits, WordsAre
<1>2. ASSUME NEW i \in 0 .. Bits - 1 PROVE Bit(Rev[Rev[v]], i) = Bit(v, i)
  <2>1. Bits - 1 - i \in 0 .. Bits - 1 /\ Bits - 1 - (Bits - 1 - i) = i
    BY <1>1
  <2>2. Bit(Rev[Rev[v]], i) = Bit(Rev[v], Bits - 1 - i)
    BY <1>1, RevBits
  <2>3. Bit(Rev[v], Bits - 1 - i) = Bit(v, Bits - 1 - (Bits - 1 - i))
    BY <2>1, RevBits
  <2> QED BY <2>1, <2>2, <2>3
<1> QED BY <1>1, <1>2, BitsDecide, WordsAre, Zenon

\* No bit of 0 is set.
LEMMA BitOfZero == ASSUME NEW i \in Nat PROVE Bit(0, i) = 0
<1> DEFINE p == 2 ^ i
<1>1. p \in Nat \ {0}
  BY PowerOfTwo
<1> HIDE DEF p
<1>2. p * 0 + 0 = 0 /\ 0 \in 0 .. p - 1
  BY <1>1
<1>3. 0 \div p = 0
  BY <1>1, <1>2, DivUnique
<1>4. Bit(0, i) = (0 \div p) % 2
  BY DEF Bit, p
<1> QED BY <1>3, <1>4

\* A scan starts with the lowest reversed cursor.
LEMMA RevZero == Rev[0] = 0
<1>1. Rev[0] \in Words /\ 0 \in Words /\ Bits \in Nat
  BY RevBits, WordsAre
<1>2. ASSUME NEW i \in 0 .. Bits - 1 PROVE Bit(Rev[0], i) = Bit(0, i)
  <2>1. Bits - 1 - i \in Nat /\ i \in Nat
    BY <1>1
  <2>2. Bit(Rev[0], i) = Bit(0, Bits - 1 - i)
    BY <1>1, RevBits
  <2> QED BY <2>1, <2>2, BitOfZero
<1> QED BY <1>1, <1>2, BitsDecide, WordsAre

\* 2 ^ Bits is as many blocks of 2 ^ (Bits - e) as a table of exponent e has buckets.
LEMMA Blocks ==
    ASSUME NEW e \in 0 .. Bits
    PROVE  /\ e \in Nat /\ Bits - e \in Nat
           /\ 2 ^ (Bits - e) \in Nat \ {0} /\ 2 ^ e \in Nat \ {0}
           /\ 2 ^ Bits = 2 ^ (Bits - e) * 2 ^ e
<1> DEFINE c == Bits - e
<1>1. e \in Nat /\ c \in Nat /\ c + e = Bits
  BY WordsAre
<1> HIDE DEF c
<1>2. 2 ^ (c + e) = 2 ^ c * 2 ^ e /\ 2 ^ c \in Nat \ {0} /\ 2 ^ e \in Nat \ {0}
  BY <1>1, PowerSum, PowerOfTwo
<1> QED BY <1>1, <1>2 DEF c

\* Words that a table of exponent e puts into one bucket are reversed into one
\* block of 2 ^ (Bits - e) words.
LEMMA SameBucket ==
    ASSUME NEW e \in 0 .. Bits, NEW x \in Words, NEW y \in Words
    PROVE  x % 2 ^ e = y % 2 ^ e <=> Rev[x] \div 2 ^ (Bits - e) = Rev[y] \div 2 ^ (Bits - e)
<1> DEFINE c == Bits - e
           Q(z) == Rev[z] \div 2 ^ c
<1>1. e \in Nat /\ c \in Nat /\ c + e = Bits /\ Bits \in Nat
  BY WordsAre
<1>2. ASSUME NEW z \in Words
      PROVE  /\ z \in Nat /\ z % 2 ^ e \in 0 .. 2 ^ e - 1 /\ Q(z) \in 0 .. 2 ^ e - 1
             /\ \A i \in 0 .. e - 1 : Bit(z % 2 ^ e, i) = Bit(z, i)
             /\ \A i \in 0 .. e - 1 : Bit(Q(z), i) = Bit(z, e - 1 - i)
  <2>1. z \in Nat /\ Rev[z] \in Nat /\ Rev[z] \in 0 .. 2 ^ Bits - 1
    BY RevBits, WordsAre
  <2> HIDE DEF c
  <2>2. Rev[z] \in 0 .. 2 ^ (c + e) - 1
    BY <1>1, <2>1
  <2>3. Q(z) \in 0 .. 2 ^ e - 1
    BY <1>1, <2>2, QuotientFits, Zenon
  <2>4. ASSUME NEW i \in 0 .. e - 1 PROVE Bit(Q(z), i) = Bit(z, e - 1 - i)
    <3>1. i \in Nat /\ c + i \in 0 .. Bits - 1 /\ Bits - 1 - (c + i) = e - 1 - i
      BY <1>1
    <3>2. Bit(Q(z), i) = Bit(Rev[z], c + i)
      BY <1>1, <2>1, <3>1, BitsAbove
    <3>3. Bit(Rev[z], c + i) = Bit(z, Bits - 1 - (c + i))
      BY <3>1, RevBits
    <3> QED BY <3>1, <3>2, <3>3
  <2> QED BY <1>1, <2>1, <2>3, <2>4, BitsBelow
<1> HIDE DEF Q
<1>3. ASSUME x % 2 ^ e = y % 2 ^ e PROVE Q(x) = Q(y)
  <2>1. ASSUME NEW i \in 0 .. e - 1 PROVE Bit(Q(x), i) = Bit(Q(y), i)
    <3>1. e - 1 - i \in 0 .. e - 1
      BY <1>1
    <3>2. Bit(x, e - 1 - i) = Bit(y, e - 1 - i)
      BY <1>2, <1>3, <3>1
    <3> QED BY <1>2, <3>2
  <2> QED BY <1>1, <1>2, <2>1, BitsDecide
<1>4. ASSUME Q(x) = Q(y) PROVE x % 2 ^ e = y % 2 ^ e
  <2>1. ASSUME NEW i \in 0 .. e - 1 PROVE Bit(x % 2 ^ e, i) = Bit(y % 2 ^ e, i)
    <3>1. e - 1 - i \in 0 .. e - 1 /\ e - 1 - (e - 1 - i) = i
      BY <1>1
    <3>2. Bit(Q(x), e - 1 - i) = Bit(x, i) /\ Bit(Q(y), e - 1 - i) = Bit(y, i)
      BY <1>2, <3>1
    <3> QED BY <1>2, <1>4, <3>2
  <2> DEFINE a == x % 2 ^ e
             b == y % 2 ^ e
  <2>2. a \in 0 .. 2 ^ e - 1 /\ b \in 0 .. 2 ^ e - 1 /\ \A i \in 0 .. e - 1 : Bit(a, i) = Bit(b, i)
    BY <1>2, <2>1
  <2> HIDE DEF a, b
  <2>3. a = b
    BY <1>1, <2>2, BitsDecide
  <2> QED BY <2>3 DEF a, b
<1> QED BY <1>3, <1>4 DEF Q

\* All the bits of 2 ^ n - 1 are set.
LEMMA AllOnes ==
    ASSUME NEW n \in Nat, NEW i \in 0 .. n - 1
    PROVE  2 ^ n - 1 \in 0 .. 2 ^ n - 1 /\ Bit(2 ^ n - 1, i) = 1
<1> DEFINE j == n - i - 1
           m == 2 ^ i
           k == 2 ^ j
           q == 2 * k - 1
<1>1. i \in Nat /\ j \in Nat /\ j + 1 \in Nat /\ i + (j + 1) = n
  OBVIOUS
<1> HIDE DEF j
<1>2. m \in Nat \ {0} /\ k \in Nat \ {0} /\ 2 ^ (j + 1) = 2 * k /\ 2 ^ (i + (j + 1)) = m * 2 ^ (j + 1)
  BY <1>1, PowerOfTwo, PowerStep, PowerSum
<1>3. 2 ^ n = m * (2 * k)
  BY <1>1, <1>2
<1> HIDE DEF m, k
<1>4. q \in Nat /\ q % 2 = 1 /\ m - 1 \in 0 .. m - 1
  BY <1>2
<1>5. m * (2 * k) - 1 = m * q + (m - 1)
  <2>1. m * q = m * (2 * k) - m
    BY <1>2
  <2>2. m * (2 * k) \in Int
    BY <1>2
  <2> QED BY <1>2, <2>1, <2>2
<1> HIDE DEF q
<1>6. (m * q + (m - 1)) \div m = q
  BY <1>2, <1>4, DivUnique, Zenon
<1>7. Bit(2 ^ n - 1, i) = ((2 ^ n - 1) \div m) % 2
  BY DEF Bit, m
<1>8. 2 ^ n \in Nat \ {0}
  BY PowerOfTwo
<1> QED BY <1>3, <1>4, <1>5, <1>6, <1>7, <1>8

\* v |= ~mask is the last word of its block when reversed.
LEMMA LastOfBlock ==
    ASSUME NEW e \in 0 .. Bits, NEW v \in Words
    PROVE  LET last == (v % 2 ^ e) + (2 ^ Bits - 2 ^ e)
               w == 2 ^ (Bits - e)
           IN  /\ last \in Words /\ Rev[last] \in Words
               /\ Rev[last] = w * (Rev[v] \div w) + (w - 1)
<1> DEFINE c == Bits - e
           w == 2 ^ c
           s == 2 ^ e
           r == v % s
           last == r + (2 ^ Bits - s)
<1>1. e \in Nat /\ c \in Nat /\ w \in Nat \ {0} /\ s \in Nat \ {0} /\ 2 ^ Bits = w * s /\ Bits = e + c
  BY Blocks, WordsAre
<1>2. v \in Nat /\ 2 ^ Bits \in Nat /\ Words = 0 .. 2 ^ Bits - 1
  BY WordsAre
<1>3. r \in 0 .. s - 1
  BY <1>1, <1>2, Divided
<1> HIDE DEF r
<1>4. w * s = s * (w - 1) + s /\ s * (w - 1) \in Nat
  <2> HIDE DEF w, s
  <2>1. w - 1 \in Nat
    BY <1>1
  <2> QED BY <1>1, <2>1
<1>5. last = s * (w - 1) + r /\ last \in Words
  <2> DEFINE a == s * (w - 1)
             b == 2 ^ Bits
  <2>1. a \in Nat /\ b = a + s /\ s \in Nat /\ r \in 0 .. s - 1 /\ Words = 0 .. b - 1
    BY <1>1, <1>2, <1>3, <1>4
  <2> HIDE DEF w, s, a, b
  <2>2. r + (b - s) = a + r /\ r + (b - s) \in Words
    BY <2>1
  <2> QED BY <2>2 DEF a, b
<1>6. last \div s = w - 1 /\ last % s = r
  <2> HIDE DEF w, s, last
  <2>1. w - 1 \in Nat
    BY <1>1
  <2>2. (s * (w - 1) + r) \div s = w - 1 /\ (s * (w - 1) + r) % s = r
    BY <1>1, <1>3, <2>1, DivUnique, Zenon
  <2> QED BY <1>5, <2>2
<1>7. Rev[last] \in Words /\ last \in Nat /\ Rev[last] \in Nat
  BY <1>2, <1>5, RevBits
<1>8. Rev[last] \div w = Rev[v] \div w
  <2> HIDE DEF last
  <2>1. last % 2 ^ e = v % 2 ^ e
    BY <1>6 DEF r
  <2> QED BY <1>5, <2>1, SameBucket
<1> HIDE DEF last
<1>9. Rev[last] % w = w - 1
  <2> DEFINE t == Rev[last] % w
  <2>1. t \in 0 .. 2 ^ c - 1 /\ \A i \in 0 .. c - 1 : Bit(t, i) = Bit(Rev[last], i)
    BY <1>1, <1>7, BitsBelow, Zenon
  <2> HIDE DEF t
  <2>2. ASSUME NEW i \in 0 .. c - 1 PROVE Bit(t, i) = Bit(2 ^ c - 1, i)
    <3> DEFINE k == c - 1 - i
    <3>1. k \in Nat /\ k \in 0 .. c - 1 /\ Bits - 1 - i = e + k /\ i \in 0 .. Bits - 1
      BY <1>1
    <3> HIDE DEF k, c
    <3>2. Bit(Rev[last], i) = Bit(last, e + k)
      BY <1>5, <3>1, RevBits
    <3>3. Bit(last, e + k) = Bit(last \div 2 ^ e, k)
      BY <1>1, <1>7, <3>1, BitsAbove
    <3>4. Bit(2 ^ c - 1, k) = 1 /\ Bit(2 ^ c - 1, i) = 1
      BY <1>1, <3>1, AllOnes
    <3> QED BY <1>6, <2>1, <3>2, <3>3, <3>4
  <2>3. 2 ^ c - 1 \in 0 .. 2 ^ c - 1
    BY <1>1
  <2>4. t = 2 ^ c - 1
    <3> HIDE DEF c
    <3> QED BY <1>1, <2>1, <2>2, <2>3, BitsDecide
  <2> QED BY <2>4 DEF t
<1>10. Rev[last] = w * (Rev[last] \div w) + (Rev[last] % w)
  BY <1>1, <1>7, Divided, Zenon
<1> QED BY <1>5, <1>7, <1>8, <1>9, <1>10 DEF last, r

\* The reversed cursors after those of v's block.
Past(v, e) == 2 ^ (Bits - e) * (Rev[v] \div 2 ^ (Bits - e) + 1)

\* The next cursor is the start of the next block, or 0 after the last one.
LEMMA NextBlock ==
    ASSUME NEW e \in 0 .. Bits, NEW v \in Words
    PROVE  /\ NextCursor(v, e) \in Words
           /\ Past(v, e) \in 1 .. 2 ^ Bits /\ Past(v, e) > Rev[v]
           /\ Past(v, e) = 2 ^ Bits => NextCursor(v, e) = 0
           /\ Past(v, e) # 2 ^ Bits => Rev[NextCursor(v, e)] = Past(v, e)
<1> DEFINE w == 2 ^ (Bits - e)
           q == Rev[v] \div w
           last == (v % 2 ^ e) + (2 ^ Bits - 2 ^ e)
           p == (Rev[last] + 1) % 2 ^ Bits
<1>1. last \in Words /\ Rev[last] \in Words /\ Rev[last] = w * q + (w - 1)
  BY LastOfBlock
<1>2. NextCursor(v, e) = Rev[p]
  BY DEF NextCursor
<1>3. w \in Nat \ {0} /\ 2 ^ Bits \in Nat \ {0} /\ Words = 0 .. 2 ^ Bits - 1 /\ Rev[v] \in Nat
  BY Blocks, WordsAre, RevBits
<1>4. q \in Nat /\ Rev[v] = w * q + (Rev[v] % w) /\ Rev[v] % w \in 0 .. w - 1
  BY <1>3, Divided, Zenon
<1> HIDE DEF last, w
<1>5. Past(v, e) = w * (q + 1)
  BY DEF Past, w
<1> HIDE DEF q
<1>6. w * (q + 1) = w * q + w /\ w * q \in Nat
  BY <1>3, <1>4
<1>7. Past(v, e) = Rev[last] + 1
  BY <1>1, <1>3, <1>5, <1>6
<1>8. Past(v, e) \in 1 .. 2 ^ Bits
  BY <1>1, <1>3, <1>7
<1>9. Past(v, e) > Rev[v]
  BY <1>3, <1>4, <1>5, <1>6
<1>10. CASE Past(v, e) = 2 ^ Bits
  <2> DEFINE b == 2 ^ Bits
  <2>1. b % b = 0
    BY <1>3
  <2>2. p = 0
    BY <1>7, <1>10, <2>1
  <2> QED BY <1>2, <1>3, <1>8, <1>9, <1>10, <2>2, RevZero, WordsAre
<1>11. CASE Past(v, e) # 2 ^ Bits
  <2> DEFINE b == 2 ^ Bits
             y == Past(v, e)
  <2>1. y \in 0 .. b - 1 /\ b \in Nat \ {0}
    BY <1>3, <1>8, <1>11
  <2>2. p = y % b
    BY <1>7
  <2>3. y \in Words
    BY <2>1, WordsAre
  <2> HIDE DEF b, y
  <2>4. y % b = y
    <3>1. (b * 0 + y) % b = y
      BY <2>1, DivUnique
    <3> QED BY <2>1, <3>1
  <2>5. p \in Words /\ p = y
    BY <2>2, <2>3, <2>4
  <2>6. Rev[p] \in Words /\ Rev[Rev[p]] = p
    BY <2>5, RevBits, RevRev
  <2> QED BY <1>2, <1>8, <1>9, <1>11, <2>5, <2>6 DEF y
<1> QED BY <1>10, <1>11

\* What is reversed to a word from v's up to the end of its block is in v's bucket.
LEMMA UpToBlockEnd ==
    ASSUME NEW e \in 0 .. Bits, NEW v \in Words, NEW x \in Words
    PROVE  Rev[v] <= Rev[x] /\ Rev[x] < Past(v, e) => x % 2 ^ e = v % 2 ^ e
<1> DEFINE w == 2 ^ (Bits - e)
           q == Rev[v] \div w
           k == Rev[x] \div w
           r == Rev[v] % w
           s == Rev[x] % w
<1> SUFFICES ASSUME Rev[v] <= Rev[x], Rev[x] < Past(v, e) PROVE q = k
  BY SameBucket
<1>1. w \in Nat \ {0} /\ Rev[v] \in Nat /\ Rev[x] \in Nat
  BY Blocks, RevBits, WordsAre
<1> HIDE DEF w
<1>2. q \in Nat /\ r \in 0 .. w - 1 /\ Rev[v] = w * q + r
  BY <1>1, Divided, Zenon
<1>3. k \in Nat /\ s \in 0 .. w - 1 /\ Rev[x] = w * k + s
  BY <1>1, Divided, Zenon
<1>4. Past(v, e) = w * (q + 1)
  BY DEF Past, w
<1> HIDE DEF q, k, r, s
<1>5. ASSUME k < q PROVE FALSE
  <2>1. w * (k + 1) <= w * q /\ w * (k + 1) = w * k + w
    BY <1>1, <1>2, <1>3, <1>5
  <2>2. w * k \in Nat /\ w * q \in Nat
    BY <1>1, <1>2, <1>3
  <2> QED BY <1>1, <1>2, <1>3, <2>1, <2>2
<1>6. ASSUME q < k PROVE FALSE
  <2>1. w * (q + 1) <= w * k
    BY <1>1, <1>2, <1>3, <1>6
  <2>2. w * k \in Nat /\ w * (q + 1) \in Nat
    BY <1>1, <1>2, <1>3
  <2> QED BY <1>1, <1>3, <1>4, <2>1, <2>2
<1> QED BY <1>2, <1>3, <1>5, <1>6

\* The bits e .. f - 1 of a word are clear exactly if those of its reversal are:
\* if it starts a block of the larger table, it starts one of the smaller.
LEMMA StartsBlock ==
    ASSUME NEW f \in 0 .. Bits, NEW e \in 0 .. f, NEW v \in Words, Rev[v] % 2 ^ (Bits - f) = 0
    PROVE  (v \div 2 ^ e) % 2 ^ (f - e) = 0 <=> Rev[v] % 2 ^ (Bits - e) = 0
<1> DEFINE m == f - e
           c == Bits - e
           b == Bits - f
           y == v \div 2 ^ e
           x == y % 2 ^ m
           z == Rev[v] % 2 ^ c
<1>1. /\ e \in Nat /\ f \in Nat /\ m \in Nat /\ c \in Nat /\ b \in Nat /\ Bits \in Nat
      /\ c = b + m /\ Bits = b + f /\ f = e + m
  BY WordsAre
<1>2. v \in Nat /\ Rev[v] \in Nat
  BY RevBits, WordsAre
<1> HIDE DEF m, c, b
<1>3. y \in Nat /\ \A i \in Nat : Bit(y, i) = Bit(v, e + i)
  BY <1>1, <1>2, BitsAbove
<1> HIDE DEF y
<1>4. x \in 0 .. 2 ^ m - 1 /\ \A i \in 0 .. m - 1 : Bit(x, i) = Bit(y, i)
  BY <1>1, <1>3, BitsBelow
<1>5. z \in 0 .. 2 ^ c - 1 /\ \A i \in 0 .. c - 1 : Bit(z, i) = Bit(Rev[v], i)
  BY <1>1, <1>2, BitsBelow
<1>6. \A i \in 0 .. b - 1 : Bit(Rev[v], i) = 0
  <2>1. \A i \in 0 .. b - 1 : Bit(Rev[v] % 2 ^ b, i) = Bit(Rev[v], i)
    BY <1>1, <1>2, BitsBelow
  <2>2. Rev[v] % 2 ^ b = 0
    BY DEF b
  <2>3. \A i \in 0 .. b - 1 : i \in Nat
    BY <1>1
  <2> QED BY <2>1, <2>2, <2>3, BitOfZero
<1>7. \A i \in 0 .. Bits - 1 : Bit(Rev[v], i) = Bit(v, Bits - 1 - i)
  BY RevBits
<1> HIDE DEF x, z
<1>8. 0 \in 0 .. 2 ^ m - 1 /\ 0 \in 0 .. 2 ^ c - 1
  BY <1>1, PowerOfTwo
<1>9. ASSUME x = 0 PROVE z = 0
  <2>1. ASSUME NEW i \in 0 .. c - 1 PROVE Bit(z, i) = Bit(0, i)
    <3>1. CASE i \in 0 .. b - 1
      <4>1. i \in Nat
        BY <1>1
      <4> QED BY <1>5, <1>6, <3>1, <4>1, BitOfZero
    <3>2. CASE i \notin 0 .. b - 1
      <4> DEFINE k == Bits - 1 - i - e
      <4>1. /\ i \in Nat /\ i \in 0 .. Bits - 1 /\ k \in 0 .. m - 1 /\ k \in Nat
            /\ Bits - 1 - i = e + k
        BY <1>1, <3>2
      <4> HIDE DEF k
      <4>2. Bit(z, i) = Bit(v, e + k)
        BY <1>5, <1>7, <4>1
      <4>3. Bit(v, e + k) = Bit(0, k)
        BY <1>3, <1>4, <1>9, <4>1
      <4> QED BY <4>1, <4>2, <4>3, BitOfZero
    <3> QED BY <3>1, <3>2
  <2> QED BY <1>1, <1>5, <1>8, <2>1, BitsDecide
<1>10. ASSUME z = 0 PROVE x = 0
  <2>1. ASSUME NEW i \in 0 .. m - 1 PROVE Bit(x, i) = Bit(0, i)
    <3> DEFINE k == Bits - 1 - (e + i)
    <3>1. /\ i \in Nat /\ k \in Nat /\ k \in 0 .. c - 1 /\ k \in 0 .. Bits - 1
          /\ Bits - 1 - k = e + i
      BY <1>1
    <3> HIDE DEF k
    <3>2. Bit(x, i) = Bit(v, e + i)
      BY <1>3, <1>4, <3>1
    <3>3. Bit(v, e + i) = Bit(Rev[v], k)
      BY <1>7, <3>1
    <3>4. Bit(Rev[v], k) = Bit(0, k)
      BY <1>5, <1>10, <3>1
    <3> QED BY <3>1, <3>2, <3>3, <3>4, BitOfZero
  <2> QED BY <1>1, <1>4, <1>8, <2>1, BitsDecide
<1> QED BY <1>9, <1>10 DEF x, y, z, m, c

\* Blocks of w numbers in blocks of w * t: the small block of r ends within the
\* large one, with it, or before a small block of the same large one.
LEMMA BlocksInBlocks ==
    ASSUME NEW w \in Nat \ {0}, NEW t \in Nat \ {0}, NEW r \in Nat
    PROVE  LET p == w * (r \div w + 1)
               y == (w * t) * (r \div (w * t) + 1)
           IN  /\ p <= y /\ p % w = 0
               /\ p % (w * t) = 0 => p = y
               /\ p % (w * t) # 0 => p \div (w * t) = r \div (w * t)
<1> DEFINE v == w * t
           q == r \div w
           k == r \div v
           p == w * (q + 1)
           y == v * (k + 1)
<1>1. v \in Nat \ {0}
  OBVIOUS
<1>2. q \in Nat /\ r % w \in 0 .. w - 1 /\ r = w * q + (r % w)
  BY Divided, Zenon
<1>3. k \in Nat /\ r % v \in 0 .. v - 1 /\ r = v * k + (r % v)
  BY <1>1, Divided, Zenon
<1> HIDE DEF q, k
<1>4. y = w * (t * (k + 1)) /\ y = v * k + v /\ v * k \in Nat /\ t * (k + 1) \in Nat
  <2>1. k + 1 \in Nat /\ t * (k + 1) \in Nat
    BY <1>3
  <2> DEFINE n == k + 1
  <2>2. n \in Nat
    BY <1>3
  <2> HIDE DEF n
  <2>3. (w * t) * n = w * (t * n)
    BY <2>2
  <2>4. v * (k + 1) = v * k + v /\ v * k \in Nat
    <3> HIDE DEF v
    <3> QED BY <1>1, <1>3
  <2> QED BY <2>1, <2>3, <2>4, Zenon DEF n
<1> HIDE DEF v
<1>5. p = w * q + w /\ w * q \in Nat /\ p \in Nat /\ p > r /\ y > r /\ y \in Nat
  BY <1>1, <1>2, <1>3, <1>4
<1>6. p <= y
  <2> DEFINE n == t * (k + 1)
  <2>1. n \in Nat /\ y = w * n
    BY <1>4
  <2> HIDE DEF n, y
  <2>2. ASSUME n <= q PROVE FALSE
    <3>1. w * n <= w * q
      BY <1>2, <2>1, <2>2
    <3> QED BY <1>2, <1>5, <2>1, <3>1
  <2>3. q + 1 <= n
    BY <1>2, <2>1, <2>2
  <2>4. w * (q + 1) <= w * n
    BY <1>2, <2>1, <2>3
  <2> QED BY <2>1, <2>4
<1>7. p % w = 0
  <2>1. q + 1 \in Nat /\ 0 \in 0 .. w - 1 /\ p = w * (q + 1) + 0
    BY <1>2, <1>5
  <2> QED BY <2>1, DivUnique
<1> HIDE DEF p
<1>8. p \div v \in Nat /\ p % v \in 0 .. v - 1 /\ p = v * (p \div v) + (p % v)
  BY <1>1, <1>5, Divided, Zenon
<1>9. ASSUME p % v = 0 PROVE p = y
  <2> DEFINE n == p \div v
  <2>1. n \in Nat /\ p = v * n
    BY <1>1, <1>5, <1>8, <1>9
  <2> HIDE DEF n
  <2>2. ASSUME n <= k PROVE FALSE
    <3>1. v * n <= v * k
      BY <1>1, <1>3, <2>1, <2>2
    <3> QED BY <1>1, <1>3, <1>5, <1>4, <2>1, <3>1
  <2>3. k + 1 <= n
    BY <1>3, <2>1, <2>2
  <2>4. v * (k + 1) <= v * n
    BY <1>1, <1>3, <2>1, <2>3
  <2> QED BY <1>5, <1>6, <2>1, <2>4
<1>10. ASSUME p % v # 0 PROVE p \div v = k
  <2>1. y % v = 0
    <3>1. k + 1 \in Nat /\ 0 \in 0 .. v - 1 /\ y = v * (k + 1) + 0
      BY <1>1, <1>3, <1>5
    <3> QED BY <1>1, <3>1, DivUnique
  <2>2. p < y
    BY <1>5, <1>6, <1>10, <2>1
  <2> DEFINE i == p - v * k
  <2>3. i \in 0 .. v - 1 /\ p = v * k + i
    BY <1>1, <1>3, <1>4, <1>5, <2>2
  <2> HIDE DEF i
  <2> QED BY <1>1, <1>3, <2>3, DivUnique, Zenon
<1> QED BY <1>6, <1>7, <1>9, <1>10 DEF v, q, k, p, y

\* One round of the loop of dictScan over the expansions: it ends at the end of
\* the block of the smaller table, or goes on in it.
LEMMA NextExpansion ==
    ASSUME NEW f \in 0 .. Bits, NEW e \in 0 .. f, NEW u \in Words
    PROVE  LET n == NextCursor(u, f)
           IN  /\ n \in Words /\ Past(u, f) <= Past(u, e)
               /\ (n \div 2 ^ e) % 2 ^ (f - e) = 0 =>
                     Past(u, e) = Past(u, f)
               /\ (n \div 2 ^ e) % 2 ^ (f - e) # 0 =>
                     /\ Rev[n] = Past(u, f) /\ Past(u, f) # 2 ^ Bits
                     /\ Past(n, e) = Past(u, e)
<1> DEFINE n == NextCursor(u, f)
           m == f - e
           w == 2 ^ (Bits - f)
           t == 2 ^ m
           v == 2 ^ (Bits - e)
           p == w * (Rev[u] \div w + 1)
           y == v * (Rev[u] \div v + 1)
           z == (n \div 2 ^ e) % 2 ^ m
<1>1. e \in 0 .. Bits /\ Bits - f \in Nat /\ m \in Nat /\ Bits - e = (Bits - f) + m /\ e \in Nat
  BY WordsAre
<1>2. w \in Nat \ {0} /\ t \in Nat \ {0} /\ v = w * t
  <2>1. 2 ^ ((Bits - f) + m) = 2 ^ (Bits - f) * 2 ^ m
    BY <1>1, PowerSum, Zenon
  <2> QED BY <1>1, <2>1, PowerOfTwo
<1>3. Rev[u] \in Nat
  BY RevBits, WordsAre
<1> HIDE DEF m
<1>4. p = Past(u, f) /\ y = Past(u, e)
  BY DEF Past
<1>5. /\ n \in Words /\ p \in 1 .. 2 ^ Bits /\ y \in 1 .. 2 ^ Bits
      /\ p = 2 ^ Bits => n = 0
      /\ p # 2 ^ Bits => Rev[n] = p
  BY <1>1, <1>4, NextBlock
<1>6. /\ p <= y /\ p % w = 0
      /\ p % v = 0 => p = y
      /\ p % v # 0 => p \div v = Rev[u] \div v
  <2> HIDE DEF w, t, v
  <2> QED BY <1>2, <1>3, BlocksInBlocks, Zenon
<1> HIDE DEF p, y, n
<1>7. CASE p = 2 ^ Bits
  <2>1. y = p
    BY <1>5, <1>6, <1>7, WordsAre
  <2>2. z = 0
    <3>1. n = 0
      BY <1>5, <1>7
    <3>2. 0 \div 2 ^ e = 0 /\ 0 % 2 ^ m = 0
      <4> DEFINE a == 2 ^ e
                 b == 2 ^ m
      <4>1. a \in Nat \ {0} /\ b \in Nat \ {0}
        BY <1>1, PowerOfTwo
      <4> HIDE DEF a, b
      <4>2. 0 \div a = 0 /\ 0 % b = 0
        BY <4>1
      <4> QED BY <4>2 DEF a, b
    <3> QED BY <3>1, <3>2, Zenon
  <2> QED BY <1>4, <1>5, <1>6, <2>1, <2>2 DEF n, m
<1>8. CASE p # 2 ^ Bits
  <2>1. Rev[n] = p
    BY <1>5, <1>8
  <2>2. z = 0 <=> p % v = 0
    BY <1>5, <1>6, <2>1, StartsBlock DEF m
  <2>3. ASSUME z # 0 PROVE Past(n, e) = y
    <3>1. p \div v = Rev[u] \div v
      BY <1>6, <2>2, <2>3
    <3> QED BY <2>1, <3>1 DEF Past, y
  <2> QED BY <1>4, <1>5, <1>6, <1>8, <2>1, <2>2, <2>3 DEF n, m
<1> QED BY <1>7, <1>8

\* The words that a reversed cursor passes from u's until p.
Passed(u, p) == {x \in Words : Rev[u] <= Rev[x] /\ Rev[x] < p}

\* The loop of dictScan over the expansions visits the buckets of all the words
\* that are reversed into the rest of the block of the smaller table, and ends
\* with the cursor at the end of the block.
LEMMA ExpansionsAre ==
    ASSUME NEW f \in 0 .. Bits, NEW e \in 0 .. f, NEW v \in Words
    PROVE  /\ Expansions(v, e, f)[1] = {x % 2 ^ f : x \in Passed(v, Past(v, e))}
           /\ Expansions(v, e, f)[2] \in Words
           /\ Past(v, e) = 2 ^ Bits => Expansions(v, e, f)[2] = 0
           /\ Past(v, e) # 2 ^ Bits => Rev[Expansions(v, e, f)[2]] = Past(v, e)
<1> DEFINE n(u) == NextCursor(u, f)
           Ends(u) == (n(u) \div 2 ^ e) % 2 ^ (f - e) = 0
           Step(g, u) == IF Ends(u) THEN <<{u % 2 ^ f}, n(u)>>
                         ELSE <<{u % 2 ^ f} \cup g[n(u)][1], g[n(u)][2]>>
           Eq(g) == g = [u \in Words |-> Step(g, u)]
           Start(p) == IF p = 2 ^ Bits THEN 0 ELSE Rev[p]
           Seen(u, p) == {x % 2 ^ f : x \in Passed(u, p)}
           h == [u \in Words |-> <<Seen(u, Past(u, e)), Start(Past(u, e))>>]
<1>0. e \in 0 .. Bits
  BY WordsAre
<1>1. ASSUME NEW u \in Words
      PROVE  /\ n(u) \in Words /\ Past(u, f) \in 1 .. 2 ^ Bits /\ Past(u, e) \in 1 .. 2 ^ Bits
             /\ Rev[u] \in Nat /\ Past(u, f) > Rev[u]
             /\ Past(u, f) <= Past(u, e) /\ n(u) = Start(Past(u, f))
             /\ Seen(u, Past(u, f)) = {u % 2 ^ f}
             /\ Ends(u) => Past(u, e) = Past(u, f)
             /\ ~Ends(u) => Rev[n(u)] = Past(u, f) /\ Past(n(u), e) = Past(u, e)
  <2>1. /\ n(u) \in Words /\ Past(u, f) \in 1 .. 2 ^ Bits /\ Past(u, f) > Rev[u]
        /\ Past(u, f) = 2 ^ Bits => n(u) = 0
        /\ Past(u, f) # 2 ^ Bits => Rev[n(u)] = Past(u, f)
    BY NextBlock
  <2>2. /\ Past(u, e) \in 1 .. 2 ^ Bits
    BY <1>0, NextBlock
  <2>3. /\ Past(u, f) <= Past(u, e)
        /\ Ends(u) => Past(u, e) = Past(u, f)
        /\ ~Ends(u) => Rev[n(u)] = Past(u, f) /\ Past(n(u), e) = Past(u, e)
    BY NextExpansion, Zenon
  <2> HIDE DEF n, Ends
  <2>4. Rev[u] \in Nat
    BY RevBits, WordsAre
  <2>5. n(u) = Start(Past(u, f))
    BY <2>1, RevRev
  <2>6. Seen(u, Past(u, f)) = {u % 2 ^ f}
    <3>1. u \in Passed(u, Past(u, f))
      BY <2>1, <2>4 DEF Passed
    <3>2. \A x \in Passed(u, Past(u, f)) : x % 2 ^ f = u % 2 ^ f
      BY UpToBlockEnd DEF Passed
    <3> QED BY <3>1, <3>2
  <2> HIDE DEF Seen, Start
  <2> QED BY <2>1, <2>2, <2>3, <2>4, <2>5, <2>6, Zenon
<1> HIDE DEF n, Ends
<1>2. ASSUME NEW u \in Words, ~Ends(u)
      PROVE  Seen(u, Past(u, e)) = {u % 2 ^ f} \cup Seen(n(u), Past(n(u), e))
  <2>1. Passed(u, Past(u, e)) = Passed(u, Past(u, f)) \cup Passed(n(u), Past(u, e))
    <3>1. \A x \in Words : Rev[x] \in Nat
      BY RevBits, WordsAre
    <3>2. /\ Rev[u] \in Nat /\ Past(u, f) \in Nat /\ Past(u, e) \in Nat
          /\ Rev[u] < Past(u, f) /\ Past(u, f) <= Past(u, e) /\ Rev[n(u)] = Past(u, f)
      BY <1>1, <1>2
    <3> QED BY <3>1, <3>2 DEF Passed
  <2>2. Seen(u, Past(u, e)) = Seen(u, Past(u, f)) \cup Seen(n(u), Past(u, e))
    BY <2>1
  <2> HIDE DEF Seen
  <2> QED BY <1>1, <1>2, <2>2
<1> HIDE DEF Seen, Start
<1>3. ASSUME NEW u \in Words PROVE h[u] = Step(h, u)
  <2>1. h[u] = <<Seen(u, Past(u, e)), Start(Past(u, e))>>
    OBVIOUS
  <2>2. h[n(u)] = <<Seen(n(u), Past(n(u), e)), Start(Past(n(u), e))>>
    BY <1>1
  <2> HIDE DEF h
  <2>3. CASE Ends(u)
    BY <1>1, <2>1, <2>3
  <2>4. CASE ~Ends(u)
    BY <1>1, <1>2, <2>1, <2>2, <2>4
  <2> QED BY <2>3, <2>4
<1>4. Eq(h)
  <2>1. h = [u \in Words |-> h[u]]
    OBVIOUS
  <2> HIDE DEF h
  <2> QED BY <1>3, <2>1, Zenon
<1> DEFINE Loop == CHOOSE g : Eq(g)
<1>5. Eq(Loop)
  BY <1>4, Zenon
<1>6. Expansions(v, e, f) = Loop[v]
  BY DEF Expansions, n, Ends
<1> HIDE DEF Loop
<1>7. \A u \in Words : Loop[u] = Step(Loop, u)
  BY <1>5, Zenon
<1>8. Loop[v] = h[v]
  <2> DEFINE S == {k \in Nat : \A u \in Words : 2 ^ Bits - Rev[u] <= k => Loop[u] = h[u]}
  <2>1. \A u \in Words : Rev[u] \in Nat /\ Rev[u] < 2 ^ Bits /\ 2 ^ Bits \in Nat
    BY RevBits, WordsAre
  <2>2. 0 \in S
    BY <2>1
  <2>3. ASSUME NEW k \in Nat, k \in S PROVE k + 1 \in S
    <3> SUFFICES ASSUME NEW u \in Words, 2 ^ Bits - Rev[u] <= k + 1 PROVE Loop[u] = h[u]
      OBVIOUS
    <3>1. CASE Ends(u)
      BY <1>3, <1>7, <3>1, Zenon
    <3>2. CASE ~Ends(u)
      <4>1. n(u) \in Words /\ Rev[n(u)] > Rev[u]
        BY <1>1, <3>2
      <4>2. 2 ^ Bits - Rev[n(u)] <= k
        BY <2>1, <4>1
      <4>3. Loop[n(u)] = h[n(u)]
        BY <2>3, <4>1, <4>2
      <4> HIDE DEF h
      <4> QED BY <1>3, <1>7, <3>2, <4>3, Zenon
    <3> QED BY <3>1, <3>2
  <2> HIDE DEF S
  <2>4. \A k \in Nat : k \in S
    BY <2>2, <2>3, Induction
  <2>5. 2 ^ Bits - Rev[v] \in Nat
    BY <2>1
  <2>6. 2 ^ Bits - Rev[v] \in S
    BY <2>4, <2>5
  <2> QED BY <2>5, <2>6 DEF S
<1>9. Expansions(v, e, f)[1] = Seen(v, Past(v, e)) /\ Expansions(v, e, f)[2] = Start(Past(v, e))
  BY <1>6, <1>8
<1>10. /\ Start(Past(v, e)) \in Words
       /\ Past(v, e) = 2 ^ Bits => Start(Past(v, e)) = 0
       /\ Past(v, e) # 2 ^ Bits => Rev[Start(Past(v, e))] = Past(v, e)
  <2>1. Past(v, e) \in 1 .. 2 ^ Bits
    BY <1>1
  <2>2. Past(v, e) # 2 ^ Bits => Past(v, e) \in Words
    BY <2>1, WordsAre
  <2> QED BY <2>2, RevBits, RevRev, WordsAre DEF Start
<1> QED BY <1>9, <1>10 DEF Seen
-----------------------------------------------------------------------------
(* Buckets.                                                                *)

Exps == InitialExp .. Bits

\* The mask of a table selects one of its buckets.
LEMMA Buckets ==
    ASSUME NEW e \in Exps
    PROVE  /\ e # -1 /\ Size(e) = 2 ^ e /\ Size(e) \in Nat \ {0}
           /\ \A k \in Keys : Bucket(k, e) \in 0 .. Size(e) - 1
<1>1. e \in Nat /\ e # -1
  BY DictAssumption DEF Exps
<1>2. Size(e) = 2 ^ e /\ Size(e) \in Nat \ {0}
  BY <1>1, PowerOfTwo DEF Size
<1>3. ASSUME NEW k \in Keys PROVE Bucket(k, e) \in 0 .. Size(e) - 1
  <2>1. Hash[k] \in Int
    BY DictAssumption DEF Words
  <2> QED BY <2>1, <1>2 DEF Bucket
<1> QED BY <1>1, <1>2, <1>3
-----------------------------------------------------------------------------
(* Chains and tables.                                                      *)

\* A chain of bucket i has keys of this bucket, each of them once.
IsChain(c, i, e) ==
    /\ c \in Seq(Keys)
    /\ \A p \in 1 .. Len(c) : Bucket(c[p], e) = i
    /\ \A p, q \in 1 .. Len(c) : c[p] = c[q] => p = q

IsTable(h, e) ==
    /\ h \in [0 .. Size(e) - 1 -> Seq(Keys)]
    /\ \A i \in 0 .. Size(e) - 1 : IsChain(h[i], i, e)

KeysIn(h) == UNION {Range(h[i]) : i \in DOMAIN h}

\* The keys of a chain are the values of its positions.
LEMMA KeysOfChain ==
    ASSUME NEW c \in Seq(Keys)
    PROVE  /\ Len(c) \in Nat /\ DOMAIN c = 1 .. Len(c) /\ Range(c) \subseteq Keys
           /\ \A k : k \in Range(c) <=> \E p \in 1 .. Len(c) : c[p] = k
<1>1. Len(c) \in Nat /\ DOMAIN c = 1 .. Len(c) /\ c \in [1 .. Len(c) -> Keys]
  BY LenProperties
<1>2. \A k : k \in Range(c) <=> \E p \in 1 .. Len(c) : c[p] = k
  <2>1. Range(c) = {c[p] : p \in 1 .. Len(c)}
    BY <1>1 DEF Range
  <2> QED BY <2>1
<1>3. Range(c) \subseteq Keys
  BY <1>1, <1>2
<1> QED BY <1>1, <1>2, <1>3

\* A chain is as long as it has keys.
LEMMA ChainLength ==
    ASSUME NEW c, NEW i, NEW e, IsChain(c, i, e)
    PROVE  IsFiniteSet(Range(c)) /\ Cardinality(Range(c)) = Len(c)
<1>1. /\ c \in [1 .. Len(c) -> Keys] /\ Len(c) \in Nat
      /\ \A k : k \in Range(c) <=> \E p \in 1 .. Len(c) : c[p] = k
  BY KeysOfChain, LenProperties DEF IsChain
<1>2. c \in Surjection(1 .. Len(c), Range(c)) /\ c \in Injection(1 .. Len(c), Range(c))
  BY <1>1 DEF IsChain, Surjection, Injection, IsInjective
<1>3. \A n \in Nat : IsFiniteSet(1 .. n) /\ Cardinality(1 .. n) = n
  BY FS_Interval
<1>4. IsFiniteSet(1 .. Len(c)) /\ Cardinality(1 .. Len(c)) = Len(c)
  BY <1>1, <1>3
<1> QED BY <1>2, <1>4, FS_Surjection

\* An empty bucket holds no key.
LEMMA EmptyChain == <<>> \in Seq(Keys) /\ Len(<<>>) = 0 /\ Range(<<>>) = {}
<1>1. <<>> \in Seq(Keys) /\ Len(<<>>) = 0
  BY EmptySeq
<1>2. \A c \in Seq(Keys) : Len(c) = 0 => Range(c) = {}
  <2> SUFFICES ASSUME NEW c \in Seq(Keys), Len(c) = 0, NEW k \in Range(c) PROVE FALSE
    BY Zenon
  <2>1. \E p \in 1 .. Len(c) : c[p] = k
    BY KeysOfChain, Zenon
  <2> QED BY <2>1
<1> QED BY <1>1, <1>2, Zenon

\* A key of a table is in the chain of its bucket, and nowhere else.
LEMMA KeysOfTable ==
    ASSUME NEW e, NEW h, IsTable(h, e)
    PROVE  /\ KeysIn(h) \subseteq Keys /\ IsFiniteSet(KeysIn(h))
           /\ \A k : k \in KeysIn(h) <=> \E i \in 0 .. Size(e) - 1 : k \in Range(h[i])
           /\ \A i \in 0 .. Size(e) - 1 : \A k \in Range(h[i]) : Bucket(k, e) = i
<1>1. DOMAIN h = 0 .. Size(e) - 1
  BY DEF IsTable
<1>2. \A k : k \in KeysIn(h) <=> \E i \in 0 .. Size(e) - 1 : k \in Range(h[i])
  BY <1>1 DEF KeysIn
<1>3. ASSUME NEW i \in 0 .. Size(e) - 1 PROVE Range(h[i]) \subseteq Keys /\ \A k \in Range(h[i]) : Bucket(k, e) = i
  BY KeysOfChain DEF IsTable, IsChain
<1>4. KeysIn(h) \subseteq Keys
  BY <1>2, <1>3
<1>5. IsFiniteSet(KeysIn(h))
  BY <1>4, FS_Subset, DictAssumption
<1> QED BY <1>2, <1>3, <1>4, <1>5

\* A key of a table is in the chain its hash selects.
LEMMA KeyInBucket ==
    ASSUME NEW e \in Exps, NEW h, IsTable(h, e), NEW k \in Keys
    PROVE  k \in KeysIn(h) <=> k \in Range(h[Bucket(k, e)])
BY KeysOfTable, Buckets

\* _dictReset, and a table that was just allocated.
LEMMA EmptyTable ==
    ASSUME NEW e \in {-1} \cup Exps
    PROVE  IsTable(Table(e), e) /\ KeysIn(Table(e)) = {} /\ Cardinality(KeysIn(Table(e))) = 0
<1>1. Size(e) \in Nat
  BY Buckets DEF Size
<1>2. Table(e) = [i \in 0 .. Size(e) - 1 |-> <<>>] /\ <<>> \in Seq(Keys) /\ Len(<<>>) = 0
  BY EmptyChain DEF Table
<1>3. IsTable(Table(e), e)
  BY <1>2 DEF IsTable, IsChain
<1>4. \A i \in 0 .. Size(e) - 1 : Range(Table(e)[i]) = {}
  BY <1>2, EmptyChain
<1>5. KeysIn(Table(e)) = {}
  BY <1>3, <1>4, KeysOfTable
<1> QED BY <1>3, <1>5, FS_EmptySet

\* A table whose chain of bucket i becomes c.
SetChain(h, i, c) == [h EXCEPT ![i] = c]

\* A table with one chain replaced has the keys of the other chains and of the new one.
LEMMA ChangeChain ==
    ASSUME NEW e \in Exps, NEW h, IsTable(h, e), NEW i \in 0 .. Size(e) - 1, NEW c, IsChain(c, i, e)
    PROVE  /\ IsTable(SetChain(h, i, c), e)
           /\ KeysIn(SetChain(h, i, c)) = (KeysIn(h) \ Range(h[i])) \cup Range(c)
<1> DEFINE g == SetChain(h, i, c)
<1>1. /\ g \in [0 .. Size(e) - 1 -> Seq(Keys)] /\ g[i] = c
      /\ \A j \in 0 .. Size(e) - 1 : j # i => g[j] = h[j]
  BY DEF IsTable, IsChain, SetChain
<1>2. IsTable(g, e)
  BY <1>1 DEF IsTable
<1> HIDE DEF g
<1>3. ASSUME NEW k PROVE k \in KeysIn(g) <=> k \in (KeysIn(h) \ Range(h[i])) \cup Range(c)
  <2>1. k \in KeysIn(g) <=> \E j \in 0 .. Size(e) - 1 : k \in Range(g[j])
    BY <1>2, KeysOfTable
  <2>2. k \in KeysIn(h) <=> \E j \in 0 .. Size(e) - 1 : k \in Range(h[j])
    BY KeysOfTable
  <2>3. \A j \in 0 .. Size(e) - 1 : k \in Range(h[j]) /\ k \in Range(h[i]) => j = i
    BY KeysOfTable
  <2> QED BY <1>1, <2>1, <2>2, <2>3
<1>4. KeysIn(g) = (KeysIn(h) \ Range(h[i])) \cup Range(c)
  BY <1>3
<1> QED BY <1>2, <1>4 DEF g

\* k becomes the head of its chain.
LEMMA PushKey ==
    ASSUME NEW e \in Exps, NEW h, IsTable(h, e), NEW k \in Keys, k \notin KeysIn(h)
    PROVE  /\ IsTable(Push(h, k, e), e)
           /\ KeysIn(Push(h, k, e)) = KeysIn(h) \cup {k}
           /\ Cardinality(KeysIn(Push(h, k, e))) = Cardinality(KeysIn(h)) + 1
<1> DEFINE i == Bucket(k, e)
           c == <<k>> \o h[i]
<1>1. i \in 0 .. Size(e) - 1 /\ h[i] \in Seq(Keys) /\ IsChain(h[i], i, e)
  BY Buckets DEF IsTable
<1>2. k \notin Range(h[i])
  BY KeyInBucket
<1>3. /\ c \in Seq(Keys) /\ Len(c) = Len(h[i]) + 1 /\ Len(h[i]) \in Nat
      /\ c[1] = k /\ \A p \in 2 .. Len(h[i]) + 1 : c[p] = h[i][p - 1]
  <2>1. <<k>> \in Seq(Keys) /\ Len(<<k>>) = 1 /\ <<k>>[1] = k
    OBVIOUS
  <2>2. Len(h[i]) \in Nat
    BY <1>1, LenProperties
  <2> QED BY <1>1, <2>1, <2>2, ConcatProperties
<1> HIDE DEF c
<1>4. \A p \in 1 .. Len(h[i]) : h[i][p] # k
  BY <1>1, <1>2, KeysOfChain
<1>5. IsChain(c, i, e)
  <2>1. \A p \in 1 .. Len(c) : Bucket(c[p], e) = i
    BY <1>1, <1>3 DEF IsChain
  <2>2. ASSUME NEW p \in 1 .. Len(c), NEW q \in 1 .. Len(c), c[p] = c[q] PROVE p = q
    <3>1. p # 1 => p - 1 \in 1 .. Len(h[i]) /\ c[p] = h[i][p - 1]
      BY <1>3
    <3>2. q # 1 => q - 1 \in 1 .. Len(h[i]) /\ c[q] = h[i][q - 1]
      BY <1>3
    <3>3. p # 1 /\ q # 1 => p - 1 = q - 1
      BY <1>1, <2>2, <3>1, <3>2 DEF IsChain
    <3> QED BY <1>3, <1>4, <2>2, <3>1, <3>2, <3>3
  <2> QED BY <1>3, <2>1, <2>2 DEF IsChain
<1>6. ASSUME NEW x PROVE x \in Range(c) <=> x = k \/ x \in Range(h[i])
  <2>1. x \in Range(c) <=> \E p \in 1 .. Len(c) : c[p] = x
    BY <1>3, KeysOfChain
  <2>2. x \in Range(h[i]) <=> \E p \in 1 .. Len(h[i]) : h[i][p] = x
    BY <1>1, KeysOfChain
  <2>3. ASSUME NEW p \in 1 .. Len(c), c[p] = x, x # k PROVE x \in Range(h[i])
    <3>1. p - 1 \in 1 .. Len(h[i]) /\ h[i][p - 1] = x
      BY <1>3, <2>3
    <3> QED BY <3>1, <2>2
  <2>4. ASSUME NEW p \in 1 .. Len(h[i]), h[i][p] = x PROVE x \in Range(c)
    <3>0. p + 1 \in 1 .. Len(c) /\ p + 1 # 1 /\ (p + 1) - 1 = p
      BY <1>3
    <3>1. p + 1 \in 1 .. Len(c) /\ c[p + 1] = x
      BY <1>3, <2>4, <3>0
    <3> QED BY <3>1, <2>1
  <2> QED BY <1>3, <2>1, <2>2, <2>3, <2>4
<1>7. Push(h, k, e) = SetChain(h, i, c)
  BY DEF Push, c, SetChain
<1>8. IsTable(Push(h, k, e), e) /\ KeysIn(Push(h, k, e)) = (KeysIn(h) \ Range(h[i])) \cup Range(c)
  BY <1>1, <1>5, <1>7, ChangeChain
<1>9. Range(h[i]) \subseteq KeysIn(h)
  BY <1>1, KeysOfTable
<1>10. KeysIn(Push(h, k, e)) = KeysIn(h) \cup {k}
  BY <1>6, <1>8, <1>9
<1>11. Cardinality(KeysIn(h) \cup {k}) = Cardinality(KeysIn(h)) + 1
  BY KeysOfTable, FS_AddElement, Zenon
<1> QED BY <1>8, <1>10, <1>11

\* The bucket that dictRehash leaves behind.
LEMMA EmptyBucket ==
    ASSUME NEW e \in Exps, NEW h, IsTable(h, e), NEW i \in 0 .. Size(e) - 1
    PROVE  /\ IsTable(SetChain(h, i, <<>>), e)
           /\ KeysIn(SetChain(h, i, <<>>)) = KeysIn(h) \ Range(h[i])
           /\ Range(h[i]) \subseteq KeysIn(h)
           /\ Cardinality(KeysIn(h) \ Range(h[i])) = Cardinality(KeysIn(h)) - Len(h[i])
<1>1. IsChain(<<>>, i, e) /\ Range(<<>>) = {}
  BY EmptyChain DEF IsChain
<1>2. IsChain(h[i], i, e)
  BY DEF IsTable
<1>3. /\ IsTable(SetChain(h, i, <<>>), e)
      /\ KeysIn(SetChain(h, i, <<>>)) = KeysIn(h) \ Range(h[i])
  BY <1>1, ChangeChain
<1>4. Range(h[i]) \subseteq KeysIn(h)
  BY KeysOfTable
<1>5. Cardinality(KeysIn(h) \ Range(h[i])) = Cardinality(KeysIn(h)) - Cardinality(KeysIn(h) \cap Range(h[i]))
  BY KeysOfTable, FS_Difference, Zenon
<1>6. KeysIn(h) \cap Range(h[i]) = Range(h[i])
  BY <1>4
<1> QED BY <1>2, <1>3, <1>4, <1>5, <1>6, ChainLength, Zenon

\* A chain without its entry p.
LEMMA UnlinkAt ==
    ASSUME NEW c, NEW i, NEW e, IsChain(c, i, e), NEW p \in 1 .. Len(c)
    PROVE  /\ Unlink(c, c[p]) \in Seq(Keys) /\ Len(c) \in Nat /\ Len(Unlink(c, c[p])) = Len(c) - 1
           /\ \A q \in 1 .. Len(c) - 1 : Unlink(c, c[p])[q] = IF q < p THEN c[q] ELSE c[q + 1]
<1>1. c \in Seq(Keys) /\ Len(c) \in Nat /\ DOMAIN c = 1 .. Len(c) /\ \A q \in 1 .. Len(c) : c[q] \in Keys
  BY LenProperties, ElementOfSeq DEF IsChain
<1>2. (CHOOSE q \in DOMAIN c : c[q] = c[p]) = p
  BY <1>1 DEF IsChain
<1> DEFINE a == SubSeq(c, 1, p - 1)
           z == SubSeq(c, p + 1, Len(c))
<1>3. Unlink(c, c[p]) = a \o z
  BY <1>2, Zenon DEF Unlink
<1>4. a \in Seq(Keys) /\ Len(a) = p - 1 /\ \A q \in 1 .. p - 1 : a[q] = c[q]
  <2>1. 1 \in Int /\ p - 1 \in Int /\ \A q \in 1 .. p - 1 : c[q] \in Keys
    BY <1>1
  <2>2. /\ a \in Seq(Keys) /\ Len(a) = IF 1 <= p - 1 THEN (p - 1) - 1 + 1 ELSE 0
        /\ \A q \in 1 .. (p - 1) - 1 + 1 : a[q] = c[1 + q - 1]
    BY <2>1, SubSeqProperties
  <2> QED BY <1>1, <2>2
<1>5. z \in Seq(Keys) /\ Len(z) = Len(c) - p /\ \A q \in 1 .. Len(c) - p : z[q] = c[p + q]
  <2>1. p + 1 \in Int /\ Len(c) \in Int /\ \A q \in p + 1 .. Len(c) : c[q] \in Keys
    BY <1>1
  <2>2. /\ z \in Seq(Keys) /\ Len(z) = IF p + 1 <= Len(c) THEN Len(c) - (p + 1) + 1 ELSE 0
        /\ \A q \in 1 .. Len(c) - (p + 1) + 1 : z[q] = c[(p + 1) + q - 1]
    BY <2>1, SubSeqProperties
  <2> HIDE DEF z
  <2>3. Len(c) - (p + 1) + 1 = Len(c) - p /\ \A q \in 1 .. Len(c) - p : (p + 1) + q - 1 = p + q
    BY <1>1
  <2>4. Len(z) = Len(c) - p
    <3>1. p + 1 <= Len(c) => Len(z) = Len(c) - p
      BY <2>2, <2>3
    <3>2. ~(p + 1 <= Len(c)) => Len(z) = 0
      BY <2>2
    <3>3. ~(p + 1 <= Len(c)) => Len(c) - p = 0
      <4>1. Len(c) \in Nat
        BY <1>1
      <4> QED BY <4>1
    <3> QED BY <3>1, <3>2, <3>3
  <2> QED BY <2>2, <2>3, <2>4, Zenon
<1> HIDE DEF a, z
<1>6. /\ a \o z \in Seq(Keys) /\ Len(a \o z) = Len(a) + Len(z)
      /\ \A q \in 1 .. Len(a) + Len(z) : (a \o z)[q] = IF q <= Len(a) THEN a[q] ELSE z[q - Len(a)]
  BY <1>4, <1>5, ConcatProperties, Zenon
<1>7. Len(a) + Len(z) = Len(c) - 1
  BY <1>1, <1>4, <1>5
<1>8. ASSUME NEW q \in 1 .. Len(c) - 1 PROVE (a \o z)[q] = IF q < p THEN c[q] ELSE c[q + 1]
  <2>1. CASE q < p
    BY <1>1, <1>4, <1>6, <1>7, <2>1
  <2>2. CASE ~(q < p)
    <3>1. q - Len(a) \in 1 .. Len(c) - p /\ p + (q - Len(a)) = q + 1 /\ ~(q <= Len(a))
      BY <1>1, <1>4, <2>2
    <3> QED BY <1>5, <1>6, <1>7, <2>2, <3>1
  <2> QED BY <2>1, <2>2, Zenon
<1> QED BY <1>1, <1>3, <1>6, <1>7, <1>8, Zenon

\* dictGenericDelete takes k out of its chain.
LEMMA UnlinkKey ==
    ASSUME NEW e \in Exps, NEW h, IsTable(h, e), NEW k \in Keys, k \in KeysIn(h)
    PROVE  LET g == SetChain(h, Bucket(k, e), Unlink(h[Bucket(k, e)], k))
           IN  /\ IsTable(g, e) /\ KeysIn(g) = KeysIn(h) \ {k}
               /\ Cardinality(KeysIn(g)) = Cardinality(KeysIn(h)) - 1
<1> DEFINE i == Bucket(k, e)
           c == h[i]
           u == Unlink(c, k)
           g == SetChain(h, i, u)
<1>1. i \in 0 .. Size(e) - 1 /\ IsChain(c, i, e) /\ c \in Seq(Keys)
  BY Buckets, Zenon DEF IsTable, IsChain
<1>2. PICK p \in 1 .. Len(c) : c[p] = k
  BY <1>1, KeyInBucket, KeysOfChain
<1>3. /\ u \in Seq(Keys) /\ Len(c) \in Nat /\ Len(u) = Len(c) - 1
      /\ \A q \in 1 .. Len(c) - 1 : u[q] = IF q < p THEN c[q] ELSE c[q + 1]
  BY <1>1, <1>2, UnlinkAt, Zenon
<1> HIDE DEF u, c, i
<1> DEFINE Old(q) == IF q < p THEN q ELSE q + 1
<1>4. ASSUME NEW q \in 1 .. Len(u) PROVE Old(q) \in 1 .. Len(c) /\ Old(q) # p /\ u[q] = c[Old(q)]
  BY <1>3
<1>5. \A q, r \in 1 .. Len(u) : Old(q) = Old(r) => q = r
  BY <1>3
<1>6. ASSUME NEW q \in 1 .. Len(c), q # p PROVE \E r \in 1 .. Len(u) : Old(r) = q
  <2>1. CASE q < p
    BY <1>3, <2>1
  <2>2. CASE ~(q < p)
    <3>1. q - 1 \in 1 .. Len(u) /\ Old(q - 1) = q
      BY <1>3, <1>6, <2>2
    <3> QED BY <3>1
  <2> QED BY <2>1, <2>2
<1> HIDE DEF Old
<1>7. IsChain(u, i, e)
  <2>1. \A q \in 1 .. Len(u) : Bucket(u[q], e) = i
    BY <1>1, <1>4 DEF IsChain
  <2>2. ASSUME NEW q \in 1 .. Len(u), NEW r \in 1 .. Len(u), u[q] = u[r] PROVE q = r
    <3>1. Old(q) \in 1 .. Len(c) /\ Old(r) \in 1 .. Len(c) /\ c[Old(q)] = c[Old(r)]
      BY <1>4, <2>2
    <3>2. Old(q) = Old(r)
      BY <1>1, <3>1 DEF IsChain
    <3> QED BY <1>5, <3>2
  <2> QED BY <1>3, <2>1, <2>2 DEF IsChain
<1>8. ASSUME NEW x PROVE x \in Range(u) <=> x \in Range(c) /\ x # k
  <2>1. x \in Range(u) <=> \E q \in 1 .. Len(u) : u[q] = x
    BY <1>3, KeysOfChain
  <2>2. x \in Range(c) <=> \E q \in 1 .. Len(c) : c[q] = x
    BY <1>1, KeysOfChain
  <2>3. ASSUME NEW q \in 1 .. Len(u), u[q] = x PROVE x \in Range(c) /\ x # k
    BY <1>1, <1>2, <1>4, <2>2, <2>3 DEF IsChain
  <2>4. ASSUME NEW q \in 1 .. Len(c), c[q] = x, x # k PROVE x \in Range(u)
    BY <1>2, <1>4, <1>6, <2>1, <2>4
  <2> QED BY <2>1, <2>2, <2>3, <2>4
<1>9. IsTable(g, e) /\ KeysIn(g) = (KeysIn(h) \ Range(h[i])) \cup Range(u)
  BY <1>1, <1>7, ChangeChain
<1>10. Range(c) \subseteq KeysIn(h)
  BY <1>1, KeysOfTable DEF c
<1>11. KeysIn(g) = KeysIn(h) \ {k}
  <2>1. k \in Range(c)
    BY <1>1, <1>2, KeysOfChain
  <2> QED BY <1>8, <1>9, <1>10, <2>1 DEF c
<1>12. Cardinality(KeysIn(h) \ {k}) = Cardinality(KeysIn(h)) - 1
  BY KeysOfTable, FS_RemoveElement, Zenon
<1> QED BY <1>9, <1>11, <1>12, Zenon DEF i, c, u

\* The loop of dictRehash over a chain puts all of it into the table.
LEMMA PushChain ==
    ASSUME NEW e \in Exps, NEW h, IsTable(h, e),
           NEW c, NEW i, NEW f, IsChain(c, i, f), Range(c) \cap KeysIn(h) = {}
    PROVE  /\ IsTable(PushAll(h, c, e), e)
           /\ KeysIn(PushAll(h, c, e)) = KeysIn(h) \cup Range(c)
           /\ Cardinality(KeysIn(PushAll(h, c, e))) = Cardinality(KeysIn(h)) + Len(c)
<1> DEFINE Run(g, m) == [n \in 0 .. m |-> IF n = 0 THEN h ELSE Push(g[n - 1], c[n], e)]
<1>1. /\ c \in Seq(Keys) /\ Len(c) \in Nat
      /\ \A p \in 1 .. Len(c) : c[p] \in Keys /\ c[p] \in Range(c)
  BY KeysOfChain, ElementOfSeq DEF IsChain
<1>2. \A m \in Nat : \E g : g = Run(g, m)
  <2> DEFINE S == {m \in Nat : \E g : g = Run(g, m)}
  <2>1. 0 \in S
    <3> DEFINE g == [n \in 0 .. 0 |-> h]
    <3>1. g = Run(g, 0)
      OBVIOUS
    <3> QED BY <3>1, Zenon
  <2>2. ASSUME NEW m \in Nat, m \in S PROVE m + 1 \in S
    <3>1. PICK g : g = Run(g, m)
      BY <2>2
    <3> DEFINE u == [n \in 0 .. m + 1 |-> IF n <= m THEN g[n] ELSE Push(g[m], c[m + 1], e)]
    <3>2. ASSUME NEW n \in 0 .. m + 1 PROVE u[n] = IF n = 0 THEN h ELSE Push(u[n - 1], c[n], e)
      <4>1. CASE n = 0
        BY <3>1, <4>1
      <4>2. CASE n \in 1 .. m
        BY <3>1, <4>2
      <4>3. CASE n = m + 1
        BY <4>3
      <4> QED BY <4>1, <4>2, <4>3
    <3>3. u = [n \in 0 .. m + 1 |-> u[n]]
      OBVIOUS
    <3> HIDE DEF u
    <3>4. u = Run(u, m + 1)
      BY <3>2, <3>3, Zenon
    <3> QED BY <3>4
  <2> HIDE DEF S
  <2>3. \A m \in Nat : m \in S
    BY <2>1, <2>2, Induction
  <2> QED BY <2>3, Zenon DEF S
<1> DEFINE After == CHOOSE g : g = Run(g, Len(c))
<1>3. After = Run(After, Len(c))
  BY <1>1, <1>2, Zenon
<1>4. PushAll(h, c, e) = After[Len(c)]
  BY DEF PushAll
<1> HIDE DEF After
<1>5. After[0] = h /\ \A n \in 1 .. Len(c) : After[n] = Push(After[n - 1], c[n], e)
  BY <1>1, <1>3
<1> DEFINE Front(n) == {c[p] : p \in 1 .. n}
           S == {n \in Nat : n <= Len(c) => IsTable(After[n], e) /\ KeysIn(After[n]) = KeysIn(h) \cup Front(n)}
<1>6. 0 \in S
  BY <1>5
<1>7. ASSUME NEW n \in Nat, n \in S PROVE n + 1 \in S
  <2> SUFFICES ASSUME n + 1 <= Len(c)
               PROVE  IsTable(After[n + 1], e) /\ KeysIn(After[n + 1]) = KeysIn(h) \cup Front(n + 1)
    OBVIOUS
  <2>1. n + 1 \in 1 .. Len(c) /\ n <= Len(c)
    BY <1>1
  <2>2. IsTable(After[n], e) /\ KeysIn(After[n]) = KeysIn(h) \cup Front(n)
    BY <1>7, <2>1
  <2>3. After[n + 1] = Push(After[n], c[n + 1], e)
    <3>1. (n + 1) - 1 = n
      OBVIOUS
    <3> QED BY <1>5, <2>1, <3>1
  <2>4. c[n + 1] \in Keys /\ c[n + 1] \notin KeysIn(h)
    BY <1>1, <2>1
  <2>5. c[n + 1] \notin Front(n)
    BY <1>1, <2>1 DEF IsChain
  <2>6. Front(n + 1) = Front(n) \cup {c[n + 1]}
    BY <2>1
  <2> HIDE DEF Front
  <2> QED BY <2>2, <2>3, <2>4, <2>5, <2>6, PushKey
<1> HIDE DEF S
<1>8. Len(c) \in S
  BY <1>1, <1>6, <1>7, Induction
<1>9. Front(Len(c)) = Range(c)
  BY <1>1, KeysOfChain
<1>10. IsTable(PushAll(h, c, e), e) /\ KeysIn(PushAll(h, c, e)) = KeysIn(h) \cup Range(c)
  BY <1>1, <1>4, <1>8, <1>9 DEF S
<1>11. Cardinality(KeysIn(h) \cup Range(c)) = Cardinality(KeysIn(h)) + Len(c)
  <2>1. /\ IsFiniteSet(KeysIn(h)) /\ IsFiniteSet(Range(c)) /\ Cardinality(Range(c)) = Len(c)
        /\ Cardinality(KeysIn(h)) \in Nat
    BY KeysOfTable, ChainLength, FS_CardinalityType
  <2>2. Cardinality(KeysIn(h) \cup Range(c))
           = Cardinality(KeysIn(h)) + Cardinality(Range(c)) - Cardinality(KeysIn(h) \cap Range(c))
    BY <2>1, FS_Union
  <2>3. Cardinality(KeysIn(h) \cap Range(c)) = 0
    <3>1. KeysIn(h) \cap Range(c) = {}
      OBVIOUS
    <3> QED BY <3>1, FS_EmptySet
  <2>4. Cardinality(KeysIn(h) \cup Range(c)) = Cardinality(KeysIn(h)) + Len(c) - 0
    BY <2>1, <2>2, <2>3
  <2> QED BY <1>1, <2>1, <2>4
<1> QED BY <1>10, <1>11
-----------------------------------------------------------------------------
(* The dict.                                                               *)

AllTables == UNION {[0 .. Size(e) - 1 -> Seq(Keys)] : e \in {-1} \cup Exps}

Shape(s) ==
    s \in [ht : [{0, 1} -> AllTables], used : [{0, 1} -> Nat], exp : [{0, 1} -> {-1} \cup Exps],
           rehashidx : Int, pause : Int]

TableInv(s, t) == IsTable(s.ht[t], s.exp[t]) /\ s.used[t] = Cardinality(KeysIn(s.ht[t]))

\* The inductive invariant: WellFormed, and there is a first table while rehashing.
DictInv(s) ==
    /\ Shape(s) /\ TableInv(s, 0) /\ TableInv(s, 1)
    /\ KeysIn(s.ht[0]) \cap KeysIn(s.ht[1]) = {}
    /\ Rehashing(s) <=> s.exp[1] # -1
    /\ Rehashing(s) => /\ s.exp[0] # -1 /\ s.rehashidx \in 0 .. Size(s.exp[0])
                       /\ \A i \in 0 .. s.rehashidx - 1 : s.ht[0][i] = <<>>

\* A table of any exponent is a value of ht_table.
LEMMA TableIsTable ==
    ASSUME NEW e \in {-1} \cup Exps, NEW h, IsTable(h, e)
    PROVE  h \in AllTables
BY DEF IsTable, AllTables

\* The keys of a dict are those of its two tables.
LEMMA ElementsOf == \A s : Elements(s) = KeysIn(s.ht[0]) \cup KeysIn(s.ht[1])
BY DEF Elements, KeysOf, KeysIn

\* s with other tables, counts, exponents and rehashidx.
With(s, h, u, x, r) == [s EXCEPT !.ht = h, !.used = u, !.exp = x, !.rehashidx = r]

\* A dict keeps its shape when its fields get values of theirs.
LEMMA ShapeWith ==
    ASSUME NEW s, Shape(s), NEW h \in [{0, 1} -> AllTables], NEW u \in [{0, 1} -> Nat],
           NEW x \in [{0, 1} -> {-1} \cup Exps], NEW r \in Int
    PROVE  Shape(With(s, h, u, x, r))
BY Zenon DEF Shape, With

\* dictRehash moves a bucket: no key is lost or doubled, and the buckets before
\* rehashidx are empty.
LEMMA MoveBucketInv ==
    ASSUME NEW s, DictInv(s), Rehashing(s), NEW b \in 0 .. Size(s.exp[0]) - 1, s.rehashidx <= b,
           \A j \in s.rehashidx .. b - 1 : s.ht[0][j] = <<>>
    PROVE  /\ DictInv(MoveBucket(s, b)) /\ Rehashing(MoveBucket(s, b))
           /\ Elements(MoveBucket(s, b)) = Elements(s)
           /\ MoveBucket(s, b).pause = s.pause
<1> DEFINE c == s.ht[0][b]
           m == MoveBucket(s, b)
           h0 == SetChain(s.ht[0], b, <<>>)
           h1 == PushAll(s.ht[1], c, s.exp[1])
<1>1. s.exp[0] \in Exps /\ s.exp[1] \in Exps /\ IsTable(s.ht[0], s.exp[0]) /\ IsTable(s.ht[1], s.exp[1])
  BY DEF DictInv, Shape, TableInv
<1>2. IsChain(c, b, s.exp[0]) /\ Len(c) \in Nat
  BY <1>1, KeysOfChain, Zenon DEF IsTable, IsChain
<1>3. /\ IsTable(h0, s.exp[0]) /\ KeysIn(h0) = KeysIn(s.ht[0]) \ Range(c) /\ Range(c) \subseteq KeysIn(s.ht[0])
      /\ Cardinality(KeysIn(h0)) = s.used[0] - Len(c)
  <2>1. s.used[0] = Cardinality(KeysIn(s.ht[0]))
    BY DEF DictInv, TableInv
  <2>2. /\ IsTable(h0, s.exp[0]) /\ KeysIn(h0) = KeysIn(s.ht[0]) \ Range(c) /\ Range(c) \subseteq KeysIn(s.ht[0])
        /\ Cardinality(KeysIn(s.ht[0]) \ Range(c)) = Cardinality(KeysIn(s.ht[0])) - Len(c)
    <3> DEFINE old == s.ht[0]
               e == s.exp[0]
    <3>1. e \in Exps /\ IsTable(old, e) /\ b \in 0 .. Size(e) - 1
      BY <1>1
    <3> HIDE DEF old, e
    <3>2. /\ IsTable(SetChain(old, b, <<>>), e) /\ KeysIn(SetChain(old, b, <<>>)) = KeysIn(old) \ Range(old[b])
          /\ Range(old[b]) \subseteq KeysIn(old)
          /\ Cardinality(KeysIn(old) \ Range(old[b])) = Cardinality(KeysIn(old)) - Len(old[b])
      BY ONLY <3>1, EmptyBucket, Zenon
    <3> QED BY <3>2 DEF old, e
  <2> HIDE DEF c, h0
  <2> QED BY <2>1, <2>2
<1>4. /\ IsTable(h1, s.exp[1]) /\ KeysIn(h1) = KeysIn(s.ht[1]) \cup Range(c)
      /\ Cardinality(KeysIn(h1)) = s.used[1] + Len(c)
  <2>1. Range(c) \cap KeysIn(s.ht[1]) = {}
    BY <1>3 DEF DictInv
  <2>2. s.used[1] = Cardinality(KeysIn(s.ht[1]))
    BY DEF DictInv, TableInv
  <2> HIDE DEF c
  <2>3. /\ IsTable(h1, s.exp[1]) /\ KeysIn(h1) = KeysIn(s.ht[1]) \cup Range(c)
        /\ Cardinality(KeysIn(h1)) = Cardinality(KeysIn(s.ht[1])) + Len(c)
    BY <1>1, <1>2, <2>1, PushChain
  <2> QED BY <2>2, <2>3
<1>5. /\ m.ht[0] = h0 /\ m.ht[1] = h1 /\ m.used[0] = s.used[0] - Len(c) /\ m.used[1] = s.used[1] + Len(c)
      /\ m.exp = s.exp /\ m.rehashidx = b + 1 /\ m.pause = s.pause
  BY DEF MoveBucket, DictInv, Shape, SetChain
<1>6. h0 \in AllTables /\ h1 \in AllTables /\ s.used[0] - Len(c) \in Nat /\ s.used[1] + Len(c) \in Nat
  <2>1. h0 \in AllTables /\ h1 \in AllTables
    BY <1>1, <1>3, <1>4, TableIsTable, Zenon
  <2>2. Cardinality(KeysIn(h0)) \in Nat /\ Cardinality(KeysIn(h1)) \in Nat
    BY <1>3, <1>4, KeysOfTable, FS_CardinalityType, Zenon
  <2> QED BY <1>3, <1>4, <2>1, <2>2
<1>7. Shape(m)
  <2> HIDE DEF h1, c
  <2>1. Shape(s)
    BY DEF DictInv
  <2> DEFINE h == [s.ht EXCEPT ![0] = h0, ![1] = h1]
             u == [s.used EXCEPT ![0] = s.used[0] - Len(c), ![1] = s.used[1] + Len(c)]
  <2>2. m = With(s, h, u, s.exp, b + 1)
    BY <2>1 DEF MoveBucket, Shape, SetChain, With, h1, c
  <2> HIDE DEF h0, m
  <2>3. h \in [{0, 1} -> AllTables] /\ u \in [{0, 1} -> Nat]
    BY <1>6, <2>1 DEF Shape
  <2>4. s.exp \in [{0, 1} -> {-1} \cup Exps] /\ b + 1 \in Int
    BY <2>1 DEF Shape
  <2> HIDE DEF h, u
  <2> QED BY <2>1, <2>2, <2>3, <2>4, ShapeWith
<1>8. ASSUME NEW i \in 0 .. b PROVE h0[i] = <<>>
  <2>1. i \in 0 .. Size(s.exp[0]) - 1 /\ DOMAIN s.ht[0] = 0 .. Size(s.exp[0]) - 1
    BY <1>1, Buckets DEF IsTable
  <2>2. i < s.rehashidx \/ i \in s.rehashidx .. b - 1 \/ i = b
    BY DEF DictInv, Shape
  <2>3. i # b => s.ht[0][i] = <<>>
    BY <2>2 DEF DictInv
  <2> QED BY <2>1, <2>3, Zenon DEF SetChain
<1> HIDE DEF m, h0, h1, c
<1>9. Rehashing(m) /\ m.rehashidx \in 0 .. Size(m.exp[0])
  <2>1. Size(s.exp[0]) \in Nat /\ b + 1 # -1
    BY <1>1, Buckets
  <2> QED BY <1>5, <2>1 DEF Rehashing
<1>10. /\ KeysIn(m.ht[0]) \cap KeysIn(m.ht[1]) = {}
       /\ KeysIn(m.ht[0]) \cup KeysIn(m.ht[1]) = KeysIn(s.ht[0]) \cup KeysIn(s.ht[1])
  <2>1. KeysIn(s.ht[0]) \cap KeysIn(s.ht[1]) = {}
    BY DEF DictInv
  <2> QED BY <1>3, <1>4, <1>5, <2>1
<1>11. TableInv(m, 0) /\ TableInv(m, 1)
  BY <1>3, <1>4, <1>5, Zenon DEF TableInv
<1>12. \A i \in 0 .. m.rehashidx - 1 : m.ht[0][i] = <<>>
  BY <1>5, <1>8
<1>13. DictInv(m)
  BY <1>1, <1>5, <1>7, <1>9, <1>10, <1>11, <1>12 DEF DictInv
<1> QED BY <1>5, <1>9, <1>10, <1>13, ElementsOf, Zenon DEF m

\* A count is below the number of hashes, and zero when the table has no key.
LEMMA NothingUsed ==
    ASSUME NEW s, DictInv(s), NEW t \in {0, 1}
    PROVE  /\ s.used[t] \in Nat /\ s.used[t] < 2 ^ Bits /\ 2 ^ Bits \in Nat
           /\ s.used[t] = 0 <=> KeysIn(s.ht[t]) = {}
<1>1. IsTable(s.ht[t], s.exp[t]) /\ s.used[t] = Cardinality(KeysIn(s.ht[t]))
  BY DEF DictInv, TableInv
<1>2. KeysIn(s.ht[t]) \subseteq Keys /\ IsFiniteSet(KeysIn(s.ht[t]))
  BY <1>1, KeysOfTable
<1>3. /\ Cardinality(KeysIn(s.ht[t])) \in Nat /\ Cardinality(Keys) \in Nat
      /\ Cardinality(KeysIn(s.ht[t])) <= Cardinality(Keys)
  BY <1>2, DictAssumption, FS_CardinalityType, FS_Subset
<1>4. 2 ^ Bits \in Nat /\ Cardinality(Keys) < 2 ^ Bits
  BY DictAssumption, PowerOfTwo
<1>5. Cardinality(KeysIn(s.ht[t])) = 0 <=> KeysIn(s.ht[t]) = {}
  BY <1>2, FS_EmptySet
<1> QED BY <1>1, <1>3, <1>4, <1>5

\* The end of a rehash.
LEMMA FinishInv ==
    ASSUME NEW s, DictInv(s), Rehashing(s), s.used[0] = 0
    PROVE  /\ DictInv(FinishRehash(s)) /\ Elements(FinishRehash(s)) = Elements(s)
           /\ FinishRehash(s).pause = s.pause
<1> DEFINE m == FinishRehash(s)
<1>1. /\ m.ht[0] = s.ht[1] /\ m.ht[1] = Table(-1) /\ m.used[0] = s.used[1] /\ m.used[1] = 0
      /\ m.exp[0] = s.exp[1] /\ m.exp[1] = -1 /\ m.rehashidx = -1 /\ m.pause = s.pause
  BY DEF FinishRehash, DictInv, Shape
<1>2. KeysIn(s.ht[0]) = {}
  BY NothingUsed
<1>3. IsTable(Table(-1), -1) /\ KeysIn(Table(-1)) = {} /\ Cardinality(KeysIn(Table(-1))) = 0 /\ Table(-1) \in AllTables
  BY EmptyTable, TableIsTable
<1>4. Shape(m)
  <2> DEFINE h == [t \in {0, 1} |-> IF t = 0 THEN s.ht[1] ELSE Table(-1)]
             u == [t \in {0, 1} |-> IF t = 0 THEN s.used[1] ELSE 0]
             x == [t \in {0, 1} |-> IF t = 0 THEN s.exp[1] ELSE -1]
  <2>1. h \in [{0, 1} -> AllTables]
    BY <1>3 DEF DictInv, Shape
  <2>2. u \in [{0, 1} -> Nat]
    BY DEF DictInv, Shape
  <2>3. x \in [{0, 1} -> {-1} \cup Exps]
    BY DEF DictInv, Shape
  <2>4. m = With(s, h, u, x, -1)
    BY DEF FinishRehash, With
  <2> HIDE DEF h, u, x, m
  <2>5. Shape(s)
    BY DEF DictInv
  <2> QED BY <2>1, <2>2, <2>3, <2>4, <2>5, ShapeWith
<1> HIDE DEF m
<1>5. TableInv(m, 0) /\ TableInv(m, 1)
  BY <1>1, <1>3 DEF DictInv, TableInv
<1>6. ~Rehashing(m)
  BY <1>1 DEF Rehashing
<1>7. DictInv(m)
  BY <1>1, <1>3, <1>4, <1>5, <1>6 DEF DictInv
<1>8. Elements(m) = Elements(s)
  BY <1>1, <1>2, <1>3, ElementsOf, Zenon
<1> QED BY <1>1, <1>7, <1>8 DEF m

\* While a key is left, dictRehash finds the bucket it moves before the table's end.
LEMMA NextBucket ==
    ASSUME NEW s, DictInv(s), Rehashing(s), s.used[0] # 0
    PROVE  \E i \in s.rehashidx .. Size(s.exp[0]) - 1 :
              s.ht[0][i] # <<>> /\ \A j \in s.rehashidx .. i - 1 : s.ht[0][j] = <<>>
<1> DEFINE N == Size(s.exp[0])
           S == {i \in 0 .. N - 1 : s.ht[0][i] # <<>>}
<1>1. IsTable(s.ht[0], s.exp[0]) /\ s.rehashidx \in 0 .. N /\ N \in Nat
  BY Buckets DEF DictInv, TableInv, Shape
<1>2. S # {}
  <2>1. PICK k : k \in KeysIn(s.ht[0])
    BY NothingUsed
  <2>2. PICK i \in 0 .. N - 1 : k \in Range(s.ht[0][i])
    BY <1>1, <2>1, KeysOfTable
  <2>3. s.ht[0][i] # <<>>
    BY <2>2, EmptyChain
  <2> QED BY <2>3
<1>3. PICK i \in S : \A j \in S : i <= j
  <2>1. S \in SUBSET Nat
    OBVIOUS
  <2> HIDE DEF S
  <2> QED BY <1>2, <2>1, LeastNat
<1>4. s.rehashidx <= i
  BY <1>1, <1>3 DEF DictInv
<1> QED BY <1>1, <1>3, <1>4

\* A step of dictRehash.
LEMMA RehashInv ==
    ASSUME NEW s, DictInv(s), Rehashing(s)
    PROVE  DictInv(Rehash(s)) /\ Elements(Rehash(s)) = Elements(s) /\ Rehash(s).pause = s.pause
<1> DEFINE b == CHOOSE i \in s.rehashidx .. Size(s.exp[0]) - 1 :
                   s.ht[0][i] # <<>> /\ \A j \in s.rehashidx .. i - 1 : s.ht[0][j] = <<>>
<1>1. CASE s.used[0] = 0
  <2>1. Rehash(s) = FinishRehash(s)
    BY <1>1 DEF Rehash
  <2> QED BY <1>1, <2>1, FinishInv
<1>2. CASE s.used[0] # 0
  <2>1. /\ b \in s.rehashidx .. Size(s.exp[0]) - 1 /\ s.ht[0][b] # <<>>
        /\ \A j \in s.rehashidx .. b - 1 : s.ht[0][j] = <<>>
    BY <1>2, NextBucket
  <2>2. Rehash(s) = IF b - s.rehashidx >= EmptyVisits THEN [s EXCEPT !.rehashidx = @ + EmptyVisits]
                    ELSE IF MoveBucket(s, b).used[0] = 0 THEN FinishRehash(MoveBucket(s, b)) ELSE MoveBucket(s, b)
    BY <1>2 DEF Rehash
  <2> HIDE DEF b
  <2>3. /\ s.rehashidx \in 0 .. Size(s.exp[0]) /\ Size(s.exp[0]) \in Nat /\ EmptyVisits \in Nat
        /\ \A i \in 0 .. s.rehashidx - 1 : s.ht[0][i] = <<>>
    BY Buckets, DictAssumption DEF DictInv, Shape
  <2>4. CASE b - s.rehashidx >= EmptyVisits
    <3> DEFINE m == [s EXCEPT !.rehashidx = @ + EmptyVisits]
    <3>1. /\ Shape(m) /\ m.ht = s.ht /\ m.used = s.used /\ m.exp = s.exp /\ m.pause = s.pause
          /\ m.rehashidx = s.rehashidx + EmptyVisits
      <4> HIDE DEF AllTables
      <4> QED BY <2>3 DEF DictInv, Shape
    <3> HIDE DEF m
    <3>2. m.rehashidx \in 0 .. Size(m.exp[0]) /\ \A i \in 0 .. m.rehashidx - 1 : m.ht[0][i] = <<>>
      BY <2>1, <2>3, <2>4, <3>1
    <3>3. Rehashing(m)
      BY <2>3, <3>1 DEF Rehashing
    <3>4. DictInv(m)
      BY <3>1, <3>2, <3>3 DEF DictInv, TableInv
    <3>5. Elements(m) = Elements(s)
      BY <3>1, ElementsOf, Zenon
    <3> QED BY <2>2, <2>4, <3>1, <3>4, <3>5 DEF m
  <2>5. CASE ~(b - s.rehashidx >= EmptyVisits)
    <3>1. b \in 0 .. Size(s.exp[0]) - 1 /\ s.rehashidx <= b
      BY <2>1, <2>3
    <3> DEFINE m == MoveBucket(s, b)
    <3>2. DictInv(m) /\ Rehashing(m) /\ Elements(m) = Elements(s) /\ m.pause = s.pause
      BY <2>1, <3>1, MoveBucketInv
    <3> HIDE DEF m
    <3>3. Rehash(s) = IF m.used[0] = 0 THEN FinishRehash(m) ELSE m
      BY <2>2, <2>5 DEF m
    <3> QED BY <3>2, <3>3, FinishInv
  <2> QED BY <2>4, <2>5
<1> QED BY <1>1, <1>2

\* _dictRehashStep is invisible.
LEMMA RehashStepInv ==
    ASSUME NEW s, DictInv(s)
    PROVE  /\ DictInv(RehashStep(s)) /\ Elements(RehashStep(s)) = Elements(s) /\ RehashStep(s).pause = s.pause
           /\ s.pause # 0 => RehashStep(s) = s
BY RehashInv DEF RehashStep

\* A longer exponent gives a larger table.
LEMMA PowerMonotone ==
    ASSUME NEW e \in Nat, NEW f \in Nat, e <= f
    PROVE  2 ^ e <= 2 ^ f
<1>1. /\ IsFiniteSet(1 .. e) /\ Cardinality(1 .. e) = e
      /\ IsFiniteSet(1 .. f) /\ Cardinality(1 .. f) = f
  BY FS_Interval
<1>2. /\ Cardinality(SUBSET (1 .. e)) = 2 ^ e
      /\ IsFiniteSet(SUBSET (1 .. f)) /\ Cardinality(SUBSET (1 .. f)) = 2 ^ f
  BY <1>1, FS_SUBSET, Zenon
<1>3. SUBSET (1 .. e) \subseteq SUBSET (1 .. f)
  OBVIOUS
<1> QED BY <1>2, <1>3, FS_Subset

\* _dictNextExp finds an exponent for every size a word can hold.
LEMMA NextExpFits ==
    ASSUME NEW n \in 1 .. 2 ^ Bits
    PROVE  NextExp(n) \in Exps /\ 2 ^ NextExp(n) >= n
<1> DEFINE S == {e \in Exps : 2 ^ e >= n}
<1>1. Bits \in Nat /\ InitialExp \in Nat /\ Exps \subseteq Nat /\ Bits \in Exps /\ 2 ^ Bits \in Nat
  BY DictAssumption, PowerOfTwo DEF Exps
<1>2. \A e \in Exps : 2 ^ e \in Nat
  BY <1>1, PowerOfTwo
<1>3. Bits \in S /\ S \in SUBSET Nat
  <2>1. 2 ^ Bits >= n
    BY <1>1
  <2> QED BY <1>1, <2>1, Zenon
<1>4. PICK e \in S : \A f \in S : e <= f
  <2> HIDE DEF S
  <2> QED BY <1>3, LeastNat
<1>5. \A f \in InitialExp .. e - 1 : 2 ^ f < n
  <2> TAKE f \in InitialExp .. e - 1
  <2>1. f \in Exps /\ f \notin S
    BY <1>1, <1>4 DEF Exps
  <2> QED BY <1>2, <2>1
<1>6. \E x \in InitialExp .. Bits : 2 ^ x >= n /\ \A f \in InitialExp .. x - 1 : 2 ^ f < n
  BY <1>4, <1>5 DEF Exps
<1> QED BY <1>6 DEF NextExp, Exps

\* m is what _dictExpand may make of s: the table in use is as it was.
Expanded(s, m) ==
    /\ DictInv(m) /\ Elements(m) = Elements(s) /\ m.pause = s.pause
    /\ \/ m = s
       \/ /\ ~Rehashing(s) /\ KeysIn(s.ht[1]) = {} /\ KeysIn(m.ht[1]) = {}
          /\ s.exp[0] # -1 => m.ht[0] = s.ht[0] /\ m.exp[0] = s.exp[0]

\* _dictExpand keeps the keys and leaves a first table, of any size asked for.
LEMMA ExpandInv ==
    ASSUME NEW s, DictInv(s), NEW n \in 1 .. 2 ^ Bits
    PROVE  Expanded(s, Expand(s, n)) /\ Expand(s, n).exp[0] # -1
<1> DEFINE e == NextExp(n)
           t == IF s.exp[0] = -1 THEN 0 ELSE 1
           m == Expand(s, n)
<1>1. e \in Exps /\ e # -1 /\ n \in Nat
  BY NextExpFits, Buckets, DictAssumption, PowerOfTwo
<1>2. IsTable(Table(e), e) /\ KeysIn(Table(e)) = {} /\ Cardinality(KeysIn(Table(e))) = 0 /\ Table(e) \in AllTables
  BY <1>1, EmptyTable, TableIsTable, Zenon
<1>3. s.exp[0] = -1 => ~Rehashing(s) /\ s.used[0] = 0 /\ KeysIn(s.ht[0]) = {}
  <2>1. s.exp[0] = -1 => KeysIn(s.ht[0]) = {}
    <3>1. Size(-1) = 0
      BY DEF Size
    <3>2. s.exp[0] = -1 => IsTable(s.ht[0], -1)
      BY DEF DictInv, TableInv
    <3>3. IsTable(s.ht[0], -1) => KeysIn(s.ht[0]) = {}
      BY <3>1, KeysOfTable
    <3> QED BY <3>2, <3>3
  <2> QED BY <2>1, NothingUsed DEF DictInv
<1>4. ~Rehashing(s) => s.exp[1] = -1 /\ KeysIn(s.ht[1]) = {}
  <2>1. Size(-1) = 0
    BY DEF Size
  <2>2. s.exp[1] = -1 => IsTable(s.ht[1], -1)
    BY DEF DictInv, TableInv
  <2>3. IsTable(s.ht[1], -1) => KeysIn(s.ht[1]) = {}
    BY <2>1, KeysOfTable
  <2> QED BY <2>2, <2>3 DEF DictInv
<1>5. CASE Rehashing(s) \/ s.used[0] > n \/ e = s.exp[0]
  <2>1. m = s
    BY <1>5 DEF Expand
  <2>2. s.exp[0] # -1
    BY <1>1, <1>3, <1>5
  <2> QED BY <2>1, <2>2 DEF Expanded
<1>6. CASE ~(Rehashing(s) \/ s.used[0] > n \/ e = s.exp[0])
  <2>1. m = [s EXCEPT !.ht[t] = Table(e), !.used[t] = 0, !.exp[t] = e, !.rehashidx = IF t = 1 THEN 0 ELSE @]
    BY <1>6 DEF Expand
  <2>2. s.rehashidx = -1
    BY <1>6 DEF Rehashing
  <2>3. CASE s.exp[0] = -1
    <3> HIDE DEF e
    <3>1. /\ m.ht[0] = Table(e) /\ m.ht[1] = s.ht[1] /\ m.used[0] = 0 /\ m.used[1] = s.used[1]
          /\ m.exp[0] = e /\ m.exp[1] = s.exp[1] /\ m.rehashidx = -1 /\ m.pause = s.pause
      BY <2>1, <2>2, <2>3 DEF DictInv, Shape
    <3>2. Shape(m)
      <4>1. m = [s EXCEPT !.ht[0] = Table(e), !.used[0] = 0, !.exp[0] = e, !.rehashidx = @]
        BY <2>1, <2>3
      <4> HIDE DEF m
      <4> QED BY <1>1, <1>2, <4>1, Zenon DEF DictInv, Shape
    <3> HIDE DEF m
    <3>3. TableInv(m, 0) /\ TableInv(m, 1)
      BY <1>2, <3>1, Zenon DEF DictInv, TableInv
    <3>4. ~Rehashing(m)
      BY <3>1 DEF Rehashing
    <3>5. DictInv(m)
      BY <1>2, <1>4, <1>6, <3>1, <3>2, <3>3, <3>4 DEF DictInv
    <3>6. Elements(m) = Elements(s)
      BY <1>2, <1>3, <2>3, <3>1, ElementsOf, Zenon
    <3> QED BY <1>1, <1>4, <1>6, <2>3, <3>1, <3>5, <3>6 DEF Expanded, m
  <2>4. CASE s.exp[0] # -1
    <3> HIDE DEF e
    <3>1. /\ m.ht[1] = Table(e) /\ m.ht[0] = s.ht[0] /\ m.used[1] = 0 /\ m.used[0] = s.used[0]
          /\ m.exp[1] = e /\ m.exp[0] = s.exp[0] /\ m.rehashidx = 0 /\ m.pause = s.pause
      BY <2>1, <2>4 DEF DictInv, Shape
    <3>2. Shape(m)
      <4>1. m = [s EXCEPT !.ht[1] = Table(e), !.used[1] = 0, !.exp[1] = e, !.rehashidx = 0]
        BY <2>1, <2>4
      <4> DEFINE h == Table(e)
      <4>2. h \in AllTables /\ e \in {-1} \cup Exps
        BY <1>1, <1>2
      <4> HIDE DEF m, h
      <4> DEFINE hh == [s.ht EXCEPT ![1] = h]
                 uu == [s.used EXCEPT ![1] = 0]
                 ee == [s.exp EXCEPT ![1] = e]
      <4>3. Shape(s)
        BY DEF DictInv
      <4>4. hh \in [{0, 1} -> AllTables] /\ uu \in [{0, 1} -> Nat] /\ ee \in [{0, 1} -> {-1} \cup Exps]
        BY <4>2, <4>3 DEF Shape
      <4>5. m = With(s, hh, uu, ee, 0)
        BY <4>1, <4>3 DEF Shape, With, h
      <4> HIDE DEF hh, uu, ee
      <4> QED BY <4>3, <4>4, <4>5, ShapeWith
    <3> HIDE DEF m
    <3>3. TableInv(m, 0) /\ TableInv(m, 1)
      BY <1>2, <3>1, Zenon DEF DictInv, TableInv
    <3>4. Rehashing(m) /\ m.rehashidx \in 0 .. Size(m.exp[0])
      <4>1. s.exp[0] \in Exps
        BY <2>4 DEF DictInv, Shape
      <4> QED BY <3>1, <4>1, Buckets DEF Rehashing
    <3>5. DictInv(m)
      <4>1. KeysIn(m.ht[0]) \cap KeysIn(m.ht[1]) = {}
        BY <1>2, <3>1
      <4>2. m.exp[0] # -1 /\ m.exp[1] # -1
        BY <1>1, <2>4, <3>1
      <4>3. \A i \in 0 .. m.rehashidx - 1 : m.ht[0][i] = <<>>
        BY <3>1
      <4> QED BY <3>2, <3>3, <3>4, <4>1, <4>2, <4>3 DEF DictInv
    <3>6. Elements(m) = Elements(s)
      BY <1>2, <1>4, <1>6, <3>1, ElementsOf, Zenon
    <3> QED BY <1>2, <1>4, <1>6, <2>4, <3>1, <3>5, <3>6 DEF Expanded, m
  <2> QED BY <2>3, <2>4
<1> QED BY <1>5, <1>6

\* _dictExpandIfNeeded leaves a table to add to: the sizes it asks for can be had,
\* since there are fewer keys than hashes.
LEMMA ExpandIfNeededInv ==
    ASSUME NEW s, DictInv(s), NEW allowed, NEW canResize
    PROVE  LET m == ExpandIfNeeded(s, allowed, canResize)
           IN  Expanded(s, m) /\ m.exp[0] # -1
<1> DEFINE m == ExpandIfNeeded(s, allowed, canResize)
           size == Size(s.exp[0])
<1>1. s.used[0] \in Nat /\ s.used[0] < 2 ^ Bits /\ 2 ^ Bits \in Nat
  BY NothingUsed
<1>2. s.used[0] + 1 \in 1 .. 2 ^ Bits
  BY <1>1
<1>3. 2 ^ InitialExp \in 1 .. 2 ^ Bits
  <2>1. InitialExp \in Nat /\ Bits \in Nat /\ InitialExp <= Bits
    BY DictAssumption
  <2>2. 2 ^ InitialExp \in Nat \ {0} /\ 2 ^ InitialExp <= 2 ^ Bits
    BY <2>1, PowerOfTwo, PowerMonotone
  <2> QED BY <1>1, <2>2
<1>4. m = s \/ m = Expand(s, 2 ^ InitialExp) \/ m = Expand(s, s.used[0] + 1)
  BY DEF ExpandIfNeeded
<1>5. s.exp[0] = -1 => m = Expand(s, 2 ^ InitialExp)
  BY DEF ExpandIfNeeded, DictInv, Size
<1>6. Expanded(s, s)
  BY DEF Expanded
<1> HIDE DEF m
<1> QED BY <1>2, <1>3, <1>4, <1>5, <1>6, ExpandInv DEF m

\* A dict whose table t becomes g.
WithTable(s, t, g) == [s EXCEPT !.ht[t] = g, !.used[t] = Cardinality(KeysIn(g))]

\* g may be table t of s.
FitsIn(s, t, g) ==
    /\ s.exp[t] \in Exps /\ IsTable(g, s.exp[t]) /\ KeysIn(g) \cap KeysIn(s.ht[1 - t]) = {}
    /\ t = 0 /\ Rehashing(s) => \A i \in 0 .. s.rehashidx - 1 : g[i] = <<>>

\* A dict with a table replaced by one that fits is in order.
LEMMA WithTableInv ==
    ASSUME NEW s, DictInv(s), NEW t \in {0, 1}, NEW g, FitsIn(s, t, g)
    PROVE  /\ DictInv(WithTable(s, t, g)) /\ WithTable(s, t, g).pause = s.pause
           /\ Elements(WithTable(s, t, g)) = KeysIn(g) \cup KeysIn(s.ht[1 - t])
           /\ WithTable(s, t, g).ht[t] = g /\ WithTable(s, t, g).ht[1 - t] = s.ht[1 - t]
<1> DEFINE m == WithTable(s, t, g)
           u == Cardinality(KeysIn(g))
<1>1. g \in AllTables /\ u \in Nat
  BY TableIsTable, KeysOfTable, FS_CardinalityType, Zenon DEF FitsIn
<1>2. /\ m.ht[t] = g /\ m.ht[1 - t] = s.ht[1 - t] /\ m.used[t] = u /\ m.used[1 - t] = s.used[1 - t]
      /\ m.exp = s.exp /\ m.rehashidx = s.rehashidx /\ m.pause = s.pause
  BY DEF WithTable, DictInv, Shape
<1>3. Shape(m)
  BY <1>1 DEF WithTable, DictInv, Shape
<1> HIDE DEF m
<1>4. (t = 0 /\ 1 - t = 1) \/ (t = 1 /\ 1 - t = 0)
  OBVIOUS
<1>5. TableInv(m, t) /\ TableInv(m, 1 - t)
  BY <1>2, <1>4 DEF DictInv, TableInv, FitsIn
<1>6. Rehashing(m) <=> Rehashing(s)
  BY <1>2 DEF Rehashing
<1>7. Rehashing(s) => \A i \in 0 .. s.rehashidx - 1 : m.ht[0][i] = <<>>
  BY <1>2, <1>4 DEF DictInv, FitsIn
<1>8. DictInv(m)
  BY <1>2, <1>3, <1>4, <1>5, <1>6, <1>7 DEF DictInv, FitsIn
<1>9. Elements(m) = KeysIn(g) \cup KeysIn(s.ht[1 - t])
  BY <1>2, <1>4, ElementsOf
<1> QED BY <1>2, <1>8, <1>9 DEF m

\* A lookup finds a key in the table that has it.
LEMMA HoldingKey ==
    ASSUME NEW s, DictInv(s), s.exp[0] # -1, NEW k \in Keys
    PROVE  /\ Holding(s, k) = {t \in {0, 1} : k \in KeysIn(s.ht[t])}
           /\ \A t \in Holding(s, k) : s.exp[t] \in Exps
           /\ Holding(s, k) # {} <=> k \in Elements(s)
<1>1. s.exp[0] \in Exps /\ IsTable(s.ht[0], s.exp[0]) /\ IsTable(s.ht[1], s.exp[1])
  BY DEF DictInv, Shape, TableInv
<1>2. Rehashing(s) => s.exp[1] \in Exps
  BY DEF DictInv, Shape
<1>3. ~Rehashing(s) => KeysIn(s.ht[1]) = {}
  <2>1. Size(-1) = 0
    BY DEF Size
  <2>2. ~Rehashing(s) => IsTable(s.ht[1], -1)
    BY DEF DictInv, TableInv
  <2>3. IsTable(s.ht[1], -1) => KeysIn(s.ht[1]) = {}
    BY <2>1, KeysOfTable
  <2> QED BY <2>2, <2>3
<1>4. ASSUME NEW t \in {0, 1} PROVE t \in Holding(s, k) <=> k \in KeysIn(s.ht[t])
  <2>1. CASE t \in Tables(s)
    <3>1. s.exp[t] \in Exps /\ IsTable(s.ht[t], s.exp[t])
      BY <1>1, <1>2, <2>1 DEF Tables
    <3>2. k \in KeysIn(s.ht[t]) <=> k \in Range(s.ht[t][Bucket(k, s.exp[t])])
      BY <3>1, KeyInBucket
    <3> QED BY <2>1, <3>2 DEF Holding
  <2>2. CASE t \notin Tables(s)
    BY <1>3, <2>2 DEF Holding, Tables
  <2> QED BY <2>1, <2>2
<1>5. \A t \in Holding(s, k) : t \in {0, 1} /\ s.exp[t] \in Exps
  BY <1>1, <1>2 DEF Holding, Tables
<1>6. Holding(s, k) = {t \in {0, 1} : k \in KeysIn(s.ht[t])}
  BY <1>4, <1>5
<1> HIDE DEF Holding
<1>7. Holding(s, k) # {} <=> k \in Elements(s)
  BY <1>6, ElementsOf
<1> QED BY <1>5, <1>6, <1>7

\* dictAddRaw adds an absent key, and nothing else.
LEMMA InsertInv ==
    ASSUME NEW s, DictInv(s), s.exp[0] # -1, NEW k \in Keys, k \notin Elements(s)
    PROVE  /\ DictInv(Insert(s, k)) /\ Elements(Insert(s, k)) = Elements(s) \cup {k}
           /\ Insert(s, k).pause = s.pause
           /\ \E t \in {0, 1} : /\ s.exp[t] \in Exps
                                /\ Insert(s, k).ht[t] = Push(s.ht[t], k, s.exp[t])
                                /\ Insert(s, k).ht[1 - t] = s.ht[1 - t]
<1> DEFINE t == IF Rehashing(s) THEN 1 ELSE 0
           g == Push(s.ht[t], k, s.exp[t])
           m == WithTable(s, t, g)
<1>1. t \in {0, 1} /\ (t = 0 => ~Rehashing(s)) /\ s.exp[t] \in Exps /\ TableInv(s, t)
  BY DEF DictInv, Shape
<1>2. Insert(s, k) = [s EXCEPT !.ht[t] = Push(@, k, s.exp[t]), !.used[t] = @ + 1]
  BY DEF Insert
<1> HIDE DEF t
<1>3. k \notin KeysIn(s.ht[0]) /\ k \notin KeysIn(s.ht[1]) /\ Elements(s) = KeysIn(s.ht[t]) \cup KeysIn(s.ht[1 - t])
  <2>1. (t = 0 /\ 1 - t = 1) \/ (t = 1 /\ 1 - t = 0)
    BY <1>1
  <2> QED BY <2>1, ElementsOf
<1>4. IsTable(g, s.exp[t]) /\ KeysIn(g) = KeysIn(s.ht[t]) \cup {k} /\ s.used[t] + 1 = Cardinality(KeysIn(g))
  <2>1. IsTable(s.ht[t], s.exp[t]) /\ s.used[t] = Cardinality(KeysIn(s.ht[t])) /\ k \notin KeysIn(s.ht[t])
    BY <1>1, <1>3 DEF TableInv
  <2>2. /\ IsTable(g, s.exp[t]) /\ KeysIn(g) = KeysIn(s.ht[t]) \cup {k}
        /\ Cardinality(KeysIn(g)) = Cardinality(KeysIn(s.ht[t])) + 1
    BY <1>1, <2>1, PushKey
  <2> HIDE DEF g
  <2> QED BY <2>1, <2>2
<1>5. KeysIn(g) \cap KeysIn(s.ht[1 - t]) = {}
  <2>1. KeysIn(s.ht[t]) \cap KeysIn(s.ht[1 - t]) = {} /\ k \notin KeysIn(s.ht[1 - t])
    BY <1>1, <1>3 DEF DictInv
  <2> QED BY <1>4, <2>1
<1>6. Insert(s, k) = m
  <2>1. Insert(s, k) = [s EXCEPT !.ht[t] = g, !.used[t] = s.used[t] + 1]
    BY <1>1, <1>2 DEF DictInv, Shape
  <2> HIDE DEF g
  <2> QED BY <1>4, <2>1, Zenon DEF WithTable
<1> HIDE DEF g, m
<1>7. /\ DictInv(m) /\ Elements(m) = KeysIn(g) \cup KeysIn(s.ht[1 - t]) /\ m.pause = s.pause
      /\ m.ht[t] = g /\ m.ht[1 - t] = s.ht[1 - t]
  <2>1. FitsIn(s, t, g)
    BY <1>1, <1>4, <1>5 DEF FitsIn
  <2> QED BY <1>1, <2>1, WithTableInv DEF m
<1>8. Elements(m) = Elements(s) \cup {k}
  BY <1>3, <1>4, <1>7
<1> QED BY <1>1, <1>7, <1>8, <1>6 DEF g

\* dictGenericDelete of the entry of k in table t.
Deleted(s, k, t) == [s EXCEPT !.ht[t][Bucket(k, s.exp[t])] = Unlink(@, k), !.used[t] = @ - 1]

\* s is in order and k is in its table t.
HasKey(s, k, t) == DictInv(s) /\ s.exp[t] \in Exps /\ k \in KeysIn(s.ht[t])

\* m is s without the entry of k, which was in table t.
LostKey(s, m, k, t) ==
    /\ DictInv(m) /\ Elements(m) = Elements(s) \ {k} /\ m.pause = s.pause
    /\ m.ht[t] = SetChain(s.ht[t], Bucket(k, s.exp[t]), Unlink(s.ht[t][Bucket(k, s.exp[t])], k))
    /\ m.ht[1 - t] = s.ht[1 - t]

\* dictGenericDelete takes the key from its chain and nothing else from the dict.
LEMMA DeletedInv ==
    ASSUME NEW s, NEW k \in Keys, NEW t \in {0, 1}, HasKey(s, k, t)
    PROVE  LostKey(s, Deleted(s, k, t), k, t)
<1> SUFFICES ASSUME DictInv(s), s.exp[t] \in Exps, k \in KeysIn(s.ht[t])
             PROVE  LostKey(s, Deleted(s, k, t), k, t)
  BY DEF HasKey
<1> DEFINE b == Bucket(k, s.exp[t])
           g == SetChain(s.ht[t], b, Unlink(s.ht[t][b], k))
           m == WithTable(s, t, g)
<1>1. TableInv(s, t) /\ TableInv(s, 1 - t)
  <2>1. (t = 0 /\ 1 - t = 1) \/ (t = 1 /\ 1 - t = 0)
    OBVIOUS
  <2> QED BY <2>1 DEF DictInv
<1>2. IsTable(g, s.exp[t]) /\ KeysIn(g) = KeysIn(s.ht[t]) \ {k} /\ s.used[t] - 1 = Cardinality(KeysIn(g))
  <2>1. IsTable(s.ht[t], s.exp[t]) /\ s.used[t] = Cardinality(KeysIn(s.ht[t]))
    BY <1>1 DEF TableInv
  <2>2. /\ IsTable(g, s.exp[t]) /\ KeysIn(g) = KeysIn(s.ht[t]) \ {k}
        /\ Cardinality(KeysIn(g)) = Cardinality(KeysIn(s.ht[t])) - 1
    BY <2>1, UnlinkKey
  <2> HIDE DEF g
  <2> QED BY <2>1, <2>2
<1>3. b \in 0 .. Size(s.exp[t]) - 1 /\ k \in Range(s.ht[t][b])
  BY <1>1, Buckets, KeyInBucket DEF TableInv
<1>4. Deleted(s, k, t) = m
  <2> HIDE DEF b
  <2>1. Deleted(s, k, t) = [s EXCEPT !.ht[t][b] = Unlink(@, k), !.used[t] = @ - 1]
    BY DEF Deleted, b
  <2>2. Deleted(s, k, t) = [s EXCEPT !.ht[t] = g, !.used[t] = s.used[t] - 1]
    BY <2>1 DEF SetChain, DictInv, Shape
  <2> HIDE DEF g
  <2> QED BY <1>2, <2>2, Zenon DEF WithTable
<1>5. ASSUME t = 0, Rehashing(s), NEW i \in 0 .. s.rehashidx - 1 PROVE g[i] = <<>>
  <2>1. s.ht[t][i] = <<>> /\ i \in 0 .. Size(s.exp[t]) - 1
    BY <1>5, Buckets DEF DictInv, Shape
  <2>2. i # b
    BY <1>3, <2>1, EmptyChain
  <2>3. DOMAIN s.ht[t] = 0 .. Size(s.exp[t]) - 1
    BY <1>1 DEF TableInv, IsTable
  <2> QED BY <2>1, <2>2, <2>3 DEF SetChain
<1>6. /\ KeysIn(s.ht[t]) \cap KeysIn(s.ht[1 - t]) = {}
      /\ Elements(s) = KeysIn(s.ht[t]) \cup KeysIn(s.ht[1 - t])
  <2>1. (t = 0 /\ 1 - t = 1) \/ (t = 1 /\ 1 - t = 0)
    OBVIOUS
  <2> QED BY <2>1, ElementsOf DEF DictInv
<1> HIDE DEF g, m, b
<1>7. KeysIn(g) \cap KeysIn(s.ht[1 - t]) = {}
  BY <1>2, <1>6
<1>8. /\ DictInv(m) /\ Elements(m) = KeysIn(g) \cup KeysIn(s.ht[1 - t]) /\ m.pause = s.pause
      /\ m.ht[t] = g /\ m.ht[1 - t] = s.ht[1 - t]
  <2>1. FitsIn(s, t, g)
    BY <1>2, <1>5, <1>7 DEF FitsIn
  <2> QED BY <2>1, WithTableInv DEF m
<1>9. Elements(m) = Elements(s) \ {k}
  BY <1>2, <1>6, <1>8
<1> QED BY <1>4, <1>8, <1>9 DEF g, b, LostKey

\* A dict is empty when neither table counts a key.
LEMMA TotalZero ==
    ASSUME NEW s, DictInv(s)
    PROVE  Total(s) = 0 <=> Elements(s) = {}
<1>1. s.used[0] \in Nat /\ s.used[1] \in Nat
  BY DEF DictInv, Shape
<1>2. (s.used[0] = 0 <=> KeysIn(s.ht[0]) = {}) /\ (s.used[1] = 0 <=> KeysIn(s.ht[1]) = {})
  BY NothingUsed
<1>3. Total(s) = 0 <=> s.used[0] = 0 /\ s.used[1] = 0
  BY <1>1 DEF Total
<1> QED BY <1>2, <1>3, ElementsOf

\* A dict with keys has a table.
LEMMA HasTable ==
    ASSUME NEW s, DictInv(s), Elements(s) # {}
    PROVE  s.exp[0] # -1
<1> SUFFICES ASSUME s.exp[0] = -1 PROVE FALSE
  OBVIOUS
<1>1. s.exp[1] = -1 /\ IsTable(s.ht[0], -1) /\ IsTable(s.ht[1], -1)
  BY DEF DictInv, TableInv
<1>2. Size(-1) = 0
  BY DEF Size
<1>3. \A h : IsTable(h, -1) => KeysIn(h) = {}
  BY <1>2, KeysOfTable
<1> QED BY <1>1, <1>3, ElementsOf
=============================================================================
