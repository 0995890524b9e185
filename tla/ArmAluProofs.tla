----------------------------- MODULE ArmAluProofs -----------------------------
(***************************************************************************)
(* What the operators of ArmAlu compute, for words of 4, 8, 16 and 32      *)
(* bits: powers of two, the bits of a quotient, and that a set of bits is  *)
(* a word, so that And, Or, Not and Eor work bit by bit.                   *)
(***************************************************************************)
EXTENDS ArmAlu, WellFoundedInduction, FiniteSetTheorems, TLAPS

-----------------------------------------------------------------------------
(***************************************************************************)
(* Powers of two, up to that of the longest word.                          *)
(***************************************************************************)
LEMMA PowersOfTwo ==
    /\ 2 ^ 0 = 1 /\ 2 ^ 1 = 2 /\ 2 ^ 2 = 4 /\ 2 ^ 3 = 8
    /\ 2 ^ 4 = 16 /\ 2 ^ 5 = 32 /\ 2 ^ 6 = 64 /\ 2 ^ 7 = 128
    /\ 2 ^ 8 = 256 /\ 2 ^ 9 = 512 /\ 2 ^ 10 = 1024 /\ 2 ^ 11 = 2048
    /\ 2 ^ 12 = 4096 /\ 2 ^ 13 = 8192 /\ 2 ^ 14 = 16384 /\ 2 ^ 15 = 32768
    /\ 2 ^ 16 = 65536 /\ 2 ^ 17 = 131072 /\ 2 ^ 18 = 262144 /\ 2 ^ 19 = 524288
    /\ 2 ^ 20 = 1048576 /\ 2 ^ 21 = 2097152 /\ 2 ^ 22 = 4194304 /\ 2 ^ 23 = 8388608
    /\ 2 ^ 24 = 16777216 /\ 2 ^ 25 = 33554432 /\ 2 ^ 26 = 67108864 /\ 2 ^ 27 = 134217728
    /\ 2 ^ 28 = 268435456 /\ 2 ^ 29 = 536870912 /\ 2 ^ 30 = 1073741824 /\ 2 ^ 31 = 2147483648
    /\ 2 ^ 32 = 4294967296
  OBVIOUS

LEMMA Doubles ==
    ASSUME NEW i \in 0 .. 31
    PROVE  2 ^ i \in Nat \ {0} /\ 2 ^ (i + 1) = 2 * 2 ^ i
<1> DEFINE P(n) == 2 ^ n
<1>1. /\ P(0) = 1 /\ P(1) = 2 /\ P(2) = 4 /\ P(3) = 8
          /\ P(4) = 16 /\ P(5) = 32 /\ P(6) = 64 /\ P(7) = 128
          /\ P(8) = 256 /\ P(9) = 512 /\ P(10) = 1024 /\ P(11) = 2048
          /\ P(12) = 4096 /\ P(13) = 8192 /\ P(14) = 16384 /\ P(15) = 32768
          /\ P(16) = 65536 /\ P(17) = 131072 /\ P(18) = 262144 /\ P(19) = 524288
          /\ P(20) = 1048576 /\ P(21) = 2097152 /\ P(22) = 4194304 /\ P(23) = 8388608
          /\ P(24) = 16777216 /\ P(25) = 33554432 /\ P(26) = 67108864 /\ P(27) = 134217728
          /\ P(28) = 268435456 /\ P(29) = 536870912 /\ P(30) = 1073741824 /\ P(31) = 2147483648
          /\ P(32) = 4294967296
  BY PowersOfTwo
<1>2. P(i) \in Nat \ {0} /\ P(i + 1) = 2 * P(i)
  <2> HIDE DEF P
  <2> QED BY <1>1
<1> QED BY <1>2

LEMMA PowerType ==
    ASSUME NEW i \in 0 .. 32
    PROVE  2 ^ i \in Nat \ {0}
<1>1. CASE i = 32
  BY <1>1, PowersOfTwo
<1>2. CASE i # 32
  <2>1. i \in 0 .. 31
    BY <1>2
  <2> QED BY <2>1, Doubles
<1> QED BY <1>1, <1>2

\* The principle of the least element, which replaces induction.
LEMMA LeastElement ==
    ASSUME NEW T \in SUBSET Nat, T # {}
    PROVE  \E m \in T : \A k \in T : m <= k
<1> DEFINE R == OpToRel(<, Nat)
<1>1. IsWellFoundedOn(R, Nat)
  BY NatLessThanWellFounded
<1>2. \A x, y \in Nat : <<x, y>> \in R <=> x < y
  BY DEF OpToRel
<1> HIDE DEF R
<1>3. PICK x \in T : \A y \in T : ~ (<<y, x>> \in R)
  BY <1>1, WFMin
<1>4. \A y \in T : y \in Nat /\ x \in Nat /\ ~ (y < x)
  BY <1>2, <1>3, Zenon
<1> QED BY <1>4

LEMMA PowerSum ==
    ASSUME NEW i \in Nat, NEW j \in Nat, i + j <= 32
    PROVE  2 ^ (i + j) = 2 ^ i * 2 ^ j
<1> DEFINE P(n) == 2 ^ n
           T == {n \in Nat : i + n <= 32 /\ P(i + n) # P(i) * P(n)}
<1>0. /\ \A n \in 0 .. 31 : P(n + 1) = 2 * P(n)
      /\ \A n \in 0 .. 32 : P(n) \in Nat
      /\ P(0) = 1
  BY Doubles, PowerType, PowersOfTwo
<1> HIDE DEF P
<1>1. ASSUME T # {} PROVE FALSE
  <2>1. PICK m \in T : \A k \in T : m <= k
    BY <1>1, LeastElement
  <2>2. m \in Nat /\ i + m <= 32 /\ P(i + m) # P(i) * P(m)
    BY <2>1
  <2>3. m # 0
    BY <1>0, <2>2
  <2>4. m - 1 \in Nat /\ m - 1 \notin T
    BY <2>1, <2>2, <2>3
  <2>5. P(i + (m - 1)) = P(i) * P(m - 1)
    BY <2>2, <2>4
  <2>6. P((m - 1) + 1) = 2 * P(m - 1) /\ P((i + (m - 1)) + 1) = 2 * P(i + (m - 1))
    BY <1>0, <2>2, <2>4
  <2>7. (m - 1) + 1 = m /\ (i + (m - 1)) + 1 = i + m
    BY <2>2
  <2>8. P(m) = 2 * P(m - 1) /\ P(i + m) = 2 * P(i + (m - 1))
    BY <2>6, <2>7
  <2>9. P(i) \in Nat /\ P(m - 1) \in Nat
    BY <1>0, <2>2, <2>4
  <2> QED BY <2>2, <2>5, <2>8, <2>9
<1>2. P(i + j) = P(i) * P(j)
  BY <1>1
<1> QED BY <1>2 DEF P

LEMMA SizeType == W \in 4 .. 32 /\ Size \in Nat \ {0} /\ Ones \in Nat /\ Word \subseteq Nat
<1>1. W \in 4 .. 32
  BY AluAssumption
<1>2. W \in 0 .. 32
  BY <1>1
<1>3. Size \in Nat \ {0}
  BY <1>2, PowerType DEF Size
<1> QED BY <1>1, <1>3 DEF Ones, Word

-----------------------------------------------------------------------------
(***************************************************************************)
(* Quotients and remainders.                                               *)
(***************************************************************************)
LEMMA Divided ==
    ASSUME NEW x \in Int, NEW p \in Nat \ {0}
    PROVE  /\ x \div p \in Int /\ x % p \in 0 .. p - 1
           /\ x = p * (x \div p) + (x % p)
           /\ x \in Nat => x \div p \in Nat /\ x \div p <= x
  OBVIOUS

LEMMA NatDivided ==
    ASSUME NEW x \in Nat, NEW p \in Nat \ {0}
    PROVE  x \div p \in Nat /\ x % p \in 0 .. p - 1 /\ x = p * (x \div p) + (x % p)
  OBVIOUS

LEMMA Quotient ==
    ASSUME NEW p \in Nat \ {0}, NEW q \in Int, NEW r \in 0 .. p - 1
    PROVE  (p * q + r) \div p = q /\ (p * q + r) % p = r
  OBVIOUS

\* Dividing twice.
LEMMA QuotientOfQuotient ==
    ASSUME NEW x \in Nat, NEW p \in Nat \ {0}, NEW q \in Nat \ {0}
    PROVE  (x \div p) \div q = x \div (p * q)
<1> DEFINE a == x \div p
           r == x % p
           b == a \div q
           s == a % q
<1>1. a \in Nat /\ r \in 0 .. p - 1 /\ x = p * a + r
  OBVIOUS
<1>2. b \in Nat /\ s \in 0 .. q - 1 /\ a = q * b + s
  <2> HIDE DEF a
  <2> QED BY <1>1
<1> HIDE DEF a, r, b, s
<1>3. x = (p * q) * b + (p * s + r)
  BY <1>1, <1>2
<1>4. p * s + r \in 0 .. (p * q) - 1 /\ p * q \in Nat \ {0}
  BY <1>1, <1>2
<1>5. x \div (p * q) = b
  BY <1>2, <1>3, <1>4, Quotient
<1> QED BY <1>5 DEF a, b

LEMMA AddMultiple ==
    ASSUME NEW x \in Int, NEW p \in Nat \ {0}, NEW m \in Int
    PROVE  (x + p * m) \div p = (x \div p) + m /\ (x + p * m) % p = x % p
<1> DEFINE a == x \div p
           r == x % p
<1>1. a \in Int /\ r \in 0 .. p - 1 /\ x = p * a + r
  OBVIOUS
<1> HIDE DEF a, r
<1>2. x + p * m = p * (a + m) + r
  BY <1>1
<1>3. (x + p * m) \div p = a + m /\ (x + p * m) % p = r
  BY <1>1, <1>2, Quotient
<1> QED BY <1>3 DEF a, r

\* A greater power is a multiple, and an even one.
LEMMA GreaterPower ==
    ASSUME NEW i \in 0 .. 31, NEW j \in (i + 1) .. 32
    PROVE  \E k \in Nat \ {0} : 2 ^ j = 2 ^ i * (2 * k) /\ 2 ^ j = 2 ^ (i + 1) * k
<1> DEFINE P(n) == 2 ^ n
           d == j - (i + 1)
<1>1. d \in 0 .. 32 /\ i + 1 \in Nat /\ (i + 1) + d = j
  OBVIOUS
<1> HIDE DEF d
<1>2. P((i + 1) + d) = P(i + 1) * P(d)
  BY <1>1, PowerSum
<1>3. P(i + 1) = 2 * P(i) /\ P(i) \in Nat
  BY Doubles
<1>4. P(d) \in Nat \ {0}
  BY <1>1, PowerType
<1> HIDE DEF P
<1>5. P(j) = P(i) * (2 * P(d)) /\ P(j) = P(i + 1) * P(d)
  BY <1>1, <1>2, <1>3, <1>4
<1>6. \E k \in Nat \ {0} : P(j) = P(i) * (2 * k) /\ P(j) = P(i + 1) * k
  BY <1>4, <1>5
<1> QED BY <1>6 DEF P

LEMMA PowersGrow ==
    ASSUME NEW i \in 0 .. 32, NEW j \in i .. 32
    PROVE  2 ^ i <= 2 ^ j
<1>1. CASE i = j
  <2>1. 2 ^ i \in Nat
    BY PowerType
  <2> QED BY <1>1, <2>1
<1>2. CASE i # j
  <2>1. i \in 0 .. 31 /\ j \in (i + 1) .. 32
    BY <1>2
  <2>2. PICK k \in Nat \ {0} : 2 ^ j = 2 ^ i * (2 * k)
    BY <2>1, GreaterPower
  <2> DEFINE p == 2 ^ i
  <2>3. p \in Nat
    BY PowerType
  <2>4. 2 ^ j = p * (2 * k)
    BY <2>2
  <2> HIDE DEF p
  <2>5. p <= p * (2 * k)
    BY <2>3
  <2> QED BY <2>4, <2>5 DEF p
<1> QED BY <1>1, <1>2

-----------------------------------------------------------------------------
(***************************************************************************)
(* The bits of a number.                                                   *)
(***************************************************************************)
LEMMA BitType ==
    ASSUME NEW x \in Int, NEW i \in 0 .. 32
    PROVE  Bit(x, i) \in {0, 1}
<1>1. 2 ^ i \in Nat \ {0}
  BY PowerType
<1>2. x \div 2 ^ i \in Int
  BY <1>1
<1> QED BY <1>2 DEF Bit

LEMMA NextQuotient ==
    ASSUME NEW x \in Nat, NEW i \in 0 .. 31
    PROVE  /\ x \div 2 ^ (i + 1) = (x \div 2 ^ i) \div 2
           /\ x \div 2 ^ i = 2 * (x \div 2 ^ (i + 1)) + Bit(x, i)
<1> DEFINE p == 2 ^ i
           q == x \div p
<1>0. p \in Nat \ {0} /\ 2 ^ (i + 1) = 2 * p
  BY Doubles
<1>1. 2 * p = p * 2
  BY <1>0
<1>2. (x \div 2 ^ i) \div 2 = x \div (2 ^ i * 2)
  <2> HIDE DEF p
  <2>1. (x \div p) \div 2 = x \div (p * 2)
    BY <1>0, QuotientOfQuotient
  <2> QED BY <2>1 DEF p
<1>3. q \in Nat
  <2> HIDE DEF p
  <2> QED BY <1>0
<1>4. x \div 2 ^ (i + 1) = q \div 2
  BY <1>0, <1>1, <1>2
<1>5. q = 2 * (q \div 2) + (q % 2)
  <2> HIDE DEF q
  <2> QED BY <1>3
<1> QED BY <1>4, <1>5 DEF Bit

LEMMA NoQuotient ==
    ASSUME NEW x \in Nat, NEW i \in 0 .. 32
    PROVE  x < 2 ^ i <=> x \div 2 ^ i = 0
<1> DEFINE p == 2 ^ i
<1>1. p \in Nat \ {0}
  BY PowerType
<1> HIDE DEF p
<1>2. x < p <=> x \div p = 0
  BY <1>1
<1> QED BY <1>2 DEF p

LEMMA WordQuotient ==
    ASSUME NEW x \in Word, NEW i \in W .. 32
    PROVE  x \div 2 ^ i = 0
<1>1. x \in Nat /\ x < 2 ^ W /\ i \in 0 .. 32
  BY SizeType DEF Word, Size
<1>2. W \in 0 .. 32
  BY SizeType
<1>3. 2 ^ W \in Nat /\ 2 ^ i \in Nat
  BY <1>1, <1>2, PowerType
<1>4. 2 ^ W <= 2 ^ i
  BY <1>2, PowersGrow
<1> QED BY <1>1, <1>3, <1>4, NoQuotient

\* A word is known by its bits.
LEMMA SameBits ==
    ASSUME NEW x \in Word, NEW y \in Word,
           \A i \in 0 .. W - 1 : Bit(x, i) = Bit(y, i)
    PROVE  x = y
<1> DEFINE X(i) == x \div 2 ^ i
           Y(i) == y \div 2 ^ i
           T == {i \in Nat : i <= W /\ X(W - i) # Y(W - i)}
<1>1. x \in Nat /\ y \in Nat /\ W \in 4 .. 32
  BY SizeType
<1>2. X(W) = 0 /\ Y(W) = 0
  BY <1>1, WordQuotient
<1>3. \A i \in 0 .. W - 1 : /\ X(i) = 2 * X(i + 1) + Bit(x, i)
                            /\ Y(i) = 2 * Y(i + 1) + Bit(y, i)
  <2> TAKE i \in 0 .. W - 1
  <2>1. i \in 0 .. 31
    BY <1>1
  <2> QED BY <1>1, <2>1, NextQuotient
<1>4. X(0) = x /\ Y(0) = y
  BY <1>1, PowersOfTwo
<1> HIDE DEF X, Y
<1>5. ASSUME T # {} PROVE FALSE
  <2>1. PICK m \in T : \A k \in T : m <= k
    BY <1>5, LeastElement
  <2>2. m \in Nat /\ m <= W /\ X(W - m) # Y(W - m)
    BY <2>1
  <2>3. m # 0
    BY <1>1, <1>2, <2>2
  <2>4. m - 1 \in Nat /\ m - 1 <= W /\ m - 1 \notin T
    BY <1>1, <2>1, <2>2, <2>3
  <2>5. X(W - (m - 1)) = Y(W - (m - 1))
    BY <2>4
  <2> DEFINE i == W - m
  <2>6. i \in 0 .. W - 1 /\ W - (m - 1) = i + 1
    BY <1>1, <2>2, <2>3
  <2>7. X(i + 1) = Y(i + 1)
    BY <2>5, <2>6
  <2>8. X(i) = Y(i)
    <3> HIDE DEF i
    <3> QED BY <1>3, <2>6, <2>7
  <2> QED BY <2>2, <2>8
<1>6. W \in Nat /\ W <= W /\ W - W = 0
  BY <1>1
<1>7. X(0) = Y(0)
  BY <1>5, <1>6
<1> QED BY <1>4, <1>7

\* Setting a bit that is clear adds its weight, and changes no other bit.
LEMMA SetBit ==
    ASSUME NEW x \in Word, NEW e \in 0 .. W - 1, Bit(x, e) = 0
    PROVE  /\ x + 2 ^ e \in Word
           /\ \A i \in 0 .. W - 1 : Bit(x + 2 ^ e, i) = IF i = e THEN 1 ELSE Bit(x, i)
<1> DEFINE p == 2 ^ e
           y == x + p
<1>1. x \in Nat /\ W \in 4 .. 32 /\ e \in 0 .. 31
  BY SizeType
<1>2. p \in Nat \ {0} /\ y \in Nat
  <2>1. e \in 0 .. 32
    BY <1>1
  <2>2. p \in Nat \ {0}
    BY <2>1, PowerType
  <2> QED BY <1>1, <2>2
\* Below e the quotient grows by an even number.
<1>3. ASSUME NEW i \in 0 .. e - 1
      PROVE  Bit(y, i) = Bit(x, i)
  <2>1. i \in 0 .. 31 /\ e \in (i + 1) .. 32 /\ i \in 0 .. 32
    BY <1>1
  <2>2. PICK k \in Nat \ {0} : p = 2 ^ i * (2 * k) /\ p = 2 ^ (i + 1) * k
    BY ONLY <2>1, GreaterPower, Zenon
  <2> DEFINE r == 2 ^ i
             q == x \div r
  <2>3. r \in Nat \ {0}
    BY <2>1, PowerType
  <2>4. y \div r = q + 2 * k
    <3>1. y = x + r * (2 * k) /\ 2 * k \in Int /\ x \in Int
      BY <1>1, <2>2
    <3> HIDE DEF r, y
    <3> QED BY <2>3, <3>1, AddMultiple
  <2>5. q \in Int
    <3> HIDE DEF r
    <3> QED BY <1>1, <2>3
  <2>6. (q + 2 * k) % 2 = q % 2
    <3> HIDE DEF q
    <3> QED BY <2>5
  <2> QED BY <2>4, <2>6 DEF Bit
\* At e it grows by one, and is even.
<1> DEFINE q == x \div p
<1>4. q \in Nat /\ q % 2 = 0 /\ y \div p = q + 1
  <2>1. q % 2 = 0
    BY DEF Bit
  <2>2. y = x + p * 1
    BY <1>1, <1>2
  <2>3. (x + p * 1) \div p = q + 1
    <3>1. \A m \in Int : (x + p * m) \div p = (x \div p) + m
      <4> HIDE DEF p
      <4>1. x \in Int
        BY <1>1
      <4> QED BY <1>2, <4>1, AddMultiple, Zenon
    <3> QED BY <3>1
  <2>4. q \in Nat
    <3> HIDE DEF p
    <3> QED BY <1>1, <1>2
  <2> QED BY <2>1, <2>2, <2>3, <2>4
<1>5. Bit(y, e) = 1
  <2>1. (q + 1) % 2 = 1
    <3> HIDE DEF q
    <3> QED BY <1>4
  <2> QED BY <1>4, <2>1 DEF Bit
\* Above e the quotient is that of half of it.
<1>6. ASSUME NEW i \in (e + 1) .. 32
      PROVE  y \div 2 ^ i = x \div 2 ^ i
  <2>1. y \div 2 ^ (e + 1) = x \div 2 ^ (e + 1)
    <3>1. (q + 1) \div 2 = q \div 2
      <4> HIDE DEF q
      <4> QED BY <1>4
    <3>2. x \div 2 ^ (e + 1) = q \div 2 /\ y \div 2 ^ (e + 1) = (y \div p) \div 2
      BY <1>1, <1>2, NextQuotient
    <3> QED BY <1>4, <3>1, <3>2
  <2>2. PICK k \in Nat \ {0} : 2 ^ i = p * (2 * k) /\ 2 ^ i = 2 ^ (e + 1) * k
    BY <1>1, GreaterPower, ZenonT(60)
  <2> DEFINE r == 2 ^ (e + 1)
  <2>3. r \in Nat \ {0}
    <3>1. e + 1 \in 0 .. 32
      BY <1>1
    <3> QED BY <3>1, PowerType
  <2>4. x \div (r * k) = (x \div r) \div k /\ y \div (r * k) = (y \div r) \div k
    <3>1. \A n \in Nat : (n \div r) \div k = n \div (r * k)
      <4> HIDE DEF r
      <4> QED BY <2>3, QuotientOfQuotient
    <3> QED BY <1>1, <1>2, <3>1
  <2> QED BY <2>1, <2>2, <2>4
<1>7. y \in Word
  <2>1. W \in (e + 1) .. 32 /\ W \in W .. 32 /\ W \in 0 .. 32
    BY <1>1
  <2>2. y \div 2 ^ W = 0
    BY <1>6, <2>1, WordQuotient
  <2>3. y < 2 ^ W
    BY <1>2, <2>1, <2>2, NoQuotient
  <2> QED BY <1>2, <2>3, SizeType DEF Word, Size
<1>8. ASSUME NEW i \in 0 .. W - 1
      PROVE  Bit(y, i) = IF i = e THEN 1 ELSE Bit(x, i)
  <2>1. CASE i < e
    BY <1>3, <2>1
  <2>2. CASE i = e
    BY <1>5, <2>2
  <2>3. CASE i > e
    <3>1. i \in (e + 1) .. 32
      BY <1>1, <2>3
    <3> QED BY <1>6, <2>3, <3>1 DEF Bit
  <2> QED BY <2>1, <2>2, <2>3
<1> QED BY <1>7, <1>8

LEMMA BitsOfType ==
    ASSUME NEW x \in Word
    PROVE  /\ BitsOf[x] = {i \in 0 .. W - 1 : Bit(x, i) = 1}
           /\ BitsOf[x] \in SUBSET (0 .. W - 1)
  BY DEF BitsOf

LEMMA BitOfWord ==
    ASSUME NEW x \in Int, NEW i \in 0 .. W - 1
    PROVE  Bit(x, i) \in {0, 1}
<1>1. i \in 0 .. 32
  BY SizeType
<1> QED BY <1>1, BitType

\* A word has the bits of a set, and no other word has.
LEMMA BitsOfInjective ==
    ASSUME NEW x \in Word, NEW y \in Word, BitsOf[x] = BitsOf[y]
    PROVE  x = y
<1>1. x \in Int /\ y \in Int
  BY SizeType
<1>2. ASSUME NEW i \in 0 .. W - 1 PROVE Bit(x, i) = Bit(y, i)
  <2>1. Bit(x, i) \in {0, 1} /\ Bit(y, i) \in {0, 1}
    BY <1>1, BitOfWord
  <2>2. Bit(x, i) = 1 <=> Bit(y, i) = 1
    BY BitsOfType
  <2> QED BY <2>1, <2>2
<1> QED BY <1>2, SameBits

LEMMA BitsOfSetBit ==
    ASSUME NEW x \in Word, NEW s \in SUBSET (0 .. W - 1), NEW e \in s,
           BitsOf[x] = s \ {e}
    PROVE  2 ^ e + x \in Word /\ BitsOf[2 ^ e + x] = s
<1> DEFINE y == x + 2 ^ e
<1>1. e \in 0 .. W - 1 /\ x \in Int
  BY SizeType
<1>2. Bit(x, e) = 0
  <2>1. Bit(x, e) \in {0, 1}
    BY <1>1, BitOfWord
  <2>2. e \notin BitsOf[x]
    OBVIOUS
  <2> QED BY <1>1, <2>1, <2>2, BitsOfType
<1>3. y \in Word /\ \A i \in 0 .. W - 1 : Bit(y, i) = IF i = e THEN 1 ELSE Bit(x, i)
  BY <1>1, <1>2, SetBit
<1>4. 2 ^ e + x = y
  <2>1. e \in 0 .. 32
    BY <1>1, SizeType
  <2>2. 2 ^ e \in Nat
    BY <2>1, PowerType
  <2> QED BY <1>1, <2>2
<1> HIDE DEF y
<1>5. BitsOf[y] = s
  <2>1. \A i \in 0 .. W - 1 : i \in BitsOf[y] <=> i \in s
    <3> TAKE i \in 0 .. W - 1
    <3>1. i \in BitsOf[x] <=> i \in s /\ i # e
      OBVIOUS
    <3>2. i \in BitsOf[x] <=> Bit(x, i) = 1
      BY BitsOfType
    <3>3. i \in BitsOf[y] <=> Bit(y, i) = 1
      BY <1>3, BitsOfType
    <3> QED BY <1>3, <3>1, <3>2, <3>3
  <2>2. BitsOf[y] \in SUBSET (0 .. W - 1)
    BY <1>3, BitsOfType
  <2> QED BY <2>1, <2>2
<1> QED BY <1>3, <1>4, <1>5

-----------------------------------------------------------------------------
(***************************************************************************)
(* The sum of the weights of a set of bits, as the community modules       *)
(* define it, is the word that has these bits.                             *)
(***************************************************************************)
\* A smallest set among subsets of a finite set.
LEMMA LeastSubset ==
    ASSUME NEW S, IsFiniteSet(S), NEW B \in SUBSET (SUBSET S), B # {}
    PROVE  \E s \in B : \A t \in B : \A e \in s : t # s \ {e}
<1> DEFINE N == {Cardinality(s) : s \in B}
<1>1. \A s \in B : IsFiniteSet(s) /\ Cardinality(s) \in Nat
  BY FS_Subset, FS_CardinalityType
<1>2. N \in SUBSET Nat /\ N # {}
  BY <1>1
<1>3. PICK m \in N : \A k \in N : m <= k
  BY <1>2, LeastElement
<1>4. PICK s \in B : m = Cardinality(s)
  BY <1>3
<1>5. ASSUME NEW t \in B, NEW e \in s, t = s \ {e} PROVE FALSE
  <2>1. Cardinality(t) = Cardinality(s) - 1
    BY <1>1, <1>5, FS_RemoveElement
  <2>2. Cardinality(s) <= Cardinality(t)
    BY <1>3, <1>4
  <2> QED BY <1>1, <2>1, <2>2
<1> QED BY <1>4, <1>5

Pick(s) == CHOOSE x \in s : TRUE

Adds(f, S) ==
    f = [s \in SUBSET S |-> IF s = {} THEN 0 ELSE 2 ^ Pick(s) + f[s \ {Pick(s)}]]

LEMMA WordOfAdds ==
    ASSUME NEW S \in SUBSET (0 .. W - 1), NEW f, Adds(f, S)
    PROVE  \E g : Adds(g, S) /\ WordOf[S] = g[S]
<1>1. WordOf[S] = MapThenSumSet(LAMBDA i : 2 ^ i, S)
  BY DEF WordOf
<1>2. MapThenSumSet(LAMBDA i : 2 ^ i, S) = (CHOOSE iter : Adds(iter, S))[S]
  BY DEF MapThenSumSet, MapThenFoldSet, Adds, Pick
<1>3. Adds(CHOOSE iter : Adds(iter, S), S)
  OBVIOUS
<1> QED BY <1>1, <1>2, <1>3

LEMMA NoBits == 0 \in Word /\ BitsOf[0] = {}
<1>1. 0 \in Word
  BY SizeType DEF Word
<1>2. ASSUME NEW i \in 0 .. W - 1 PROVE Bit(0, i) # 1
  <2>1. i \in 0 .. 32
    BY SizeType
  <2>2. 2 ^ i \in Nat \ {0}
    BY <2>1, PowerType
  <2>3. 0 \div 2 ^ i = 0
    BY <2>2
  <2>4. Bit(0, i) = 0 % 2
    BY <2>3 DEF Bit
  <2> QED BY <2>4
<1> QED BY <1>1, <1>2, BitsOfType

LEMMA PickType == \A s : s # {} => Pick(s) \in s
  BY DEF Pick

\* Every set of bits is that of a word.
LEMMA SomeWord ==
    \A s \in SUBSET (0 .. W - 1) : \E x \in Word : BitsOf[x] = s
<1> DEFINE D == 0 .. W - 1
           B == {s \in SUBSET D : ~ \E x \in Word : BitsOf[x] = s}
<1>1. ASSUME B # {} PROVE FALSE
  <2>1. IsFiniteSet(D)
    BY SizeType, FS_Interval
  <2>2. PICK s \in B : \A t \in B : \A e \in s : t # s \ {e}
    <3>1. B \in SUBSET (SUBSET D)
      OBVIOUS
    <3> HIDE DEF B, D
    <3> QED BY <1>1, <2>1, <3>1, LeastSubset, ZenonT(60)
  <2>3. s # {}
    BY <2>2, NoBits
  <2>4. PICK e \in s : TRUE
    BY <2>3
  <2>5. s \ {e} \in SUBSET (0 .. W - 1) /\ s \ {e} \notin B
    BY <2>2
  <2>6. PICK x \in Word : BitsOf[x] = s \ {e}
    BY <2>5
  <2>7. 2 ^ e + x \in Word /\ BitsOf[2 ^ e + x] = s
    BY <2>6, BitsOfSetBit
  <2> QED BY <2>2, <2>7
<1> QED BY <1>1

LEMMA WordOfBits ==
    ASSUME NEW S \in SUBSET (0 .. W - 1)
    PROVE  WordOf[S] \in Word /\ BitsOf[WordOf[S]] = S
<1> DEFINE G(s) == CHOOSE x \in Word : BitsOf[x] = s
           g == [s \in SUBSET S |-> G(s)]
<1>1. \A s \in SUBSET S : G(s) \in Word /\ BitsOf[G(s)] = s
  BY SomeWord
<1>2. Adds(g, S)
  <2>1. ASSUME NEW s \in SUBSET S
        PROVE  G(s) = IF s = {} THEN 0 ELSE 2 ^ Pick(s) + g[s \ {Pick(s)}]
    <3>1. CASE s = {}
      <4>1. G(s) = 0
        BY <1>1, <3>1, NoBits, BitsOfInjective
      <4> QED BY <3>1, <4>1
    <3>2. CASE s # {}
      <4> DEFINE e == Pick(s)
      <4>1. e \in s /\ s \ {e} \in SUBSET S /\ s \in SUBSET (0 .. W - 1)
        BY <3>2, PickType
      <4>2. g[s \ {e}] \in Word /\ BitsOf[g[s \ {e}]] = s \ {e}
        BY <1>1, <4>1
      <4> HIDE DEF g, G, e
      <4>3. 2 ^ e + g[s \ {e}] \in Word /\ BitsOf[2 ^ e + g[s \ {e}]] = s
        BY <4>1, <4>2, BitsOfSetBit
      <4>4. G(s) = 2 ^ e + g[s \ {e}]
        BY <1>1, <4>3, BitsOfInjective
      <4> QED BY <3>2, <4>4 DEF e
    <3> QED BY <3>1, <3>2
  <2> HIDE DEF G
  <2> QED BY <2>1 DEF Adds
<1>3. PICK f : Adds(f, S) /\ WordOf[S] = f[S]
  BY <1>2, WordOfAdds
<1> HIDE DEF g, G
<1> DEFINE B == {s \in SUBSET S : ~ (f[s] \in Word /\ BitsOf[f[s]] = s)}
<1>4. ASSUME B # {} PROVE FALSE
  <2>1. IsFiniteSet(S)
    <3>1. IsFiniteSet(0 .. W - 1)
      BY SizeType, FS_Interval
    <3> QED BY <3>1, FS_Subset
  <2>2. PICK s \in B : \A t \in B : \A e \in s : t # s \ {e}
    <3>1. B \in SUBSET (SUBSET S)
      OBVIOUS
    <3> HIDE DEF B
    <3> QED BY <1>4, <2>1, <3>1, LeastSubset
  <2>3. f[s] = IF s = {} THEN 0 ELSE 2 ^ Pick(s) + f[s \ {Pick(s)}]
    <3>1. s \in SUBSET S
      BY <2>2
    <3> QED BY <1>3, <3>1 DEF Adds
  <2>4. s # {}
    BY <2>2, <2>3, NoBits
  <2> DEFINE e == Pick(s)
  <2>5. e \in s /\ s \in SUBSET (0 .. W - 1) /\ s \ {e} \in SUBSET S
    BY <2>2, <2>4, PickType
  <2>6. f[s \ {e}] \in Word /\ BitsOf[f[s \ {e}]] = s \ {e}
    BY <2>2, <2>5
  <2>7. 2 ^ e + f[s \ {e}] \in Word /\ BitsOf[2 ^ e + f[s \ {e}]] = s
    <3> HIDE DEF e
    <3> QED BY <2>5, <2>6, BitsOfSetBit
  <2> QED BY <2>2, <2>3, <2>4, <2>7
<1> QED BY <1>3, <1>4

LEMMA WordOfBitsOf ==
    ASSUME NEW x \in Word
    PROVE  WordOf[BitsOf[x]] = x
  BY BitsOfType, WordOfBits, BitsOfInjective

-----------------------------------------------------------------------------
(***************************************************************************)
(* The operations bit by bit.                                              *)
(***************************************************************************)
LEMMA WordType == \A x \in Word : x \in Int /\ x \in Nat /\ x < Size
  BY SizeType DEF Word

LEMMA BitOne ==
    ASSUME NEW x \in Word, NEW i \in 0 .. W - 1
    PROVE  Bit(x, i) = IF i \in BitsOf[x] THEN 1 ELSE 0
<1>1. Bit(x, i) \in {0, 1}
  BY WordType, BitOfWord
<1> QED BY <1>1, BitsOfType

LEMMA AndBits ==
    ASSUME NEW x \in Word, NEW y \in Word
    PROVE  /\ And(x, y) \in Word
           /\ \A i \in 0 .. W - 1 : Bit(And(x, y), i) = Bit(x, i) * Bit(y, i)
<1> DEFINE s == BitsOf[x] \cap BitsOf[y]
<1>1. s \in SUBSET (0 .. W - 1)
  BY BitsOfType
<1>2. And(x, y) \in Word /\ BitsOf[And(x, y)] = s
  BY <1>1, WordOfBits DEF And
<1>3. ASSUME NEW i \in 0 .. W - 1
      PROVE  Bit(And(x, y), i) = Bit(x, i) * Bit(y, i)
  <2>1. i \in BitsOf[And(x, y)] <=> i \in BitsOf[x] /\ i \in BitsOf[y]
    BY <1>2
  <2> DEFINE z == And(x, y)
  <2>2. z \in Word
    BY <1>2
  <2>3. Bit(z, i) = IF i \in BitsOf[z] THEN 1 ELSE 0
    <3> HIDE DEF z
    <3> QED BY <2>2, BitOne
  <2>4. /\ Bit(x, i) = IF i \in BitsOf[x] THEN 1 ELSE 0
        /\ Bit(y, i) = IF i \in BitsOf[y] THEN 1 ELSE 0
    BY BitOne
  <2> HIDE DEF z
  <2> QED BY <2>1, <2>3, <2>4 DEF z
<1> QED BY <1>2, <1>3

LEMMA OrBits ==
    ASSUME NEW x \in Word, NEW y \in Word
    PROVE  /\ Or(x, y) \in Word
           /\ \A i \in 0 .. W - 1 :
                 Bit(Or(x, y), i) = Bit(x, i) + Bit(y, i) - Bit(x, i) * Bit(y, i)
<1> DEFINE s == BitsOf[x] \cup BitsOf[y]
<1>1. s \in SUBSET (0 .. W - 1)
  BY BitsOfType
<1>2. Or(x, y) \in Word /\ BitsOf[Or(x, y)] = s
  BY <1>1, WordOfBits DEF Or
<1>3. ASSUME NEW i \in 0 .. W - 1
      PROVE  Bit(Or(x, y), i) = Bit(x, i) + Bit(y, i) - Bit(x, i) * Bit(y, i)
  <2>1. i \in BitsOf[Or(x, y)] <=> i \in BitsOf[x] \/ i \in BitsOf[y]
    BY <1>2
  <2> DEFINE z == Or(x, y)
  <2>2. z \in Word
    BY <1>2
  <2>3. Bit(z, i) = IF i \in BitsOf[z] THEN 1 ELSE 0
    <3> HIDE DEF z
    <3> QED BY <2>2, BitOne
  <2>4. /\ Bit(x, i) = IF i \in BitsOf[x] THEN 1 ELSE 0
        /\ Bit(y, i) = IF i \in BitsOf[y] THEN 1 ELSE 0
    BY BitOne
  <2> HIDE DEF z
  <2> QED BY <2>1, <2>3, <2>4 DEF z
<1> QED BY <1>2, <1>3

LEMMA NotBits ==
    ASSUME NEW x \in Word
    PROVE  /\ Not(x) \in Word
           /\ \A i \in 0 .. W - 1 : Bit(Not(x), i) = 1 - Bit(x, i)
<1>1. x \in Nat /\ x < Size /\ Size \in Nat
  BY WordType, SizeType
<1>2. Not(x) \in Word
  BY <1>1 DEF Not, Ones, Word
<1>3. ASSUME NEW i \in 0 .. W - 1
      PROVE  Bit(Not(x), i) = 1 - Bit(x, i)
  <2> DEFINE p == 2 ^ i
             q == x \div p
             r == x % p
  <2>1. i \in 0 .. 31 /\ W \in (i + 1) .. 32 /\ i \in 0 .. 32
    BY SizeType
  <2>2. PICK k \in Nat \ {0} : 2 ^ W = 2 ^ i * (2 * k) /\ 2 ^ W = 2 ^ (i + 1) * k
    BY ONLY <2>1, GreaterPower, Zenon
  <2>3. p \in Nat \ {0} /\ Size = p * (2 * k)
    BY <2>1, <2>2, PowerType DEF Size
  <2>4. q \in Nat /\ r \in 0 .. p - 1 /\ x = p * q + r
    <3> HIDE DEF p
    <3> QED BY <1>1, <2>3
  <2>5. Not(x) \div p = 2 * k - 1 - q
    <3> HIDE DEF p, q, r
    <3>1. Not(x) = p * (2 * k - 1 - q) + (p - 1 - r)
      <4>1. Not(x) = p * (2 * k) - 1 - (p * q + r)
        BY <2>3, <2>4 DEF Not, Ones
      <4> QED BY <2>3, <2>4, <4>1
    <3>2. p - 1 - r \in 0 .. p - 1 /\ 2 * k - 1 - q \in Int
      BY <2>3, <2>4
    <3> QED BY <2>3, <3>1, <3>2, Quotient, ZenonT(60)
  <2>6. (2 * k - 1 - q) % 2 = 1 - (q % 2)
    <3> HIDE DEF q
    <3> QED BY <2>4
  <2> QED BY <2>5, <2>6 DEF Bit
<1> QED BY <1>2, <1>3

LEMMA EorBits ==
    ASSUME NEW x \in Word, NEW y \in Word
    PROVE  /\ Eor(x, y) \in Word
           /\ \A i \in 0 .. W - 1 : Bit(Eor(x, y), i) = (Bit(x, i) + Bit(y, i)) % 2
<1> DEFINE a == And(x, Not(y))
           b == And(Not(x), y)
<1>1. Not(x) \in Word /\ Not(y) \in Word
  BY NotBits
<1>2. a \in Word /\ b \in Word
  BY <1>1, AndBits
<1>3. Eor(x, y) \in Word
  <2> HIDE DEF a, b
  <2>1. Or(a, b) \in Word
    BY <1>2, OrBits
  <2> QED BY <2>1 DEF Eor, a, b
<1>4. ASSUME NEW i \in 0 .. W - 1
      PROVE  Bit(Eor(x, y), i) = (Bit(x, i) + Bit(y, i)) % 2
  <2>1. /\ Bit(a, i) = Bit(x, i) * Bit(Not(y), i)
        /\ Bit(b, i) = Bit(Not(x), i) * Bit(y, i)
    BY <1>1, AndBits
  <2>2. Bit(Not(x), i) = 1 - Bit(x, i) /\ Bit(Not(y), i) = 1 - Bit(y, i)
    BY NotBits
  <2>3. Bit(Or(a, b), i) = Bit(a, i) + Bit(b, i) - Bit(a, i) * Bit(b, i)
    <3> HIDE DEF a, b
    <3> QED BY <1>2, OrBits
  <2>4. Bit(x, i) \in {0, 1} /\ Bit(y, i) \in {0, 1}
    BY WordType, BitOfWord
  <2>5. Eor(x, y) = Or(a, b)
    BY DEF Eor
  <2> HIDE DEF a, b
  <2> QED BY <2>1, <2>2, <2>3, <2>4, <2>5
<1> QED BY <1>3, <1>4

\* Words without a common bit: Or is their sum.
LEMMA DisjointSum ==
    \A s \in SUBSET (0 .. W - 1) : \A x, y \in Word :
        BitsOf[y] = s /\ BitsOf[x] \cap s = {} =>
            x + y \in Word /\ BitsOf[x + y] = BitsOf[x] \cup s
<1> DEFINE D == 0 .. W - 1
           Sums(s) == \A x, y \in Word :
                         BitsOf[y] = s /\ BitsOf[x] \cap s = {} =>
                             x + y \in Word /\ BitsOf[x + y] = BitsOf[x] \cup s
           B == {s \in SUBSET D : ~ Sums(s)}
<1>1. ASSUME B # {} PROVE FALSE
  <2>1. IsFiniteSet(D)
    BY SizeType, FS_Interval
  <2>2. PICK s \in B : \A t \in B : \A e \in s : t # s \ {e}
    <3>1. B \in SUBSET (SUBSET D)
      OBVIOUS
    <3> HIDE DEF B, D
    <3> QED BY <1>1, <2>1, <3>1, LeastSubset, ZenonT(60)
  <2>3. PICK x \in Word, y \in Word :
           /\ BitsOf[y] = s /\ BitsOf[x] \cap s = {}
           /\ ~ (x + y \in Word /\ BitsOf[x + y] = BitsOf[x] \cup s)
    BY <2>2
  <2>4. s # {}
    <3>1. CASE s = {}
      <4>1. y = 0
        BY <2>3, <3>1, NoBits, BitsOfInjective
      <4>2. x + y = x
        <5>1. x \in Int
          BY WordType
        <5> QED BY <4>1, <5>1
      <4> QED BY <2>3, <3>1, <4>2
    <3> QED BY <3>1
  <2>5. PICK e \in s : TRUE
    BY <2>4
  <2>6. s \in SUBSET D /\ s \ {e} \in SUBSET D /\ Sums(s \ {e})
    BY <2>2
  <2>7. PICK z \in Word : BitsOf[z] = s \ {e}
    BY <2>6, SomeWord
  <2>8. 2 ^ e + z \in Word /\ BitsOf[2 ^ e + z] = s
    BY <2>6, <2>7, BitsOfSetBit
  <2>9. y = 2 ^ e + z
    BY <2>3, <2>8, BitsOfInjective
  <2>10. x + z \in Word /\ BitsOf[x + z] = BitsOf[x] \cup (s \ {e})
    BY <2>3, <2>6, <2>7
  <2> DEFINE u == BitsOf[x] \cup s
  <2>11. u \in SUBSET (0 .. W - 1) /\ e \in u /\ BitsOf[x + z] = u \ {e}
    BY <2>3, <2>6, <2>10, BitsOfType
  <2>12. 2 ^ e + (x + z) \in Word /\ BitsOf[2 ^ e + (x + z)] = u
    <3> HIDE DEF u
    <3> QED BY <2>10, <2>11, BitsOfSetBit
  <2>13. 2 ^ e + (x + z) = x + y
    <3>1. e \in 0 .. 32
      BY <2>6, SizeType
    <3>2. 2 ^ e \in Nat
      BY <3>1, PowerType
    <3> QED BY <2>9, <3>2, WordType
  <2> QED BY <2>3, <2>12, <2>13
<1> QED BY <1>1

LEMMA OrIsSum ==
    ASSUME NEW x \in Word, NEW y \in Word,
           \A i \in 0 .. W - 1 : Bit(x, i) = 0 \/ Bit(y, i) = 0
    PROVE  Or(x, y) = x + y /\ x + y \in Word
<1>1. BitsOf[x] \cap BitsOf[y] = {}
  BY BitsOfType
<1>2. BitsOf[y] \in SUBSET (0 .. W - 1)
  BY BitsOfType
<1>3. x + y \in Word /\ BitsOf[x + y] = BitsOf[x] \cup BitsOf[y]
  BY <1>1, <1>2, DisjointSum
<1> QED BY <1>3, WordOfBitsOf DEF Or

\* A multiple of a power of two has no bits below it.
LEMMA LowBitsClear ==
    ASSUME NEW x \in Nat, NEW n \in 0 .. 32, NEW i \in 0 .. n - 1
    PROVE  Bit(x * 2 ^ n, i) = 0
<1>1. i \in 0 .. 31 /\ n \in (i + 1) .. 32 /\ i \in 0 .. 32
  OBVIOUS
<1>2. PICK k \in Nat \ {0} : 2 ^ n = 2 ^ i * (2 * k) /\ 2 ^ n = 2 ^ (i + 1) * k
  BY ONLY <1>1, GreaterPower, Zenon
<1> DEFINE p == 2 ^ i
<1>3. p \in Nat \ {0}
  BY <1>1, PowerType
<1>4. x * 2 ^ n = x * (p * (2 * k))
  BY <1>2
<1> HIDE DEF p
<1>5. x * (p * (2 * k)) = p * (2 * (x * k)) + 0
  BY <1>3
<1>6. 2 * (x * k) \in Nat /\ 0 \in 0 .. p - 1
  BY <1>3
<1>7. (p * (2 * (x * k)) + 0) \div p = 2 * (x * k)
  BY <1>3, <1>6, Quotient
<1>8. x * k \in Nat
  OBVIOUS
<1>9. (2 * (x * k)) % 2 = 0
  <2> DEFINE m == x * k
  <2> HIDE DEF m
  <2> QED BY <1>8 DEF m
<1> QED BY <1>4, <1>5, <1>7, <1>9 DEF Bit, p

\* A number below a power of two has no bits above.
LEMMA HighBitsClear ==
    ASSUME NEW x \in Nat, NEW n \in 0 .. 32, x < 2 ^ n, NEW i \in n .. 32
    PROVE  Bit(x, i) = 0
<1>1. i \in 0 .. 32
  OBVIOUS
<1>2. 2 ^ n <= 2 ^ i
  BY PowersGrow
<1>3. 2 ^ n \in Nat /\ 2 ^ i \in Nat
  BY <1>1, PowerType
<1>4. x < 2 ^ i
  BY <1>2, <1>3
<1>5. x \div 2 ^ i = 0
  BY <1>1, <1>4, NoQuotient
<1>6. Bit(x, i) = 0 % 2
  BY <1>5 DEF Bit
<1> QED BY <1>6

-----------------------------------------------------------------------------
(***************************************************************************)
(* Shifts and values are words, carries are bits.                          *)
(***************************************************************************)
LEMMA WrapType ==
    ASSUME NEW n \in Int
    PROVE  Wrap(n) \in Word /\ Wrap(n) \in Nat
  BY SizeType DEF Wrap, Word

LEMMA WrapOfWord ==
    ASSUME NEW x \in Word
    PROVE  Wrap(x) = x
  BY WordType, SizeType DEF Wrap, Word

LEMMA ByteBitsType == ByteBits \in 1 .. 32 /\ ByteBits <= W
  BY AluAssumption

LEMMA ByteType ==
    ASSUME NEW x \in Int
    PROVE  Byte(x) \in 0 .. 2 ^ ByteBits - 1
<1>1. ByteBits \in 0 .. 32
  BY ByteBitsType
<1>2. 2 ^ ByteBits \in Nat \ {0}
  BY <1>1, PowerType
<1> QED BY <1>2 DEF Byte

LEMMA BytesAreWords == 2 ^ ByteBits \in Nat /\ 2 ^ ByteBits <= Size
<1>1. ByteBits \in 0 .. 32 /\ W \in ByteBits .. 32
  BY ByteBitsType, SizeType
<1>2. 2 ^ ByteBits <= 2 ^ W
  BY <1>1, PowersGrow
<1> QED BY <1>1, <1>2, PowerType DEF Size

LEMMA RegsType == NRegs \in Nat /\ NRegs >= 2 /\ PC \in Regs /\ Regs \subseteq 0 .. 2 ^ ByteBits - 1
  BY AluAssumption, BytesAreWords DEF PC, Regs

LEMMA LslType ==
    ASSUME NEW x \in Nat, NEW n \in 0 .. 32
    PROVE  lsl(x, n) \in Word
<1>1. 2 ^ n \in Nat
  BY PowerType
<1>2. x * 2 ^ n \in Int
  BY <1>1
<1> QED BY <1>2, WrapType DEF lsl

LEMMA LsrType ==
    ASSUME NEW x \in Word, NEW n \in 0 .. 32
    PROVE  lsr(x, n) \in Word
<1> DEFINE p == 2 ^ n
<1>1. p \in Nat \ {0} /\ x \in Nat
  BY PowerType, WordType
<1>2. x \div p \in Nat /\ x \div p <= x
  <2> HIDE DEF p
  <2> QED BY <1>1
<1> QED BY <1>2, WordType, SizeType DEF lsr, Word

LEMMA AsrType ==
    ASSUME NEW x \in Word, NEW n \in 0 .. W
    PROVE  asr(x, n) \in Word
<1>1. n \in 0 .. 32 /\ W - n \in 0 .. 32
  BY SizeType
<1>2. lsr(x, n) \in Word
  BY <1>1, LsrType
<1>3. 2 ^ (W - n) \in Nat
  BY <1>1, PowerType
<1>4. Wrap(-(2 ^ (W - n))) \in Word
  BY <1>3, WrapType
<1> DEFINE y == IF Top(x) = 1 THEN Wrap(-(2 ^ (W - n))) ELSE 0
<1>5. y \in Word
  BY <1>4, NoBits
<1> HIDE DEF y
<1>6. Or(lsr(x, n), y) \in Word
  BY <1>2, <1>5, OrBits
<1> QED BY <1>6 DEF asr, y

LEMMA RorType ==
    ASSUME NEW x \in Word, NEW n \in 0 .. W
    PROVE  ror(x, n) \in Word
<1>1. n \in 0 .. 32 /\ W - n \in 0 .. 32 /\ x \in Nat
  BY SizeType, WordType
<1>2. lsr(x, n) \in Word
  BY <1>1, LsrType
<1>3. lsl(x, W - n) \in Word
  BY <1>1, LslType
<1> QED BY <1>2, <1>3, OrBits DEF ror

LEMMA TopType ==
    ASSUME NEW x \in Int
    PROVE  Top(x) \in {0, 1}
<1>1. W - 1 \in 0 .. 32
  BY SizeType
<1> QED BY <1>1, BitType DEF Top

LEMMA SignsType ==
    ASSUME NEW x \in Word
    PROVE  Signs(x) \in Word
  BY NoBits, SizeType DEF Signs, Ones, Word

LEMMA ShiftOperationType ==
    ASSUME NEW x \in Word, NEW shift \in Shifts, NEW n \in 0 .. W - 1
    PROVE  shift_operation(x, shift, n) \in Word
<1>1. shift \in 0 .. 3 /\ shift \in 0 .. W /\ n \in 0 .. 32 /\ x \in Nat /\ shift \in 0 .. 32
  BY SizeType, WordType DEF Shifts, LSL, ROR
<1>2. lsl(x, n) \in Word
  BY <1>1, LslType
<1>3. lsr(x, shift) \in Word
  BY <1>1, LsrType
<1>4. asr(x, shift) \in Word
  BY <1>1, AsrType
<1>5. ror(x, shift) \in Word
  BY <1>1, RorType
<1> QED BY <1>1, <1>2, <1>3, <1>4, <1>5 DEF shift_operation, LSL, LSR, ASR, ROR

IsOperand(o) == o.value \in Word /\ o.carry \in {0, 1}

LEMMA ByImmediateType ==
    ASSUME NEW x \in Word, NEW shift \in Shifts, NEW n \in 0 .. W - 1, NEW c \in {0, 1}
    PROVE  IsOperand(ShiftedByImmediate(x, shift, n, c))
<1>1. x \in Int /\ c \in Nat /\ 0 \in Word
  BY WordType, NoBits
<1>2. Bit(x, 0) \in {0, 1} /\ Top(x) \in {0, 1}
  BY <1>1, BitType, TopType
<1>3. shift_operation(x, shift, n) \in Word
  BY ShiftOperationType
<1>4. n > 0 => Bit(x, W - n) \in {0, 1} /\ Bit(x, n - 1) \in {0, 1}
  <2>1. n > 0 => W - n \in 0 .. 32 /\ n - 1 \in 0 .. 32
    BY SizeType
  <2> QED BY <1>1, <2>1, BitType
<1>5. Or(lsl(c, W - 1), lsr(x, 1)) \in Word
  <2>1. W - 1 \in 0 .. 32 /\ 1 \in 0 .. 32
    BY SizeType
  <2>2. lsl(c, W - 1) \in Word /\ lsr(x, 1) \in Word
    BY <1>1, <2>1, LslType, LsrType
  <2> QED BY <2>2, OrBits
<1>6. Signs(x) \in Word
  BY SignsType
<1>7. n = 0 \/ n > 0
  BY SizeType
<1>8. shift \in {LSL, LSR, ASR, ROR}
  BY DEF Shifts, LSL, LSR, ASR, ROR
<1>9. \A v \in Word, b \in {0, 1} : IsOperand(Out(v, b))
  BY DEF IsOperand, Out
<1>10. CASE n = 0
  BY <1>1, <1>2, <1>5, <1>6, <1>8, <1>9, <1>10
     DEF ShiftedByImmediate, LSL, LSR, ASR, ROR
<1>11. CASE n > 0
  <2>1. CASE shift = LSL
    BY <1>3, <1>4, <1>9, <1>11, <2>1 DEF ShiftedByImmediate, LSL
  <2>2. CASE shift # LSL
    BY <1>3, <1>4, <1>9, <1>11, <2>2 DEF ShiftedByImmediate
  <2> QED BY <2>1, <2>2
<1> QED BY <1>7, <1>10, <1>11

LEMMA ByRegisterType ==
    ASSUME NEW x \in Word, NEW shift \in Shifts, NEW n \in Nat, NEW c \in {0, 1},
           NEW o \in ShiftedByRegister(x, shift, n, c)
    PROVE  IsOperand(o)
<1>1. x \in Int /\ 0 \in Word /\ W \in Nat
  BY WordType, NoBits, SizeType
<1>2. Bit(x, 0) \in {0, 1} /\ Top(x) \in {0, 1}
  BY <1>1, BitType, TopType
<1>3. Signs(x) \in Word
  BY SignsType
<1>4. shift \in {LSL, LSR, ASR, ROR}
  BY DEF Shifts, LSL, LSR, ASR, ROR
<1>5. \A v \in Word, b \in {0, 1} : IsOperand(Out(v, b))
  BY DEF IsOperand, Out
<1>6. CASE n = 0
  <2>1. ~ (n > 0) /\ n \notin 1 .. W - 1 /\ ~ (n >= W) /\ n # W
    BY <1>6, SizeType
  <2>2. ShiftedByRegister(x, shift, n, c) = {Out(x, c)}
    BY <1>6, <2>1, Zenon DEF ShiftedByRegister
  <2> QED BY <1>5, <2>2
<1>7. CASE n > 0 /\ shift = ROR
  <2>1. n % W \in 0 .. W - 1
    BY SizeType
  <2>2. shift_operation(x, shift, n % W) \in Word
    BY <2>1, ShiftOperationType
  <2>3. n % W # 0 => Bit(x, (n % W) - 1) \in {0, 1}
    <3>1. n % W # 0 => (n % W) - 1 \in 0 .. 32
      BY <2>1, SizeType
    <3> QED BY <1>1, <3>1, BitType
  <2>4. PICK b \in (IF n % W = 0 THEN {0, 1} ELSE {Bit(x, (n % W) - 1)}) :
           o = Out(shift_operation(x, shift, n % W), b)
    <3>1. n # 0 /\ shift \notin {LSL, LSR, ASR}
      BY <1>7 DEF LSL, LSR, ASR, ROR
    <3>2. ShiftedByRegister(x, shift, n, c)
             = {Out(shift_operation(x, shift, n % W), b) :
                   b \in IF n % W = 0 THEN {0, 1} ELSE {Bit(x, (n % W) - 1)}}
      BY <1>7, <3>1, Zenon DEF ShiftedByRegister
    <3> QED BY <3>2
  <2>5. b \in {0, 1}
    BY <2>3, <2>4
  <2> QED BY <1>5, <2>2, <2>4, <2>5
<1>8. CASE n \in 1 .. W - 1 /\ shift # ROR
  <2>1. n \in 0 .. W - 1 /\ W - n \in 0 .. 32 /\ n - 1 \in 0 .. 32
    BY <1>8, SizeType
  <2>2. shift_operation(x, shift, n) \in Word
    BY <2>1, ShiftOperationType
  <2>3. Bit(x, W - n) \in {0, 1} /\ Bit(x, n - 1) \in {0, 1}
    BY <1>1, <2>1, BitType
  <2>4. CASE shift = LSL
    <3>1. n # 0 /\ shift \notin {LSR, ASR} /\ ~ (n >= W) /\ n # W
      BY <1>8, <2>4, SizeType DEF LSL, LSR, ASR, ROR
    <3>2. ShiftedByRegister(x, shift, n, c)
             = {Out(shift_operation(x, shift, n), Bit(x, W - n))}
      BY <1>8, <2>4, <3>1, Zenon DEF ShiftedByRegister
    <3> QED BY <1>5, <2>2, <2>3, <3>2
  <2>5. CASE shift \in {LSR, ASR}
    <3>1. n # 0 /\ shift # LSL /\ ~ (n >= W) /\ n # W
      BY <1>8, <2>5, SizeType DEF LSL, LSR, ASR, ROR
    <3>2. ShiftedByRegister(x, shift, n, c)
             = {Out(shift_operation(x, shift, n), Bit(x, n - 1))}
      BY <1>8, <2>5, <3>1, Zenon DEF ShiftedByRegister
    <3> QED BY <1>5, <2>2, <2>3, <3>2
  <2> QED BY <1>4, <1>8, <2>4, <2>5
<1>9. CASE n >= W /\ shift # ROR
  <2>1. n > 0 /\ n \notin 1 .. W - 1
    BY <1>9, SizeType
  <2> QED BY <1>1, <1>2, <1>3, <1>4, <1>5, <1>9, <2>1
          DEF ShiftedByRegister, LSL, LSR, ASR, ROR
<1> QED BY <1>1, <1>6, <1>7, <1>8, <1>9

LEMMA HalfWord == W \div 2 \in Nat /\ 2 * (W \div 2) = W
  BY AluAssumption

LEMMA ImmediateType ==
    ASSUME NEW i \in 0 .. 2 ^ ByteBits - 1
    PROVE  i \in Word
  BY BytesAreWords, SizeType DEF Word

LEMMA RotatedType ==
    ASSUME NEW i \in 0 .. 2 ^ ByteBits - 1, NEW n \in 0 .. (W \div 2) - 1, NEW c \in {0, 1}
    PROVE  IsOperand(Rotated(i, n, c))
<1>1. i \in Word /\ 2 * n \in 0 .. W
  BY ImmediateType, HalfWord
<1>2. ror(i, 2 * n) \in Word
  BY <1>1, RorType
<1>3. Top(ror(i, 2 * n)) \in {0, 1}
  BY <1>2, WordType, TopType
<1> QED BY <1>2, <1>3 DEF Rotated, IsOperand, Out

LEMMA ValueType ==
    ASSUME NEW op \in Ops, NEW x \in Word, NEW y \in Word, NEW c \in {0, 1}
    PROVE  Value(op, x, y, c) \in Word
<1>1. x \in Int /\ y \in Int /\ c \in Int /\ NotC(c) \in Int
  BY WordType DEF NotC
<1>2. /\ Wrap(x - y) \in Word /\ Wrap(y - x) \in Word
      /\ Wrap(x + y) \in Word /\ Wrap(x + y + c) \in Word
      /\ Wrap(x - y - NotC(c)) \in Word /\ Wrap(y - x - NotC(c)) \in Word
  BY <1>1, WrapType
<1>3. And(x, y) \in Word /\ Eor(x, y) \in Word /\ Or(x, y) \in Word
  BY AndBits, EorBits, OrBits
<1>4. Not(y) \in Word
  BY NotBits
<1>5. And(x, Not(y)) \in Word
  BY <1>4, AndBits
<1> HIDE DEF Ops
<1>6. op \in {"and", "tst", "eor", "teq", "sub", "cmp", "rsb", "add", "cmn", "adc",
              "sbc", "rsc", "orr", "mov", "bic", "mvn"}
  BY DEF Ops, Logical, Compares
<1> QED BY <1>2, <1>3, <1>4, <1>5, <1>6 DEF Value

-----------------------------------------------------------------------------
(***************************************************************************)
(* Sums, differences and rotations of words.                               *)
(***************************************************************************)
LEMMA TwoIsWord == 2 \in Word
<1>1. 2 \in 0 .. 32 /\ W \in 2 .. 32
  BY SizeType
<1>2. 2 ^ 2 <= 2 ^ W
  BY <1>1, PowersGrow
<1>3. 2 ^ 2 = 4
  BY PowersOfTwo
<1>4. Size >= 4 /\ Size \in Nat
  BY <1>2, <1>3, SizeType DEF Size
<1> QED BY <1>4 DEF Word

LEMMA WrapSum ==
    ASSUME NEW a \in Int, NEW b \in Int
    PROVE  Wrap(Wrap(a) + b) = Wrap(a + b)
<1> DEFINE q == a \div Size
           r == a % Size
<1>1. Size \in Nat \ {0}
  BY SizeType
<1>2. q \in Int /\ r \in Int /\ a = Size * q + r
  BY <1>1
<1> HIDE DEF q, r
<1>3. a + b = (r + b) + Size * q /\ r + b \in Int
  BY <1>1, <1>2
<1>4. ((r + b) + Size * q) % Size = (r + b) % Size
  BY <1>1, <1>2, <1>3, AddMultiple
<1> QED BY <1>3, <1>4 DEF Wrap, r

LEMMA WrapDifference ==
    ASSUME NEW x \in Word, NEW y \in Word
    PROVE  Wrap(Wrap(x - y) + y) = x
<1>1. x \in Int /\ y \in Int /\ x - y \in Int /\ (x - y) + y = x
  <2>1. x \in Int /\ y \in Int
    BY WordType
  <2> QED BY <2>1
<1>2. Wrap(Wrap(x - y) + y) = Wrap((x - y) + y)
  BY <1>1, WrapSum
<1> QED BY <1>1, <1>2, WrapOfWord

LEMMA WrapOfDifference ==
    ASSUME NEW x \in Word, NEW y \in Word
    PROVE  Wrap(x - y) = IF x >= y THEN x - y ELSE x - y + Size
<1>1. x \in Nat /\ y \in Nat /\ x < Size /\ y < Size /\ Size \in Nat \ {0}
  BY WordType, SizeType
<1>2. CASE x >= y
  <2>1. x - y \in Word
    BY <1>1, <1>2 DEF Word
  <2> QED BY <1>2, <2>1, WrapOfWord
<1>3. CASE ~ (x >= y)
  <2> DEFINE u == x - y + Size
  <2>1. u \in 0 .. Size - 1 /\ x - y = Size * (-1) + u
    BY <1>1, <1>3
  <2>2. \A m \in Int, r \in 0 .. Size - 1 : (Size * m + r) % Size = r
    BY <1>1, Quotient
  <2>3. (Size * (-1) + u) % Size = u
    <3>1. -1 \in Int
      OBVIOUS
    <3> HIDE DEF u
    <3> QED BY <2>1, <2>2, <3>1
  <2> QED BY <1>3, <2>1, <2>3 DEF Wrap
<1> QED BY <1>2, <1>3

\* The highest bit tells the sign.
LEMMA TopHalf ==
    \E h \in Nat \ {0} :
        /\ Size = 2 * h /\ Size \div 2 = h
        /\ \A x \in Word : Top(x) = IF x >= h THEN 1 ELSE 0
<1> DEFINE h == 2 ^ (W - 1)
<1>1. W - 1 \in 0 .. 31 /\ W - 1 \in 0 .. 32 /\ (W - 1) + 1 = W
  BY SizeType
<1>2. h \in Nat \ {0} /\ 2 ^ ((W - 1) + 1) = 2 * h
  BY <1>1, Doubles
<1>3. Size = 2 * h
  BY <1>1, <1>2 DEF Size
<1>4. Size \div 2 = h
  <2> HIDE DEF h
  <2> QED BY <1>2, <1>3
<1>5. ASSUME NEW x \in Word PROVE Top(x) = IF x >= h THEN 1 ELSE 0
  <2>1. x \in 0 .. 2 * h - 1
    BY <1>2, <1>3 DEF Word
  <2> DEFINE q == x \div h
  <2>2. q = IF x >= h THEN 1 ELSE 0
    <3> HIDE DEF h
    <3>a. \A m \in Int, r \in 0 .. h - 1 : (h * m + r) \div h = m
      BY <1>2, Quotient
    <3>1. CASE x >= h
      <4>1. x = h * 1 + (x - h) /\ x - h \in 0 .. h - 1
        BY <1>2, <2>1, <3>1
      <4>2. (h * 1 + (x - h)) \div h = 1
        BY <3>a, <4>1
      <4> QED BY <3>1, <4>1, <4>2
    <3>2. CASE ~ (x >= h)
      <4>1. x = h * 0 + x /\ x \in 0 .. h - 1
        BY <1>2, <2>1, <3>2
      <4>2. (h * 0 + x) \div h = 0
        BY <3>a, <4>1
      <4> QED BY <3>2, <4>1, <4>2
    <3> QED BY <3>1, <3>2
  <2>3. 0 % 2 = 0 /\ 1 % 2 = 1
    OBVIOUS
  <2> HIDE DEF q
  <2>4. Top(x) = q % 2
    BY DEF Top, Bit, q
  <2> QED BY <2>2, <2>3, <2>4
<1> HIDE DEF h
<1> QED BY <1>2, <1>3, <1>4, <1>5

\* A word is the product of the two powers it is split at.
LEMMA SplitSize ==
    ASSUME NEW n \in 0 .. W
    PROVE  \E p, q \in Nat \ {0} : p = 2 ^ n /\ q = 2 ^ (W - n) /\ Size = p * q
<1> DEFINE P(k) == 2 ^ k
<1>1. n \in Nat /\ W - n \in Nat /\ n + (W - n) = W /\ n + (W - n) <= 32
  BY SizeType
<1>2. P(n + (W - n)) = P(n) * P(W - n)
  BY <1>1, PowerSum
<1>3. n \in 0 .. 32 /\ W - n \in 0 .. 32
  BY <1>1, SizeType
<1>4. P(n) \in Nat \ {0} /\ P(W - n) \in Nat \ {0}
  BY <1>3, PowerType
<1>5. Size = P(W)
  BY DEF Size
<1> HIDE DEF P
<1>6. Size = P(n) * P(W - n)
  BY <1>1, <1>2, <1>5
<1> QED BY <1>4, <1>6 DEF P

LEMMA LeftShiftOfWord ==
    ASSUME NEW x \in Word
    PROVE  lsl(x, W) = 0
<1>1. x \in Nat /\ Size \in Nat \ {0}
  BY WordType, SizeType
<1>2. (x * Size) % Size = 0
  <2>1. x * Size = Size * x + 0 /\ 0 \in 0 .. Size - 1
    BY <1>1
  <2> QED BY <1>1, <2>1, Quotient
<1> QED BY <1>2 DEF lsl, Wrap, Size

\* A rotation to the right multiplies by an inverse, modulo the word of ones.
LEMMA Rotation ==
    ASSUME NEW x \in Word, NEW n \in 0 .. W - 1
    PROVE  (ror(x, n) * 2 ^ n) % Ones = x % Ones
<1>1. PICK p, q \in Nat \ {0} : p = 2 ^ n /\ q = 2 ^ (W - n) /\ Size = p * q
  <2>1. n \in 0 .. W
    BY SizeType
  <2> QED BY <2>1, SplitSize
<1>2. x \in Nat /\ x < Size /\ Size \in Nat \ {0} /\ W - n \in 0 .. 32 /\ n \in 0 .. 32
  BY WordType, SizeType
<1> DEFINE h == x \div p
           l == x % p
<1>3. h \in Nat /\ l \in 0 .. p - 1 /\ x = p * h + l
  BY <1>1, <1>2, NatDivided, Zenon
<1>4. lsr(x, n) = h
  BY <1>1 DEF lsr
<1> HIDE DEF h, l
<1>5. h < q
  <2>1. CASE h >= q
    <3>1. p * h >= p * q
      BY <1>1, <1>3, <2>1
    <3> DEFINE u == p * h
    <3>2. u >= Size /\ x = u + l /\ u \in Nat
      BY <1>1, <1>3, <3>1
    <3> HIDE DEF u
    <3> QED BY <1>2, <1>3, <3>2
  <2> QED BY <1>1, <1>3, <2>1
<1> DEFINE v == l * q
<1>6. v \in 0 .. Size - 1
  <2>1. v \in Nat /\ v <= (p - 1) * q /\ (p - 1) * q = p * q - q
    BY <1>1, <1>3
  <2> HIDE DEF v
  <2>2. v <= Size - q
    BY <1>1, <2>1
  <2> QED BY <1>1, <1>2, <2>1, <2>2
<1>7. lsl(x, W - n) = v
  <2>1. x * q = Size * h + v
    BY <1>1, <1>3
  <2> HIDE DEF v
  <2>2. (x * q) % Size = v
    <3>1. h \in Int
      BY <1>3
    <3>2. (Size * h + v) % Size = v
      BY <1>2, <1>6, <3>1, Quotient, Zenon
    <3> QED BY <2>1, <3>2
  <2> QED BY <1>1, <2>2 DEF lsl, Wrap
<1>8. h \in Word /\ v \in Word
  <2>1. h \in Word
    BY <1>2, <1>4, LsrType
  <2> QED BY <1>6, <2>1 DEF Word
<1>9. ASSUME NEW i \in 0 .. W - 1 PROVE Bit(h, i) = 0 \/ Bit(v, i) = 0
  <2>1. CASE i < W - n
    <3>1. l \in Nat /\ i \in 0 .. (W - n) - 1
      BY <1>2, <1>3, <2>1
    <3>2. Bit(l * 2 ^ (W - n), i) = 0
      BY <1>2, <3>1, LowBitsClear
    <3> QED BY <1>1, <3>2
  <2>2. CASE ~ (i < W - n)
    <3>1. i \in (W - n) .. 32
      BY <1>2, <2>2, SizeType
    <3>2. h < 2 ^ (W - n)
      BY <1>1, <1>5
    <3> QED BY <1>2, <1>3, <3>1, <3>2, HighBitsClear
  <2> QED BY <2>1, <2>2
<1>10. ror(x, n) = h + v
  <2> HIDE DEF v
  <2>1. Or(h, v) = h + v
    BY <1>8, <1>9, OrIsSum
  <2> QED BY <1>4, <1>7, <2>1 DEF ror
<1>11. (h + v) * p = x + Ones * l
  <2>1. (h + l * q) * p = p * h + (p * q) * l
    BY <1>1, <1>3
  <2>2. (h + l * q) * p = p * h + Size * l
    BY <1>1, <2>1
  <2>3. Ones * l = Size * l - l
    BY <1>2, <1>3 DEF Ones
  <2> DEFINE a == p * h
             b == Size * l
  <2>4. a \in Nat /\ b \in Nat /\ x = a + l /\ (h + v) * p = a + b /\ Ones * l = b - l
    BY <1>1, <1>2, <1>3, <2>2, <2>3
  <2> HIDE DEF a, b, v
  <2> QED BY <1>3, <2>4
<1>12. Ones \in Nat \ {0}
  BY TwoIsWord, SizeType DEF Ones, Word
<1>13. (x + Ones * l) % Ones = x % Ones
  <2>1. x \in Int /\ l \in Int
    BY <1>2, <1>3
  <2> QED BY <1>12, <2>1, AddMultiple, Zenon
<1> HIDE DEF v
<1> QED BY <1>1, <1>10, <1>11, <1>13

\* A rotation by one through the carry.
LEMMA CarryIntoTop ==
    ASSUME NEW x \in Word, NEW c \in {0, 1}
    PROVE  2 * Or(lsl(c, W - 1), lsr(x, 1)) + Bit(x, 0) = c * Size + x
<1> DEFINE h == 2 ^ (W - 1)
           a == x \div 2
<1>1. W - 1 \in 0 .. 31 /\ W - 1 \in 0 .. 32 /\ (W - 1) + 1 = W
  BY SizeType
<1>2. h \in Nat \ {0} /\ Size = 2 * h
  <2>1. h \in Nat \ {0} /\ 2 ^ ((W - 1) + 1) = 2 * h
    BY <1>1, Doubles
  <2> QED BY <1>1, <2>1 DEF Size
<1>3. a \in Nat /\ x = 2 * a + (x % 2) /\ x % 2 \in {0, 1} /\ a < h
  <2> HIDE DEF h
  <2>1. x \in 0 .. 2 * h - 1
    BY <1>2 DEF Word
  <2> QED BY <1>2, <2>1
<1>4. lsr(x, 1) = a /\ Bit(x, 0) = x % 2
  <2>1. x \in Nat /\ 2 ^ 1 = 2 /\ 2 ^ 0 = 1
    BY WordType, PowersOfTwo
  <2>2. x \div 1 = x
    BY <2>1
  <2> QED BY <2>1, <2>2 DEF lsr, Bit
<1>5. lsl(c, W - 1) = c * h /\ c * h \in Word
  <2> HIDE DEF h
  <2>1. c * h \in 0 .. Size - 1
    BY <1>2
  <2>2. c * h \in Word /\ Wrap(c * h) = c * h
    BY <2>1, WrapOfWord DEF Word
  <2> QED BY <2>2 DEF lsl, h
<1>6. a \in Word
  BY <1>2, <1>3 DEF Word
<1>7. ASSUME NEW i \in 0 .. W - 1 PROVE Bit(c * h, i) = 0 \/ Bit(a, i) = 0
  <2>1. CASE i < W - 1
    <3>1. c \in Nat /\ i \in 0 .. (W - 1) - 1
      BY <1>1, <2>1
    <3>2. Bit(c * 2 ^ (W - 1), i) = 0
      BY <1>1, <3>1, LowBitsClear
    <3> QED BY <3>2
  <2>2. CASE ~ (i < W - 1)
    <3>1. i \in (W - 1) .. 32
      BY <1>1, <2>2
    <3>2. a < 2 ^ (W - 1)
      BY <1>3
    <3> HIDE DEF a
    <3> QED BY <1>1, <1>3, <3>1, <3>2, HighBitsClear
  <2> QED BY <2>1, <2>2
<1> DEFINE u == c * h
<1> HIDE DEF a
<1>8. Or(u, a) = u + a
  <2> HIDE DEF u
  <2> QED BY <1>5, <1>6, <1>7, OrIsSum DEF u
<1>9. 2 * Or(lsl(c, W - 1), lsr(x, 1)) + Bit(x, 0) = 2 * (u + a) + (x % 2)
  BY <1>4, <1>5, <1>8
<1>10. 2 * u = c * Size /\ u \in Nat
  <2> HIDE DEF h
  <2> QED BY <1>2
<1> HIDE DEF u
<1>11. x \in Nat /\ c * Size \in Nat
  BY WordType, SizeType
<1> QED BY <1>3, <1>9, <1>10, <1>11

\* The bits of a multiple of a power of two are those of the factor, moved.
LEMMA ShiftedBits ==
    ASSUME NEW x \in Nat, NEW n \in 0 .. 32, NEW k \in n .. 32
    PROVE  Bit(x * 2 ^ n, k) = Bit(x, k - n)
<1> DEFINE p == 2 ^ n
           q == 2 ^ (k - n)
<1>1. n \in Nat /\ k - n \in Nat /\ n + (k - n) = k /\ n + (k - n) <= 32
      /\ k - n \in 0 .. 32
  OBVIOUS
<1>2. 2 ^ k = p * q
  <2>1. 2 ^ (n + (k - n)) = p * q
    BY <1>1, PowerSum
  <2> QED BY <1>1, <2>1
<1>3. p \in Nat \ {0} /\ q \in Nat \ {0}
  BY <1>1, PowerType
<1> HIDE DEF p, q
<1>4. (x * p) \div (p * q) = x \div q
  <2>1. x * p \in Nat /\ ((x * p) \div p) \div q = (x * p) \div (p * q)
    BY <1>3, QuotientOfQuotient
  <2>2. x * p = p * x + 0 /\ 0 \in 0 .. p - 1
    BY <1>3
  <2>3. (x * p) \div p = x
    BY <1>3, <2>2, Quotient
  <2> QED BY <2>1, <2>3
<1> QED BY <1>2, <1>4 DEF Bit, p, q

\* The bits of a remainder and of a quotient.
LEMMA LowerBits ==
    ASSUME NEW y \in Nat, NEW n \in 0 .. 32, NEW r \in 0 .. n - 1
    PROVE  Bit(y % 2 ^ n, r) = Bit(y, r)
<1>1. r \in 0 .. 31 /\ n \in (r + 1) .. 32 /\ r \in 0 .. 32
  OBVIOUS
<1>2. PICK m \in Nat \ {0} : 2 ^ n = 2 ^ r * (2 * m) /\ 2 ^ n = 2 ^ (r + 1) * m
  BY ONLY <1>1, GreaterPower, Zenon
<1> DEFINE N == 2 ^ n
           p == 2 ^ r
           l == y % N
           h == y \div N
<1>3. N \in Nat \ {0} /\ p \in Nat \ {0}
  BY <1>1, PowerType
<1>4. h \in Nat /\ l \in 0 .. N - 1 /\ y = N * h + l
  <2> HIDE DEF N
  <2> QED BY <1>3, NatDivided
<1>5. N = p * (2 * m)
  BY <1>2
<1> HIDE DEF N, p, l, h
<1> DEFINE u == 2 * (m * h)
<1>6. u \in Int /\ y = l + p * u /\ u % 2 = 0
  <2>1. u \in Int /\ N * h = p * u
    BY <1>3, <1>4, <1>5
  <2>2. u % 2 = 0
    <3>1. m * h \in Nat
      BY <1>4
    <3> DEFINE v == m * h
    <3> HIDE DEF v
    <3> QED BY <3>1 DEF v
  <2> HIDE DEF u
  <2> QED BY <1>3, <1>4, <2>1, <2>2
<1> HIDE DEF u
<1>7. (l + p * u) \div p = (l \div p) + u
  <2>1. l \in Int
    BY <1>3, <1>4
  <2> QED BY <1>3, <1>6, <2>1, AddMultiple
<1>8. ((l \div p) + u) % 2 = (l \div p) % 2
  <2>1. l \div p \in Int
    BY <1>3, <1>4
  <2> QED BY <1>6, <2>1
<1> QED BY <1>6, <1>7, <1>8 DEF Bit, p, l, N

LEMMA UpperBits ==
    ASSUME NEW x \in Nat, NEW a \in Nat, NEW r \in Nat, a + r <= 32
    PROVE  Bit(x \div 2 ^ a, r) = Bit(x, a + r)
<1>1. a \in 0 .. 32 /\ r \in 0 .. 32
  OBVIOUS
<1>2. 2 ^ a \in Nat \ {0} /\ 2 ^ r \in Nat \ {0}
  BY <1>1, PowerType
<1>3. (x \div 2 ^ a) \div 2 ^ r = x \div (2 ^ a * 2 ^ r)
  BY <1>2, QuotientOfQuotient
<1>4. 2 ^ (a + r) = 2 ^ a * 2 ^ r
  BY PowerSum
<1> QED BY <1>3, <1>4 DEF Bit

\* A number without bits from n on is below 2 ^ n.
LEMMA BelowPower ==
    ASSUME NEW x \in Word, NEW n \in 0 .. W, \A k \in n .. W - 1 : Bit(x, k) = 0
    PROVE  x < 2 ^ n
<1>1. /\ x \in Nat /\ n \in 0 .. 32 /\ n \in Nat /\ W \in 4 .. 32
  BY WordType, SizeType
<1> DEFINE y == x \div 2 ^ n
<1>2. y \in Word
  BY <1>1, LsrType DEF lsr
<1>3. ASSUME NEW i \in 0 .. W - 1 PROVE Bit(y, i) = Bit(0, i)
  <2>1. Bit(0, i) = 0
    BY NoBits, BitOne
  <2>2. CASE n + i <= W - 1
    <3>1. i \in Nat /\ n + i <= 32 /\ n + i \in n .. W - 1
      BY <1>1, <2>2
    <3>2. Bit(y, i) = Bit(x, n + i)
      BY <1>1, <3>1, UpperBits
    <3> QED BY <2>1, <3>1, <3>2
  <2>3. CASE ~ (n + i <= W - 1)
    <3>1. i \in (W - n) .. 32 /\ i \in 0 .. 32 /\ W - n \in 0 .. 32
      BY <1>1, <2>3
    <3>2. y < 2 ^ (W - n)
      <4>1. PICK p, q \in Nat \ {0} : p = 2 ^ n /\ q = 2 ^ (W - n) /\ Size = p * q
        BY SplitSize
      <4>2. x < p * q
        BY <4>1, WordType
      <4>3. x = p * (x \div p) + (x % p) /\ x \div p \in Nat /\ x % p \in 0 .. p - 1
        BY <1>1, <4>1, NatDivided, Zenon
      <4> DEFINE h == x \div p
                 l == x % p
      <4> HIDE DEF h, l
      <4>4. h < q
        <5>1. CASE h >= q
          <6>1. p * h >= p * q
            BY <4>1, <4>3, <5>1 DEF h
          <6> QED BY <4>1, <4>2, <4>3, <6>1 DEF h, l
        <5> QED BY <4>1, <4>3, <5>1 DEF h
      <4> QED BY <4>1, <4>4 DEF h
    <3> HIDE DEF y
    <3>3. y \in Nat
      BY <1>2, WordType
    <3>4. Bit(y, i) = 0
      BY <3>1, <3>2, <3>3, HighBitsClear
    <3> QED BY <2>1, <3>4
  <2> QED BY <1>1, <2>2, <2>3
<1> HIDE DEF y
<1>4. y = 0
  BY <1>2, <1>3, NoBits, SameBits
<1> QED BY <1>1, <1>4, NoQuotient DEF y

-----------------------------------------------------------------------------
(***************************************************************************)
(* The pc as an instruction reads it.                                      *)
(***************************************************************************)
LEMMA NextPcType ==
    ASSUME NEW w \in Word
    PROVE  And(Wrap(w + 4), Not(2)) \in Word
<1>1. w + 4 \in Int
  BY WordType
<1>2. Wrap(w + 4) \in Word
  BY <1>1, WrapType
<1>3. Not(2) \in Word
  BY TwoIsWord, NotBits
<1> QED BY <1>2, <1>3, AndBits

LEMMA BitsOfTwo ==
    ASSUME NEW i \in 0 .. W - 1
    PROVE  Bit(2, i) = IF i = 1 THEN 1 ELSE 0
<1>1. W \in 4 .. 32
  BY SizeType
<1>2. 2 = 1 * 2 ^ 1 /\ 1 < 2 ^ 1 /\ 1 \in 0 .. 32
  BY PowersOfTwo
<1>3. CASE i = 0
  <2>1. Bit(1 * 2 ^ 1, 0) = 0
    BY <1>2, LowBitsClear
  <2> QED BY <1>2, <1>3, <2>1
<1>4. CASE i # 0
  <2>1. i \in 1 .. 32 /\ i - 1 \in 0 .. 32
    BY <1>1, <1>4
  <2>2. Bit(1 * 2 ^ 1, i) = Bit(1, i - 1)
    BY <1>2, <2>1, ShiftedBits
  <2>3. CASE i = 1
    <3>1. Bit(1, 0) = 1
      <4>1. 2 ^ 0 = 1 /\ 1 \div 1 = 1 /\ 1 % 2 = 1
        BY PowersOfTwo
      <4> QED BY <4>1 DEF Bit
    <3> QED BY <1>2, <2>2, <2>3, <3>1
  <2>4. CASE i # 1
    <3>1. i - 1 \in 1 .. 32
      BY <2>1, <2>4
    <3>2. Bit(1, i - 1) = 0
      BY <1>2, <3>1, HighBitsClear
    <3> QED BY <1>2, <2>2, <2>4, <3>2
  <2> QED BY <2>3, <2>4
<1> QED BY <1>3, <1>4

LEMMA Aligned ==
    ASSUME NEW y \in Word
    PROVE  And(y, Not(2)) = y - 2 * Bit(y, 1)
<1> DEFINE z == And(y, Not(2))
<1>1. /\ z \in Word
      /\ \A i \in 0 .. W - 1 : Bit(z, i) = Bit(y, i) * (1 - Bit(2, i))
  <2>1. Not(2) \in Word /\ \A i \in 0 .. W - 1 : Bit(Not(2), i) = 1 - Bit(2, i)
    BY TwoIsWord, NotBits
  <2> QED BY <2>1, AndBits
<1> HIDE DEF z
<1>2. \A i \in 0 .. W - 1 : Bit(y, i) \in {0, 1}
  BY BitOne
<1>3. \A i \in 0 .. W - 1 : Bit(z, i) = IF i = 1 THEN 0 ELSE Bit(y, i)
  BY <1>1, <1>2, BitsOfTwo
<1>4. 1 \in 0 .. W - 1 /\ y \in Int /\ z \in Int
  BY <1>1, SizeType, WordType
<1>5. CASE Bit(y, 1) = 0
  <2>1. \A i \in 0 .. W - 1 : Bit(z, i) = Bit(y, i)
    BY <1>3, <1>5
  <2>2. z = y
    BY <1>1, <2>1, SameBits
  <2> QED BY <1>4, <1>5, <2>2 DEF z
<1>6. CASE Bit(y, 1) = 1
  <2> DEFINE v == z + 2 ^ 1
  <2>1. v \in Word /\ \A i \in 0 .. W - 1 : Bit(v, i) = IF i = 1 THEN 1 ELSE Bit(z, i)
    <3>1. Bit(z, 1) = 0
      BY <1>3, <1>4
    <3> QED BY <1>1, <1>4, <3>1, SetBit
  <2> HIDE DEF v
  <2>2. \A i \in 0 .. W - 1 : Bit(v, i) = Bit(y, i)
    BY <1>3, <1>6, <2>1
  <2>3. v = y
    BY <2>1, <2>2, SameBits
  <2>4. 2 ^ 1 = 2
    BY PowersOfTwo
  <2> QED BY <1>4, <1>6, <2>3, <2>4 DEF v, z
<1> QED BY <1>2, <1>4, <1>5, <1>6

\* The pc that an instruction reads, less 4, is the pc without its bit 1.
LEMMA PcLessFour ==
    ASSUME NEW w \in Word
    PROVE  Wrap(And(Wrap(w + 4), Not(2)) - 4) = w - 2 * Bit(w, 1)
<1> DEFINE y == Wrap(w + 4)
           h == w \div 2
           m == 2 ^ (W - 2)
<1>1. /\ w \in Nat /\ w < Size /\ Size \in Nat \ {0} /\ W \in 4 .. 32
  BY WordType, SizeType
<1>2. y \in Word /\ y \in Nat
  BY <1>1, WrapType
<1>3. m \in Nat \ {0} /\ Size = 4 * m
  <2>1. W - 2 \in 0 .. W /\ W - 2 \in 0 .. 32 /\ W - (W - 2) = 2
    BY <1>1
  <2>2. m \in Nat \ {0}
    BY <2>1, PowerType
  <2>3. PICK p, q \in Nat \ {0} : p = m /\ q = 2 ^ (W - (W - 2)) /\ Size = p * q
    BY <2>1, SplitSize, Zenon
  <2>4. q = 4
    <3>1. 2 ^ (W - (W - 2)) = 2 ^ 2
      BY <2>1, Zenon
    <3> QED BY <2>3, <3>1, PowersOfTwo
  <2> HIDE DEF m
  <2> QED BY <2>2, <2>3, <2>4
<1>4. y = w + 4 \/ y = w + 4 - Size
  <2>1. CASE w + 4 < Size
    <3>1. w + 4 \in Word
      BY <1>1, <2>1 DEF Word
    <3> QED BY <3>1, WrapOfWord
  <2>2. CASE ~ (w + 4 < Size)
    <3>1. w + 4 = Size * 1 + (w + 4 - Size) /\ w + 4 - Size \in 0 .. Size - 1
      <4>1. Size >= 4
        BY <1>3
      <4> QED BY <1>1, <2>2, <4>1
    <3>2. \A k \in Int, r \in 0 .. Size - 1 : (Size * k + r) % Size = r
      BY <1>1, Quotient
    <3>3. (Size * 1 + (w + 4 - Size)) % Size = w + 4 - Size
      BY <3>1, <3>2
    <3> QED BY <3>1, <3>3 DEF Wrap
  <2> QED BY <2>1, <2>2
<1> HIDE DEF y, m
<1>5. Bit(y, 1) = Bit(w, 1)
  <2>1. 2 ^ 1 = 2
    BY PowersOfTwo
  <2>2. (y \div 2) % 2 = (w \div 2) % 2
    BY <1>1, <1>2, <1>3, <1>4
  <2> QED BY <2>1, <2>2 DEF Bit
<1> DEFINE b == Bit(w, 1)
           v == w - 2 * b
<1>6. b \in {0, 1} /\ (b = 1 => w >= 2)
  <2>1. b \in {0, 1}
    BY <1>1, BitType
  <2>2. CASE w < 2
    <3>1. w < 2 ^ 1
      BY <2>2, PowersOfTwo
    <3>2. 1 \in 0 .. 32 /\ 1 \in 1 .. 32
      OBVIOUS
    <3>3. Bit(w, 1) = 0
      BY <1>1, <3>1, <3>2, HighBitsClear
    <3> QED BY <3>3
  <2> QED BY <1>1, <2>1, <2>2
<1> HIDE DEF b
<1>7. v \in Word
  BY <1>1, <1>6 DEF Word
<1>8. And(y, Not(2)) = y - 2 * b
  BY <1>2, <1>5, Aligned DEF b
<1>9. (y - 2 * b) - 4 = v \/ (y - 2 * b) - 4 = v - Size
  BY SMTT(30), <1>1, <1>4, <1>6
<1> HIDE DEF v
<1>10. Wrap(v) = v
  BY <1>7, WrapOfWord
<1>11. Wrap(v - Size) = v
  <2>1. v \in Int /\ v - Size = v + Size * (-1) /\ -1 \in Int
    BY <1>1, <1>7, WordType
  <2>2. (v + Size * (-1)) % Size = v % Size
    BY <1>1, <2>1, AddMultiple
  <2> QED BY <1>10, <2>1, <2>2 DEF Wrap
<1> QED BY <1>8, <1>9, <1>10, <1>11 DEF y, v, b

-----------------------------------------------------------------------------
(***************************************************************************)
(* An arithmetic shift to the right divides the signed word.               *)
(***************************************************************************)
SignedWord(x) == IF Top(x) = 1 THEN x - Size ELSE x

LEMMA AsrDivides ==
    ASSUME NEW x \in Word, NEW n \in 1 .. W - 1
    PROVE  SignedWord(asr(x, n)) = SignedWord(x) \div 2 ^ n
<1>1. PICK H \in Nat \ {0} :
         /\ Size = 2 * H /\ \A z \in Word : Top(z) = IF z >= H THEN 1 ELSE 0
  BY TopHalf
<1>2. PICK p, q \in Nat \ {0} : p = 2 ^ n /\ q = 2 ^ (W - n) /\ Size = p * q
  <2>1. n \in 0 .. W
    BY SizeType
  <2> QED BY <2>1, SplitSize
<1>3. /\ x \in Nat /\ x < Size /\ Size \in Nat \ {0} /\ W \in 4 .. 32
      /\ n \in 0 .. 32 /\ W - n \in 0 .. 32
  BY WordType, SizeType
<1>4. p >= 2
  <2>1. 1 \in 0 .. 32 /\ n \in 1 .. 32
    BY <1>3
  <2>2. 2 ^ 1 <= 2 ^ n
    BY <2>1, PowersGrow
  <2> QED BY <1>2, <2>2, PowersOfTwo
<1>5. q <= H
  <2>1. p * q >= 2 * q
    BY <1>2, <1>4
  <2> QED BY <1>1, <1>2, <2>1
<1> DEFINE h == x \div p
<1>6. h \in Nat /\ h <= x /\ h < q /\ h \in Word
  <2>1. h \in Nat /\ x % p \in 0 .. p - 1 /\ x = p * h + (x % p)
    BY <1>2, <1>3, NatDivided, Zenon
  <2>2. h <= x
    <3>1. x \in Int /\ p \in Nat \ {0}
      BY <1>2, <1>3
    <3> QED BY ONLY <1>3, <3>1, Divided
  <2> DEFINE l == x % p
  <2> HIDE DEF h, l
  <2>3. h < q
    <3>1. CASE h >= q
      <4>1. p * h >= p * q
        BY <1>2, <2>1, <3>1
      <4> QED BY <1>2, <1>3, <2>1, <4>1 DEF l
    <3> QED BY <1>2, <2>1, <3>1
  <2> QED BY <1>3, <2>1, <2>2, <2>3 DEF Word
<1>7. lsr(x, n) = h
  BY <1>2 DEF lsr
<1> HIDE DEF h
<1>8. CASE Top(x) = 0
  <2>1. asr(x, n) = Or(h, 0)
    BY <1>7, <1>8 DEF asr
  <2>2. \A i \in 0 .. W - 1 : Bit(h, i) = 0 \/ Bit(0, i) = 0
    BY NoBits, BitOne
  <2>3. Or(h, 0) = h + 0
    BY <1>6, <2>2, NoBits, OrIsSum
  <2>4. x < H
    BY <1>1, <1>3, <1>8
  <2>5. Top(h) = 0
    BY <1>1, <1>3, <1>6, <2>4
  <2>6. asr(x, n) = h
    BY <1>6, <2>1, <2>3
  <2> QED BY <1>2, <1>8, <2>5, <2>6 DEF SignedWord, h
<1>9. CASE Top(x) = 1
  <2> DEFINE u == Size - q
  <2>1. u \in Word /\ u \in Nat /\ u >= H
    <3>1. q <= Size
      BY <1>1, <1>2, <1>5
    <3> QED BY <1>1, <1>2, <1>3, <1>5, <3>1 DEF Word
  <2>2. Wrap(-q) = u
    <3>1. -q = u + Size * (-1) /\ u \in Int /\ -1 \in Int
      BY <1>2, <1>3
    <3> HIDE DEF u
    <3>2. (u + Size * (-1)) % Size = u % Size
      BY <1>3, <3>1, AddMultiple
    <3>3. Wrap(u) = u
      BY <2>1, WrapOfWord
    <3> QED BY <3>1, <3>2, <3>3 DEF Wrap
  <2>3. asr(x, n) = Or(h, u)
    BY <1>2, <1>7, <1>9, <2>2 DEF asr
  <2>4. ASSUME NEW i \in 0 .. W - 1 PROVE Bit(h, i) = 0 \/ Bit(u, i) = 0
    <3>1. CASE i < W - n
      <4>1. i \in 0 .. (W - n) - 1 /\ p - 1 \in Nat
        BY <1>2, <1>3, <3>1
      <4>2. Bit((p - 1) * 2 ^ (W - n), i) = 0
        BY <1>3, <4>1, LowBitsClear
      <4>3. (p - 1) * q = u
        BY <1>2
      <4> QED BY <1>2, <4>2, <4>3
    <3>2. CASE ~ (i < W - n)
      <4>1. i \in (W - n) .. 32
        BY <1>3, <3>2
      <4>2. h < 2 ^ (W - n)
        BY <1>2, <1>6
      <4> QED BY <1>3, <1>6, <4>1, <4>2, HighBitsClear
    <3> QED BY <3>1, <3>2
  <2> HIDE DEF u
  <2>5. Or(h, u) = h + u /\ h + u \in Word
    BY <1>6, <2>1, <2>4, OrIsSum
  <2>6. Top(h + u) = 1
    BY <1>1, <1>6, <2>1, <2>5
  <2>7. SignedWord(asr(x, n)) = h - q
    <3>1. (h + u) - Size = h - q
      BY <1>2, <1>3, <1>6 DEF u
    <3> QED BY <2>3, <2>5, <2>6, <3>1 DEF SignedWord
  <2>8. (x - Size) \div p = h - q
    <3>1. x - Size = x + p * (-q) /\ x \in Int /\ -q \in Int
      BY <1>2, <1>3
    <3>2. (x + p * (-q)) \div p = (x \div p) + (-q)
      BY <1>2, <3>1, AddMultiple
    <3> QED BY <1>2, <1>6, <3>1, <3>2 DEF h
  <2> QED BY <1>2, <1>9, <2>7, <2>8 DEF SignedWord
<1>10. Top(x) \in {0, 1}
  BY <1>3, TopType
<1> QED BY <1>8, <1>9, <1>10

LEMMA AsrByWord ==
    ASSUME NEW x \in Word
    PROVE  SignedWord(Signs(x)) = SignedWord(x) \div Size
<1>1. PICK H \in Nat \ {0} :
         /\ Size = 2 * H /\ \A z \in Word : Top(z) = IF z >= H THEN 1 ELSE 0
  BY TopHalf
<1>2. x \in Nat /\ x < Size /\ Size \in Nat \ {0}
  BY WordType, SizeType
<1>3. CASE x < H
  <2>1. Top(x) = 0 /\ Top(0) = 0
    BY <1>1, <1>2, <1>3, NoBits
  <2>2. x \div Size = 0
    BY <1>2
  <2> QED BY <2>1, <2>2 DEF SignedWord, Signs
<1>4. CASE ~ (x < H)
  <2>1. Ones \in Word /\ Ones >= H
    BY <1>1, <1>2 DEF Ones, Word
  <2>2. Top(x) = 1 /\ Top(Ones) = 1
    BY <1>1, <1>2, <1>4, <2>1
  <2>3. (x - Size) \div Size = -1
    <3>1. x - Size = Size * (-1) + x /\ x \in 0 .. Size - 1
      BY <1>2
    <3>2. \A m \in Int, r \in 0 .. Size - 1 : (Size * m + r) \div Size = m
      BY <1>2, Quotient
    <3>3. (Size * (-1) + x) \div Size = -1
      BY <3>1, <3>2
    <3> QED BY <3>1, <3>3
  <2>4. Ones - Size = -1
    BY <1>2 DEF Ones
  <2> QED BY <2>2, <2>3, <2>4 DEF SignedWord, Signs
<1> QED BY <1>1, <1>2, <1>3, <1>4
===============================================================================
