---------------------------- MODULE AccessesProofs ----------------------------
(***************************************************************************)
(* Theorems about the accesses of the program and of the debugger, for     *)
(* words of every width, every size of the memory, of the packet buffer    *)
(* and of the registers, and whatever memory and registers hold: first the *)
(* bytes of a word, then the bytes of the data of X, the invariant, and    *)
(* the store of bytes that the accesses implement.                         *)
(***************************************************************************)
EXTENDS Accesses, ArmAluProofs

-----------------------------------------------------------------------------
(***************************************************************************)
(* Words and bytes.                                                        *)
(***************************************************************************)
LEMMA WordBytesType ==
    /\ ByteBits \in 1 .. 32 /\ W \in 4 .. 32
    /\ WordBytes \in 1 .. 32 /\ ByteBits * WordBytes = W
<1>1. W \in 4 .. 32 /\ ByteBits \in 1 .. W
  BY AluAssumption
<1>2. W % ByteBits = 0
  BY BytesAssumption
<1>3. W = ByteBits * (W \div ByteBits) + (W % ByteBits) /\ W \div ByteBits \in Nat
      /\ W \div ByteBits <= W
  <2>1. W \in Int /\ W \in Nat /\ ByteBits \in Nat \ {0}
    BY <1>1
  <2> QED BY ONLY <2>1, Divided, SMT
<1> DEFINE q == W \div ByteBits
<1> HIDE DEF q
<1>4. W = ByteBits * q /\ q \in Nat /\ q <= 32
  BY <1>1, <1>2, <1>3 DEF q
<1>5. q # 0
  BY <1>1, <1>4
<1> QED BY <1>1, <1>4, <1>5 DEF WordBytes, q

LEMMA BaseType ==
    /\ Base \in Nat /\ Base >= 2 /\ Base <= Size
    /\ \A b \in Bytes : b \in Nat /\ b \in Word /\ b < 2 ^ ByteBits
<1>1. 1 \in 0 .. 32 /\ ByteBits \in 1 .. 32
  BY WordBytesType
<1>2. 2 ^ 1 <= 2 ^ ByteBits
  BY <1>1, PowersGrow
<1>3. 2 ^ 1 = 2
  BY PowersOfTwo
<1>4. 2 ^ ByteBits \in Nat /\ 2 ^ ByteBits <= Size
  BY BytesAreWords
<1>5. Base \in Nat /\ Base >= 2 /\ Base <= Size
  BY <1>2, <1>3, <1>4 DEF Base
<1> QED BY <1>5, SizeType DEF Bytes, Word, Base

LEMMA FewBits ==
    \/ ByteBits = 1 \/ ByteBits = 2 \/ ByteBits = 4
    \/ ByteBits = 8 \/ ByteBits = 16 \/ ByteBits = 32
<1>1. W \in {4, 8, 16, 32} /\ ByteBits \in 1 .. W
  BY AluAssumption
<1>2. W % ByteBits = 0
  BY BytesAssumption
<1>3. ByteBits \in 1 .. 32
  BY <1>1
<1> QED BY <1>1, <1>2, <1>3

\* Base ^ i for the places i of the bytes of a word.
LEMMA PowersOfBase ==
    /\ 2 ^ 1 = 2 /\ 2 ^ 2 = 4 /\ 2 ^ 4 = 16 /\ 2 ^ 8 = 256 /\ 2 ^ 16 = 65536
    /\ 4 ^ 0 = 1 /\ 4 ^ 1 = 4 /\ 4 ^ 2 = 16 /\ 4 ^ 3 = 64 /\ 4 ^ 4 = 256
    /\ 4 ^ 5 = 1024 /\ 4 ^ 6 = 4096 /\ 4 ^ 7 = 16384 /\ 4 ^ 8 = 65536
    /\ 4 ^ 9 = 262144 /\ 4 ^ 10 = 1048576 /\ 4 ^ 11 = 4194304
    /\ 4 ^ 12 = 16777216 /\ 4 ^ 13 = 67108864 /\ 4 ^ 14 = 268435456
    /\ 4 ^ 15 = 1073741824 /\ 4 ^ 16 = 4294967296
    /\ 16 ^ 0 = 1 /\ 16 ^ 1 = 16 /\ 16 ^ 2 = 256 /\ 16 ^ 3 = 4096
    /\ 16 ^ 4 = 65536 /\ 16 ^ 5 = 1048576 /\ 16 ^ 6 = 16777216
    /\ 16 ^ 7 = 268435456 /\ 16 ^ 8 = 4294967296
    /\ 256 ^ 0 = 1 /\ 256 ^ 1 = 256 /\ 256 ^ 2 = 65536 /\ 256 ^ 3 = 16777216
    /\ 256 ^ 4 = 4294967296
    /\ 65536 ^ 0 = 1 /\ 65536 ^ 1 = 65536 /\ 65536 ^ 2 = 4294967296
    /\ 4294967296 ^ 0 = 1 /\ 4294967296 ^ 1 = 4294967296
  OBVIOUS

LEMMA Place ==
    ASSUME NEW i \in 0 .. WordBytes
    PROVE  ByteBits * i \in 0 .. W /\ Base ^ i = 2 ^ (ByteBits * i)
<1>1. ByteBits * i \in 0 .. W /\ i \in 0 .. 32
  BY WordBytesType
<1> DEFINE P(n) == 2 ^ n
           p(b, n) == (2 ^ b) ^ n
<1>2. CASE ByteBits = 1
  <2>1. p(1, i) = P(i) /\ 1 * i = i
    BY <1>1, PowersOfBase
  <2> QED BY <1>1, <1>2, <2>1 DEF Base
<1>3. CASE ByteBits = 2
  <2>1. i \in 0 .. 16
    BY <1>1, <1>3, WordBytesType
  <2>2. /\ p(2, 0) = P(0) /\ p(2, 1) = P(2) /\ p(2, 2) = P(4)
        /\ p(2, 3) = P(6) /\ p(2, 4) = P(8) /\ p(2, 5) = P(10)
        /\ p(2, 6) = P(12) /\ p(2, 7) = P(14) /\ p(2, 8) = P(16)
        /\ p(2, 9) = P(18) /\ p(2, 10) = P(20) /\ p(2, 11) = P(22)
        /\ p(2, 12) = P(24) /\ p(2, 13) = P(26) /\ p(2, 14) = P(28)
        /\ p(2, 15) = P(30) /\ p(2, 16) = P(32)
    BY PowersOfBase, PowersOfTwo
  <2> HIDE DEF p, P
  <2>3. p(2, i) = P(2 * i)
    BY <2>1, <2>2
  <2> QED BY <1>1, <1>3, <2>3 DEF p, P, Base
<1>4. CASE ByteBits = 4
  <2>1. i \in 0 .. 8
    BY <1>1, <1>4, WordBytesType
  <2>2. /\ p(4, 0) = P(0) /\ p(4, 1) = P(4) /\ p(4, 2) = P(8)
        /\ p(4, 3) = P(12) /\ p(4, 4) = P(16) /\ p(4, 5) = P(20)
        /\ p(4, 6) = P(24) /\ p(4, 7) = P(28) /\ p(4, 8) = P(32)
    BY PowersOfBase, PowersOfTwo
  <2> HIDE DEF p, P
  <2>3. p(4, i) = P(4 * i)
    BY <2>1, <2>2
  <2> QED BY <1>1, <1>4, <2>3 DEF p, P, Base
<1>5. CASE ByteBits = 8
  <2>1. i \in 0 .. 4
    BY <1>1, <1>5, WordBytesType
  <2>2. /\ p(8, 0) = P(0) /\ p(8, 1) = P(8) /\ p(8, 2) = P(16)
        /\ p(8, 3) = P(24) /\ p(8, 4) = P(32)
    BY PowersOfBase, PowersOfTwo
  <2> HIDE DEF p, P
  <2>3. p(8, i) = P(8 * i)
    BY <2>1, <2>2
  <2> QED BY <1>1, <1>5, <2>3 DEF p, P, Base
<1>6. CASE ByteBits = 16
  <2>1. i \in 0 .. 2
    BY <1>1, <1>6, WordBytesType
  <2>2. /\ p(16, 0) = P(0) /\ p(16, 1) = P(16) /\ p(16, 2) = P(32)
    BY PowersOfBase, PowersOfTwo
  <2> HIDE DEF p, P
  <2>3. p(16, i) = P(16 * i)
    BY <2>1, <2>2
  <2> QED BY <1>1, <1>6, <2>3 DEF p, P, Base
<1>7. CASE ByteBits = 32
  <2>1. i \in 0 .. 1
    BY <1>1, <1>7, WordBytesType
  <2>2. /\ p(32, 0) = P(0) /\ p(32, 1) = P(32)
    BY PowersOfBase, PowersOfTwo
  <2> HIDE DEF p, P
  <2>3. p(32, i) = P(32 * i)
    BY <2>1, <2>2
  <2> QED BY <1>1, <1>7, <2>3 DEF p, P, Base
<1> QED BY <1>2, <1>3, <1>4, <1>5, <1>6, <1>7, FewBits

LEMMA PlaceType ==
    ASSUME NEW i \in 0 .. WordBytes
    PROVE  Base ^ i \in Nat \ {0}
<1>1. ByteBits * i \in 0 .. 32
  BY Place, WordBytesType
<1>2. 2 ^ (ByteBits * i) \in Nat \ {0}
  BY <1>1, PowerType
<1> QED BY <1>2, Place

\* The bits of a byte at its place in a word.
LEMMA PlacedByte ==
    ASSUME NEW c \in Bytes, NEW i \in 0 .. WordBytes - 1
    PROVE  /\ c * Base ^ i \in Word
           /\ BitsOf[c * Base ^ i] =
                 {k \in 0 .. W - 1 : k \div ByteBits = i /\ Bit(c, k % ByteBits) = 1}
<1> DEFINE b == ByteBits
           n == b * i
           p == 2 ^ n
           x == c * p
<1>1. i \in 0 .. WordBytes /\ i \in Nat
  BY WordBytesType
<1>2. /\ b \in Nat \ {0} /\ n \in Nat /\ n + b <= W /\ W <= 32
      /\ n \in 0 .. 32 /\ b \in 0 .. 32 /\ W \in 0 .. 32 /\ n + b \in 0 .. W
  <2>1. b * (i + 1) = n + b /\ b * (i + 1) <= b * WordBytes
    BY WordBytesType, <1>1
  <2> HIDE DEF n
  <2>2. n \in Nat
    BY <1>1, Place DEF n
  <2> QED BY <2>1, <2>2, WordBytesType
<1>3. Base ^ i = p /\ p \in Nat \ {0}
  BY <1>1, Place, PlaceType
<1>4. c \in Nat /\ c < 2 ^ b /\ 2 ^ b \in Nat
  BY BaseType, BytesAreWords
<1>5. x \in Word
  <2>1. 2 ^ (n + b) = p * 2 ^ b
    BY <1>2, PowerSum
  <2>2. 2 ^ (n + b) <= Size
    <3>1. n + b \in 0 .. 32 /\ W \in (n + b) .. 32
      BY <1>2
    <3> QED BY <3>1, PowersGrow DEF Size
  <2> DEFINE q == 2 ^ b
  <2> HIDE DEF p, q
  <2>3. c * p < p * q
    BY <1>3, <1>4 DEF q
  <2>4. c * p \in Nat /\ p * q \in Nat
    BY <1>3, <1>4 DEF q
  <2> QED BY <2>1, <2>2, <2>3, <2>4, SizeType DEF q, Word
<1>6. ASSUME NEW k \in 0 .. W - 1
      PROVE  Bit(x, k) = 1 <=> k \div b = i /\ Bit(c, k % b) = 1
  <2>1. \A r \in 0 .. b - 1 : (n + r) \div b = i /\ (n + r) % b = r
    BY <1>1, <1>2, Quotient
  <2>2. k \div b = i => k \in n .. n + b - 1
    <3>1. k = b * (k \div b) + (k % b) /\ k % b \in 0 .. b - 1
      <4>1. k \in Nat /\ b \in Nat \ {0}
        BY <1>2
      <4> QED BY ONLY <4>1, NatDivided
    <3> QED BY <1>2, <3>1
  <2>3. CASE k < n
    <3>1. k \in 0 .. n - 1
      BY <1>2, <2>3
    <3>2. Bit(x, k) = 0
      BY <1>2, <1>4, <3>1, LowBitsClear
    <3>3. k \notin n .. n + b - 1
      BY <1>2, <2>3
    <3> QED BY <2>2, <3>2, <3>3
  <2>4. CASE k >= n
    <3>1. k \in n .. 32 /\ k - n \in Nat
      BY <1>2, <2>4
    <3>2. Bit(x, k) = Bit(c, k - n)
      BY <1>2, <1>4, <3>1, ShiftedBits
    <3>3. CASE k - n < b
      <4>1. k - n \in 0 .. b - 1 /\ n + (k - n) = k
        BY <1>2, <3>1, <3>3
      <4>2. k \div b = i /\ k % b = k - n
        BY <2>1, <4>1
      <4> QED BY <3>2, <4>2
    <3>4. CASE ~ (k - n < b)
      <4>1. k - n \in b .. 32 /\ k \notin n .. n + b - 1
        BY <1>2, <3>1, <3>4
      <4>2. Bit(c, k - n) = 0
        BY <1>2, <1>4, <4>1, HighBitsClear
      <4> QED BY <2>2, <3>2, <4>1, <4>2
    <3> QED BY <3>3, <3>4
  <2> QED BY <1>2, <2>3, <2>4
<1> HIDE DEF x, n, p
<1>7. BitsOf[x] = {k \in 0 .. W - 1 : Bit(x, k) = 1}
  BY <1>5, BitsOfType
<1>8. BitsOf[x] = {k \in 0 .. W - 1 : k \div b = i /\ Bit(c, k % b) = 1}
  BY <1>6, <1>7, Zenon
<1> QED BY <1>3, <1>5, <1>8 DEF x

-----------------------------------------------------------------------------
(***************************************************************************)
(* Sums of bytes.  The byte for the place j is d[j]; the i-th summand is   *)
(* the byte for the place q[i].                                            *)
(***************************************************************************)
Places == 0 .. WordBytes - 1

\* The bits of the bytes for the places p.
BitsAt(d, p) ==
    {k \in 0 .. W - 1 : k \div ByteBits \in p /\ Bit(d[k \div ByteBits], k % ByteBits) = 1}

Sums(f, d, q, I) ==
    f = [s \in SUBSET I |->
            IF s = {} THEN 0
            ELSE d[q[Pick(s)]] * Base ^ q[Pick(s)] + f[s \ {Pick(s)}]]

Image(q, s) == {q[i] : i \in s}

LEMMA AddByte ==
    ASSUME NEW d \in [Places -> Bytes], NEW p \in SUBSET Places, NEW e \in Places,
           e \notin p, NEW x \in Word, BitsOf[x] = BitsAt(d, p)
    PROVE  /\ d[e] * Base ^ e + x \in Word
           /\ BitsOf[d[e] * Base ^ e + x] = BitsAt(d, p \cup {e})
<1> DEFINE y == d[e] * Base ^ e
<1>1. /\ y \in Word
      /\ BitsOf[y] = {k \in 0 .. W - 1 : k \div ByteBits = e /\ Bit(d[e], k % ByteBits) = 1}
  <2>1. d[e] \in Bytes /\ e \in 0 .. WordBytes - 1
    BY DEF Places
  <2> QED BY <2>1, PlacedByte
<1> HIDE DEF y
<1>2. BitsOf[x] \cap BitsOf[y] = {}
  BY <1>1 DEF BitsAt
<1>3. BitsOf[y] \in SUBSET (0 .. W - 1)
  BY <1>1
<1>4. x + y \in Word /\ BitsOf[x + y] = BitsOf[x] \cup BitsOf[y]
  BY <1>1, <1>2, <1>3, DisjointSum
<1>5. BitsOf[x] \cup BitsOf[y] = BitsAt(d, p \cup {e})
  BY <1>1 DEF BitsAt
<1>6. x + y = y + x
  BY <1>1, WordType
<1> QED BY <1>4, <1>5, <1>6 DEF y

LEMMA BytesOfWord ==
    ASSUME NEW d \in [Places -> Bytes], NEW I, IsFiniteSet(I), NEW q \in [I -> Places],
           \A i, j \in I : i # j => q[i] # q[j]
    PROVE  \A s \in SUBSET I : \E x \in Word : BitsOf[x] = BitsAt(d, Image(q, s))
<1> QED BY SomeWord DEF BitsAt

LEMMA SumOfBytes ==
    ASSUME NEW d \in [Places -> Bytes], NEW I, IsFiniteSet(I), NEW q \in [I -> Places],
           \A i, j \in I : i # j => q[i] # q[j]
    PROVE  /\ \E f : Sums(f, d, q, I)
           /\ \A f : Sums(f, d, q, I) =>
                 f[I] \in Word /\ BitsOf[f[I]] = BitsAt(d, Image(q, I))
<1> DEFINE Is(x, s) == x \in Word /\ BitsOf[x] = BitsAt(d, Image(q, s))
           t(i) == d[q[i]] * Base ^ q[i]
\* A sum without its first summand, and with it.
<1>1. ASSUME NEW s \in SUBSET I, NEW e \in s, NEW x, Is(x, s \ {e})
      PROVE  Is(t(e) + x, s)
  <2> DEFINE p == Image(q, s \ {e})
  <2>1. p \in SUBSET Places /\ q[e] \in Places /\ q[e] \notin p /\ p \cup {q[e]} = Image(q, s)
    BY DEF Image
  <2> HIDE DEF p
  <2>2. x \in Word /\ BitsOf[x] = BitsAt(d, p)
    BY <1>1 DEF p
  <2> DEFINE j == q[e]
  <2> HIDE DEF j
  <2>3. /\ d[j] * Base ^ j + x \in Word
        /\ BitsOf[d[j] * Base ^ j + x] = BitsAt(d, p \cup {j})
    <3>1. j \in Places /\ j \notin p /\ p \in SUBSET Places
      BY <2>1 DEF j
    <3>2. d \in [Places -> Bytes] /\ x \in Word /\ BitsOf[x] = BitsAt(d, p)
      BY <2>2
    <3> QED BY ONLY <3>1, <3>2, AddByte, ZenonT(30)
  <2> QED BY <2>1, <2>3 DEF j
<1>2. Is(0, {})
  <2>1. BitsAt(d, Image(q, {})) = {}
    BY DEF BitsAt, Image
  <2> QED BY <2>1, NoBits
<1>3. \A s : \A x, y : Is(x, s) /\ Is(y, s) => x = y
  BY BitsOfInjective
<1> HIDE DEF Is, t
<1>4. \E f : Sums(f, d, q, I)
  <2> DEFINE G(s) == CHOOSE x : Is(x, s)
             g == [s \in SUBSET I |-> G(s)]
  <2>1. \A s \in SUBSET I : Is(G(s), s)
    <3>1. \A s \in SUBSET I : \E x : Is(x, s)
      BY BytesOfWord DEF Is
    <3> QED BY <3>1
  <2>2. ASSUME NEW s \in SUBSET I
        PROVE  G(s) = IF s = {} THEN 0 ELSE t(Pick(s)) + g[s \ {Pick(s)}]
    <3>1. CASE s = {}
      BY <1>2, <1>3, <2>1, <3>1
    <3>2. CASE s # {}
      <4> DEFINE e == Pick(s)
      <4>1. e \in s /\ s \ {e} \in SUBSET I
        BY <3>2, PickType
      <4>2. g[s \ {e}] = G(s \ {e})
        BY <4>1
      <4>3. Is(g[s \ {e}], s \ {e})
        BY <2>1, <4>1, <4>2
      <4> HIDE DEF g, G, e
      <4>4. Is(t(e) + g[s \ {e}], s)
        BY <1>1, <4>1, <4>3
      <4>5. G(s) = t(e) + g[s \ {e}]
        BY <1>3, <2>1, <4>4
      <4> QED BY <3>2, <4>5 DEF e
    <3> QED BY <3>1, <3>2
  <2> HIDE DEF G
  <2>3. Sums(g, d, q, I)
    BY <2>2 DEF Sums, t
  <2> QED BY <2>3
<1>5. ASSUME NEW f, Sums(f, d, q, I) PROVE Is(f[I], I)
  <2>1. \A s \in SUBSET I : f[s] = IF s = {} THEN 0 ELSE t(Pick(s)) + f[s \ {Pick(s)}]
    BY <1>5 DEF Sums, t
  <2> DEFINE B == {s \in SUBSET I : ~ Is(f[s], s)}
  <2>2. ASSUME B # {} PROVE FALSE
    <3>1. PICK s \in B : \A u \in B : \A e \in s : u # s \ {e}
      <4>1. B \in SUBSET (SUBSET I)
        OBVIOUS
      <4> HIDE DEF B
      <4> QED BY <2>2, <4>1, LeastSubset, ZenonT(60)
    <3>2. s \in SUBSET I /\ ~ Is(f[s], s)
      BY <3>1
    <3>3. s # {}
      BY <1>2, <2>1, <3>2
    <3> DEFINE e == Pick(s)
    <3>4. e \in s /\ s \ {e} \in SUBSET I
      BY <3>2, <3>3, PickType
    <3>5. Is(f[s \ {e}], s \ {e})
      BY <3>1, <3>4
    <3>6. f[s] = t(e) + f[s \ {e}]
      BY <2>1, <3>2, <3>3
    <3> HIDE DEF e
    <3>7. Is(t(e) + f[s \ {e}], s)
      BY <1>1, <3>2, <3>4, <3>5
    <3> QED BY <3>2, <3>6, <3>7
  <2> QED BY <2>2
<1> QED BY <1>4, <1>5 DEF Is

\* The byte of x for the place j.
ByteAt(x, j) == (x \div Base ^ j) % Base

LEMMA ByteAtType ==
    ASSUME NEW x \in Int, NEW j \in 0 .. WordBytes
    PROVE  ByteAt(x, j) \in Bytes
<1>1. Base ^ j \in Nat \ {0} /\ Base \in Nat \ {0}
  BY PlaceType, BaseType
<1>2. x \div Base ^ j \in Int
  BY <1>1, Divided
<1> QED BY <1>1, <1>2, Divided DEF ByteAt, Bytes

LEMMA BytesOf ==
    ASSUME NEW x \in Word
    PROVE  LET d == [j \in Places |-> ByteAt(x, j)]
           IN  d \in [Places -> Bytes] /\ BitsOf[x] = BitsAt(d, Places)
<1> DEFINE d == [j \in Places |-> ByteAt(x, j)]
<1>1. x \in Nat /\ x \in Int
  BY WordType
<1>2. \A j \in Places : j \in 0 .. WordBytes
  BY WordBytesType DEF Places
<1>3. d \in [Places -> Bytes]
  BY <1>1, <1>2, ByteAtType
<1>4. ASSUME NEW k \in 0 .. W - 1
      PROVE  k \div ByteBits \in Places /\ Bit(x, k) = Bit(d[k \div ByteBits], k % ByteBits)
  <2> DEFINE j == k \div ByteBits
             r == k % ByteBits
             a == ByteBits * j
  <2>1. /\ k \in Nat /\ k < W /\ W <= 32 /\ ByteBits \in Nat \ {0}
        /\ ByteBits \in 0 .. 32 /\ W = ByteBits * WordBytes /\ WordBytes \in Nat
    BY WordBytesType
  <2>2. j \in Nat /\ r \in 0 .. ByteBits - 1 /\ k = ByteBits * j + r
    BY ONLY <2>1, NatDivided
  <2> HIDE DEF j, r
  <2>3. j \in Places
    <3>1. CASE j >= WordBytes
      <4>1. ByteBits * j >= ByteBits * WordBytes
        BY <2>1, <2>2, <3>1
      <4> QED BY <2>1, <2>2, <4>1
    <3> QED BY <2>1, <2>2, <3>1 DEF Places
  <2>4. Base ^ j = 2 ^ a /\ a \in Nat
    BY <1>2, <2>3, Place
  <2>5. a + r = k /\ r \in Nat /\ a + r <= 32
    BY <2>1, <2>2
  <2> HIDE DEF a
  <2>6. Bit(x \div 2 ^ a, r) = Bit(x, k)
    BY <1>1, <2>4, <2>5, UpperBits
  <2>7. Bit((x \div 2 ^ a) % 2 ^ ByteBits, r) = Bit(x \div 2 ^ a, r)
    <3>1. x \div 2 ^ a \in Nat
      <4>1. 2 ^ a \in Nat \ {0}
        BY <1>2, <2>3, <2>4, PlaceType
      <4> QED BY <1>1, <4>1, NatDivided
    <3> QED BY <2>1, <2>2, <3>1, LowerBits
  <2>8. d[j] = (x \div 2 ^ a) % 2 ^ ByteBits
    BY <2>3, <2>4 DEF ByteAt, Base
  <2> HIDE DEF d
  <2> QED BY <2>3, <2>6, <2>7, <2>8 DEF j, r
<1>5. BitsOf[x] = {k \in 0 .. W - 1 : Bit(x, k) = 1}
  BY BitsOfType
<1> HIDE DEF d
<1>6. BitsOf[x] = BitsAt(d, Places)
  BY <1>4, <1>5 DEF BitsAt
<1> QED BY <1>3, <1>6 DEF d

\* The value of a sum whose summands are the bytes of a word at their places.
LEMMA SumIs ==
    ASSUME NEW d \in [Places -> Bytes], NEW I, IsFiniteSet(I), NEW q \in [I -> Places],
           \A i, j \in I : i # j => q[i] # q[j],
           Image(q, I) = Places,
           NEW g, Sums(g, d, q, I)
    PROVE  g[I] \in Word /\ BitsOf[g[I]] = BitsAt(d, Places)
<1>1. \A f : Sums(f, d, q, I) =>
         f[I] \in Word /\ BitsOf[f[I]] = BitsAt(d, Image(q, I))
  BY SumOfBytes
<1> QED BY <1>1

LEMMA NumberIs ==
    ASSUME NEW big \in BOOLEAN, NEW d \in [Places -> Bytes], NEW s,
           \A i \in 1 .. WordBytes : s[i] = d[IF big THEN WordBytes - i ELSE i - 1]
    PROVE  Number(s, big) \in Word /\ BitsOf[Number(s, big)] = BitsAt(d, Places)
<1> DEFINE I == 1 .. WordBytes
           q == [i \in I |-> IF big THEN WordBytes - i ELSE i - 1]
           A(f) == f = [u \in SUBSET I |->
                           IF u = {} THEN 0
                           ELSE s[Pick(u)] * Weight(Pick(u) - 1, big) + f[u \ {Pick(u)}]]
           g == CHOOSE f : A(f)
<1>1. /\ IsFiniteSet(I) /\ q \in [I -> Places]
      /\ \A i, j \in I : i # j => q[i] # q[j]
  <2>1. IsFiniteSet(I)
    BY WordBytesType, FS_Interval
  <2> QED BY <2>1, WordBytesType DEF Places
<1>2. Image(q, I) = Places
  <2>1. ASSUME NEW j \in Places PROVE \E i \in I : q[i] = j
    <3>1. IF big THEN WordBytes - j \in I /\ q[WordBytes - j] = j
                 ELSE j + 1 \in I /\ q[j + 1] = j
      BY WordBytesType DEF Places
    <3> QED BY <3>1
  <2> QED BY <1>1, <2>1 DEF Image
<1>3. \A f : A(f) <=> Sums(f, d, q, I)
  <2>1. ASSUME NEW i \in I PROVE s[i] * Weight(i - 1, big) = d[q[i]] * Base ^ q[i]
    <3>1. (IF big THEN WordBytes - 1 - (i - 1) ELSE i - 1) = q[i]
      BY WordBytesType
    <3> QED BY <3>1 DEF Weight
  <2>2. \A u \in SUBSET I : u # {} => Pick(u) \in I
    BY PickType
  <2> HIDE DEF I, q
  <2>3. ASSUME NEW f, NEW u \in SUBSET I
        PROVE  (IF u = {} THEN 0
                ELSE s[Pick(u)] * Weight(Pick(u) - 1, big) + f[u \ {Pick(u)}])
               = (IF u = {} THEN 0
                  ELSE d[q[Pick(u)]] * Base ^ q[Pick(u)] + f[u \ {Pick(u)}])
    BY <2>1, <2>2, Zenon
  <2> QED BY <2>3 DEF Sums
<1>4. Number(s, big) = g[I]
  BY DEF Number, MapThenSumSet, MapThenFoldSet, Pick
<1>5. A(g)
  <2>1. \E f : A(f)
    <3> HIDE DEF A, I, q
    <3> QED BY <1>1, <1>3, SumOfBytes
  <2> HIDE DEF A
  <2> QED BY <2>1
<1> HIDE DEF A, I, q, g
<1> QED BY <1>1, <1>2, <1>3, <1>4, <1>5, SumIs

\* A word is the number of its digits.
LEMMA NumberOfDigits ==
    ASSUME NEW big \in BOOLEAN, NEW w \in Word
    PROVE  Number(Digits(w, big), big) = w
<1> DEFINE d == [j \in Places |-> ByteAt(w, j)]
           s == Digits(w, big)
<1>1. d \in [Places -> Bytes] /\ BitsOf[w] = BitsAt(d, Places)
  BY BytesOf
<1>2. \A i \in 1 .. WordBytes : s[i] = d[IF big THEN WordBytes - i ELSE i - 1]
  <2>1. ASSUME NEW i \in 1 .. WordBytes
        PROVE  /\ (IF big THEN WordBytes - i ELSE i - 1) \in Places
               /\ (IF big THEN WordBytes - i ELSE i - 1)
                     = (IF big THEN WordBytes - 1 - (i - 1) ELSE i - 1)
    BY WordBytesType DEF Places
  <2> QED BY <2>1 DEF Digits, Weight, ByteAt
<1> HIDE DEF d, s
<1>3. Number(s, big) \in Word /\ BitsOf[Number(s, big)] = BitsAt(d, Places)
  BY <1>1, <1>2, NumberIs
<1> QED BY <1>1, <1>3, BitsOfInjective DEF s

-----------------------------------------------------------------------------
(***************************************************************************)
(* The loops that make a word of bytes.                                    *)
(***************************************************************************)
\* What the loops of read_uint32 make of the pairs of digits of a packet.
LEMMA ReadNumber ==
    ASSUME target \in BOOLEAN, host \in BOOLEAN, NEW data,
           \A i \in 1 .. WordBytes : data[i] \in Bytes
    PROVE  read_uint32(data) \in Word /\ read_uint32(data) = Number(data, target)
<1> DEFINE d == [j \in Places |-> data[IF target THEN WordBytes - j ELSE j + 1]]
           q == [i \in Places |-> IF host THEN WordBytes - 1 - i ELSE i]
           A(f) == f = [u \in SUBSET Places |->
                           IF u = {} THEN 0
                           ELSE data[Pair(Pick(u))] * HostWeight(Pick(u)) + f[u \ {Pick(u)}]]
           g == CHOOSE f : A(f)
<1>1. d \in [Places -> Bytes]
  BY WordBytesType DEF Places
<1>2. /\ IsFiniteSet(Places) /\ q \in [Places -> Places]
      /\ \A i, j \in Places : i # j => q[i] # q[j]
  <2>1. IsFiniteSet(Places)
    BY WordBytesType, FS_Interval DEF Places
  <2> QED BY <2>1, WordBytesType DEF Places
<1>3. Image(q, Places) = Places
  <2>1. ASSUME NEW j \in Places PROVE \E i \in Places : q[i] = j
    <3>1. IF host THEN WordBytes - 1 - j \in Places /\ q[WordBytes - 1 - j] = j
                  ELSE j \in Places /\ q[j] = j
      BY WordBytesType DEF Places
    <3> QED BY <3>1
  <2> QED BY <1>2, <2>1 DEF Image
<1>4. \A f : A(f) <=> Sums(f, d, q, Places)
  <2>1. ASSUME NEW i \in Places PROVE data[Pair(i)] * HostWeight(i) = d[q[i]] * Base ^ q[i]
    <3>1. HostWeight(i) = Base ^ q[i]
      BY DEF HostWeight
    <3>2. q[i] \in Places
      BY <1>2
    <3>3. Pair(i) = IF target THEN WordBytes - q[i] ELSE q[i] + 1
      BY WordBytesType DEF Pair, Places
    <3> HIDE DEF q
    <3> QED BY <3>1, <3>2, <3>3
  <2>2. \A u \in SUBSET Places : u # {} => Pick(u) \in Places
    BY PickType
  <2> HIDE DEF d, q
  <2>3. ASSUME NEW f, NEW u \in SUBSET Places
        PROVE  (IF u = {} THEN 0
                ELSE data[Pair(Pick(u))] * HostWeight(Pick(u)) + f[u \ {Pick(u)}])
               = (IF u = {} THEN 0
                  ELSE d[q[Pick(u)]] * Base ^ q[Pick(u)] + f[u \ {Pick(u)}])
    BY <2>1, <2>2, Zenon
  <2> QED BY <2>3 DEF Sums
<1>5. read_uint32(data) = g[Places]
  BY DEF read_uint32, MapThenSumSet, MapThenFoldSet, Pick, Places
<1>6. A(g)
  <2>1. \E f : A(f)
    <3> HIDE DEF A, d, q
    <3> QED BY <1>1, <1>2, <1>4, SumOfBytes
  <2> HIDE DEF A
  <2> QED BY <2>1
<1>7. Number(data, target) \in Word /\ BitsOf[Number(data, target)] = BitsAt(d, Places)
  <2>1. \A i \in 1 .. WordBytes : data[i] = d[IF target THEN WordBytes - i ELSE i - 1]
    <3>1. ASSUME NEW i \in 1 .. WordBytes
          PROVE  IF target THEN WordBytes - i \in Places /\ WordBytes - (WordBytes - i) = i
                           ELSE i - 1 \in Places /\ (i - 1) + 1 = i
      BY WordBytesType DEF Places
    <3> QED BY <3>1
  <2> HIDE DEF d
  <2> QED BY <1>1, <2>1, NumberIs
<1> HIDE DEF A, d, q, g
<1>8. g[Places] \in Word /\ BitsOf[g[Places]] = BitsAt(d, Places)
  BY <1>1, <1>2, <1>3, <1>4, <1>6, SumIs
<1> QED BY <1>5, <1>7, <1>8, BitsOfInjective

\* What memory_read_word makes of the bytes of memory.
LEMMA MemoryNumber ==
    ASSUME target \in BOOLEAN, octets \in [Addresses -> Bytes], NEW a \in Nat,
           a + WordBytes <= MemSize
    PROVE  /\ memory_read_word(a) \in Word
           /\ memory_read_word(a) = Number([i \in 1 .. WordBytes |-> octets[a + i - 1]], target)
<1> DEFINE d == [j \in Places |-> octets[a + (IF target THEN WordBytes - 1 - j ELSE j)]]
           q == [i \in Places |-> IF target THEN WordBytes - 1 - i ELSE i]
           s == [i \in 1 .. WordBytes |-> octets[a + i - 1]]
           A(f) == f = [u \in SUBSET Places |->
                           IF u = {} THEN 0
                           ELSE octets[a + Pick(u)]
                                   * Base ^ (IF target THEN WordBytes - 1 - Pick(u) ELSE Pick(u))
                                + f[u \ {Pick(u)}]]
           g == CHOOSE f : A(f)
<1>0. MemSize \in Nat
  BY SizeType, RequestsAssumption
<1>1. d \in [Places -> Bytes]
  BY <1>0, WordBytesType DEF Places, Addresses
<1>2. /\ IsFiniteSet(Places) /\ q \in [Places -> Places]
      /\ \A i, j \in Places : i # j => q[i] # q[j]
  <2>1. IsFiniteSet(Places)
    BY WordBytesType, FS_Interval DEF Places
  <2> QED BY <2>1, WordBytesType DEF Places
<1>3. Image(q, Places) = Places
  <2>1. ASSUME NEW j \in Places PROVE \E i \in Places : q[i] = j
    <3>1. IF target THEN WordBytes - 1 - j \in Places /\ q[WordBytes - 1 - j] = j
                    ELSE j \in Places /\ q[j] = j
      BY WordBytesType DEF Places
    <3> QED BY <3>1
  <2> QED BY <1>2, <2>1 DEF Image
<1>4. \A f : A(f) <=> Sums(f, d, q, Places)
  <2>1. ASSUME NEW i \in Places
        PROVE  octets[a + i] * Base ^ (IF target THEN WordBytes - 1 - i ELSE i)
                  = d[q[i]] * Base ^ q[i]
    <3>1. q[i] \in Places /\ q[i] = IF target THEN WordBytes - 1 - i ELSE i
      BY <1>2
    <3>2. (IF target THEN WordBytes - 1 - q[i] ELSE q[i]) = i
      BY WordBytesType DEF Places
    <3> HIDE DEF q
    <3>3. d[q[i]] = octets[a + i]
      BY <3>1, <3>2
    <3> HIDE DEF d
    <3> QED BY <3>1, <3>3
  <2>2. \A u \in SUBSET Places : u # {} => Pick(u) \in Places
    BY PickType
  <2> HIDE DEF d, q
  <2>3. ASSUME NEW f, NEW u \in SUBSET Places
        PROVE  (IF u = {} THEN 0
                ELSE octets[a + Pick(u)]
                        * Base ^ (IF target THEN WordBytes - 1 - Pick(u) ELSE Pick(u))
                     + f[u \ {Pick(u)}])
               = (IF u = {} THEN 0
                  ELSE d[q[Pick(u)]] * Base ^ q[Pick(u)] + f[u \ {Pick(u)}])
    BY <2>1, <2>2, Zenon
  <2> QED BY <2>3 DEF Sums
<1>5. memory_read_word(a) = g[Places]
  <2>1. CASE target
    BY <2>1 DEF memory_read_word, MapThenSumSet, MapThenFoldSet, Pick, Places
  <2>2. CASE ~ target
    BY <2>2 DEF memory_read_word, MapThenSumSet, MapThenFoldSet, Pick, Places
  <2> QED BY <2>1, <2>2
<1>6. A(g)
  <2>1. \E f : A(f)
    <3> HIDE DEF A, d, q
    <3> QED BY <1>1, <1>2, <1>4, SumOfBytes
  <2> HIDE DEF A
  <2> QED BY <2>1
<1>7. Number(s, target) \in Word /\ BitsOf[Number(s, target)] = BitsAt(d, Places)
  <2>1. ASSUME NEW i \in 1 .. WordBytes
        PROVE  s[i] = d[IF target THEN WordBytes - i ELSE i - 1]
    <3>1. IF target THEN WordBytes - i \in Places /\ WordBytes - 1 - (WordBytes - i) = i - 1
                    ELSE i - 1 \in Places
      BY WordBytesType DEF Places
    <3>2. a + i - 1 = a + (i - 1)
      BY WordBytesType
    <3> QED BY <3>1, <3>2
  <2> HIDE DEF d, s
  <2> QED BY <1>1, <2>1, NumberIs
<1> HIDE DEF A, d, q, g
<1>8. g[Places] \in Word /\ BitsOf[g[Places]] = BitsAt(d, Places)
  BY <1>1, <1>2, <1>3, <1>4, <1>6, SumIs
<1> QED BY <1>5, <1>7, <1>8, BitsOfInjective

-----------------------------------------------------------------------------
(***************************************************************************)
(* The escape of binary data.                                              *)
(***************************************************************************)
LEMMA ByteBitsSet ==
    ASSUME NEW x \in Word
    PROVE  x \in Bytes <=> BitsOf[x] \in SUBSET (0 .. ByteBits - 1)
<1>1. /\ ByteBits \in 0 .. W /\ ByteBits \in 0 .. 32 /\ W \in 4 .. 32 /\ x \in Nat
      /\ BitsOf[x] = {i \in 0 .. W - 1 : Bit(x, i) = 1}
      /\ x \in Bytes <=> x < 2 ^ ByteBits
  <2>1. ByteBits \in 1 .. 32 /\ ByteBits <= W /\ W \in 4 .. 32
    BY WordBytesType, ByteBitsType
  <2>2. x \in Nat /\ 2 ^ ByteBits \in Nat
    BY WordType, BytesAreWords
  <2> QED BY <2>1, <2>2, BitsOfType DEF Bytes, Base
<1>2. ASSUME x < 2 ^ ByteBits PROVE BitsOf[x] \in SUBSET (0 .. ByteBits - 1)
  <2>1. ASSUME NEW k \in ByteBits .. W - 1 PROVE Bit(x, k) = 0
    <3>1. k \in ByteBits .. 32
      BY <1>1
    <3> QED BY <1>1, <1>2, <3>1, HighBitsClear
  <2> QED BY <1>1, <2>1
<1>3. ASSUME BitsOf[x] \in SUBSET (0 .. ByteBits - 1) PROVE x < 2 ^ ByteBits
  <2>1. ASSUME NEW k \in ByteBits .. W - 1 PROVE Bit(x, k) = 0
    <3>1. k \in 0 .. W - 1 /\ k \notin BitsOf[x]
      BY <1>1, <1>3
    <3> QED BY <3>1, BitOne
  <2> QED BY <1>1, <2>1, BelowPower
<1> QED BY <1>1, <1>2, <1>3

\* What is combined twice is as before.
LEMMA XorTwice ==
    ASSUME NEW x \in Bytes, NEW y \in Bytes
    PROVE  Xor(x, y) \in Bytes /\ Xor(Xor(x, y), y) = x
<1> DEFINE X == BitsOf[x]
           Y == BitsOf[y]
           Z == (X \cup Y) \ (X \cap Y)
           z == Xor(x, y)
<1>1. x \in Word /\ y \in Word
  BY BaseType
<1>2. X \in SUBSET (0 .. ByteBits - 1) /\ Y \in SUBSET (0 .. ByteBits - 1)
      /\ X \in SUBSET (0 .. W - 1) /\ Y \in SUBSET (0 .. W - 1)
  BY <1>1, ByteBitsSet, BitsOfType
<1>3. z \in Word /\ BitsOf[z] = Z
  <2>1. Z \in SUBSET (0 .. W - 1)
    BY <1>2
  <2>2. z = WordOf[Z]
    BY DEF Xor
  <2> HIDE DEF Z, z
  <2> QED BY <2>1, <2>2, WordOfBits
<1>4. z \in Bytes
  <2>1. Z \in SUBSET (0 .. ByteBits - 1)
    BY <1>2
  <2> HIDE DEF Z, z
  <2> QED BY <1>3, <2>1, ByteBitsSet
<1>5. Xor(z, y) = x
  <2>1. (Z \cup Y) \ (Z \cap Y) = X
    BY <1>2
  <2>2. Xor(z, y) = WordOf[X]
    <3>1. Xor(z, y) = WordOf[(BitsOf[z] \cup BitsOf[y]) \ (BitsOf[z] \cap BitsOf[y])]
      BY DEF Xor
    <3> HIDE DEF Z, z
    <3> QED BY <1>3, <2>1, <3>1
  <2> QED BY <1>1, <2>2, WordOfBitsOf
<1> HIDE DEF z
<1> QED BY <1>4, <1>5 DEF z

-----------------------------------------------------------------------------
(***************************************************************************)
(* Sequences laid end to end: f[i] is the first i of them.                 *)
(***************************************************************************)
Joined(f, ss, m) == f = [i \in 1 .. m |-> IF i = 1 THEN ss[i] ELSE f[i - 1] \o ss[i]]

LEMMA Concatenation ==
    ASSUME NEW S, NEW s \in Seq(S), NEW t \in Seq(S)
    PROVE  /\ Len(s \o t) = Len(s) + Len(t) /\ Len(s) \in Nat /\ Len(t) \in Nat
           /\ \A x \in 1 .. Len(s) : (s \o t)[x] = s[x]
           /\ \A x \in 1 .. Len(t) : (s \o t)[Len(s) + x] = t[x]
OBVIOUS

LEMMA JoinedExists ==
    ASSUME NEW ss, NEW n \in Nat \ {0}
    PROVE  \E f : Joined(f, ss, n)
<1> DEFINE B == {m \in Nat \ {0} : ~ \E f : Joined(f, ss, m)}
<1>1. ASSUME B # {} PROVE FALSE
  <2>1. PICK m \in B : \A k \in B : m <= k
    <3>1. B \in SUBSET Nat
      OBVIOUS
    <3> HIDE DEF B
    <3> QED BY <1>1, <3>1, LeastElement
  <2>2. m \in Nat \ {0} /\ ~ \E f : Joined(f, ss, m)
    BY <2>1
  <2>3. CASE m = 1
    <3> DEFINE f == [i \in 1 .. 1 |-> ss[1]]
    <3>1. Joined(f, ss, 1)
      BY DEF Joined
    <3> QED BY <2>2, <2>3, <3>1
  <2>4. CASE m # 1
    <3>1. m - 1 \in Nat \ {0} /\ m - 1 \notin B
      BY <2>1, <2>2, <2>4
    <3>2. PICK g : Joined(g, ss, m - 1)
      BY <3>1
    <3> DEFINE f == [i \in 1 .. m |-> IF i < m THEN g[i] ELSE g[m - 1] \o ss[m]]
    <3>3. ASSUME NEW i \in 1 .. m
          PROVE  f[i] = IF i = 1 THEN ss[i] ELSE f[i - 1] \o ss[i]
      <4>1. CASE i < m
        <5>1. i \in 1 .. m - 1
          BY <2>2, <4>1
        <5>2. g[i] = IF i = 1 THEN ss[i] ELSE g[i - 1] \o ss[i]
          BY <3>2, <5>1 DEF Joined
        <5>3. i # 1 => i - 1 \in 1 .. m /\ i - 1 < m
          BY <2>2, <5>1
        <5> QED BY <4>1, <5>2, <5>3
      <4>2. CASE i = m
        <5>1. m - 1 \in 1 .. m /\ m - 1 < m
          BY <2>2, <3>1
        <5>2. f[m - 1] = g[m - 1]
          BY <5>1
        <5>3. m \in 1 .. m /\ ~ (m < m)
          BY <2>2
        <5>4. f[m] = g[m - 1] \o ss[m]
          BY <5>3, Zenon
        <5> HIDE DEF f
        <5> QED BY <2>4, <4>2, <5>2, <5>4
      <4> QED BY <2>2, <4>1, <4>2
    <3>4. f = [i \in 1 .. m |-> IF i = 1 THEN ss[i] ELSE f[i - 1] \o ss[i]]
      <4> DEFINE h == [i \in 1 .. m |-> IF i = 1 THEN ss[i] ELSE f[i - 1] \o ss[i]]
      <4>1. \A i \in 1 .. m : h[i] = f[i]
        BY <3>3
      <4>2. f = [i \in 1 .. m |-> f[i]]
        OBVIOUS
      <4> HIDE DEF f
      <4> QED BY <3>3, <4>2
    <3> QED BY <2>2, <3>4 DEF Joined
  <2> QED BY <2>3, <2>4
<1> QED BY <1>1

Parts(S, ss, n) == n \in Nat \ {0} /\ \A i \in 1 .. n : ss[i] \in Seq(S)

Partial(S, ss, n, f) ==
    \A i \in 1 .. n :
        /\ f[i] \in Seq(S)
        /\ i = 1 => f[i] = ss[1]
        /\ i > 1 => f[i] = f[i - 1] \o ss[i] /\ Len(f[i]) = Len(f[i - 1]) + Len(ss[i])

LEMMA JoinedParts ==
    ASSUME NEW S, NEW ss, NEW n, Parts(S, ss, n), NEW f, Joined(f, ss, n)
    PROVE  Partial(S, ss, n, f)
<1>0. n \in Nat \ {0} /\ \A i \in 1 .. n : ss[i] \in Seq(S)
  BY DEF Parts
<1>1. \A i \in 1 .. n : f[i] = IF i = 1 THEN ss[i] ELSE f[i - 1] \o ss[i]
  BY DEF Joined
<1> DEFINE B == {m \in 1 .. n : f[m] \notin Seq(S)}
<1>2. ASSUME B # {} PROVE FALSE
  <2>1. PICK m \in B : \A k \in B : m <= k
    <3>1. B \in SUBSET Nat
      OBVIOUS
    <3> HIDE DEF B
    <3> QED BY <1>2, <3>1, LeastElement
  <2>2. m \in 1 .. n /\ f[m] \notin Seq(S)
    BY <2>1
  <2>3. m # 1
    BY <1>0, <1>1, <2>2
  <2>4. m - 1 \in 1 .. n /\ m - 1 \notin B
    BY <1>0, <2>1, <2>2, <2>3
  <2>5. f[m - 1] \in Seq(S)
    BY <2>4
  <2>6. f[m] = f[m - 1] \o ss[m] /\ ss[m] \in Seq(S)
    BY <1>0, <1>1, <2>2, <2>3
  <2> QED BY <2>2, <2>5, <2>6
<1>3. \A i \in 1 .. n : f[i] \in Seq(S)
  BY <1>2
<1> HIDE DEF B
<1>4. ASSUME NEW i \in 1 .. n, i > 1
      PROVE  f[i] = f[i - 1] \o ss[i] /\ Len(f[i]) = Len(f[i - 1]) + Len(ss[i])
  <2>1. i - 1 \in 1 .. n /\ i # 1
    BY <1>0, <1>4
  <2>2. f[i] = f[i - 1] \o ss[i]
    BY <1>1, <2>1
  <2>3. f[i - 1] \in Seq(S) /\ ss[i] \in Seq(S)
    BY <1>0, <1>3, <2>1
  <2> QED BY <2>2, <2>3
<1>5. ASSUME NEW i \in 1 .. n, i = 1 PROVE f[i] = ss[1]
  BY <1>1, <1>5
<1> QED BY <1>3, <1>4, <1>5 DEF Partial

\* The first of them are at the beginning of all.
LEMMA JoinedPrefix ==
    ASSUME NEW S, NEW ss, NEW n, Parts(S, ss, n), NEW f, Joined(f, ss, n),
           NEW i \in 1 .. n
    PROVE  \A j \in i .. n : /\ Len(f[i]) <= Len(f[j])
                             /\ \A x \in 1 .. Len(f[i]) : f[j][x] = f[i][x]
<1> DEFINE Q(j) == Len(f[i]) <= Len(f[j]) /\ \A x \in 1 .. Len(f[i]) : f[j][x] = f[i][x]
           B == {j \in i .. n : ~ Q(j)}
<1>0. n \in Nat \ {0} /\ \A j \in 1 .. n : ss[j] \in Seq(S)
  BY DEF Parts
<1>1. \A j \in 1 .. n : /\ f[j] \in Seq(S) /\ Len(f[j]) \in Nat
                        /\ j > 1 => f[j] = f[j - 1] \o ss[j]
                                    /\ Len(f[j]) = Len(f[j - 1]) + Len(ss[j])
  <2>1. \A j \in 1 .. n :
           /\ f[j] \in Seq(S)
           /\ j = 1 => f[j] = ss[1]
           /\ j > 1 => f[j] = f[j - 1] \o ss[j] /\ Len(f[j]) = Len(f[j - 1]) + Len(ss[j])
    <3>1. Partial(S, ss, n, f)
      BY JoinedParts
    <3> QED BY <3>1 DEF Partial
  <2>2. \A s \in Seq(S) : Len(s) \in Nat
    OBVIOUS
  <2> QED BY <2>1, <2>2
<1>2. ASSUME B # {} PROVE FALSE
  <2>1. PICK j \in B : \A k \in B : j <= k
    <3>1. B \in SUBSET Nat
      OBVIOUS
    <3> HIDE DEF B
    <3> QED BY <1>2, <3>1, LeastElement
  <2>2. j \in i .. n /\ ~ Q(j)
    BY <2>1
  <2>3. Q(i)
    BY <1>0, <1>1
  <2>4. j - 1 \in i .. n /\ j - 1 \notin B /\ j - 1 \in 1 .. n /\ j > 1 /\ j \in 1 .. n
    BY <1>0, <2>1, <2>2, <2>3
  <2>5. Q(j - 1)
    BY <2>4
  <2>6. f[j - 1] \in Seq(S) /\ ss[j] \in Seq(S) /\ f[j] = f[j - 1] \o ss[j]
    BY <1>0, <1>1, <2>4
  <2>7. /\ Len(f[j]) >= Len(f[j - 1])
        /\ \A x \in 1 .. Len(f[j - 1]) : f[j][x] = f[j - 1][x]
    <3> DEFINE s == f[j - 1]
               t == ss[j]
    <3>1. s \in Seq(S) /\ t \in Seq(S) /\ f[j] = s \o t
      BY <2>6
    <3> HIDE DEF s, t
    <3>2. /\ Len(s \o t) = Len(s) + Len(t) /\ Len(s) \in Nat /\ Len(t) \in Nat
          /\ \A x \in 1 .. Len(s) : (s \o t)[x] = s[x]
      BY ONLY <3>1, Concatenation
    <3>3. Len(s) <= Len(s \o t)
      BY <3>2
    <3> QED BY <3>1, <3>2, <3>3 DEF s
  <2>8. Len(f[i]) \in Nat /\ Len(f[j - 1]) \in Nat /\ Len(f[j]) \in Nat
    BY <1>0, <1>1, <2>4
  <2> QED BY <2>2, <2>5, <2>7, <2>8
<1> QED BY <1>2

-----------------------------------------------------------------------------
(***************************************************************************)
(* The data of X as they are sent: a byte is one or two.                   *)
(***************************************************************************)
Piece(b) == IF b \in Escaped THEN <<Escape, Xor(b, Flip)>> ELSE <<b>>

LEMMA PieceType ==
    ASSUME NEW b \in Bytes
    PROVE  Piece(b) \in Seq(Bytes) /\ Len(Piece(b)) = IF b \in Escaped THEN 2 ELSE 1
<1>1. Escape \in Bytes /\ Xor(b, Flip) \in Bytes
  BY AccessesAssumption, XorTwice
<1> QED BY <1>1 DEF Piece

\* The last k bytes of data are in the content c, each after p[i] bytes.
Coded(c, data, k) ==
    \E p \in [0 .. k -> 0 .. Len(c)] :
        /\ p[0] = 0 /\ p[k] = Len(c)
        /\ \A i, j \in 0 .. k : i <= j => p[i] <= p[j]
        /\ \A i \in 1 .. k :
              LET b == data[Len(data) - k + i]
              IN  /\ p[i] = p[i - 1] + Len(Piece(b))
                  /\ \A x \in 1 .. Len(Piece(b)) : c[p[i - 1] + x] = Piece(b)[x]

LEMMA EncodedIsCoded ==
    ASSUME NEW data \in Seq(Bytes)
    PROVE  Encoded(data) \in Seq(Bytes) /\ Coded(Encoded(data), data, Len(data))
<1> DEFINE n == Len(data)
           ss == [i \in 1 .. n |-> Piece(data[i])]
           c == Encoded(data)
<1>1. n \in Nat /\ \A i \in 1 .. n : data[i] \in Bytes /\ ss[i] = Piece(data[i])
  OBVIOUS
<1>2. \A i \in 1 .. n : ss[i] \in Seq(Bytes)
  BY <1>1, PieceType
<1>3. ss \in Seq(Seq(Bytes)) /\ Len(ss) = n
  <2>1. ss \in [1 .. n -> Seq(Bytes)]
    BY <1>2
  <2> HIDE DEF ss
  <2> QED BY <1>1, <2>1
<1>4. c = FlattenSeq(ss)
  BY DEF Encoded, Piece
<1> HIDE DEF ss, c
<1>5. CASE n = 0
  <2>1. c = ss
    BY <1>3, <1>4, <1>5 DEF FlattenSeq
  <2>2. c = <<>> /\ c \in Seq(Bytes) /\ Len(c) = 0
    BY <1>3, <1>5, <2>1
  <2> DEFINE p == [i \in 0 .. 0 |-> 0]
  <2>3. /\ p \in [0 .. 0 -> 0 .. Len(c)] /\ p[0] = 0
        /\ \A i, j \in 0 .. 0 : i <= j => p[i] <= p[j]
    BY <2>2
  <2>4. Coded(c, data, 0)
    <3>1. \A i \in 1 .. 0 : FALSE
      OBVIOUS
    <3> HIDE DEF p
    <3> QED BY <2>2, <2>3, <3>1 DEF Coded
  <2> QED BY <1>5, <2>2, <2>4 DEF c
<1>6. CASE n # 0
  <2> DEFINE f == CHOOSE g : Joined(g, ss, n)
  <2>1. n \in Nat \ {0}
    BY <1>1, <1>6
  <2>2. Joined(f, ss, n)
    BY <2>1, JoinedExists
  <2>3. c = f[n]
    BY <1>3, <1>4, <1>6 DEF FlattenSeq, Joined
  <2> HIDE DEF f
  <2>4. Parts(Bytes, ss, n)
    BY <1>2, <2>1 DEF Parts
  <2>5. Partial(Bytes, ss, n, f)
    BY <2>2, <2>4, JoinedParts
  <2>6. \A i \in 1 .. n :
           /\ f[i] \in Seq(Bytes) /\ Len(f[i]) \in Nat
           /\ i = 1 => f[i] = ss[1]
           /\ i > 1 => f[i] = f[i - 1] \o ss[i] /\ Len(f[i]) = Len(f[i - 1]) + Len(ss[i])
    <3>1. \A s \in Seq(Bytes) : Len(s) \in Nat
      OBVIOUS
    <3>2. \A i \in 1 .. n :
             /\ f[i] \in Seq(Bytes)
             /\ i = 1 => f[i] = ss[1]
             /\ i > 1 => f[i] = f[i - 1] \o ss[i] /\ Len(f[i]) = Len(f[i - 1]) + Len(ss[i])
      BY <2>5 DEF Partial
    <3> QED BY <3>1, <3>2
  <2>7. \A i \in 1 .. n : \A j \in i .. n :
           Len(f[i]) <= Len(f[j]) /\ \A x \in 1 .. Len(f[i]) : f[j][x] = f[i][x]
    BY <2>2, <2>4, JoinedPrefix
  <2> DEFINE p == [i \in 0 .. n |-> IF i = 0 THEN 0 ELSE Len(f[i])]
  <2>8. c \in Seq(Bytes) /\ n \in 1 .. n
    <3>1. n \in 1 .. n
      BY <2>1
    <3> HIDE DEF p
    <3> QED BY <2>3, <2>6, <3>1
  <2>9. p \in [0 .. n -> 0 .. Len(c)]
    <3>1. ASSUME NEW i \in 0 .. n PROVE p[i] \in 0 .. Len(c)
      <4>1. CASE i = 0
        <5>1. Len(c) \in Nat
          BY <2>8
        <5> QED BY <4>1, <5>1
      <4>2. CASE i # 0
        <5>1. i \in 1 .. n /\ n \in i .. n
          BY <2>1, <4>2
        <5>2. Len(f[i]) <= Len(f[n]) /\ Len(f[i]) \in Nat /\ Len(f[n]) \in Nat
          BY <2>6, <2>7, <2>8, <5>1
        <5> QED BY <2>3, <4>2, <5>2
      <4> QED BY <4>1, <4>2
    <3> QED BY <3>1
  <2>10. p[0] = 0 /\ p[n] = Len(c) /\ \A i \in 1 .. n : p[i] = Len(f[i])
    BY <2>1, <2>3
  <2>11. \A i, j \in 0 .. n : i <= j => p[i] <= p[j]
    <3>1. ASSUME NEW i \in 0 .. n, NEW j \in 0 .. n, i <= j PROVE p[i] <= p[j]
      <4>1. CASE i = 0
        <5>1. p[j] \in 0 .. Len(c) /\ p[i] = 0
          BY <2>9, <4>1
        <5>2. Len(c) \in Nat
          BY <2>8
        <5> HIDE DEF p
        <5> QED BY <5>1, <5>2
      <4>2. CASE i # 0
        <5>1. i \in 1 .. n /\ j \in 1 .. n /\ j \in i .. n
          BY <2>1, <3>1, <4>2
        <5>2. Len(f[i]) <= Len(f[j])
          BY <2>7, <5>1
        <5> HIDE DEF p
        <5> QED BY <2>10, <5>1, <5>2
      <4> QED BY <4>1, <4>2
    <3> QED BY <3>1
  <2> HIDE DEF p
  <2>12. ASSUME NEW i \in 1 .. n
         PROVE  LET b == data[Len(data) - n + i]
                IN  /\ p[i] = p[i - 1] + Len(Piece(b))
                    /\ \A x \in 1 .. Len(Piece(b)) : c[p[i - 1] + x] = Piece(b)[x]
    <3> DEFINE s == Piece(data[i])
    <3>1. n - n + i = i /\ s \in Seq(Bytes) /\ ss[i] = s /\ n \in i .. n
      BY <1>1, <1>2, <2>1
    <3>2. f[i] \in Seq(Bytes) /\ \A x \in 1 .. Len(f[i]) : c[x] = f[i][x]
      BY <2>3, <2>6, <2>7, <3>1
    <3> HIDE DEF s
    <3>3. CASE i = 1
      <4>1. f[i] = s /\ p[i] = Len(s) /\ p[i - 1] = 0
        <5>1. ss[1] = s /\ i - 1 = 0
          BY <3>1, <3>3
        <5>2. f[i] = ss[1]
          BY <2>6, <3>3
        <5> QED BY <2>10, <5>1, <5>2
      <4>2. \A x \in 1 .. Len(s) : c[0 + x] = s[x]
        BY <3>1, <3>2, <4>1
      <4>3. Len(s) = 0 + Len(s)
        BY <3>1
      <4> QED BY <3>1, <4>1, <4>2, <4>3 DEF s
    <3>4. CASE i # 1
      <4> DEFINE r == f[i - 1]
      <4>1. i - 1 \in 1 .. n /\ i > 1
        BY <2>1, <3>4
      <4>2. /\ r \in Seq(Bytes) /\ f[i] = r \o s
            /\ p[i] = Len(f[i]) /\ p[i - 1] = Len(r)
        BY <2>6, <2>10, <3>1, <4>1
      <4> HIDE DEF r
      <4>3. /\ Len(r \o s) = Len(r) + Len(s) /\ Len(r) \in Nat /\ Len(s) \in Nat
            /\ \A x \in 1 .. Len(s) : (r \o s)[Len(r) + x] = s[x]
        BY ONLY <3>1, <4>2, Concatenation
      <4>4. ASSUME NEW x \in 1 .. Len(s) PROVE c[Len(r) + x] = s[x]
        <5>1. Len(r) + x \in 1 .. Len(f[i])
          BY <4>2, <4>3
        <5> QED BY <3>2, <4>2, <4>3, <5>1
      <4> QED BY <3>1, <4>2, <4>3, <4>4 DEF s
    <3> QED BY <3>3, <3>4
  <2>13. Coded(c, data, n)
    BY <2>9, <2>10, <2>11, <2>12 DEF Coded
  <2> QED BY <2>8, <2>13 DEF c
<1> QED BY <1>5, <1>6

\* One byte is taken from the content.
LEMMA OneDecoded ==
    ASSUME NEW data \in Seq(Bytes), NEW k \in 1 .. Len(data),
           NEW c \in Seq(Bytes), Coded(c, data, k)
    PROVE  LET escaped == c[1] = Escape
               value   == IF escaped THEN Xor(c[2], Flip) ELSE c[1]
               left    == SubSeq(c, IF escaped THEN 3 ELSE 2, Len(c))
           IN  /\ value = data[Len(data) - k + 1]
               /\ left \in Seq(Bytes)
               /\ Coded(left, data, k - 1)
<1> DEFINE n == Len(data)
           b == data[n - k + 1]
           m == Len(Piece(b))
           left == SubSeq(c, m + 1, Len(c))
<1>1. n \in Nat /\ k \in 1 .. n /\ n - k + 1 \in 1 .. n /\ Len(c) \in Nat
  OBVIOUS
<1>2. b \in Bytes
  BY <1>1
<1>3. Piece(b) \in Seq(Bytes) /\ m = IF b \in Escaped THEN 2 ELSE 1
  BY <1>2, PieceType
<1>4. PICK p \in [0 .. k -> 0 .. Len(c)] :
        /\ p[0] = 0 /\ p[k] = Len(c)
        /\ \A i, j \in 0 .. k : i <= j => p[i] <= p[j]
        /\ \A i \in 1 .. k :
              LET e == data[Len(data) - k + i]
              IN  /\ p[i] = p[i - 1] + Len(Piece(e))
                  /\ \A x \in 1 .. Len(Piece(e)) : c[p[i - 1] + x] = Piece(e)[x]
  BY DEF Coded
<1>5. p[1] = m /\ \A x \in 1 .. m : c[x] = Piece(b)[x]
  <2>1. 1 \in 1 .. k /\ 1 - 1 = 0
    BY <1>1
  <2>2. p[1] = 0 + m /\ \A x \in 1 .. m : c[0 + x] = Piece(b)[x]
    BY <1>4, <2>1
  <2> HIDE DEF m, b
  <2>3. \A x \in 1 .. m : 0 + x = x
    BY <1>3
  <2>4. 0 + m = m
    BY <1>3
  <2> QED BY <2>2, <2>3, <2>4
<1> HIDE DEF b, m
<1>6. /\ (c[1] = Escape <=> b \in Escaped)
      /\ (IF c[1] = Escape THEN Xor(c[2], Flip) ELSE c[1]) = b
      /\ m + 1 = IF c[1] = Escape THEN 3 ELSE 2
  <2>1. CASE b \in Escaped
    <3>1. m = 2 /\ Piece(b)[1] = Escape /\ Piece(b)[2] = Xor(b, Flip)
      BY <1>3, <2>1 DEF Piece
    <3>2. c[1] = Escape /\ c[2] = Xor(b, Flip)
      BY <1>5, <3>1
    <3>3. Xor(Xor(b, Flip), Flip) = b
      BY <1>2, AccessesAssumption, XorTwice
    <3> QED BY <2>1, <3>1, <3>2, <3>3
  <2>2. CASE b \notin Escaped
    <3>1. m = 1 /\ Piece(b)[1] = b
      BY <1>3, <2>2 DEF Piece
    <3>2. c[1] = b
      BY <1>5, <3>1
    <3>3. b # Escape
      BY <2>2, AccessesAssumption
    <3> QED BY <2>2, <3>1, <3>2, <3>3
  <2> QED BY <2>1, <2>2
<1>7. m \in Nat /\ m <= Len(c)
  <2>1. p[1] \in 0 .. Len(c)
    BY <1>1, <1>4
  <2> QED BY <1>3, <1>5, <2>1
<1>8. /\ left \in Seq(Bytes) /\ Len(left) = Len(c) - m
      /\ \A x \in 1 .. Len(c) - m : left[x] = c[m + x]
  BY <1>1, <1>7
<1> DEFINE q == [i \in 0 .. k - 1 |-> p[i + 1] - m]
<1>9. \A i \in 0 .. k - 1 : /\ i + 1 \in 1 .. k /\ i + 1 \in 0 .. k
                            /\ p[i + 1] \in m .. Len(c) /\ q[i] = p[i + 1] - m
  <2>1. ASSUME NEW i \in 0 .. k - 1
        PROVE  i + 1 \in 1 .. k /\ i + 1 \in 0 .. k /\ p[i + 1] \in m .. Len(c)
    <3>1. i + 1 \in 1 .. k /\ i + 1 \in 0 .. k /\ 1 \in 0 .. k /\ 1 <= i + 1
      BY <1>1
    <3>2. p[1] <= p[i + 1] /\ p[i + 1] \in 0 .. Len(c)
      BY <1>4, <3>1
    <3> QED BY <1>5, <1>7, <3>1, <3>2
  <2> QED BY <2>1
<1> HIDE DEF left
<1>10. q \in [0 .. k - 1 -> 0 .. Len(left)]
  <2>1. ASSUME NEW i \in 0 .. k - 1 PROVE p[i + 1] - m \in 0 .. Len(left)
    <3>1. p[i + 1] \in m .. Len(c)
      BY <1>9
    <3> QED BY <1>1, <1>7, <1>8, <3>1
  <2> QED BY <2>1
<1> HIDE DEF q
<1>11. q[0] = 0 /\ q[k - 1] = Len(left)
  <2>1. 0 \in 0 .. k - 1 /\ k - 1 \in 0 .. k - 1 /\ 0 + 1 = 1 /\ (k - 1) + 1 = k
    BY <1>1
  <2>2. q[0] = p[1] - m /\ q[k - 1] = p[k] - m
    BY <1>9, <2>1
  <2> QED BY <1>4, <1>5, <1>7, <1>8, <2>2
<1>12. \A i, j \in 0 .. k - 1 : i <= j => q[i] <= q[j]
  <2>1. ASSUME NEW i \in 0 .. k - 1, NEW j \in 0 .. k - 1, i <= j PROVE q[i] <= q[j]
    <3>1. i + 1 <= j + 1 /\ i + 1 \in 0 .. k /\ j + 1 \in 0 .. k
      BY <1>9, <2>1
    <3>2. p[i + 1] <= p[j + 1] /\ p[i + 1] \in m .. Len(c) /\ p[j + 1] \in m .. Len(c)
      BY <1>4, <1>9, <3>1
    <3> QED BY <1>1, <1>7, <1>9, <3>2
  <2> QED BY <2>1
<1>13. ASSUME NEW i \in 1 .. k - 1
       PROVE  LET e == data[Len(data) - (k - 1) + i]
              IN  /\ q[i] = q[i - 1] + Len(Piece(e))
                  /\ \A x \in 1 .. Len(Piece(e)) : left[q[i - 1] + x] = Piece(e)[x]
  <2> DEFINE e == data[n - k + (i + 1)]
  <2>1. /\ n - (k - 1) + i = n - k + (i + 1) /\ (i + 1) - 1 = i
        /\ i \in 0 .. k - 1 /\ i - 1 \in 0 .. k - 1 /\ (i - 1) + 1 = i
        /\ i + 1 \in 1 .. k /\ n - k + (i + 1) \in 1 .. n
    BY <1>1
  <2>2. /\ p[i + 1] = p[i] + Len(Piece(e))
        /\ \A x \in 1 .. Len(Piece(e)) : c[p[i] + x] = Piece(e)[x]
    BY <1>4, <2>1
  <2>3. e \in Bytes
    BY <2>1
  <2> HIDE DEF e
  <2>4. Len(Piece(e)) \in Nat
    BY <2>3, PieceType
  <2>5. /\ q[i] = p[i + 1] - m /\ q[i - 1] = p[i] - m
        /\ p[i] \in m .. Len(c) /\ p[i + 1] \in m .. Len(c)
    BY <1>9, <2>1
  <2>6. q[i] = q[i - 1] + Len(Piece(e))
    BY <1>1, <1>7, <2>2, <2>4, <2>5
  <2>7. ASSUME NEW x \in 1 .. Len(Piece(e)) PROVE left[q[i - 1] + x] = Piece(e)[x]
    <3>1. q[i - 1] + x \in 1 .. Len(c) - m /\ m + (q[i - 1] + x) = p[i] + x
      <4> DEFINE u == q[i - 1]
                 v == q[i]
                 l == Len(Piece(e))
      <4>1. l \in Nat /\ x \in 1 .. l /\ v = u + l
        BY <2>4, <2>6, <2>7
      <4>2. u = p[i] - m /\ v = p[i + 1] - m /\ p[i] \in m .. Len(c) /\ p[i + 1] \in m .. Len(c)
        BY <2>5
      <4> HIDE DEF u, v, l
      <4>3. u \in Nat /\ v \in Nat /\ v <= Len(c) - m
        BY SMTT(30), <1>1, <1>7, <4>2
      <4>4. u + x \in 1 .. Len(c) - m
        <5>1. u + x >= 1 /\ u + x <= v
          BY <4>1, <4>3
        <5> QED BY <1>1, <1>7, <4>1, <4>3, <5>1
      <4>5. m + (u + x) = p[i] + x
        <5> DEFINE w == p[i]
        <5>1. u = w - m /\ w \in Int /\ m \in Int /\ x \in Int
          BY <1>7, <4>1, <4>2
        <5> HIDE DEF w
        <5>2. m + (u + x) = w + x
          BY <5>1
        <5> QED BY <5>2 DEF w
      <4> QED BY <4>4, <4>5 DEF u
    <3> QED BY <1>8, <2>2, <3>1
  <2> QED BY <2>1, <2>6, <2>7 DEF e
<1>14. Coded(left, data, k - 1)
  BY <1>10, <1>11, <1>12, <1>13 DEF Coded
<1> QED BY <1>6, <1>8, <1>14 DEF b, left

-----------------------------------------------------------------------------
(***************************************************************************)
(* The types of what the actions compute.                                  *)
(***************************************************************************)
LEMMA MemSizeType == MemSize \in Nat \ {0} /\ MemSize < Size
  BY SizeType, RequestsAssumption

LEMMA AddressesType ==
    ASSUME NEW a \in Nat, NEW n \in Nat, a + n <= MemSize
    PROVE  \A i \in 0 .. n - 1 : a + i \in Addresses
  BY MemSizeType DEF Addresses

LEMMA DigitsType ==
    ASSUME NEW big \in BOOLEAN, NEW w \in Int
    PROVE  /\ Digits(w, big) \in Seq(Bytes)
           /\ Len(Digits(w, big)) = WordBytes
           /\ \A i \in 1 .. WordBytes : Digits(w, big)[i] \in Bytes
<1>1. ASSUME NEW i \in 1 .. WordBytes PROVE (w \div Weight(i - 1, big)) % Base \in Bytes
  <2>1. (IF big THEN WordBytes - 1 - (i - 1) ELSE i - 1) \in 0 .. WordBytes
    BY WordBytesType
  <2> QED BY <2>1, ByteAtType DEF Weight, ByteAt
<1>2. Digits(w, big) \in [1 .. WordBytes -> Bytes]
  BY <1>1 DEF Digits
<1>3. WordBytes \in Nat
  BY WordBytesType
<1> HIDE DEF Digits
<1>4. Digits(w, big) \in Seq(Bytes) /\ Len(Digits(w, big)) = WordBytes
  BY <1>2, <1>3
<1> QED BY <1>2, <1>4

LEMMA ByteOfInt ==
    ASSUME NEW x \in Int
    PROVE  Byte(x) \in Bytes
  BY ByteType DEF Bytes, Base

LEMMA ReadRegisterType ==
    ASSUME regs \in [Regs -> Word], NEW r \in Regs
    PROVE  arm_read_register(r) \in Word
<1>1. PC \in Regs /\ regs[PC] \in Word /\ regs[r] \in Word
  BY RegsType
<1> QED BY <1>1, NextPcType DEF arm_read_register

LEMMA CarryType ==
    ASSUME cpsr \in Word
    PROVE  CarryFlag \in {0, 1}
<1>1. W - 3 \in 0 .. 32 /\ cpsr \in Int
  BY SizeType, WordType
<1> QED BY <1>1, BitType DEF CarryFlag

LEMMA ScaledType ==
    ASSUME cpsr \in Word, NEW x \in Word, NEW shift \in Shifts, NEW n \in 0 .. W - 1
    PROVE  Scaled(x, shift, n) \in Word
<1>1. /\ n \in 0 .. 32 /\ n \in 0 .. W /\ W - 1 \in 0 .. 32 /\ 1 \in 0 .. 32 /\ x \in Nat
      /\ 0 \in Word
  BY SizeType, WordType DEF Word
<1>2. lsl(x, n) \in Word /\ lsr(x, n) \in Word /\ Signs(x) \in Word /\ ror(x, n) \in Word
  BY <1>1, LslType, LsrType, SignsType, RorType
<1>3. asr(x, n) \in Word
  BY <1>1, AsrType
<1>4. Or(lsl(CarryFlag, W - 1), lsr(x, 1)) \in Word
  <2>1. lsl(CarryFlag, W - 1) \in Word
    BY <1>1, CarryType, LslType
  <2>2. lsr(x, 1) \in Word
    BY <1>1, LsrType
  <2> QED BY <2>1, <2>2, OrBits
<1>5. shift = LSL \/ shift = LSR \/ shift = ASR \/ shift = ROR
  BY DEF Shifts, LSL, LSR, ASR, ROR
<1>6. LSL # LSR /\ LSL # ASR /\ LSL # ROR /\ LSR # ASR /\ LSR # ROR /\ ASR # ROR
  BY DEF LSL, LSR, ASR, ROR
<1>7. CASE shift = LSL
  <2>1. Scaled(x, LSL, n) = lsl(x, n)
    BY <1>6 DEF Scaled
  <2> QED BY <1>2, <1>7, <2>1
<1>8. CASE shift = LSR
  <2>1. Scaled(x, LSR, n) = IF n = 0 THEN 0 ELSE lsr(x, n)
    BY <1>6 DEF Scaled
  <2> QED BY <1>1, <1>2, <1>8, <2>1
<1>9. CASE shift = ASR
  BY <1>2, <1>3, <1>6, <1>9 DEF Scaled
<1>10. CASE shift = ROR
  BY <1>2, <1>4, <1>6, <1>10 DEF Scaled
<1> QED BY <1>5, <1>7, <1>8, <1>9, <1>10

LEMMA EffectiveType ==
    ASSUME base \in Word, index.value \in Word, NEW p, NEW wb, NEW u
    PROVE  Effective(p, wb, u) \subseteq Word
<1>1. base + index.value \in Int /\ base - index.value \in Int
  <2>1. base \in Int /\ index.value \in Int
    BY WordType
  <2> QED BY <2>1
<1>2. Wrap(base + index.value) \in Word /\ Wrap(base - index.value) \in Word
  BY <1>1, WrapType
<1> QED BY <1>2 DEF Effective

LEMMA WriteByteType ==
    ASSUME octets \in [Addresses -> Bytes], NEW a, NEW v \in Int
    PROVE  memory_write_byte(a, v) \in [Addresses -> Bytes]
  BY ByteOfInt DEF memory_write_byte

LEMMA WriteWordType ==
    ASSUME octets \in [Addresses -> Bytes], target \in BOOLEAN, NEW a \in Nat, NEW v \in Word
    PROVE  memory_write_word(a, v) \in [Addresses -> Bytes]
<1>1. ASSUME NEW i \in 0 .. WordBytes PROVE Byte(v \div Base ^ i) \in Bytes
  <2>1. Base ^ i \in Nat \ {0} /\ v \in Nat
    BY PlaceType, WordType
  <2>2. v \div Base ^ i \in Int
    BY <2>1, NatDivided
  <2> QED BY <2>2, ByteOfInt
<1>2. ASSUME NEW x \in Addresses, x \in a .. a + WordBytes - 1
      PROVE  a + WordBytes - 1 - x \in 0 .. WordBytes /\ x - a \in 0 .. WordBytes
  BY <1>2, WordBytesType DEF Addresses
<1> QED BY <1>1, <1>2 DEF memory_write_word

LEMMA DumpType ==
    /\ DumpLength \in Nat /\ WordBytes <= DumpLength
    /\ \A i \in 0 .. NRegs + FloatWords : (i + 1) * WordBytes <= DumpLength
    /\ \A k \in 1 .. DumpLength :
          /\ (k - 1) \div WordBytes \in 0 .. NRegs + FloatWords
          /\ ((k - 1) % WordBytes) + 1 \in 1 .. WordBytes
<1> DEFINE n == NRegs + FloatWords
           b == WordBytes
<1>1. n \in Nat /\ b \in Nat \ {0}
  BY RegsType, RequestsAssumption, WordBytesType
<1>2. DumpLength = (n + 1) * b
  BY DEF DumpLength
<1> HIDE DEF n, b
<1>3. DumpLength \in Nat /\ b <= DumpLength
  <2>1. (n + 1) * b = n * b + b /\ n * b \in Nat
    BY <1>1
  <2> QED BY <1>1, <1>2, <2>1
<1>4. \A i \in 0 .. n : (i + 1) * b <= (n + 1) * b
  BY <1>1
<1>5. ASSUME NEW k \in 1 .. DumpLength
      PROVE  (k - 1) \div b \in 0 .. n /\ ((k - 1) % b) + 1 \in 1 .. b
  <2> DEFINE j == (k - 1) \div b
             r == (k - 1) % b
  <2>1. k - 1 \in Nat /\ k - 1 < (n + 1) * b
    BY <1>2, <1>3
  <2>2. j \in Nat /\ r \in 0 .. b - 1 /\ k - 1 = b * j + r
    BY <1>1, <2>1, NatDivided
  <2> HIDE DEF j, r
  <2>3. b * j < (n + 1) * b
    BY <1>1, <2>1, <2>2
  <2>4. j < n + 1
    BY <1>1, <2>2, <2>3
  <2>5. j \in 0 .. n /\ r + 1 \in 1 .. b
    BY <1>1, <2>2, <2>4
  <2> QED BY <2>5 DEF j, r
<1> QED BY <1>2, <1>3, <1>4, <1>5 DEF n, b

\* A dump is bytes, some of which are not there.
LEMMA DumpBytes ==
    ASSUME NEW shown, NEW status,
           \A r \in Regs, i \in 1 .. WordBytes : shown[r][i] \in Bytes,
           \A i \in 1 .. WordBytes : status[i] \in Bytes
    PROVE  /\ Dump(shown, status) \in Seq(0 .. Base)
           /\ Len(Dump(shown, status)) = DumpLength
<1>1. Bytes \subseteq 0 .. Base /\ NotImplemented \in 0 .. Base
  BY BaseType DEF Bytes, NotImplemented
<1>2. ASSUME NEW k \in 1 .. DumpLength PROVE Dump(shown, status)[k] \in 0 .. Base
  <2>1. ((k - 1) % WordBytes) + 1 \in 1 .. WordBytes
    BY DumpType
  <2> QED BY <1>1, <2>1 DEF Dump
<1> DEFINE S == 0 .. Base
           d == Dump(shown, status)
<1>3. d \in [1 .. DumpLength -> S]
  BY <1>2 DEF Dump
<1>4. DumpLength \in Nat
  BY DumpType
<1> HIDE DEF S, d
<1>5. d \in Seq(S) /\ Len(d) = DumpLength
  BY <1>3, <1>4
<1> QED BY <1>5 DEF S, d

-----------------------------------------------------------------------------
(***************************************************************************)
(* What the handlers compute, as the store of bytes has it.                *)
(***************************************************************************)
\* What the debugger writes is read back, whatever the order of the host.
THEOREM ReadsBack ==
    ASSUME target \in BOOLEAN, host \in BOOLEAN, NEW w \in Word
    PROVE  read_uint32(Digits(w, target)) = w
<1>1. w \in Int
  BY WordType
<1>2. \A i \in 1 .. WordBytes : Digits(w, target)[i] \in Bytes
  BY <1>1, DigitsType
<1>3. read_uint32(Digits(w, target)) = Number(Digits(w, target), target)
  BY <1>2, ReadNumber
<1> QED BY <1>3, NumberOfDigits

\* The words of the packet of G.
LEMMA WordOfDump ==
    ASSUME target \in BOOLEAN, host \in BOOLEAN, NEW shown, NEW status,
           NEW w \in Word, NEW i \in 0 .. NRegs + FloatWords,
           (IF i \in Regs THEN shown[i] ELSE status) = Digits(w, target),
           i \in Regs \/ i = NRegs + FloatWords,
           \A r \in Regs, k \in 1 .. WordBytes : shown[r][k] \in Bytes,
           \A k \in 1 .. WordBytes : status[k] \in Bytes
    PROVE  WordAt(Dump(shown, status), i) = w
<1> DEFINE data == Dump(shown, status)
           b == WordBytes
           s == SubSeq(data, i * b + 1, (i + 1) * b)
           q == Digits(w, target)
<1>1. data \in Seq(0 .. Base) /\ Len(data) = DumpLength
  BY DumpBytes
<1>2. /\ b \in Nat \ {0} /\ i \in Nat /\ i * b \in Nat /\ (i + 1) * b = i * b + b
      /\ i * b + b <= DumpLength /\ DumpLength \in Nat
  <2>1. b \in Nat \ {0} /\ i \in Nat
    BY WordBytesType, RegsType, RequestsAssumption
  <2>2. (i + 1) * b <= DumpLength /\ DumpLength \in Nat
    BY DumpType
  <2> HIDE DEF b
  <2>3. i * b \in Nat /\ (i + 1) * b = i * b + b
    BY <2>1
  <2> QED BY <2>1, <2>2, <2>3
<1>3. \A k \in 1 .. b : q[k] \in Bytes
  <2>1. w \in Int
    BY WordType
  <2> QED BY <2>1, DigitsType
<1>4. ASSUME NEW k \in 1 .. b PROVE s[k] = q[k]
  <2> DEFINE o == i * b
  <2>1. s[k] = data[o + k]
    <3> HIDE DEF data, b
    <3>1. o \in Nat /\ s = SubSeq(data, o + 1, o + b) /\ o + b <= Len(data)
      BY <1>1, <1>2
    <3> HIDE DEF o, s
    <3>2. s[k] = data[(o + 1) + k - 1]
      BY <1>1, <1>2, <3>1
    <3>3. (o + 1) + k - 1 = o + k
      BY <1>2, <3>1
    <3> QED BY <3>2, <3>3
  <2>2. (o + k - 1) \div b = i /\ ((o + k - 1) % b) + 1 = k /\ o + k \in 1 .. DumpLength
    <3>1. o + k - 1 = b * i + (k - 1) /\ k - 1 \in 0 .. b - 1 /\ i \in Int
      BY <1>2
    <3>2. (b * i + (k - 1)) \div b = i /\ (b * i + (k - 1)) % b = k - 1
      BY <1>2, <3>1, Quotient
    <3>3. o + k \in 1 .. DumpLength
      <4> HIDE DEF b
      <4>1. o \in Nat /\ o + b <= DumpLength
        BY <1>2
      <4> HIDE DEF o
      <4> QED BY <1>2, <4>1
    <3>4. (k - 1) + 1 = k
      BY <1>2
    <3> HIDE DEF o, b
    <3> QED BY <3>1, <3>2, <3>3, <3>4
  <2>3. data[o + k] = IF i \in Regs THEN shown[i][k]
                      ELSE IF i < NRegs + FloatWords THEN NotImplemented ELSE status[k]
    <3> DEFINE e == o + k
    <3>1. e \in 1 .. DumpLength /\ (e - 1) \div WordBytes = i /\ ((e - 1) % WordBytes) + 1 = k
      <4>1. o \in Int /\ k \in Int
        BY <1>2
      <4> HIDE DEF o
      <4>2. e - 1 = o + k - 1
        BY <4>1
      <4> HIDE DEF e
      <4> QED BY <2>2, <4>2 DEF e
    <3> HIDE DEF e
    <3>2. data[e] = IF i \in Regs THEN shown[i][k]
                    ELSE IF i < NRegs + FloatWords THEN NotImplemented ELSE status[k]
      BY <3>1 DEF Dump
    <3> QED BY <3>2 DEF e
  <2>4. i = NRegs + FloatWords => ~ (i < NRegs + FloatWords)
    BY RegsType, RequestsAssumption
  <2> HIDE DEF o, data, q, s
  <2>5. data[o + k] = IF i \in Regs THEN shown[i][k] ELSE status[k]
    BY <2>3, <2>4
  <2> QED BY <2>1, <2>5 DEF q
<1>5. s \in Seq(0 .. Base) /\ Len(s) = b
  <2> DEFINE S == 0 .. Base
             m == i * b
  <2> HIDE DEF data, S, b
  <2>1. data \in Seq(S) /\ Len(data) = DumpLength
    BY <1>1 DEF S
  <2>2. s = SubSeq(data, m + 1, m + b) /\ m \in Nat /\ m + b <= Len(data)
    BY <1>1, <1>2
  <2> HIDE DEF s, m
  <2>3. s \in Seq(S) /\ Len(s) = b
    BY <1>2, <2>1, <2>2
  <2> QED BY <2>3 DEF S
<1>6. s = q
  <2>1. s = [k \in 1 .. b |-> s[k]]
    <3> HIDE DEF s, b
    <3> QED BY <1>5
  <2>2. q = [k \in 1 .. b |-> q[k]]
    BY DEF Digits
  <2> HIDE DEF s, q, b
  <2> QED BY <1>4, <2>1, <2>2
<1> QED BY <1>6, ReadsBack DEF WordAt

\* A register as the debugger sees it.
LEMMA ShownRegister ==
    ASSUME regs \in [Regs -> Word], NEW r \in Regs
    PROVE  ForDebugger(r) = IF r = PC THEN regs[PC] - 2 * Bit(regs[PC], 1) ELSE regs[r]
<1>1. regs[r] \in Word /\ regs[r] \in Int
  BY WordType
<1>2. CASE r = PC
  BY <1>1, <1>2, PcLessFour DEF ForDebugger, arm_read_register
<1>3. CASE r # PC
  <2>1. ForDebugger(r) = Wrap(regs[r] - 0)
    BY <1>3 DEF ForDebugger, arm_read_register
  <2>2. regs[r] - 0 = regs[r]
    BY <1>1
  <2> QED BY <1>1, <1>3, <2>1, <2>2, WrapOfWord
<1> QED BY <1>2, <1>3

LEMMA ShownType ==
    ASSUME regs \in [Regs -> Word], NEW r \in Regs
    PROVE  ForDebugger(r) \in Word
<1>1. arm_read_register(r) \in Word
  BY ReadRegisterType
<1>2. arm_read_register(r) - (IF r = PC THEN 4 ELSE 0) \in Int
  BY <1>1, WordType
<1> QED BY <1>2, WrapType DEF ForDebugger

\* A word is stored as its bytes.
LEMMA WordStored ==
    ASSUME target \in BOOLEAN, NEW a \in Nat, NEW v \in Word
    PROVE  memory_write_word(a, v) =
              [x \in Addresses |-> IF x >= a /\ x < a + Len(Digits(v, target))
                                   THEN Digits(v, target)[x - a + 1] ELSE octets[x]]
<1>1. v \in Int /\ WordBytes \in Nat /\ Len(Digits(v, target)) = WordBytes
  BY WordType, DigitsType, WordBytesType
<1>2. ASSUME NEW x \in Addresses, x \in a .. a + WordBytes - 1
      PROVE  (IF target THEN Byte(v \div Base ^ (a + WordBytes - 1 - x))
              ELSE Byte(v \div Base ^ (x - a))) = Digits(v, target)[x - a + 1]
  <2>1. x - a + 1 \in 1 .. WordBytes /\ (x - a + 1) - 1 = x - a
        /\ WordBytes - 1 - ((x - a + 1) - 1) = a + WordBytes - 1 - x
    BY <1>1, <1>2 DEF Addresses
  <2>2. Digits(v, target)[x - a + 1] = (v \div Weight((x - a + 1) - 1, target)) % Base
    BY <2>1 DEF Digits
  <2>3. Weight((x - a + 1) - 1, target) = IF target THEN Base ^ (a + WordBytes - 1 - x)
                                        ELSE Base ^ (x - a)
    BY <2>1 DEF Weight
  <2> QED BY <2>2, <2>3 DEF Byte, Base
<1>3. ASSUME NEW x \in Addresses
      PROVE  x \in a .. a + WordBytes - 1 <=> x >= a /\ x < a + Len(Digits(v, target))
  BY <1>1 DEF Addresses
<1> QED BY <1>2, <1>3 DEF memory_write_word

-----------------------------------------------------------------------------
(***************************************************************************)
(* What is asked for, and how much of it is done.                          *)
(***************************************************************************)
Replies == [kind : {"none", "bytes", "OK", "E02"}, bytes : Seq(0 .. Base)]

\* An offset is that of its encoding until the address is computed.
Computed ==
    at = "address" /\ index.class # "none" =>
        index.value = Scaled(index.x, index.shift, index.amount)

\* A program in the middle of an instruction is not asked for anything, memory
\* changes in the middle of a command only for X, and the packet is empty.
Busy ==
    /\ at \in {"index", "address", "transfer"} => request = NoRequest
    /\ at \notin {"write", "undefined"} => before = octets
    /\ at \notin {"read", "undefined"} => packet = <<>>

Reading ==
    at = "read" =>
        /\ request.op = "m"
        /\ size \in 0 .. request.n
        /\ address = request.a + (request.n - size)
        /\ size < request.n => address <= MemSize
        /\ packet = [i \in 1 .. request.n - size |-> octets[request.a + i - 1]]

\* The bytes done are in memory, the others are still in the content.
Writing ==
    at = "write" =>
        /\ request.op = "X"
        /\ request.a < MemSize
        /\ size \in 0 .. Len(request.data)
        /\ address = request.a + (Len(request.data) - size)
        /\ address <= MemSize
        /\ Coded(content, request.data, size)
        /\ octets = [x \in Addresses |-> IF x >= request.a /\ x < address
                                         THEN request.data[x - request.a + 1]
                                         ELSE before[x]]

IInv == TypeOK /\ Computed /\ Busy /\ Reading /\ Writing /\ StopsOnlyWhenAsked

LEMMA RequestTypes ==
    ASSUME IsRequest(request)
    PROVE  /\ request.op = "m" => request.a \in Nat /\ request.a \in Word /\ request.n \in Nat
           /\ request.op = "X" => request.a \in Nat /\ request.a \in Word
                                  /\ request.data \in Seq(Bytes)
           /\ request.op \in {"p", "P"} => request.r \in Nat
           /\ request.op = "P" => request.w \in Word
           /\ request.op = "G" => request.regs \in [Regs -> Word] /\ request.cpsr \in Word
<1>1. \A x \in Word : x \in Nat
  BY WordType
<1> HIDE DEF Word
<1> QED BY <1>1 DEF IsRequest, NoRequest

LEMMA NoRequestType == IsRequest(NoRequest) /\ NoRequest.op = "none"
  BY DEF IsRequest, NoRequest

LEMMA NoIndexType ==
    /\ 0 \in Word
    /\ NoIndex \in [class : {"none", "immediate", "register", "scaled"}, x : Word,
                    shift : Shifts, amount : 0 .. W - 1, value : Word]
    /\ NoIndex.class = "none"
<1>1. 0 \in Word /\ 0 \in 0 .. W - 1 /\ LSL \in Shifts
  BY SizeType DEF Word, Shifts, LSL, ROR
<1> QED BY <1>1 DEF NoIndex

\* The program between two instructions, the debugger between two commands.
LEMMA Resting ==
    ASSUME TypeOK, octets' \in [Addresses -> Bytes], before' = octets',
           regs' \in [Regs -> Word], cpsr' \in Word,
           at' = "idle", address' \in Word, IsRequest(request'),
           content' \in Seq(Bytes), size' \in Nat, packet' = <<>>,
           reply' \in Replies, UNCHANGED <<machine, instruction>>, ops' \in 0 .. MaxOps
    PROVE  IInv'
<1>1. TypeOK'
  BY DEF TypeOK, Replies, machine, instruction
<1>2. Computed' /\ Busy' /\ Reading' /\ Writing' /\ StopsOnlyWhenAsked'
  BY DEF Computed, Busy, Reading, Writing, StopsOnlyWhenAsked
<1> QED BY <1>1, <1>2 DEF IInv

LEMMA InitIInv == Init => IInv
<1> SUFFICES ASSUME Init PROVE IInv
  OBVIOUS
<1>1. cpsr \in Word
  <2> DEFINE p == 2 ^ (W - 3)
  <2>1. W - 3 \in 0 .. 31 /\ W - 3 \in 0 .. 32 /\ W \in (W - 3 + 1) .. 32
    BY SizeType
  <2>2. p \in Nat \ {0} /\ \E k \in Nat \ {0} : Size = p * (2 * k)
    BY <2>1, PowerType, GreaterPower DEF Size
  <2> HIDE DEF p
  <2>4. p \in Nat /\ p < Size
    BY <2>2
  <2>3. 2 ^ (W - 3) \in Word
    BY <2>4, SizeType DEF p, Word
  <2> QED BY <2>3, NoIndexType DEF Init
<1>2. regs \in [Regs -> Word] /\ octets \in [Addresses -> Bytes]
  BY AccessesAssumption DEF Init
<1>3. ops \in 0 .. MaxOps
  BY AccessesAssumption DEF Init
<1>4. TypeOK
  BY <1>1, <1>2, <1>3, NoIndexType, NoRequestType DEF Init, TypeOK, NoAnswer
<1>5. Computed /\ Busy /\ Reading /\ Writing /\ StopsOnlyWhenAsked
  BY DEF Init, Computed, Busy, Reading, Writing, StopsOnlyWhenAsked
<1> QED BY <1>4, <1>5 DEF IInv

\* A reply that fits brings the simulator back to rest.
LEMMA SendIInv ==
    ASSUME IInv, NEW kind \in {"bytes", "OK", "E02"}, NEW bytes \in Seq(0 .. Base),
           ~(2 * Len(bytes) + 5 > MaxPacket),
           octets' \in [Addresses -> Bytes], regs' \in [Regs -> Word], cpsr' \in Word,
           Send(kind, bytes)
    PROVE  IInv'
<1>1. [kind |-> kind, bytes |-> bytes] \in Replies
  BY DEF Replies
<1>2. 0 \in Nat /\ 0 \in Word /\ <<>> \in Seq(Bytes) /\ ops \in 0 .. MaxOps /\ TypeOK
  BY NoIndexType DEF IInv, TypeOK
<1>3. /\ before' = octets' /\ at' = "idle" /\ address' = 0 /\ request' = NoRequest
      /\ content' = <<>> /\ size' = 0 /\ packet' = <<>>
      /\ reply' = [kind |-> kind, bytes |-> bytes]
      /\ UNCHANGED <<machine, instruction>> /\ ops' = ops
  BY DEF Send
<1> QED BY <1>1, <1>2, <1>3, NoRequestType, Resting

-----------------------------------------------------------------------------
(***************************************************************************)
(* The packet buffer.                                                      *)
(***************************************************************************)
LEMMA DumpFits ==
    ASSUME NEW bytes, Len(bytes) = DumpLength
    PROVE  ~(2 * Len(bytes) + 5 > MaxPacket)
  BY DumpType, AccessesAssumption

LEMMA WordFits ==
    ASSUME NEW bytes, Len(bytes) = WordBytes
    PROVE  ~(2 * Len(bytes) + 5 > MaxPacket)
  BY WordBytesType, DumpType, AccessesAssumption

LEMMA EmptyFits == <<>> \in Seq(0 .. Base) /\ ~(2 * Len(<<>>) + 5 > MaxPacket)
  BY DumpType, AccessesAssumption

-----------------------------------------------------------------------------
(***************************************************************************)
(* The program.                                                            *)
(***************************************************************************)
LEMMA FetchIInv ==
    ASSUME IInv, NEW rn \in Regs, Fetch(rn)
    PROVE  IInv'
<1>1. TypeOK /\ PC \in Regs
  BY RegsType DEF IInv
<1>2. /\ at = "idle" /\ at' = "index" /\ request = NoRequest /\ ops < MaxOps
      /\ ops' = ops + 1 /\ regs' = [regs EXCEPT ![PC] = arm_read_register(PC)]
      /\ base' = IF rn = PC THEN And(Wrap(regs'[PC] + 4), Not(2)) ELSE regs[rn]
      /\ UNCHANGED <<machine, octets, cpsr, index, address, command, reply>>
  BY DEF Fetch
<1>3. regs' \in [Regs -> Word]
  <2>1. arm_read_register(PC) \in Word /\ regs \in [Regs -> Word]
    BY <1>1, ReadRegisterType DEF TypeOK
  <2> QED BY <1>2, <2>1
<1>4. base' \in Word
  <2>1. regs'[PC] \in Word /\ regs[rn] \in Word
    BY <1>1, <1>3 DEF TypeOK
  <2> QED BY <1>2, <2>1, NextPcType
<1>5. ops' \in 0 .. MaxOps
  BY <1>1, <1>2, AccessesAssumption DEF TypeOK
<1>6. TypeOK'
  BY <1>1, <1>2, <1>3, <1>4, <1>5 DEF TypeOK, machine, command
<1>7. Computed' /\ Busy' /\ Reading' /\ Writing' /\ StopsOnlyWhenAsked'
  BY <1>2 DEF IInv, Computed, Busy, Reading, Writing, StopsOnlyWhenAsked, command
<1> QED BY <1>6, <1>7 DEF IInv

LEMMA IndexedIInv ==
    ASSUME IInv, NEW class \in {"none", "immediate", "register", "scaled"}, NEW x \in Word,
           NEW shift \in Shifts, NEW amount \in 0 .. W - 1, NEW value \in Word,
           class # "none" => value = Scaled(x, shift, amount),
           Indexed(class, x, shift, amount, value)
    PROVE  IInv'
<1> DEFINE o == [class |-> class, x |-> x, shift |-> shift, amount |-> amount,
                 value |-> value]
<1>1. /\ o \in [class : {"none", "immediate", "register", "scaled"}, x : Word,
                shift : Shifts, amount : 0 .. W - 1, value : Word]
      /\ o.class = class /\ o.x = x /\ o.shift = shift /\ o.amount = amount /\ o.value = value
  OBVIOUS
<1>2. /\ at = "index" /\ at' = "address" /\ index' = o
      /\ UNCHANGED <<machine, octets, regs, cpsr, base, address, command, reply, ops>>
  BY DEF Indexed
<1> HIDE DEF o
<1>3. TypeOK /\ TypeOK'
  BY <1>1, <1>2 DEF IInv, TypeOK, machine, command
<1>4. Computed'
  <2>1. Scaled(x, shift, amount)' = Scaled(x, shift, amount)
    BY <1>2 DEF Scaled, CarryFlag
  <2> QED BY <1>1, <1>2, <2>1 DEF Computed, Scaled, CarryFlag
<1>5. Busy' /\ Reading' /\ Writing' /\ StopsOnlyWhenAsked'
  BY <1>2 DEF IInv, Busy, Reading, Writing, StopsOnlyWhenAsked, command
<1> QED BY <1>3, <1>4, <1>5 DEF IInv

LEMMA AddressIInv ==
    ASSUME IInv, NEW p, NEW wb, NEW u, Address(p, wb, u)
    PROVE  IInv'
<1>1. /\ at = "address" /\ at' = "transfer" /\ address' \in Effective(p, wb, u)
      /\ base' = 0 /\ index' = NoIndex
      /\ UNCHANGED <<machine, octets, regs, cpsr, command, reply, ops>>
  BY DEF Address
<1>2. TypeOK
  BY DEF IInv
<1>3. address' \in Word
  <2>1. base \in Word /\ index.value \in Word
    BY <1>2 DEF TypeOK
  <2> QED BY <1>1, <2>1, EffectiveType
<1>4. TypeOK'
  BY <1>1, <1>2, <1>3, NoIndexType DEF TypeOK, machine, command
<1>5. Computed' /\ Busy' /\ Reading' /\ Writing' /\ StopsOnlyWhenAsked'
  BY <1>1 DEF IInv, Computed, Busy, Reading, Writing, StopsOnlyWhenAsked, command
<1> QED BY <1>4, <1>5 DEF IInv

\* An access past the end of the memory, of the program or of the debugger.
LEMMA UndefinedIInv ==
    ASSUME IInv, Undefined, StopsOnlyWhenAsked'
    PROVE  IInv'
<1>1. /\ at' = "undefined"
      /\ UNCHANGED <<machine, octets, regs, cpsr, instruction, address, command, reply, ops>>
  BY DEF Undefined
<1>2. TypeOK'
  BY <1>1 DEF IInv, TypeOK, machine, command, instruction
<1>3. Computed' /\ Busy' /\ Reading' /\ Writing'
  BY <1>1 DEF Computed, Busy, Reading, Writing
<1> QED BY <1>2, <1>3 DEF IInv

LEMMA TransferIInv ==
    ASSUME IInv, NEW l \in {0, 1}, NEW rd \in Regs,
           TransferWord(l, rd) \/ TransferByte(l, rd)
    PROVE  IInv'
<1>1. /\ at = "transfer" /\ request = NoRequest /\ before = octets /\ packet = <<>>
      /\ address \in Nat /\ address \in Word /\ 0 \in Word /\ IsRequest(request)
  <2>1. at = "transfer"
    BY DEF TransferWord, TransferByte
  <2>2. \A x \in Word : x \in Nat
    BY WordType
  <2> QED BY <2>1, <2>2, NoIndexType DEF IInv, TypeOK, Busy
<1>2. TypeOK
  BY DEF IInv
<1>3. ASSUME NEW n \in {1, WordBytes}, ~Allocated(address, n), Undefined PROVE IInv'
  <2>1. request' = NoRequest /\ address' = address /\ at' = "undefined"
    BY <1>1, <1>3 DEF Undefined, command
  <2>2. ~Allocated(address, n)'
    BY <1>3, <2>1 DEF Allocated
  <2>3. StopsOnlyWhenAsked'
    BY <2>1, <2>2 DEF StopsOnlyWhenAsked
  <2> QED BY <1>3, <2>3, UndefinedIInv
<1>4. ASSUME NEW value \in Word, Load(rd, value) PROVE IInv'
  <2>1. /\ regs' = [regs EXCEPT ![rd] = value] /\ at' = "idle" /\ address' = 0
        /\ UNCHANGED <<machine, octets, cpsr, instruction, command, reply, ops>>
    BY <1>4 DEF Load
  <2>2. regs' \in [Regs -> Word]
    BY <1>2, <2>1 DEF TypeOK
  <2> QED BY <1>1, <1>2, <2>1, <2>2, Resting DEF TypeOK, Replies, command
<1>5. ASSUME NEW m \in [Addresses -> Bytes], Store(m) PROVE IInv'
  <2>1. /\ octets' = m /\ before' = m /\ at' = "idle" /\ address' = 0
        /\ UNCHANGED <<machine, regs, cpsr, instruction, request, content, size, packet,
                       reply, ops>>
    BY <1>5 DEF Store
  <2> QED BY <1>1, <1>2, <2>1, Resting DEF TypeOK, Replies
<1>6. /\ target \in BOOLEAN /\ octets \in [Addresses -> Bytes]
      /\ arm_read_register(rd) \in Word /\ arm_read_register(rd) \in Int
  BY <1>2, ReadRegisterType, WordType DEF TypeOK
<1>7. CASE TransferWord(l, rd)
  <2>1. CASE ~Allocated(address, WordBytes)
    BY <1>3, <1>7, <2>1 DEF TransferWord
  <2>2. CASE Allocated(address, WordBytes)
    <3>1. memory_read_word(address) \in Word
      BY <1>1, <1>6, <2>2, MemoryNumber DEF Allocated
    <3>2. memory_write_word(address, arm_read_register(rd)) \in [Addresses -> Bytes]
      BY <1>1, <1>6, WriteWordType
    <3> QED BY <1>4, <1>5, <1>7, <2>2, <3>1, <3>2 DEF TransferWord
  <2> QED BY <2>1, <2>2
<1>8. CASE TransferByte(l, rd)
  <2>1. CASE ~Allocated(address, 1)
    BY <1>3, <1>8, <2>1 DEF TransferByte
  <2>2. CASE Allocated(address, 1)
    <3>1. octets[address] \in Word
      <4>1. address + 0 \in Addresses
        BY <1>1, <2>2, AddressesType DEF Allocated
      <4>2. address + 0 = address
        BY <1>1
      <4> QED BY <1>6, <4>1, <4>2, BaseType
    <3>2. memory_write_byte(address, arm_read_register(rd)) \in [Addresses -> Bytes]
      BY <1>6, WriteByteType
    <3> QED BY <1>4, <1>5, <1>8, <2>2, <3>1, <3>2 DEF TransferByte
  <2> QED BY <2>1, <2>2
<1> QED BY <1>7, <1>8

LEMMA ProgramIInv == IInv /\ Program => IInv'
<1> SUFFICES ASSUME IInv, Program PROVE IInv'
  OBVIOUS
<1>1. /\ LSL \in Shifts /\ 0 \in 0 .. W - 1 /\ 0 \in Word /\ 0 \in 0 .. 32
      /\ \A x \in Word : Scaled(x, LSL, 0) = x
  <2>1. LSL \in Shifts /\ 0 \in 0 .. W - 1 /\ 0 \in Word
    BY SizeType, NoIndexType DEF Shifts, LSL, ROR
  <2>2. ASSUME NEW x \in Word PROVE Scaled(x, LSL, 0) = x
    <3>1. Scaled(x, LSL, 0) = Wrap(x * 2 ^ 0) /\ 2 ^ 0 = 1
      <4>1. Scaled(x, LSL, 0) = lsl(x, 0)
        BY DEF Scaled, LSL, LSR, ASR, ROR
      <4> QED BY <4>1, PowersOfTwo DEF lsl
    <3>2. x * 1 = x
      BY WordType
    <3> QED BY <3>1, <3>2, WrapOfWord
  <2> QED BY <2>1, <2>2
<1>2. TypeOK
  BY DEF IInv
<1>3. \A rm \in Regs : arm_read_register(rm) \in Word
  BY <1>2, ReadRegisterType DEF TypeOK
<1>4. CASE \E rn \in Regs : Fetch(rn)
  BY <1>4, FetchIInv
<1>5. ASSUME NEW offset \in Offsets, Immediate(offset) PROVE IInv'
  <2>1. offset \in Word
    BY AccessesAssumption
  <2> QED BY <1>1, <1>5, <2>1, IndexedIInv DEF Immediate
<1>6. ASSUME NEW rm \in Regs, Register(rm) PROVE IInv'
  BY <1>1, <1>3, <1>6, IndexedIInv DEF Register
<1>7. ASSUME NEW rm \in Regs, NEW shift \in Shifts, NEW amount \in 0 .. W - 1,
             ScaledRegister(rm, shift, amount)
      PROVE  IInv'
  <2> DEFINE x == arm_read_register(rm)
             z == Scaled(x, shift, amount)
  <2>1. x \in Word
    BY <1>3
  <2>2. z \in Word
    BY <1>2, <2>1, ScaledType DEF TypeOK
  <2>3. Indexed("scaled", x, shift, amount, z)
    BY <1>7 DEF ScaledRegister
  <2> HIDE DEF x
  <2> QED BY <2>1, <2>2, <2>3, IndexedIInv
<1>8. ASSUME NoClass PROVE IInv'
  BY <1>1, <1>8, IndexedIInv DEF NoClass
<1>9. CASE \E p, wb, u \in {0, 1} : Address(p, wb, u)
  BY <1>9, AddressIInv
<1>10. CASE \E l \in {0, 1}, rd \in Regs : TransferWord(l, rd) \/ TransferByte(l, rd)
  BY <1>10, TransferIInv
<1> QED BY <1>4, <1>5, <1>6, <1>7, <1>8, <1>9, <1>10 DEF Program

-----------------------------------------------------------------------------
(***************************************************************************)
(* The debugger.                                                           *)
(***************************************************************************)
\* A register that exists is not refused, though perhaps another one is read.
LEMMA AtoiOfRegister ==
    ASSUME NEW r \in Regs
    PROVE  atoi(r) \in Regs
<1>1. r \div NRegs = 0 /\ r % NRegs = r
  BY RegsType DEF Regs
<1> QED BY <1>1, RegsType, RequestsAssumption DEF atoi, Regs

\* What write_uint32 puts in a packet are the bytes of the word in the order of
\* the target, whatever the order of the host (gdb_protocol.c:108).
THEOREM WritesInTargetOrder ==
    ASSUME target \in BOOLEAN, host \in BOOLEAN, NEW v
    PROVE  write_uint32(v) = Digits(v, target)
<1>1. ASSUME NEW k \in 1 .. WordBytes
      PROVE  LET i == CHOOSE j \in 0 .. WordBytes - 1 : Pair(j) = k
             IN  HostWeight(i) = Weight(k - 1, target)
  <2> DEFINE i == CHOOSE j \in 0 .. WordBytes - 1 : Pair(j) = k
  <2>1. \E j \in 0 .. WordBytes - 1 : Pair(j) = k
    <3>1. CASE host = target
      <4>1. k - 1 \in 0 .. WordBytes - 1 /\ Pair(k - 1) = k
        BY <3>1, WordBytesType DEF Pair
      <4> QED BY <4>1
    <3>2. CASE host # target
      <4>1. WordBytes - k \in 0 .. WordBytes - 1 /\ Pair(WordBytes - k) = k
        BY <3>2, WordBytesType DEF Pair
      <4> QED BY <4>1
    <3> QED BY <3>1, <3>2
  <2>2. i \in 0 .. WordBytes - 1 /\ Pair(i) = k
    BY <2>1
  <2> HIDE DEF i
  <2>3. (IF host THEN WordBytes - 1 - i ELSE i)
           = (IF target THEN WordBytes - 1 - (k - 1) ELSE k - 1)
    <3>1. CASE host = target
      BY <2>2, <3>1, WordBytesType DEF Pair
    <3>2. CASE host # target
      BY <2>2, <3>2, WordBytesType DEF Pair
    <3> QED BY <3>1, <3>2
  <2> QED BY <2>3 DEF HostWeight, Weight, i
<1> QED BY <1>1 DEF write_uint32, Digits, Byte, Base

\* What is sent of a register, and of all of them.
LEMMA SentWord ==
    ASSUME target \in BOOLEAN, host \in BOOLEAN, NEW v \in Word
    PROVE  /\ write_uint32(v) \in Seq(0 .. Base) /\ Len(write_uint32(v)) = WordBytes
           /\ \A i \in 1 .. WordBytes : write_uint32(v)[i] \in Bytes
<1>1. v \in Int
  BY WordType
<1> DEFINE d == Digits(v, target)
<1>2. write_uint32(v) = d
  BY WritesInTargetOrder
<1>3. d \in Seq(Bytes) /\ Len(d) = WordBytes /\ \A i \in 1 .. WordBytes : d[i] \in Bytes
  BY <1>1, DigitsType
<1> DEFINE S == 0 .. Base
<1>4. Bytes \subseteq S
  BY BaseType DEF Bytes
<1> HIDE DEF d, S
<1>5. d \in Seq(S)
  BY <1>3, <1>4
<1> QED BY <1>2, <1>3, <1>5 DEF S

LEMMA SentRegisters ==
    ASSUME TypeOK
    PROVE  LET d == Dump([r \in Regs |-> write_uint32(ForDebugger(r))], write_uint32(cpsr))
           IN  d \in Seq(0 .. Base) /\ Len(d) = DumpLength
<1> DEFINE shown == [r \in Regs |-> write_uint32(ForDebugger(r))]
           status == write_uint32(cpsr)
<1>1. ASSUME NEW r \in Regs, NEW i \in 1 .. WordBytes PROVE shown[r][i] \in Bytes
  <2>1. ForDebugger(r) \in Word
    BY ShownType DEF TypeOK
  <2> QED BY <2>1, SentWord DEF TypeOK
<1>2. ASSUME NEW i \in 1 .. WordBytes PROVE status[i] \in Bytes
  BY SentWord DEF TypeOK
<1> HIDE DEF shown, status
<1>3. Dump(shown, status) \in Seq(0 .. Base) /\ Len(Dump(shown, status)) = DumpLength
  BY <1>1, <1>2, DumpBytes
<1> QED BY <1>3 DEF shown, status

\* What is received in G, and in P.
LEMMA ReceivedRegisters ==
    ASSUME TypeOK, request.op = "G"
    PROVE  LET data == Dump([r \in Regs |-> Digits(request.regs[r], target)],
                            Digits(request.cpsr, target))
           IN  /\ [r \in Regs |-> WordAt(data, r)] = request.regs
               /\ WordAt(data, NRegs + FloatWords) = request.cpsr
               /\ request.regs \in [Regs -> Word] /\ request.cpsr \in Word
<1> DEFINE shown == [r \in Regs |-> Digits(request.regs[r], target)]
           status == Digits(request.cpsr, target)
<1>1. request.regs \in [Regs -> Word] /\ request.cpsr \in Word
  BY RequestTypes DEF TypeOK
<1>2. target \in BOOLEAN /\ host \in BOOLEAN
  BY DEF TypeOK
<1>3. ASSUME NEW r \in Regs, NEW i \in 1 .. WordBytes PROVE shown[r][i] \in Bytes
  <2>1. request.regs[r] \in Int
    BY <1>1, WordType
  <2> QED BY <1>2, <2>1, DigitsType
<1>4. ASSUME NEW i \in 1 .. WordBytes PROVE status[i] \in Bytes
  <2>1. request.cpsr \in Int
    BY <1>1, WordType
  <2> QED BY <1>2, <2>1, DigitsType
<1>5. ASSUME NEW r \in Regs PROVE WordAt(Dump(shown, status), r) = request.regs[r]
  <2>1. r \in 0 .. NRegs + FloatWords
    BY RegsType, RequestsAssumption DEF Regs
  <2>2. (IF r \in Regs THEN shown[r] ELSE status) = Digits(request.regs[r], target)
    OBVIOUS
  <2>3. request.regs[r] \in Word
    BY <1>1
  <2> HIDE DEF shown, status
  <2> QED BY <1>2, <1>3, <1>4, <2>1, <2>2, <2>3, WordOfDump
<1>6. WordAt(Dump(shown, status), NRegs + FloatWords) = request.cpsr
  <2> DEFINE i == NRegs + FloatWords
  <2>1. i \in 0 .. NRegs + FloatWords /\ i \notin Regs
    BY RegsType, RequestsAssumption DEF Regs
  <2>2. (IF i \in Regs THEN shown[i] ELSE status) = Digits(request.cpsr, target)
    BY <2>1
  <2>3. i = NRegs + FloatWords
    OBVIOUS
  <2> HIDE DEF shown, status, i
  <2>4. WordAt(Dump(shown, status), i) = request.cpsr
    BY <1>1, <1>2, <1>3, <1>4, <2>1, <2>2, <2>3, WordOfDump
  <2> QED BY <2>4 DEF i
<1> HIDE DEF shown, status
<1>7. [r \in Regs |-> WordAt(Dump(shown, status), r)] = request.regs
  BY <1>1, <1>5
<1> QED BY <1>1, <1>6, <1>7 DEF shown, status

LEMMA ReceivedWord ==
    ASSUME TypeOK, request.op = "P"
    PROVE  read_uint32(Digits(request.w, target)) = request.w /\ request.w \in Word
  BY RequestTypes, ReadsBack DEF TypeOK

LEMMA RegistersIInv ==
    ASSUME IInv,
           \/ read_general_registers \/ write_general_registers
           \/ read_register \/ write_register
    PROVE  IInv'
<1>1. /\ TypeOK /\ target \in BOOLEAN /\ host \in BOOLEAN
      /\ octets \in [Addresses -> Bytes] /\ regs \in [Regs -> Word] /\ cpsr \in Word
  BY DEF IInv, TypeOK
<1>2. CASE read_general_registers
  <2> DEFINE d == Dump([r \in Regs |-> write_uint32(ForDebugger(r))], write_uint32(cpsr))
  <2>1. d \in Seq(0 .. Base) /\ Len(d) = DumpLength
    BY <1>1, SentRegisters
  <2>2. UNCHANGED <<octets, regs, cpsr>> /\ Send("bytes", d)
    BY <1>2 DEF read_general_registers
  <2> HIDE DEF d
  <2> QED BY <1>1, <2>1, <2>2, DumpFits, SendIInv
<1>3. CASE write_general_registers
  <2>1. request.op = "G" /\ UNCHANGED octets /\ Send("OK", <<>>)
    BY <1>3 DEF write_general_registers
  <2>2. regs' = request.regs /\ cpsr' = request.cpsr
        /\ request.regs \in [Regs -> Word] /\ request.cpsr \in Word
    BY <1>1, <1>3, <2>1, ReceivedRegisters DEF write_general_registers
  <2> QED BY <1>1, <2>1, <2>2, EmptyFits, SendIInv
<1>4. ASSUME Abort, at = "idle", request.op \in {"p", "P"}, request.r \notin Regs
      PROVE  IInv'
  <2>1. request.r >= NRegs
    BY <1>1, <1>4, RequestTypes, RegsType DEF TypeOK, Regs
  <2>2. /\ at' = "aborted"
        /\ UNCHANGED <<machine, octets, regs, cpsr, instruction, address, command, reply, ops>>
    BY <1>4 DEF Abort
  <2>3. TypeOK'
    BY <1>1, <2>2 DEF TypeOK, machine, instruction, command
  <2>4. Computed' /\ Busy' /\ Reading' /\ Writing' /\ StopsOnlyWhenAsked'
    BY <1>4, <2>1, <2>2
       DEF IInv, Computed, Busy, Reading, Writing, StopsOnlyWhenAsked, command
  <2> QED BY <2>3, <2>4 DEF IInv
<1>5. CASE read_register
  <2>1. CASE atoi(request.r) \notin Regs
    BY <1>4, <1>5, <2>1, AtoiOfRegister DEF read_register
  <2>2. CASE atoi(request.r) \in Regs
    <3> DEFINE v == ForDebugger(atoi(request.r))
               d == write_uint32(v)
    <3>1. v \in Word
      BY <1>1, <2>2, ShownType
    <3> HIDE DEF v
    <3>2. d \in Seq(0 .. Base) /\ Len(d) = WordBytes
      BY <1>1, <3>1, SentWord
    <3>3. UNCHANGED <<octets, regs, cpsr>> /\ Send("bytes", d)
      BY <1>5, <2>2 DEF read_register, v
    <3> HIDE DEF d
    <3> QED BY <1>1, <3>2, <3>3, WordFits, SendIInv
  <2> QED BY <2>1, <2>2
<1>6. CASE write_register
  <2>1. CASE request.r \notin Regs
    BY <1>4, <1>6, <2>1 DEF write_register
  <2>2. CASE request.r \in Regs
    <3>1. request.w \in Word /\ regs' = [regs EXCEPT ![request.r] = request.w]
          /\ UNCHANGED <<octets, cpsr>> /\ Send("OK", <<>>)
      BY <1>1, <1>6, <2>2, ReceivedWord DEF write_register
    <3>2. regs' \in [Regs -> Word]
      BY <1>1, <3>1
    <3> QED BY <1>1, <3>1, <3>2, EmptyFits, SendIInv
  <2> QED BY <2>1, <2>2
<1> QED BY <1>2, <1>3, <1>5, <1>6

-----------------------------------------------------------------------------
\* Bytes of m, which are read until the packet is complete.
LEMMA ReadMemoryIInv ==
    ASSUME IInv, read_memory \/ ReadByte \/ ReadEnds
    PROVE  IInv'
<1>1. /\ TypeOK /\ octets \in [Addresses -> Bytes] /\ regs \in [Regs -> Word]
      /\ cpsr \in Word /\ packet \in Seq(Bytes) /\ IsRequest(request)
  BY DEF IInv, TypeOK
<1>2. CASE read_memory
  <2>1. /\ at = "idle" /\ request.op = "m" /\ at' = "read"
        /\ address' = request.a /\ size' = request.n
        /\ UNCHANGED <<machine, octets, before, regs, cpsr, instruction, request, content,
                       packet, reply, ops>>
    BY <1>2 DEF read_memory
  <2>2. request.a \in Nat /\ request.a \in Word /\ request.n \in Nat /\ packet = <<>>
    BY <1>1, <2>1, RequestTypes DEF IInv, Busy
  <2>3. TypeOK'
    BY <1>1, <2>1, <2>2 DEF TypeOK, machine, instruction
  <2>4. Reading'
    <3>1. request.n - request.n = 0 /\ request.a + 0 = request.a
      BY <2>2
    <3>2. <<>> = [i \in 1 .. 0 |-> octets[request.a + i - 1]]
      OBVIOUS
    <3> QED BY <2>1, <2>2, <3>1, <3>2 DEF Reading
  <2>5. Computed' /\ Busy' /\ Writing' /\ StopsOnlyWhenAsked'
    BY <2>1 DEF IInv, Computed, Busy, Writing, StopsOnlyWhenAsked
  <2> QED BY <2>3, <2>4, <2>5 DEF IInv
<1>3. CASE at = "read"
  <2> DEFINE a == request.a
             n == request.n
             done == n - size
  <2>1. /\ request.op = "m" /\ a \in Nat /\ n \in Nat
        /\ size \in 0 .. n /\ address = a + done
        /\ size < n => address <= MemSize
        /\ packet = [i \in 1 .. done |-> octets[a + i - 1]]
        /\ before = octets
    BY <1>1, <1>3, RequestTypes DEF IInv, Reading, Busy
  <2>2. CASE ReadByte
    <3>1. CASE ~Allocated(address, 1)
      <4>1. Undefined /\ size > 0
        BY <2>2, <3>1 DEF ReadByte
      <4>2. a + n > MemSize
        BY <2>1, <3>1, <4>1, MemSizeType DEF Allocated
      <4>3. at' = "undefined" /\ request' = request
        BY <4>1 DEF Undefined, command
      <4>4. StopsOnlyWhenAsked'
        BY <2>1, <4>2, <4>3 DEF StopsOnlyWhenAsked
      <4> QED BY <4>1, <4>4, UndefinedIInv
    <3>2. CASE Allocated(address, 1)
      <4>1. /\ size > 0 /\ packet' = Append(packet, octets[address])
            /\ address' = Wrap(address + 1) /\ size' = size - 1
            /\ UNCHANGED <<machine, octets, before, regs, cpsr, at, instruction,
                           request, content, reply, ops>>
        BY <2>2, <3>2 DEF ReadByte
      <4>2. /\ address \in Addresses /\ address + 1 <= MemSize /\ address + 1 \in Word
            /\ done \in Nat
        <5>1. done \in Nat
          BY <2>1
        <5>2. address \in Nat
          BY <2>1, <5>1
        <5>3. address + 1 <= MemSize
          BY <3>2 DEF Allocated
        <5> QED BY <5>1, <5>2, <5>3, MemSizeType, SizeType DEF Addresses, Word
      <4>3. address' = address + 1
        BY <4>1, <4>2, WrapOfWord
      <4>4. /\ n - size' = done + 1 /\ size' \in 0 .. n /\ size' < n /\ size' \in Nat
            /\ address' = a + (n - size') /\ address' <= MemSize
        <5>1. size \in 1 .. n /\ size \in Int /\ n \in Nat
          BY <2>1, <4>1
        <5> DEFINE z == size'
        <5>2. z = size - 1
          BY <4>1
        <5> HIDE DEF z
        <5>3. n - z = (n - size) + 1 /\ z \in 0 .. n /\ z < n
          BY <5>1, <5>2
        <5>4. address' = a + ((n - size) + 1)
          BY <2>1, <4>2, <4>3, <5>1
        <5>5. address' <= MemSize
          BY <4>2, <4>3
        <5> QED BY <5>3, <5>4, <5>5 DEF z
      <4>5. packet' = [i \in 1 .. done + 1 |-> octets[a + i - 1]]
        <5> DEFINE c(i) == octets[a + i - 1]
        <5>1. octets[address] = c(done + 1)
          <6>1. a + (done + 1) - 1 = address
            BY <2>1
          <6> QED BY <6>1
        <5> HIDE DEF done, c
        <5>2. packet = [i \in 1 .. done |-> c(i)] /\ packet' = Append(packet, c(done + 1))
          BY <2>1, <4>1, <5>1 DEF c
        <5>3. Append([i \in 1 .. done |-> c(i)], c(done + 1)) = [i \in 1 .. done + 1 |-> c(i)]
          BY <4>2
        <5> QED BY <5>2, <5>3 DEF c
      <4>6. packet' \in Seq(Bytes)
        BY <1>1, <4>1, <4>2
      <4>7. TypeOK'
        BY <1>1, <4>1, <4>2, <4>3, <4>4, <4>6 DEF TypeOK, machine, instruction
      <4>8. Reading'
        BY <2>1, <4>1, <4>4, <4>5 DEF Reading
      <4>9. Computed' /\ Busy' /\ Writing' /\ StopsOnlyWhenAsked'
        BY <1>3, <4>1 DEF IInv, Computed, Busy, Writing, StopsOnlyWhenAsked
      <4> QED BY <4>7, <4>8, <4>9 DEF IInv
    <3> QED BY <3>1, <3>2
  <2>3. CASE ReadEnds
    <3>1. size = 0 /\ UNCHANGED <<octets, regs, cpsr>> /\ Send("bytes", packet)
      BY <2>1, <2>3 DEF ReadEnds
    <3>2. packet \in Seq(0 .. Base) /\ Len(packet) = n
      <4>1. Len(packet) = n
        BY <2>1, <3>1
      <4> DEFINE S == 0 .. Base
      <4>2. Bytes \subseteq S
        BY BaseType DEF Bytes
      <4> HIDE DEF S
      <4>3. packet \in Seq(S)
        BY <1>1, <4>2
      <4> QED BY <4>1, <4>3 DEF S
    <3>3. CASE 2 * Len(packet) + 5 > MaxPacket
      <4>1. Undefined
        BY <3>1, <3>3 DEF Send
      <4>2. at' = "undefined" /\ request' = request
        BY <4>1 DEF Undefined, command
      <4>3. StopsOnlyWhenAsked'
        BY <2>1, <3>2, <3>3, <4>2 DEF StopsOnlyWhenAsked
      <4> QED BY <4>1, <4>3, UndefinedIInv
    <3> QED BY <1>1, <3>1, <3>2, <3>3, SendIInv
  <2> QED BY <1>2, <2>2, <2>3 DEF read_memory
<1> QED BY <1>2, <1>3 DEF ReadByte, ReadEnds

\* Bytes of X, which are written until none is left.
LEMMA WriteMemoryIInv ==
    ASSUME IInv, write_memory_binary \/ WriteByte \/ WriteEnds
    PROVE  IInv'
<1>1. /\ TypeOK /\ octets \in [Addresses -> Bytes] /\ regs \in [Regs -> Word]
      /\ cpsr \in Word /\ IsRequest(request) /\ content \in Seq(Bytes)
  BY DEF IInv, TypeOK
<1>2. CASE write_memory_binary
  <2>1. /\ at = "idle" /\ request.op = "X"
        /\ request.a \in Nat /\ request.a \in Word /\ request.data \in Seq(Bytes)
        /\ Len(request.data) \in Nat /\ before = octets
    <3>1. at = "idle" /\ request.op = "X"
      BY <1>2 DEF write_memory_binary
    <3>2. request.a \in Nat /\ request.a \in Word /\ request.data \in Seq(Bytes)
      BY <1>1, <3>1, RequestTypes
    <3> QED BY <3>1, <3>2 DEF IInv, Busy
  <2>2. CASE request.a < MemSize
    <3>1. /\ at' = "write" /\ address' = request.a /\ size' = Len(request.data)
          /\ content' = Encoded(request.data)
          /\ UNCHANGED <<machine, octets, before, regs, cpsr, instruction, request,
                         packet, reply, ops>>
      BY <1>2, <2>2 DEF write_memory_binary
    <3>2. content' \in Seq(Bytes) /\ Coded(content', request.data, Len(request.data))
      BY <2>1, <3>1, EncodedIsCoded
    <3>3. TypeOK'
      BY <1>1, <2>1, <3>1, <3>2 DEF TypeOK, machine, instruction
    <3>4. Writing'
      <4>1. octets = [x \in Addresses |-> IF x >= request.a /\ x < request.a
                                          THEN request.data[x - request.a + 1]
                                          ELSE before[x]]
        <5>1. \A x \in Addresses : ~ (x >= request.a /\ x < request.a)
          BY <2>1 DEF Addresses
        <5> QED BY <1>1, <2>1, <5>1
      <4>2. request.a + (Len(request.data) - Len(request.data)) = request.a
            /\ request.a <= MemSize /\ Len(request.data) \in 0 .. Len(request.data)
        BY <2>1, <2>2, MemSizeType
      <4>3. Coded(content, request.data, size)'
        <5>1. Coded(content', request'.data, size')
          BY <3>1, <3>2
        <5> QED BY <5>1
      <4> QED BY <2>1, <2>2, <3>1, <4>1, <4>2, <4>3 DEF Writing
    <3>5. Computed' /\ Busy' /\ Reading' /\ StopsOnlyWhenAsked'
      BY <2>1, <3>1 DEF IInv, Computed, Busy, Reading, StopsOnlyWhenAsked
    <3> QED BY <3>3, <3>4, <3>5 DEF IInv
  <2>3. CASE ~(request.a < MemSize)
    <3>1. UNCHANGED <<octets, regs, cpsr>> /\ Send("E02", <<>>)
      BY <1>2, <2>3 DEF write_memory_binary
    <3> QED BY <1>1, <3>1, SendIInv, EmptyFits
  <2> QED BY <2>2, <2>3
<1>3. CASE WriteByte
  <2> DEFINE a == request.a
             data == request.data
             n == Len(data)
             escaped == content[1] = Escape
             value == IF escaped THEN Xor(content[2], Flip) ELSE content[1]
             left == SubSeq(content, IF escaped THEN 3 ELSE 2, Len(content))
  <2>1. /\ at = "write" /\ request.op = "X"
        /\ a \in Nat /\ a < MemSize /\ data \in Seq(Bytes) /\ n \in Nat
        /\ size \in 1 .. n /\ size > 0
        /\ address = a + (n - size) /\ address \in Nat /\ address <= MemSize
        /\ Coded(content, data, size)
        /\ octets = [x \in Addresses |-> IF x >= a /\ x < address
                                         THEN data[x - a + 1] ELSE before[x]]
    <3>1. at = "write" /\ size > 0
      BY <1>3 DEF WriteByte
    <3>2. /\ request.op = "X" /\ a < MemSize /\ size \in 0 .. n
          /\ address = a + (n - size) /\ address <= MemSize
          /\ Coded(content, data, size)
          /\ octets = [x \in Addresses |-> IF x >= a /\ x < address
                                           THEN data[x - a + 1] ELSE before[x]]
      BY <3>1 DEF IInv, Writing
    <3>3. a \in Nat /\ data \in Seq(Bytes) /\ n \in Nat
      BY <1>1, <3>2, RequestTypes
    <3>4. size \in 1 .. n /\ address \in Nat
      BY <3>1, <3>2, <3>3
    <3> QED BY <3>1, <3>2, <3>3, <3>4
  <2>2. CASE ~Allocated(address, 1)
    <3>1. Undefined
      BY <1>3, <2>2 DEF WriteByte
    <3>2. a + n > MemSize
      BY <2>1, <2>2, MemSizeType DEF Allocated
    <3>3. at' = "undefined" /\ request' = request
      BY <3>1 DEF Undefined, command
    <3>4. StopsOnlyWhenAsked'
      BY <2>1, <3>2, <3>3 DEF StopsOnlyWhenAsked
    <3> QED BY <3>1, <3>4, UndefinedIInv
  <2>3. CASE Allocated(address, 1)
    <3>1. /\ octets' = [octets EXCEPT ![address] = Byte(value)] /\ content' = left
          /\ address' = Wrap(address + 1) /\ size' = size - 1
          /\ UNCHANGED <<machine, before, regs, cpsr, at, instruction, request,
                         packet, reply, ops>>
      BY <1>3, <2>3 DEF WriteByte, memory_write_byte
    <3>2. address \in Addresses /\ address + 1 <= MemSize /\ address + 1 \in Word
      BY <2>1, <2>3, MemSizeType, SizeType DEF Allocated, Addresses, Word
    <3>3. address' = address + 1
      BY <3>1, <3>2, WrapOfWord
    <3>4. /\ value = data[n - size + 1] /\ left \in Seq(Bytes)
          /\ Coded(left, data, size - 1)
      BY <1>1, <2>1, OneDecoded
    <3> HIDE DEF escaped, value, left, a, data, n
    <3>5. /\ size' \in 0 .. n /\ size' \in Nat /\ address' = a + (n - size')
          /\ address' <= MemSize /\ n - size + 1 \in 1 .. n
          /\ address - a + 1 = n - size + 1
      <4>1. n \in Nat /\ size \in 1 .. n /\ a \in Nat /\ address = a + (n - size)
        BY <2>1
      <4>2. size' = size - 1 /\ address' = address + 1 /\ address' <= MemSize
        BY <3>1, <3>2, <3>3
      <4> DEFINE z == size'
                 b == address'
      <4> HIDE DEF z, b
      <4>3. z \in 0 .. n /\ z \in Nat /\ b = a + (n - z)
        <5>1. z = size - 1 /\ b = address + 1
          BY <4>2 DEF z, b
        <5> QED BY <4>1, <5>1
      <4>4. n - size + 1 \in 1 .. n /\ address - a + 1 = n - size + 1
        BY <4>1
      <4> QED BY <4>2, <4>3, <4>4 DEF z, b
    <3>6. value \in Bytes /\ Byte(value) = value
      <4>1. value \in Bytes
        BY <2>1, <3>4, <3>5 DEF n
      <4> QED BY <4>1, BaseType DEF Byte, Bytes, Base
    <3>7. octets' \in [Addresses -> Bytes]
      BY <1>1, <3>1, <3>6
    <3>8. octets' = [x \in Addresses |-> IF x >= a /\ x < address'
                                         THEN data[x - a + 1] ELSE before[x]]
      <4>1. \A x \in Addresses : x < address' <=> x < address \/ x = address
        BY <3>2, <3>3 DEF Addresses
      <4>2. address >= a
        BY <2>1
      <4>3. octets' = [octets EXCEPT ![address] = data[address - a + 1]]
        BY <3>1, <3>4, <3>5, <3>6
      <4> DEFINE old(x) == IF x >= a /\ x < address THEN data[x - a + 1] ELSE before[x]
                 new(x) == IF x >= a /\ x < address' THEN data[x - a + 1] ELSE before[x]
      <4>4. ASSUME NEW x \in Addresses
            PROVE  new(x) = IF x = address THEN data[address - a + 1] ELSE old(x)
        BY <4>1, <4>2
      <4>5. octets = [x \in Addresses |-> old(x)]
        BY <2>1
      <4> HIDE DEF old, new
      <4>6. octets' = [x \in Addresses |-> new(x)]
        BY <3>2, <4>3, <4>4, <4>5
      <4> QED BY <4>6 DEF new
    <3>9. TypeOK'
      BY <1>1, <3>1, <3>2, <3>3, <3>4, <3>5, <3>7 DEF TypeOK, machine, instruction
    <3>10. Writing'
      <4>1. Coded(content, request.data, size)'
        <5>1. content' = left /\ request'.data = data /\ size' = size - 1
          BY <3>1 DEF data
        <5>2. Coded(content', request'.data, size')
          BY <3>4, <5>1
        <5> QED BY <5>2
      <4> QED BY <2>1, <3>1, <3>5, <3>8, <4>1 DEF Writing, a, data, n
    <3>11. Computed' /\ Busy' /\ Reading' /\ StopsOnlyWhenAsked'
      BY <2>1, <3>1 DEF IInv, Computed, Busy, Reading, StopsOnlyWhenAsked
    <3> QED BY <3>9, <3>10, <3>11 DEF IInv
  <2> QED BY <2>2, <2>3
<1>4. CASE WriteEnds
  <2>1. UNCHANGED <<octets, regs, cpsr>> /\ Send("OK", <<>>)
    BY <1>4 DEF WriteEnds
  <2> QED BY <1>1, <2>1, SendIInv, EmptyFits
<1> QED BY <1>2, <1>3, <1>4

-----------------------------------------------------------------------------
LEMMA NextIInv == IInv /\ [Next]_vars => IInv'
<1> SUFFICES ASSUME IInv, [Next]_vars PROVE IInv'
  OBVIOUS
<1>1. CASE Program
  BY <1>1, ProgramIInv
<1>2. CASE Ask
  <2>1. /\ at = "idle" /\ ops < MaxOps /\ ops' = ops + 1 /\ request' \in Requests
        /\ UNCHANGED <<machine, octets, before, regs, cpsr, at, instruction, address,
                       content, size, packet, reply>>
    BY <1>2 DEF Ask
  <2>2. IsRequest(request') /\ ops' \in 0 .. MaxOps
    BY <2>1, RequestsAssumption, AccessesAssumption DEF IInv, TypeOK
  <2>3. TypeOK /\ before = octets /\ packet = <<>>
    BY <2>1 DEF IInv, Busy
  <2> QED BY <2>1, <2>2, <2>3, Resting DEF TypeOK, Replies
<1>3. CASE \/ read_general_registers \/ write_general_registers
           \/ read_register \/ write_register
  BY <1>3, RegistersIInv
<1>4. CASE read_memory \/ ReadByte \/ ReadEnds
  BY <1>4, ReadMemoryIInv
<1>5. CASE write_memory_binary \/ WriteByte \/ WriteEnds
  BY <1>5, WriteMemoryIInv
<1>6. CASE UNCHANGED vars
  <2>1. TypeOK'
    BY <1>6 DEF vars, IInv, TypeOK
  <2>2. Computed'
    BY <1>6 DEF vars, IInv, Computed, Scaled, CarryFlag
  <2>3. Busy' /\ Reading' /\ Writing' /\ StopsOnlyWhenAsked'
    BY <1>6 DEF vars, IInv, Busy, Reading, Writing, Coded, StopsOnlyWhenAsked, Allocated
  <2> QED BY <2>1, <2>2, <2>3 DEF IInv
<1> QED BY <1>1, <1>2, <1>3, <1>4, <1>5, <1>6 DEF Next, Debugger, Terminating

LEMMA Invariance == Spec => []IInv
  BY InitIInv, NextIInv, PTL DEF Spec

\* Memory, registers, the packet and the reply hold bytes and words, whatever the
\* program and the debugger ask for (memory.c, registers.c, gdb_protocol.c).
THEOREM TypeCorrect == Spec => []TypeOK
<1>1. IInv => TypeOK
  BY DEF IInv
<1> QED BY Invariance, <1>1, PTL

\* For every size of the memory and of the packet buffer, an access leaves them
\* only when the debugger asks for bytes that are not there or for more than a
\* packet holds (memory.c:48, gdb_protocol.c:248), or the program's address does;
\* and only the number of a register that does not exist ends the process.
THEOREM OnlyWhenAsked == Spec => []StopsOnlyWhenAsked
<1>1. IInv => StopsOnlyWhenAsked
  BY DEF IInv
<1> QED BY Invariance, <1>1, PTL

-----------------------------------------------------------------------------
(***************************************************************************)
(* Offsets and addresses.                                                  *)
(***************************************************************************)
LEMMA Displaced ==
    ASSUME NEW a \in Word, NEW b \in Word, NEW z \in Word
    PROVE  /\ a = Wrap(b + z) <=> Wrap(a - z) = b
           /\ a = Wrap(b - z) <=> Wrap(a + z) = b
<1>1. a \in Int /\ b \in Int /\ z \in Int /\ -z \in Int
  BY WordType
<1>2. \A x \in Int, y \in Int : Wrap(Wrap(x) + y) = Wrap(x + y)
  BY WrapSum
<1>3. \A x \in Word, y \in Word : Wrap(Wrap(x - y) + y) = x
  BY WrapDifference
<1>4. \A x \in Word, y \in Word : Wrap(Wrap(x + y) - y) = x
  <2>1. ASSUME NEW x \in Word, NEW y \in Word PROVE Wrap(Wrap(x + y) - y) = x
    <3>1. x \in Int /\ y \in Int /\ -y \in Int /\ x + y \in Int
      BY WordType
    <3>2. Wrap(x + y) \in Int
      BY <3>1, WrapType
    <3>3. Wrap(Wrap(x + y) + (-y)) = Wrap((x + y) + (-y))
      BY <1>2, <3>1
    <3>4. Wrap(x + y) + (-y) = Wrap(x + y) - y /\ (x + y) + (-y) = x
      BY <3>1, <3>2
    <3> QED BY <3>3, <3>4, WrapOfWord
  <2> QED BY <2>1
<1> QED BY <1>3, <1>4

LEMMA OffsetIsEncoded ==
    ASSUME cpsr \in Word, NEW x \in Word, NEW shift \in Shifts, NEW n \in 0 .. W - 1, NEW z,
           z = Scaled(x, shift, n)
    PROVE  CASE shift = LSL -> z = (x * 2 ^ n) % Size
             [] shift = LSR -> z = IF n = 0 THEN 0 ELSE x \div 2 ^ n
             [] shift = ASR -> Signed(z) = Signed(x) \div 2 ^ (IF n = 0 THEN W ELSE n)
             [] shift = ROR /\ n = 0 -> z = (CarryFlag * Size + x) \div 2
             [] shift = ROR /\ n > 0 -> (z * 2 ^ n) % Ones = x % Ones
<1>1. shift = LSL \/ shift = LSR \/ shift = ASR \/ shift = ROR
  BY DEF Shifts, LSL, LSR, ASR, ROR
<1>2. LSL # LSR /\ LSL # ASR /\ LSL # ROR /\ LSR # ASR /\ LSR # ROR /\ ASR # ROR
  BY DEF LSL, LSR, ASR, ROR
<1>3. n = 0 \/ n \in 1 .. W - 1
  BY SizeType
<1>4. \A y : Signed(y) = SignedWord(y)
  BY DEF Signed, SignedWord
<1>5. CASE shift = LSL
  <2>1. Scaled(x, LSL, n) = lsl(x, n)
    BY <1>2 DEF Scaled
  <2>2. z = (x * 2 ^ n) % Size
    BY <1>5, <2>1 DEF lsl, Wrap
  <2> QED BY <1>2, <1>5, <2>2
<1>6. CASE shift = LSR
  <2>1. Scaled(x, LSR, n) = IF n = 0 THEN 0 ELSE lsr(x, n)
    BY <1>2 DEF Scaled
  <2>2. z = IF n = 0 THEN 0 ELSE x \div 2 ^ n
    BY <1>6, <2>1 DEF lsr
  <2> QED BY <1>2, <1>6, <2>2
<1>7. CASE shift = ASR
  <2>1. Scaled(x, ASR, n) = IF n = 0 THEN Signs(x) ELSE asr(x, n)
    BY <1>2 DEF Scaled
  <2>2. SignedWord(z) = SignedWord(x) \div 2 ^ (IF n = 0 THEN W ELSE n)
    <3>1. CASE n = 0
      BY <1>7, <2>1, <3>1, AsrByWord DEF Size
    <3>2. CASE n # 0
      <4>1. n \in 1 .. W - 1 /\ z = asr(x, n)
        BY <1>3, <1>7, <2>1, <3>2
      <4>2. SignedWord(asr(x, n)) = SignedWord(x) \div 2 ^ n
        BY <4>1, AsrDivides
      <4> QED BY <3>2, <4>1, <4>2
    <3> QED BY <3>1, <3>2
  <2>3. Signed(z) = Signed(x) \div 2 ^ (IF n = 0 THEN W ELSE n)
    BY <1>4, <2>2
  <2> QED BY <1>2, <1>7, <2>3
<1>8. CASE shift = ROR /\ n = 0
  <2> DEFINE o == Or(lsl(CarryFlag, W - 1), lsr(x, 1))
             c == CarryFlag
             b == Bit(x, 0)
  <2>1. z = o
    <3>1. Scaled(x, ROR, 0) = o
      BY <1>2 DEF Scaled
    <3> QED BY <1>8, <3>1
  <2>2. 2 * o + b = c * Size + x
    BY CarryType, CarryIntoTop
  <2>3. b \in {0, 1} /\ c \in {0, 1} /\ x \in Nat /\ Size \in Nat
    <3>1. 0 \in 0 .. 32 /\ x \in Int
      BY WordType
    <3> QED BY <3>1, BitType, CarryType, WordType, SizeType
  <2>4. o \in Int
    <3>1. Scaled(x, shift, n) \in Word
      BY ScaledType
    <3> QED BY <2>1, <3>1, WordType
  <2> HIDE DEF o, b, c
  <2>5. c * Size \in Nat
    BY <2>3
  <2>6. o = (c * Size + x) \div 2
    BY <2>2, <2>3, <2>4, <2>5
  <2> QED BY <1>2, <1>8, <2>1, <2>6 DEF c
<1>9. CASE shift = ROR /\ n # 0
  <2>1. n > 0
    BY <1>3, <1>9
  <2>2. z = ror(x, n)
    <3>1. Scaled(x, ROR, n) = IF n = 0 THEN Or(lsl(CarryFlag, W - 1), lsr(x, 1)) ELSE ror(x, n)
      BY <1>2 DEF Scaled
    <3> QED BY <1>9, <3>1
  <2>3. (ror(x, n) * 2 ^ n) % Ones = x % Ones
    BY Rotation
  <2> QED BY <1>2, <1>9, <2>1, <2>2, <2>3
<1> QED BY <1>1, <1>5, <1>6, <1>7, <1>8, <1>9

LEMMA EffectiveIs ==
    ASSUME TypeOK, index.class # "none", NEW u \in {0, 1}, NEW a \in Word
    PROVE  /\ a \in Effective(1, 0, u) <=>
                 (IF u = 1 THEN a - index.value ELSE a + index.value) % Size = base
           /\ Effective(1, 0, u) = Effective(1, 1, u)
           /\ a \in Effective(0, 0, u) <=> a = base
<1> DEFINE z == index.value
<1>1. z \in Word /\ base \in Word
  BY DEF TypeOK
<1>2. /\ Effective(1, 0, u) = IF u = 1 THEN {Wrap(base + z)} ELSE {Wrap(base - z)}
      /\ Effective(1, 1, u) = IF u = 1 THEN {Wrap(base + z)} ELSE {Wrap(base - z)}
      /\ Effective(0, 0, u) = {base}
  BY DEF Effective
<1> HIDE DEF z
<1>3. /\ a = Wrap(base + z) <=> (a - z) % Size = base
      /\ a = Wrap(base - z) <=> (a + z) % Size = base
  BY <1>1, Displaced DEF Wrap
<1>4. CASE u = 1
  BY <1>2, <1>3, <1>4 DEF z
<1>5. CASE u = 0
  BY <1>2, <1>3, <1>5 DEF z
<1> QED BY <1>4, <1>5

\* The offset of a load or of a store is what its encoding stands for, read as
\* numbers, with the amounts of 0 as #32 and RRX (arm_load_store.c:134-157), and
\* the address is the base with and without it, for words of any width.
THEOREM OffsetsAsEncoded == Spec => []OffsetAsEncoded
<1>1. IInv => OffsetAsEncoded
  <2> SUFFICES ASSUME IInv, at = "address", index.class # "none" PROVE OffsetAsEncoded
    BY DEF OffsetAsEncoded
  <2> DEFINE x == index.x
             n == index.amount
             z == index.value
             s == index.shift
  <2>1. TypeOK /\ cpsr \in Word /\ x \in Word /\ s \in Shifts /\ n \in 0 .. W - 1
    BY DEF IInv, TypeOK
  <2>2. z = Scaled(x, s, n)
    BY DEF IInv, Computed
  <2> HIDE DEF x, n, z, s
  <2>3. (CASE s = LSL -> z = (x * 2 ^ n) % Size
           [] s = LSR -> z = IF n = 0 THEN 0 ELSE x \div 2 ^ n
           [] s = ASR -> Signed(z) = Signed(x) \div 2 ^ (IF n = 0 THEN W ELSE n)
           [] s = ROR /\ n = 0 -> z = (CarryFlag * Size + x) \div 2
           [] s = ROR /\ n > 0 -> (z * 2 ^ n) % Ones = x % Ones)
    BY <2>1, <2>2, OffsetIsEncoded
  <2>4. \A u \in {0, 1}, a \in Word :
           /\ a \in Effective(1, 0, u) <=> (IF u = 1 THEN a - z ELSE a + z) % Size = base
           /\ Effective(1, 0, u) = Effective(1, 1, u)
           /\ a \in Effective(0, 0, u) <=> a = base
    BY <2>1, EffectiveIs DEF z
  <2> QED BY <2>3, <2>4 DEF OffsetAsEncoded, x, n, z, s
<1> QED BY Invariance, <1>1, PTL

-----------------------------------------------------------------------------
(***************************************************************************)
(* The store of bytes is implemented, action by action.                    *)
(***************************************************************************)
SeenVars == <<target, seen, regs, cpsr, request, reply>>

\* The two modules have the same data.
LEMMA SameSets ==
    /\ Shared!Word = Word /\ Shared!Regs = Regs /\ Shared!Bytes = Bytes
    /\ Shared!Addresses = Addresses /\ Shared!PC = PC /\ Shared!WordBytes = WordBytes
    /\ Shared!NoRequest = NoRequest /\ Shared!NoAnswer = NoAnswer
  BY DEF Shared!Word, Word, Shared!Size, Size, Shared!Regs, Regs, Shared!Bytes, Bytes,
         Shared!Base, Base, Shared!Addresses, Addresses, Shared!PC, PC,
         Shared!WordBytes, WordBytes, Shared!NoRequest, NoRequest,
         Shared!NoAnswer, NoAnswer

LEMMA SameDigits ==
    /\ \A w, big : Shared!Digits(w, big) = Digits(w, big)
    /\ \A w : Shared!Byte(w) = Byte(w)
    /\ \A w, i : Shared!Bit(w, i) = Bit(w, i)
    /\ \A s, big : Shared!Number(s, big) = Number(s, big)
    /\ \A s, t : Shared!Dump(s, t) = Dump(s, t)
    /\ \A n : Shared!atoi(n) = atoi(n)
<1>1. \A i, big : Shared!Weight(i, big) = Weight(i, big)
  BY DEF Shared!Weight, Weight, Shared!WordBytes, WordBytes, Shared!Base, Base
<1>2. \A w, big : Shared!Digits(w, big) = Digits(w, big)
  BY <1>1, SameSets DEF Shared!Digits, Digits, Shared!Base, Base
<1>3. \A w : Shared!Byte(w) = Byte(w)
  BY DEF Shared!Byte, Byte
<1>4. \A w, i : Shared!Bit(w, i) = Bit(w, i)
  BY DEF Shared!Bit, Bit
<1>5. \A s, big : Shared!Number(s, big) = Number(s, big)
  BY DEF Shared!Number, Number, Shared!Weight, Weight, Shared!WordBytes, WordBytes,
         Shared!Base, Base, Shared!MapThenSumSet, MapThenSumSet,
         Shared!MapThenFoldSet, MapThenFoldSet
<1>6. \A s, t : Shared!Dump(s, t) = Dump(s, t)
  BY DEF Shared!Dump, Dump, Shared!DumpLength, DumpLength, Shared!WordBytes, WordBytes,
         Shared!Regs, Regs, Shared!NotImplemented, NotImplemented, Shared!Base, Base
<1>7. \A n : Shared!atoi(n) = atoi(n)
  BY DEF Shared!atoi, atoi
<1> QED BY <1>2, <1>3, <1>4, <1>5, <1>6, <1>7

LEMMA SeenBytes ==
    /\ \A a, n : Shared!Cells(a, n) = [i \in 1 .. n |-> seen[a + i - 1]]
    /\ \A a, s : Shared!Put(a, s) = [x \in Addresses |-> IF x >= a /\ x < a + Len(s)
                                                      THEN s[x - a + 1] ELSE seen[x]]
  BY SameSets DEF Shared!Cells, Shared!Put

LEMMA InitRefines == Init => Shared!Init
<1> SUFFICES ASSUME Init PROVE Shared!Init
  OBVIOUS
<1>1. TypeOK
  BY InitIInv DEF IInv
<1>2. at = "idle" /\ request = NoRequest /\ reply = NoAnswer
  BY DEF Init
<1> QED BY <1>1, <1>2, SameSets DEF TypeOK, Shared!Init, seen

LEMMA AtRestSeen ==
    ASSUME at \notin {"write", "undefined"}
    PROVE  seen = octets
  BY DEF seen

\* What is undefined was not seen to happen.
LEMMA UndefinedStutters ==
    ASSUME IInv, Undefined
    PROVE  UNCHANGED SeenVars
<1>1. /\ at' = "undefined" /\ before' = before
      /\ UNCHANGED <<machine, octets, regs, cpsr, command, reply>>
  BY DEF Undefined, command
<1>2. seen = before
  BY DEF IInv, Busy, seen
<1>3. seen' = before
  BY <1>1 DEF seen
<1> QED BY <1>1, <1>2, <1>3 DEF SeenVars, machine, command

LEMMA TransferRefines ==
    ASSUME IInv, NEW l \in {0, 1}, NEW rd \in Regs,
           TransferWord(l, rd) \/ TransferByte(l, rd)
    PROVE  [Shared!Next]_SeenVars
<1>1. /\ at = "transfer" /\ target \in BOOLEAN /\ octets \in [Addresses -> Bytes]
      /\ regs \in [Regs -> Word] /\ address \in Nat
  <2>1. at = "transfer"
    BY DEF TransferWord, TransferByte
  <2>2. \A x \in Word : x \in Nat
    BY WordType
  <2> QED BY <2>1, <2>2 DEF IInv, TypeOK
<1>2. seen = octets
  BY <1>1 DEF seen
<1> DEFINE w == arm_read_register(rd)
<1>3. rd # PC => w = regs[rd]
  BY DEF arm_read_register
<1>10. w \in Word /\ w \in Int
  BY <1>1, ReadRegisterType, WordType
<1>4. ASSUME NEW value, Load(rd, value)
      PROVE  /\ regs' = [regs EXCEPT ![rd] = value] /\ seen' = seen
             /\ UNCHANGED <<target, cpsr, request, reply>>
  <2>1. /\ regs' = [regs EXCEPT ![rd] = value] /\ at' = "idle" /\ octets' = octets
        /\ UNCHANGED <<machine, cpsr, command, reply>>
    BY <1>4 DEF Load
  <2> QED BY <1>2, <2>1 DEF seen, machine, command
<1>5. ASSUME NEW m, Store(m)
      PROVE  seen' = m /\ UNCHANGED <<target, regs, cpsr, request, reply>>
  <2>1. /\ octets' = m /\ at' = "idle"
        /\ UNCHANGED <<machine, regs, cpsr, request, reply>>
    BY <1>5 DEF Store
  <2> QED BY <2>1 DEF seen, machine
<1>6. ASSUME Allocated(address, 1) PROVE address \in Addresses
  BY <1>1, <1>6, MemSizeType DEF Allocated, Addresses
<1>7. Allocated(address, WordBytes) => address \in Addresses /\ address + WordBytes <= MemSize
  BY <1>1, MemSizeType, WordBytesType DEF Allocated, Addresses
<1>8. CASE TransferWord(l, rd)
  <2>1. CASE ~Allocated(address, WordBytes)
    BY <1>8, <2>1, UndefinedStutters DEF TransferWord
  <2>2. CASE Allocated(address, WordBytes) /\ l = 1
    <3>1. Load(rd, memory_read_word(address))
      BY <1>8, <2>2 DEF TransferWord
    <3>2. memory_read_word(address) = Number(Shared!Cells(address, WordBytes), target)
      <4>1. memory_read_word(address)
              = Number([i \in 1 .. WordBytes |-> octets[address + i - 1]], target)
        BY <1>1, <1>7, <2>2, MemoryNumber
      <4> QED BY <1>2, <4>1, SeenBytes
    <3>3. Shared!Load(rd, address)
      BY <1>4, <1>7, <2>2, <3>1, <3>2, SameSets, SameDigits DEF Shared!Load
    <3> QED BY <1>7, <2>2, <3>3, SameSets DEF Shared!Next
  <2>3. CASE Allocated(address, WordBytes) /\ l # 1
    <3>1. Store(memory_write_word(address, w))
      BY <1>8, <2>3 DEF TransferWord
    <3>2. memory_write_word(address, w) = Shared!Put(address, Digits(w, target))
      <4> DEFINE d == Digits(w, target)
      <4>1. memory_write_word(address, w)
              = [x \in Addresses |-> IF x >= address /\ x < address + Len(d)
                                     THEN d[x - address + 1] ELSE octets[x]]
        BY <1>1, <1>10, WordStored
      <4> HIDE DEF d
      <4> QED BY <1>2, <4>1, SeenBytes DEF d
    <3>3. Shared!Store(rd, address)
      <4> HIDE DEF w
      <4> QED BY <1>3, <1>10, <1>5, <1>7, <2>3, <3>1, <3>2, SameSets, SameDigits
             DEF Shared!Store
    <3> QED BY <1>7, <2>3, <3>3, SameSets DEF Shared!Next
  <2> QED BY <2>1, <2>2, <2>3
<1>9. CASE TransferByte(l, rd)
  <2>1. CASE ~Allocated(address, 1)
    BY <1>9, <2>1, UndefinedStutters DEF TransferByte
  <2>2. CASE Allocated(address, 1) /\ l = 1
    <3>1. Load(rd, octets[address])
      BY <1>9, <2>2 DEF TransferByte
    <3>2. Shared!Load(rd, address)
      BY <1>2, <1>4, <3>1, SameSets DEF Shared!Load
    <3> QED BY <1>6, <2>2, <3>2, SameSets DEF Shared!Next
  <2>3. CASE Allocated(address, 1) /\ l # 1
    <3>1. Store(memory_write_byte(address, w))
      BY <1>9, <2>3 DEF TransferByte
    <3>2. memory_write_byte(address, w) = Shared!Put(address, <<Byte(w)>>)
      <4>1. \A x \in Addresses :
               (x >= address /\ x < address + Len(<<Byte(w)>>)) <=> x = address
        BY <1>1 DEF Addresses
      <4>2. <<Byte(w)>>[address - address + 1] = Byte(w)
        <5>1. address - address + 1 = 1
          BY <1>1
        <5> QED BY <5>1
      <4> HIDE DEF w
      <4> DEFINE d == <<Byte(w)>>
                 m == [x \in Addresses |-> IF x >= address /\ x < address + Len(d)
                                           THEN d[x - address + 1] ELSE octets[x]]
      <4>3. Shared!Put(address, d) = m
        <5> HIDE DEF d
        <5> QED BY <1>2, SeenBytes
      <4>4. memory_write_byte(address, w) = [x \in Addresses |->
               IF x = address THEN Byte(w) ELSE octets[x]]
        BY <1>1 DEF memory_write_byte
      <4>5. ASSUME NEW x \in Addresses
            PROVE  m[x] = IF x = address THEN Byte(w) ELSE octets[x]
        BY <4>1, <4>2
      <4>6. m = [x \in Addresses |-> m[x]]
        OBVIOUS
      <4> HIDE DEF m, d
      <4>7. m = [x \in Addresses |-> IF x = address THEN Byte(w) ELSE octets[x]]
        BY <4>5, <4>6
      <4> QED BY <4>3, <4>4, <4>7 DEF d
    <3>3. Shared!Store(rd, address)
      <4> HIDE DEF w
      <4> QED BY <1>3, <1>10, <1>5, <3>1, <3>2, SameSets, SameDigits DEF Shared!Store
    <3> QED BY <1>6, <2>3, <3>3, SameSets DEF Shared!Next
  <2> QED BY <2>1, <2>2, <2>3
<1> QED BY <1>8, <1>9

LEMMA ProgramRefines ==
    ASSUME IInv, Program
    PROVE  [Shared!Next]_SeenVars
<1>1. TypeOK /\ TypeOK'
  BY NextIInv DEF IInv, Next
<1>2. ASSUME NEW rn \in Regs, Fetch(rn) PROVE Shared!Fetch
  <2>1. /\ at = "idle" /\ at' = "index"
        /\ regs' = [regs EXCEPT ![PC] = arm_read_register(PC)]
        /\ UNCHANGED <<machine, octets, cpsr, command, reply>>
    BY <1>2 DEF Fetch
  <2>2. seen' = seen
    BY <2>1 DEF seen
  <2>3. regs' \in [Regs -> Word] /\ \A r \in Regs \ {PC} : regs'[r] = regs[r]
    BY <1>1, <2>1 DEF TypeOK
  <2> QED BY <2>1, <2>2, <2>3, SameSets DEF Shared!Fetch, machine, command
<1>3. ASSUME NEW class, NEW x, NEW shift, NEW amount, NEW value,
             Indexed(class, x, shift, amount, value)
      PROVE  UNCHANGED SeenVars
  <2>1. /\ at = "index" /\ at' = "address"
        /\ UNCHANGED <<machine, octets, regs, cpsr, command, reply>>
    BY <1>3 DEF Indexed
  <2> QED BY <2>1 DEF SeenVars, seen, machine, command
<1>4. ASSUME NEW p, NEW wb, NEW u, Address(p, wb, u) PROVE UNCHANGED SeenVars
  <2>1. /\ at = "address" /\ at' = "transfer"
        /\ UNCHANGED <<machine, octets, regs, cpsr, command, reply>>
    BY <1>4 DEF Address
  <2> QED BY <2>1 DEF SeenVars, seen, machine, command
<1>5. CASE \E l \in {0, 1}, rd \in Regs : TransferWord(l, rd) \/ TransferByte(l, rd)
  BY <1>5, TransferRefines
<1> QED BY <1>2, <1>3, <1>4, <1>5
        DEF Program, Immediate, Register, ScaledRegister, NoClass, Shared!Next

\* A reply ends the command that was asked for.
LEMMA SendAnswers ==
    ASSUME NEW kind, NEW bytes, ~(2 * Len(bytes) + 5 > MaxPacket), Send(kind, bytes)
    PROVE  seen' = octets' /\ Shared!Answered(kind, bytes)
<1>1. /\ reply' = [kind |-> kind, bytes |-> bytes] /\ request' = NoRequest
      /\ at' = "idle" /\ target' = target
  BY DEF Send, machine
<1>2. seen' = octets'
  BY <1>1 DEF seen
<1> QED BY <1>1, <1>2, SameSets DEF Shared!Answered

LEMMA ShownBytes ==
    ASSUME TypeOK, NEW r \in Regs
    PROVE  write_uint32(ForDebugger(r)) = Shared!Shown(r)
<1> DEFINE v == IF r = PC THEN regs[PC] - 2 * Bit(regs[PC], 1) ELSE regs[r]
<1>1. ForDebugger(r) = v
  BY ShownRegister DEF TypeOK
<1>2. Shared!Shown(r) = Digits(v, target)
  BY SameSets, SameDigits DEF Shared!Shown
<1> HIDE DEF v
<1> QED BY <1>1, <1>2, WritesInTargetOrder DEF TypeOK

LEMMA RegistersRefine ==
    ASSUME IInv,
           \/ read_general_registers \/ write_general_registers
           \/ read_register \/ write_register
    PROVE  [Shared!Next]_SeenVars
<1>1. TypeOK /\ target \in BOOLEAN /\ host \in BOOLEAN /\ cpsr \in Word /\ regs \in [Regs -> Word]
  BY DEF IInv, TypeOK
<1>2. at = "idle" /\ seen = octets
  BY DEF read_general_registers, write_general_registers, read_register, write_register,
         seen
<1>3. CASE read_general_registers
  <2> DEFINE d == Dump([r \in Regs |-> write_uint32(ForDebugger(r))], write_uint32(cpsr))
  <2>1. request.op = "g" /\ UNCHANGED <<octets, regs, cpsr>> /\ Send("bytes", d)
    BY <1>3 DEF read_general_registers
  <2>2. Len(d) = DumpLength
    BY <1>1, SentRegisters
  <2>3. d = Dump([r \in Regs |-> Shared!Shown(r)], Digits(cpsr, target))
    <3>1. [r \in Regs |-> write_uint32(ForDebugger(r))] = [r \in Regs |-> Shared!Shown(r)]
      BY <1>1, ShownBytes
    <3>2. write_uint32(cpsr) = Digits(cpsr, target)
      BY <1>1, WritesInTargetOrder
    <3> QED BY <3>1, <3>2
  <2> HIDE DEF d
  <2>4. seen' = octets' /\ Shared!Answered("bytes", d)
    BY <2>1, <2>2, DumpFits, SendAnswers
  <2>5. Shared!ReadRegisters
    BY <1>2, <2>1, <2>3, <2>4, SameSets, SameDigits DEF Shared!ReadRegisters
  <2> QED BY <2>5 DEF Shared!Next
<1>4. CASE write_general_registers
  <2>1. request.op = "G" /\ UNCHANGED octets /\ Send("OK", <<>>)
    BY <1>4 DEF write_general_registers
  <2>2. regs' = request.regs /\ cpsr' = request.cpsr
    BY <1>1, <1>4, <2>1, ReceivedRegisters DEF write_general_registers
  <2>3. seen' = octets' /\ Shared!Answered("OK", <<>>)
    BY <2>1, EmptyFits, SendAnswers
  <2>4. Shared!WriteRegisters
    BY <1>2, <2>1, <2>2, <2>3 DEF Shared!WriteRegisters
  <2> QED BY <2>4 DEF Shared!Next
<1>5. ASSUME Abort PROVE UNCHANGED SeenVars
  <2>1. at' = "aborted" /\ UNCHANGED <<machine, octets, regs, cpsr, command, reply>>
    BY <1>5 DEF Abort
  <2> QED BY <1>2, <2>1 DEF SeenVars, seen, machine, command
<1>6. CASE read_register
  <2>1. CASE atoi(request.r) \notin Regs
    BY <1>5, <1>6, <2>1 DEF read_register
  <2>2. CASE atoi(request.r) \in Regs
    <3> DEFINE r == atoi(request.r)
               d == write_uint32(ForDebugger(r))
    <3>1. request.op = "p" /\ UNCHANGED <<octets, regs, cpsr>> /\ Send("bytes", d)
      BY <1>6, <2>2 DEF read_register
    <3>2. r \in Regs /\ r = Shared!atoi(request.r)
      BY <2>2, SameDigits
    <3> HIDE DEF r
    <3>3. ForDebugger(r) \in Word
      BY <1>1, <3>2, ShownType
    <3>4. Len(d) = WordBytes /\ d = Shared!Shown(r)
      BY <1>1, <3>2, <3>3, SentWord, ShownBytes
    <3> HIDE DEF d
    <3>5. seen' = octets' /\ Shared!Answered("bytes", d)
      BY <3>1, <3>4, WordFits, SendAnswers
    <3>6. Shared!ReadRegister
      BY <1>2, <3>1, <3>2, <3>4, <3>5, SameSets DEF Shared!ReadRegister
    <3> QED BY <3>6 DEF Shared!Next
  <2> QED BY <2>1, <2>2
<1>7. CASE write_register
  <2>1. CASE request.r \notin Regs
    BY <1>5, <1>7, <2>1 DEF write_register
  <2>2. CASE request.r \in Regs
    <3>1. /\ request.op = "P" /\ regs' = [regs EXCEPT ![request.r] = request.w]
          /\ UNCHANGED <<octets, cpsr>> /\ Send("OK", <<>>)
      BY <1>1, <1>7, <2>2, ReceivedWord DEF write_register
    <3>2. seen' = octets' /\ Shared!Answered("OK", <<>>)
      BY <3>1, EmptyFits, SendAnswers
    <3>3. Shared!WriteRegister
      BY <1>2, <2>2, <3>1, <3>2, SameSets DEF Shared!WriteRegister
    <3> QED BY <3>3 DEF Shared!Next
  <2> QED BY <2>1, <2>2
<1> QED BY <1>3, <1>4, <1>6, <1>7

LEMMA ReadMemoryRefines ==
    ASSUME IInv, read_memory \/ ReadByte \/ ReadEnds
    PROVE  [Shared!Next]_SeenVars
<1>1. CASE read_memory
  <2>1. at = "idle" /\ at' = "read"
        /\ UNCHANGED <<machine, octets, before, regs, cpsr, request, reply>>
    BY <1>1 DEF read_memory
  <2> QED BY <2>1 DEF SeenVars, seen, machine
<1>2. CASE ReadByte
  <2>1. CASE ~Allocated(address, 1)
    BY <1>2, <2>1, UndefinedStutters DEF ReadByte
  <2>2. CASE Allocated(address, 1)
    <3>1. at = "read" /\ UNCHANGED <<machine, octets, before, regs, cpsr, at, request, reply>>
      BY <1>2, <2>2 DEF ReadByte
    <3> QED BY <3>1 DEF SeenVars, seen, machine
  <2> QED BY <2>1, <2>2
<1>3. CASE ReadEnds
  <2>1. /\ at = "read" /\ size <= 0 /\ UNCHANGED <<octets, regs, cpsr>>
        /\ Send("bytes", packet)
    BY <1>3 DEF ReadEnds
  <2>2. /\ request.op = "m" /\ size \in 0 .. request.n
        /\ address = request.a + (request.n - size)
        /\ size < request.n => address <= MemSize
        /\ packet = [i \in 1 .. request.n - size |-> octets[request.a + i - 1]]
    BY <2>1 DEF IInv, Reading
  <2>3. request.n \in Nat /\ request.a \in Nat
    BY <2>2, RequestTypes DEF IInv, TypeOK
  <2>4. size = 0 /\ request.n - size = request.n
    BY <2>1, <2>2, <2>3
  <2>5. seen = octets
    BY <2>1 DEF seen
  <2>6. packet = Shared!Cells(request.a, request.n)
    BY <2>2, <2>4, <2>5, SeenBytes
  <2>7. CASE 2 * Len(packet) + 5 > MaxPacket
    <3>1. Undefined
      BY <2>1, <2>7 DEF Send
    <3> QED BY <3>1, UndefinedStutters
  <2>8. CASE ~(2 * Len(packet) + 5 > MaxPacket)
    <3>1. seen' = octets' /\ Shared!Answered("bytes", packet)
      BY <2>1, <2>8, SendAnswers
    <3>2. request.n > 0 => request.a + request.n <= MemSize
      BY <2>2, <2>3, <2>4
    <3>3. Shared!ReadMemory
      BY <2>1, <2>2, <2>5, <2>6, <3>1, <3>2 DEF Shared!ReadMemory
    <3> QED BY <3>3 DEF Shared!Next
  <2> QED BY <2>7, <2>8
<1> QED BY <1>1, <1>2, <1>3

LEMMA WriteMemoryRefines ==
    ASSUME IInv, write_memory_binary \/ WriteByte \/ WriteEnds
    PROVE  [Shared!Next]_SeenVars
<1>1. CASE write_memory_binary
  <2>1. at = "idle" /\ request.op = "X" /\ before = octets /\ seen = octets
        /\ request.a \in Nat
    <3>1. at = "idle" /\ request.op = "X"
      BY <1>1 DEF write_memory_binary
    <3> QED BY <3>1, RequestTypes DEF IInv, TypeOK, Busy, seen
  <2>2. CASE request.a < MemSize
    <3>1. at' = "write" /\ UNCHANGED <<machine, octets, before, regs, cpsr, request, reply>>
      BY <1>1, <2>2 DEF write_memory_binary
    <3> QED BY <2>1, <3>1 DEF SeenVars, seen, machine
  <2>3. CASE ~(request.a < MemSize)
    <3>1. UNCHANGED <<octets, regs, cpsr>> /\ Send("E02", <<>>)
      BY <1>1, <2>3 DEF write_memory_binary
    <3>2. seen' = octets' /\ Shared!Answered("E02", <<>>)
      BY <3>1, EmptyFits, SendAnswers
    <3>3. request.a \notin Addresses
      BY <2>1, <2>3, MemSizeType DEF Addresses
    <3>4. Shared!WriteMemory
      BY <2>1, <3>1, <3>2, <3>3, SameSets DEF Shared!WriteMemory
    <3> QED BY <3>4 DEF Shared!Next
  <2> QED BY <2>2, <2>3
<1>2. CASE WriteByte
  <2>1. CASE ~Allocated(address, 1)
    BY <1>2, <2>1, UndefinedStutters DEF WriteByte
  <2>2. CASE Allocated(address, 1)
    <3>1. at = "write" /\ UNCHANGED <<machine, before, regs, cpsr, at, request, reply>>
      BY <1>2, <2>2 DEF WriteByte
    <3> QED BY <3>1 DEF SeenVars, seen, machine
  <2> QED BY <2>1, <2>2
<1>3. CASE WriteEnds
  <2>1. at = "write" /\ size = 0 /\ UNCHANGED <<octets, regs, cpsr>> /\ Send("OK", <<>>)
    BY <1>3 DEF WriteEnds
  <2> DEFINE a == request.a
             data == request.data
  <2>2. /\ request.op = "X" /\ a < MemSize /\ address = a + (Len(data) - size)
        /\ address <= MemSize
        /\ octets = [x \in Addresses |-> IF x >= a /\ x < address
                                         THEN data[x - a + 1] ELSE before[x]]
    BY <2>1 DEF IInv, Writing
  <2>3. a \in Nat /\ data \in Seq(Bytes)
    BY <2>2, RequestTypes DEF IInv, TypeOK
  <2>4. address = a + Len(data)
    BY <2>1, <2>2, <2>3
  <2>5. seen = before /\ seen' = octets' /\ Shared!Answered("OK", <<>>)
    BY <2>1, EmptyFits, SendAnswers DEF seen
  <2>6. seen' = Shared!Put(a, data)
    <3> HIDE DEF a, data
    <3>1. Shared!Put(a, data) = [x \in Addresses |-> IF x >= a /\ x < a + Len(data)
                                                     THEN data[x - a + 1] ELSE before[x]]
      BY <2>5, SeenBytes
    <3> QED BY <2>1, <2>2, <2>4, <2>5, <3>1
  <2>7. a \in Shared!Addresses /\ a + Len(data) <= MemSize
    BY <2>2, <2>3, <2>4, MemSizeType, SameSets DEF Addresses
  <2>8. Shared!WriteMemory
    BY <2>1, <2>2, <2>5, <2>6, <2>7 DEF Shared!WriteMemory
  <2> QED BY <2>8 DEF Shared!Next
<1> QED BY <1>1, <1>2, <1>3

LEMMA NextRefines ==
    ASSUME IInv, [Next]_vars
    PROVE  [Shared!Next]_SeenVars
<1>1. CASE Program
  BY <1>1, ProgramRefines
<1>2. CASE Ask
  <2>1. /\ at = "idle" /\ request = NoRequest /\ request' \in Requests
        /\ UNCHANGED <<machine, octets, before, regs, cpsr, at, reply>>
    BY <1>2 DEF Ask
  <2>2. seen' = seen
    BY <2>1 DEF seen
  <2>3. Shared!Ask
    BY <2>1, <2>2, SameSets DEF Shared!Ask, machine
  <2> QED BY <2>3 DEF Shared!Next
<1>3. CASE \/ read_general_registers \/ write_general_registers
           \/ read_register \/ write_register
  BY <1>3, RegistersRefine
<1>4. CASE read_memory \/ ReadByte \/ ReadEnds
  BY <1>4, ReadMemoryRefines
<1>5. CASE write_memory_binary \/ WriteByte \/ WriteEnds
  BY <1>5, WriteMemoryRefines
<1>6. CASE UNCHANGED vars
  BY <1>6 DEF vars, SeenVars, seen
<1> QED BY <1>1, <1>2, <1>3, <1>4, <1>5, <1>6 DEF Next, Debugger, Terminating

\* The loads and stores of the program and the commands of the debugger are
\* indivisible accesses to one store of bytes, in the order of the target, on a
\* host of either order and for words, memories and packets of every size.
THEOREM AccessesIndivisible == Spec => OneStore
<1>1. IInv /\ [Next]_vars => [Shared!Next]_(Shared!storeVars)
  BY NextRefines DEF SeenVars, Shared!storeVars
<1> QED BY InitRefines, <1>1, Invariance, PTL DEF Spec, OneStore, Shared!Spec
==============================================================================
