---------------------------- MODULE CodecProofs ----------------------------
(***************************************************************************)
(* Proofs about the Secret Key codec, for keys of any length and machine   *)
(* words of any width: what is displayed is the key in base32, and what    *)
(* is read off the display and typed is the key.                           *)
(*                                                                         *)
(* Both directions are loops, and each round of a loop is a step, so what  *)
(* they compute is an invariant: the text so far, the bytes so far, and    *)
(* the bits of the key that the accumulator holds (Window).                *)
(***************************************************************************)
EXTENDS SecretKeyCodec, TLAPS

(***************************************************************************)
(* Division.                                                               *)
(***************************************************************************)

LEMMA Division ==
  ASSUME NEW n \in Nat \ {0}, NEW x \in Nat
  PROVE  /\ x \div n \in Nat /\ x % n \in Nat /\ x % n < n
         /\ x = n * (x \div n) + (x % n)
  OBVIOUS

LEMMA DivisionUnique ==
  ASSUME NEW n \in Nat \ {0}, NEW e \in Nat, NEW g \in Nat, g < n,
         NEW x, x = n * e + g
  PROVE  x \div n = e /\ x % n = g
  OBVIOUS

\* Two digits, of base p and q, are below p * q.
LEMMA TwoDigits ==
  ASSUME NEW p \in Nat \ {0}, NEW q \in Nat \ {0}, NEW f \in Nat, NEW r \in Nat,
         f < q, r < p
  PROVE  p * f + r \in Nat /\ p * f + r < p * q /\ p * q \in Nat \ {0}
<1>1. q - 1 \in Nat /\ f <= q - 1
  OBVIOUS
<1>2. p * f <= p * (q - 1)
  BY <1>1
<1>3. p * (q - 1) = p * q - p
  OBVIOUS
<1>4. p * f \in Nat /\ p * q \in Nat
  OBVIOUS
<1>5. QED
  BY <1>2, <1>3, <1>4

\* Dividing twice is dividing by the product.
LEMMA DivisionTwice ==
  ASSUME NEW p \in Nat \ {0}, NEW q \in Nat \ {0}, NEW x \in Nat
  PROVE  (x \div p) \div q = x \div (p * q)
<1> DEFINE d == x \div p
           r == x % p
           e == d \div q
           f == d % q
           n == p * q
           g == p * f + r
<1>1. d \in Nat /\ r \in Nat /\ r < p /\ x = p * d + r
  BY Division
<1>2. e \in Nat /\ f \in Nat /\ f < q /\ d = q * e + f
  BY <1>1, Division
<1> HIDE DEF d, r, e, f
<1>3. x = (p * q) * e + (p * f + r)
  <2>1. x = p * (q * e + f) + r
    BY <1>1, <1>2
  <2>2. QED
    BY <1>1, <1>2, <2>1
<1>4. x = n * e + g /\ g \in Nat /\ g < n /\ n \in Nat \ {0}
  BY <1>1, <1>2, <1>3, TwoDigits
<1> HIDE DEF n, g
<1>5. x \div n = e
  BY <1>2, <1>4, DivisionUnique
<1>6. QED
  BY <1>5 DEF n, d, e

\* What is added in multiples of 2 * p * c does not show at digit p of the
\* binary numeral.
LEMMA MultiplesHide ==
  ASSUME NEW p \in Nat \ {0}, NEW c \in Nat, NEW k \in Nat, NEW r \in Nat
  PROVE  (((p * (2 * c)) * k + r) \div p) % 2 = (r \div p) % 2
<1> DEFINE h == r \div p
           l == r % p
           m == c * k
           x == (p * (2 * c)) * k + r
<1>1. h \in Nat /\ l \in Nat /\ l < p /\ r = p * h + l
  BY Division
<1>2. m \in Nat
  OBVIOUS
<1> HIDE DEF h, l
<1>3. x = p * (2 * m + h) + l
  <2>1. (p * (2 * c)) * k = p * (2 * m)
    <3>1. (p * (2 * c)) * k = p * ((2 * c) * k)
      OBVIOUS
    <3>2. (2 * c) * k = 2 * m
      OBVIOUS
    <3>3. QED
      BY <3>1, <3>2
  <2> HIDE DEF m
  <2>2. x = p * (2 * m) + (p * h + l)
    BY <1>1, <2>1
  <2>3. p * (2 * m) + p * h = p * (2 * m + h)
    BY <1>1, <1>2
  <2> HIDE DEF x
  <2>4. p * (2 * m) \in Nat /\ p * h \in Nat
    BY <1>1, <1>2
  <2>5. QED
    BY <1>1, <2>2, <2>3, <2>4
<1> HIDE DEF m, x
<1>4. 2 * m + h \in Nat
  BY <1>1, <1>2
<1>5. x \div p = 2 * m + h
  BY <1>1, <1>3, <1>4, DivisionUnique
<1>6. (2 * m + h) % 2 = h % 2
  BY <1>1, <1>2
<1>7. QED
  BY <1>5, <1>6 DEF x, h

(***************************************************************************)
(* Bits.                                                                   *)
(*                                                                         *)
(* The powers of two under a name of their own, so that the provers take   *)
(* them for what is said of them here.                                     *)
(***************************************************************************)
Power(k) == 2^k

\* Bit j of x, from the lowest.
BitOf(x, j) == (x \div Power(j)) % 2

LEMMA Powers ==
  /\ Power(0) = 1 /\ Power(1) = 2 /\ Power(2) = 4 /\ Power(3) = 8 /\ Power(4) = 16
  /\ Power(5) = 32 /\ Power(6) = 64 /\ Power(7) = 128 /\ Power(8) = 256
  /\ Power(9) = 512 /\ Power(10) = 1024 /\ Power(11) = 2048 /\ Power(12) = 4096
  BY DEF Power

LEMMA PowerType == \A s \in 0 .. 12 : Power(s) \in Nat \ {0}
<1> SUFFICES ASSUME NEW s \in 0 .. 12 PROVE Power(s) \in Nat \ {0}
  OBVIOUS
<1>1. \/ s = 0 \/ s = 1 \/ s = 2 \/ s = 3 \/ s = 4 \/ s = 5 \/ s = 6 \/ s = 7 \/ s = 8
      \/ s = 9 \/ s = 10 \/ s = 11 \/ s = 12
  OBVIOUS
<1>2. QED
  BY <1>1, Powers

LEMMA PowerSum ==
  ASSUME NEW s \in 0 .. 12, NEW i \in 0 .. 12, s + i <= 12
  PROVE  Power(s + i) = Power(s) * Power(i)
<1>1. \/ i = 0 \/ i = 1 \/ i = 2 \/ i = 3 \/ i = 4 \/ i = 5 \/ i = 6 \/ i = 7 \/ i = 8
      \/ i = 9 \/ i = 10 \/ i = 11 \/ i = 12
  OBVIOUS
<1>2. \/ s = 0 \/ s = 1 \/ s = 2 \/ s = 3 \/ s = 4 \/ s = 5 \/ s = 6 \/ s = 7 \/ s = 8
      \/ s = 9 \/ s = 10 \/ s = 11 \/ s = 12
  OBVIOUS
<1>3. CASE s = 0
  BY <1>1, <1>3, Powers
<1>4. CASE s = 1
  BY <1>1, <1>4, Powers
<1>5. CASE s = 2
  BY <1>1, <1>5, Powers
<1>6. CASE s = 3
  BY <1>1, <1>6, Powers
<1>7. CASE s = 4
  BY <1>1, <1>7, Powers
<1>8. CASE s = 5
  BY <1>1, <1>8, Powers
<1>9. CASE s = 6
  BY <1>1, <1>9, Powers
<1>10. CASE s = 7
  BY <1>1, <1>10, Powers
<1>11. CASE s = 8
  BY <1>1, <1>11, Powers
<1>12. CASE s = 9
  BY <1>1, <1>12, Powers
<1>13. CASE s = 10
  BY <1>1, <1>13, Powers
<1>14. CASE s = 11
  BY <1>1, <1>14, Powers
<1>15. CASE s = 12
  BY <1>1, <1>15, Powers
<1>16. QED
  BY <1>2, <1>3, <1>4, <1>5, <1>6, <1>7, <1>8, <1>9, <1>10, <1>11, <1>12, <1>13, <1>14, <1>15

\* A shift to the right moves every bit down.
LEMMA ShiftedBits ==
  ASSUME NEW x \in Nat, NEW s \in 0 .. 11, NEW i \in 0 .. 11, s + i <= 12
  PROVE  x \div Power(s) \in Nat /\ BitOf(x \div Power(s), i) = BitOf(x, s + i)
<1> DEFINE p == Power(s)
           q == Power(i)
<1>0. s \in 0 .. 12 /\ i \in 0 .. 12
  OBVIOUS
<1>1. p \in Nat \ {0} /\ q \in Nat \ {0} /\ Power(s + i) = p * q
  BY <1>0, PowerType, PowerSum, Zenon
<1>2. BitOf(x \div Power(s), i) = ((x \div p) \div q) % 2 /\ BitOf(x, s + i) = (x \div Power(s + i)) % 2
  BY DEF BitOf
<1> HIDE DEF p, q
<1>3. x \div p \in Nat /\ (x \div p) \div q = x \div (p * q)
  BY <1>1, Division, DivisionTwice
<1>4. QED
  BY <1>1, <1>2, <1>3 DEF p

\* The low n bits of a number are those of what is left of it when multiples of
\* 2^n are taken away.
LEMMA LowBits ==
  ASSUME NEW n \in 1 .. 12, NEW j \in 0 .. 11, j < n, NEW k \in Nat, NEW r \in Nat
  PROVE  BitOf(Power(n) * k + r, j) = BitOf(r, j)
<1> DEFINE p == Power(j)
           c == Power(n - j - 1)
           x == Power(n) * k + r
<1>1. p \in Nat \ {0} /\ c \in Nat \ {0}
  BY PowerType
<1>2. Power(n) = p * (2 * c)
  <2>1. Power(j + (n - j)) = p * Power(n - j)
    BY PowerSum
  <2>2. Power(1 + (n - j - 1)) = Power(1) * c
    BY PowerSum
  <2>3. j + (n - j) = n /\ 1 + (n - j - 1) = n - j
    OBVIOUS
  <2>4. QED
    BY <2>1, <2>2, <2>3, Powers
<1>3. BitOf(x, j) = (x \div p) % 2 /\ BitOf(r, j) = (r \div p) % 2
  BY DEF BitOf
<1>4. x = (p * (2 * c)) * k + r
  BY <1>2
<1> HIDE DEF p, c, x
<1>5. (((p * (2 * c)) * k + r) \div p) % 2 = (r \div p) % 2
  <2>1. c \in Nat /\ k \in Nat /\ r \in Nat
    BY <1>1
  <2>2. QED
    BY <1>1, <2>1, MultiplesHide, ZenonT(60)
<1>6. QED
  BY <1>3, <1>4, <1>5 DEF x

\* Eight bits pushed in from the right: they are the low ones, and those that
\* were there are above them.
LEMMA PushedByte ==
  ASSUME NEW a \in Nat, NEW b \in Bytes
  PROVE  /\ \A j \in 0 .. 7 : BitOf(a * 256 + b, j) = BitOf(b, j)
         /\ \A j \in 8 .. 11 : BitOf(a * 256 + b, j) = BitOf(a, j - 8)
<1>1. b \in Nat /\ b < 256 /\ a * 256 + b = Power(8) * a + b
  <2>1. b \in Nat /\ b < 256 /\ a * 256 + b = 256 * a + b
    BY DEF Bytes
  <2>2. QED
    BY <2>1, Powers
<1>2. ASSUME NEW j \in 0 .. 7 PROVE BitOf(Power(8) * a + b, j) = BitOf(b, j)
  <2>1. 8 \in 1 .. 12 /\ j \in 0 .. 11 /\ j < 8
    OBVIOUS
  <2>2. QED
    BY <1>1, <2>1, LowBits, ZenonT(60)
<1>3. ASSUME NEW j \in 8 .. 11 PROVE BitOf(a * 256 + b, j) = BitOf(a, j - 8)
  <2>1. (a * 256 + b) \div Power(8) = a
    BY <1>1, Powers
  <2>2. a * 256 + b \in Nat /\ j - 8 \in 0 .. 11 /\ 8 + (j - 8) = j
    BY <1>1
  <2> DEFINE i == j - 8
             x == a * 256 + b
  <2> HIDE DEF i, x
  <2>3. BitOf(x \div Power(8), i) = BitOf(x, 8 + i)
    <3>1. 8 \in 0 .. 11 /\ 8 + i <= 12 /\ i \in 0 .. 11 /\ x \in Nat
      BY <2>2 DEF i, x
    <3>2. QED
      BY <3>1, ShiftedBits
  <2>4. QED
    BY <2>1, <2>2, <2>3 DEF i, x
<1>4. QED
  BY <1>1, <1>2, <1>3

\* Five bits pushed in from the right.
LEMMA PushedSymbol ==
  ASSUME NEW a \in Nat, NEW v \in 0 .. 31
  PROVE  /\ \A j \in 0 .. 4 : BitOf(a * 32 + v, j) = BitOf(v, j)
         /\ \A j \in 5 .. 11 : BitOf(a * 32 + v, j) = BitOf(a, j - 5)
<1>1. v \in Nat /\ a * 32 + v = Power(5) * a + v
  <2>1. a * 32 + v = 32 * a + v /\ v \in Nat
    OBVIOUS
  <2>2. QED
    BY <2>1, Powers
<1>2. ASSUME NEW j \in 0 .. 4 PROVE BitOf(Power(5) * a + v, j) = BitOf(v, j)
  <2>1. 5 \in 1 .. 12 /\ j \in 0 .. 11 /\ j < 5
    OBVIOUS
  <2>2. QED
    BY <1>1, <2>1, LowBits, ZenonT(60)
<1>3. ASSUME NEW j \in 5 .. 11 PROVE BitOf(a * 32 + v, j) = BitOf(a, j - 5)
  <2>1. (a * 32 + v) \div Power(5) = a
    BY Powers
  <2>2. a * 32 + v \in Nat /\ j - 5 \in 0 .. 11 /\ 5 + (j - 5) = j
    BY <1>1
  <2> DEFINE i == j - 5
             x == a * 32 + v
  <2> HIDE DEF i, x
  <2>3. BitOf(x \div Power(5), i) = BitOf(x, 5 + i)
    <3>1. 5 \in 0 .. 11 /\ 5 + i <= 12 /\ i \in 0 .. 11 /\ x \in Nat
      BY <2>2 DEF i, x
    <3>2. QED
      BY <3>1, ShiftedBits
  <2>4. QED
    BY <2>1, <2>2, <2>3 DEF i, x
<1>4. QED
  BY <1>1, <1>2, <1>3

\* The bits an accumulator has room for survive its overflow.
LEMMA OverflowKeepsBits ==
  ASSUME NEW m \in Nat
  PROVE  m % Word \in Nat /\ \A j \in 0 .. 11 : BitOf(m % Word, j) = BitOf(m, j)
<1> DEFINE w == Word \div 4096
           q == m \div Word
           r == m % Word
           k == w * q
<1>1. w \in Nat /\ Word = 4096 * w
  BY WordAssumption
<1>2. q \in Nat /\ r \in Nat /\ m = Word * q + r
  BY WordAssumption, Division
<1> HIDE DEF w, q, r
<1>3. k \in Nat /\ m = 4096 * k + r
  BY <1>1, <1>2
<1> HIDE DEF k
<1>4. \A j \in 0 .. 11 : BitOf(Power(12) * k + r, j) = BitOf(r, j)
  BY <1>2, <1>3, LowBits
<1>5. QED
  BY <1>2, <1>3, <1>4, Powers DEF r

\* A number below 32 or below 256 is the sum of its bits.
LEMMA LowestBits ==
  ASSUME NEW x \in Nat
  PROVE  /\ BitOf(x, 0) = x % 2 /\ BitOf(x, 1) = (x \div 2) % 2
         /\ BitOf(x, 2) = (x \div 4) % 2 /\ BitOf(x, 3) = (x \div 8) % 2
         /\ BitOf(x, 4) = (x \div 16) % 2
<1>1. x \div 1 = x
  OBVIOUS
<1>2. Power(0) = 1 /\ Power(1) = 2 /\ Power(2) = 4 /\ Power(3) = 8 /\ Power(4) = 16
  BY Powers
<1>3. QED
  BY <1>1, <1>2, Zenon DEF BitOf

LEMMA FiveBits ==
  ASSUME NEW x \in Nat
  PROVE  x % 32 = 16 * BitOf(x, 4) + 8 * BitOf(x, 3) + 4 * BitOf(x, 2)
                  + 2 * BitOf(x, 1) + BitOf(x, 0)
<1>1. x % 32 = 16 * ((x \div 16) % 2) + 8 * ((x \div 8) % 2) + 4 * ((x \div 4) % 2)
               + 2 * ((x \div 2) % 2) + (x % 2)
  OBVIOUS
<1>2. QED
  BY <1>1, LowestBits, Zenon

LEMMA EightBits ==
  ASSUME NEW x \in Nat
  PROVE  x % 256 = 32 * (4 * BitOf(x, 7) + 2 * BitOf(x, 6) + BitOf(x, 5))
                   + (16 * BitOf(x, 4) + 8 * BitOf(x, 3) + 4 * BitOf(x, 2)
                      + 2 * BitOf(x, 1) + BitOf(x, 0))
<1> DEFINE y == x \div 32
<1>1. x % 256 = 32 * (y % 8) + (x % 32)
  OBVIOUS
<1>2. y \in Nat /\ y = x \div Power(5)
  BY Powers
<1> HIDE DEF y
<1>3. \A i \in 0 .. 2 : BitOf(y, i) = BitOf(x, 5 + i)
  <2> SUFFICES ASSUME NEW i \in 0 .. 2 PROVE BitOf(y, i) = BitOf(x, 5 + i)
    OBVIOUS
  <2>1. 5 \in 0 .. 11 /\ i \in 0 .. 11 /\ 5 + i <= 12
    OBVIOUS
  <2>2. QED
    BY <1>2, <2>1, ShiftedBits
<1>4. BitOf(y, 2) = BitOf(x, 7) /\ BitOf(y, 1) = BitOf(x, 6) /\ BitOf(y, 0) = BitOf(x, 5)
  <2>1. BitOf(y, 2) = BitOf(x, 5 + 2) /\ BitOf(y, 1) = BitOf(x, 5 + 1) /\ BitOf(y, 0) = BitOf(x, 5 + 0)
    BY <1>3
  <2>2. QED
    BY <2>1
<1>5. y % 8 = 4 * ((y \div 4) % 2) + 2 * ((y \div 2) % 2) + (y % 2)
  <2>1. y % 8 = 4 * ((y \div 4) % 2) + (y % 4)
    BY <1>2
  <2>2. y % 4 = 2 * ((y \div 2) % 2) + (y % 2)
    BY <1>2
  <2>3. QED
    BY <1>2, <2>1, <2>2
<1>6. y % 8 = 4 * BitOf(x, 7) + 2 * BitOf(x, 6) + BitOf(x, 5)
  BY <1>2, <1>4, <1>5, LowestBits, Zenon
<1>7. QED
  BY <1>1, <1>6, FiveBits, Zenon

\* A symbol's value has the bits it is made of.
LEMMA MadeOfBits ==
  ASSUME NEW b4 \in {0, 1}, NEW b3 \in {0, 1}, NEW b2 \in {0, 1}, NEW b1 \in {0, 1},
         NEW b0 \in {0, 1}, NEW v, v = 16 * b4 + 8 * b3 + 4 * b2 + 2 * b1 + b0
  PROVE  /\ v \in 0 .. 31
         /\ BitOf(v, 4) = b4 /\ BitOf(v, 3) = b3 /\ BitOf(v, 2) = b2
         /\ BitOf(v, 1) = b1 /\ BitOf(v, 0) = b0
  BY Powers DEF BitOf

(***************************************************************************)
(* The key, bit by bit.                                                    *)
(***************************************************************************)
KeyOK == key \in [1 .. KeyBytes -> Bytes]

\* The low bits of an accumulator are the bits of the key before bit end.
Window(acc, bits, end) == \A j \in 0 .. 11 : j < bits => BitOf(acc, j) = Bit(end - 1 - j)

LEMMA BitOfType ==
  ASSUME NEW x \in Nat, NEW j \in 0 .. 12
  PROVE  BitOf(x, j) \in {0, 1}
<1>1. Power(j) \in Nat \ {0}
  BY PowerType
<1>2. x \div Power(j) \in Nat
  BY <1>1, Division
<1>3. \A y \in Nat : y % 2 \in {0, 1}
  OBVIOUS
<1>4. QED
  BY <1>2, <1>3 DEF BitOf

LEMMA KeyBit ==
  ASSUME KeyOK, NEW r \in Nat, r < KeyBytes, NEW j \in 0 .. 7
  PROVE  /\ key[r + 1] \in Nat
         /\ Bit(8 * r + 7 - j) = BitOf(key[r + 1], j)
         /\ Bit(8 * r + 7 - j) \in {0, 1}
<1>1. key[r + 1] \in Nat
  <2>1. r + 1 \in 1 .. KeyBytes
    BY KeyBytesAssumption
  <2>2. key[r + 1] \in Bytes
    BY <2>1 DEF KeyOK
  <2>3. QED
    BY <2>2 DEF Bytes
<1> DEFINE n == 8 * r + 7 - j
<1>2. n \div 8 = r /\ 7 - (n % 8) = j
  OBVIOUS
<1> HIDE DEF n
<1>3. Bit(n) = BitOf(key[r + 1], j)
  BY <1>2 DEF Bit, BitOf, Power
<1>4. QED
  BY <1>1, <1>3, BitOfType DEF n

LEMMA BitType ==
  ASSUME KeyOK, NEW n \in Nat, n < 8 * KeyBytes
  PROVE  Bit(n) \in {0, 1}
<1> DEFINE r == n \div 8
           j == 7 - (n % 8)
<1>1. r \in Nat /\ j \in 0 .. 7 /\ n = 8 * r + 7 - j /\ r < KeyBytes
  BY KeyBytesAssumption
<1> HIDE DEF r, j
<1>2. QED
  BY <1>1, KeyBit

\* A byte of the key pushed into the accumulator.
LEMMA WindowByte ==
  ASSUME KeyOK, NEW r \in Nat, r < KeyBytes, NEW acc \in Nat, NEW bits \in 0 .. 4,
         Window(acc, bits, 8 * r)
  PROVE  /\ (acc * 256 + key[r + 1]) % Word \in Nat
         /\ Window((acc * 256 + key[r + 1]) % Word, bits + 8, 8 * (r + 1))
<1> DEFINE b == key[r + 1]
           m == acc * 256 + b
<1>1. b \in Bytes
  BY KeyBytesAssumption DEF KeyOK
<1>2. \A j \in 0 .. 7 : BitOf(b, j) = Bit(8 * r + 7 - j)
  BY KeyBit
<1> HIDE DEF b
<1>3. /\ \A j \in 0 .. 7 : BitOf(m, j) = BitOf(b, j)
      /\ \A j \in 8 .. 11 : BitOf(m, j) = BitOf(acc, j - 8)
  BY <1>1, PushedByte
<1>4. m \in Nat
  BY <1>1 DEF Bytes
<1> HIDE DEF m
<1>5. m % Word \in Nat /\ \A j \in 0 .. 11 : BitOf(m % Word, j) = BitOf(m, j)
  BY <1>4, OverflowKeepsBits
<1>6. ASSUME NEW j \in 0 .. 11, j < bits + 8
      PROVE  BitOf(m, j) = Bit(8 * (r + 1) - 1 - j)
  <2>1. 8 * (r + 1) - 1 - j = 8 * r + 7 - j
    OBVIOUS
  <2>2. CASE j <= 7
    BY <1>2, <1>3, <2>1, <2>2
  <2>3. CASE j >= 8
    <3>1. j - 8 \in 0 .. 11 /\ j - 8 < bits /\ 8 * r - 1 - (j - 8) = 8 * r + 7 - j
      BY <1>6, <2>3
    <3>2. BitOf(acc, j - 8) = Bit(8 * r - 1 - (j - 8))
      BY <3>1 DEF Window
    <3>3. QED
      BY <1>3, <2>1, <2>3, <3>1, <3>2
  <2>4. QED
    BY <2>2, <2>3
<1>7. QED
  BY <1>5, <1>6 DEF Window, m, b

\* A symbol's value pushed into the accumulator.
LEMMA WindowSymbol ==
  ASSUME NEW s \in Nat, NEW v \in 0 .. 31, NEW acc \in Nat, NEW bits \in 0 .. 7,
         Window(acc, bits, 5 * s),
         \A j \in 0 .. 4 : BitOf(v, j) = Bit(5 * s + 4 - j)
  PROVE  /\ (acc * 32 + v) % Word \in Nat
         /\ Window((acc * 32 + v) % Word, bits + 5, 5 * (s + 1))
<1> DEFINE m == acc * 32 + v
<1>1. /\ \A j \in 0 .. 4 : BitOf(m, j) = BitOf(v, j)
      /\ \A j \in 5 .. 11 : BitOf(m, j) = BitOf(acc, j - 5)
  BY PushedSymbol
<1>2. m \in Nat
  OBVIOUS
<1> HIDE DEF m
<1>3. m % Word \in Nat /\ \A j \in 0 .. 11 : BitOf(m % Word, j) = BitOf(m, j)
  BY <1>2, OverflowKeepsBits
<1>4. ASSUME NEW j \in 0 .. 11, j < bits + 5
      PROVE  BitOf(m, j) = Bit(5 * (s + 1) - 1 - j)
  <2>1. 5 * (s + 1) - 1 - j = 5 * s + 4 - j
    OBVIOUS
  <2>2. CASE j <= 4
    BY <1>1, <2>1, <2>2
  <2>3. CASE j >= 5
    <3>1. j - 5 \in 0 .. 11 /\ j - 5 < bits /\ 5 * s - 1 - (j - 5) = 5 * s + 4 - j
      BY <1>4, <2>3
    <3>2. BitOf(acc, j - 5) = Bit(5 * s - 1 - (j - 5))
      BY <3>1 DEF Window
    <3>3. QED
      BY <1>1, <2>1, <2>3, <3>1, <3>2
  <2>4. QED
    BY <2>2, <2>3
<1>5. QED
  BY <1>3, <1>4 DEF Window, m

\* The encoder's inner loop: the symbol that goes to the text is the next one.
LEMMA DigitIsSymbol ==
  ASSUME NEW s \in Nat, NEW acc \in Nat, NEW bits \in 5 .. 12,
         NEW end \in Nat, end = 5 * s + bits, Window(acc, bits, end)
  PROVE  Digit(acc, bits - 5) = SymbolAt(s)
<1> DEFINE shift == bits - 5
           x == acc \div Power(shift)
<1>1. shift \in 0 .. 7 /\ bits \in 0 .. 12 /\ \A i \in 0 .. 4 : shift + i < bits
  OBVIOUS
<1>2. \A i \in 0 .. 4 : end - 1 - shift - i = 5 * s + 4 - i
  OBVIOUS
<1> HIDE DEF shift
<1>3. \A i \in 0 .. 4 : x \in Nat /\ BitOf(x, i) = Bit(5 * s + 4 - i)
  <2> SUFFICES ASSUME NEW i \in 0 .. 4
               PROVE  x \in Nat /\ BitOf(x, i) = Bit(end - 1 - shift - i)
    BY <1>2
  <2>1. /\ shift \in 0 .. 11 /\ i \in 0 .. 11 /\ shift + i <= 12
        /\ shift + i \in 0 .. 11 /\ shift + i < bits
    BY <1>1
  <2>2. x \in Nat /\ BitOf(x, i) = BitOf(acc, shift + i)
    BY <2>1, ShiftedBits
  <2>3. BitOf(acc, shift + i) = Bit(end - 1 - (shift + i))
    BY <2>1 DEF Window
  <2>4. end - 1 - (shift + i) = end - 1 - shift - i
    BY <1>1
  <2>5. QED
    BY <2>2, <2>3, <2>4
<1>4. Digit(acc, shift) = ALPHABET[(x % 32) + 1]
  BY DEF Digit, Power
<1> HIDE DEF x
<1>5. x \in Nat
  BY <1>3
<1>6. /\ BitOf(x, 4) = Bit(5*s) /\ BitOf(x, 3) = Bit(5*s + 1) /\ BitOf(x, 2) = Bit(5*s + 2)
      /\ BitOf(x, 1) = Bit(5*s + 3) /\ BitOf(x, 0) = Bit(5*s + 4)
  BY <1>3
<1>7. x % 32 = 16 * Bit(5*s) + 8 * Bit(5*s + 1) + 4 * Bit(5*s + 2)
               + 2 * Bit(5*s + 3) + Bit(5*s + 4)
  BY <1>5, <1>6, FiveBits, Zenon
<1>8. QED
  BY <1>4, <1>7, Zenon DEF SymbolAt, shift

\* The byte that the decoder takes from the accumulator is the key's.
LEMMA ByteIsKeyByte ==
  ASSUME KeyOK, NEW r \in Nat, r < KeyBytes, NEW acc \in Nat, NEW bits \in 8 .. 12,
         NEW end \in Nat, end = 8 * r + bits, Window(acc, bits, end)
  PROVE  Byte(acc, bits - 8) = key[r + 1]
<1> DEFINE shift == bits - 8
           x == acc \div Power(shift)
           b == key[r + 1]
<1>1. shift \in 0 .. 7 /\ bits \in 0 .. 12 /\ \A i \in 0 .. 7 : shift + i < bits
  OBVIOUS
<1>2. \A i \in 0 .. 7 : end - 1 - shift - i = 8 * r + 7 - i
  OBVIOUS
<1> HIDE DEF shift
<1>3. \A i \in 0 .. 7 : x \in Nat /\ BitOf(x, i) = Bit(8 * r + 7 - i)
  <2> SUFFICES ASSUME NEW i \in 0 .. 7
               PROVE  x \in Nat /\ BitOf(x, i) = Bit(end - 1 - shift - i)
    BY <1>2
  <2>1. /\ shift \in 0 .. 11 /\ i \in 0 .. 11 /\ shift + i <= 12
        /\ shift + i \in 0 .. 11 /\ shift + i < bits
    BY <1>1
  <2>2. x \in Nat /\ BitOf(x, i) = BitOf(acc, shift + i)
    BY <2>1, ShiftedBits
  <2>3. BitOf(acc, shift + i) = Bit(end - 1 - (shift + i))
    BY <2>1 DEF Window
  <2>4. end - 1 - (shift + i) = end - 1 - shift - i
    BY <1>1
  <2>5. QED
    BY <2>2, <2>3, <2>4
<1>4. Byte(acc, shift) = x % 256
  BY DEF Byte, Power
<1>5. b \in Bytes
  BY KeyBytesAssumption DEF KeyOK
<1>6. \A i \in 0 .. 7 : BitOf(b, i) = Bit(8 * r + 7 - i)
  BY KeyBit
<1> HIDE DEF x, b
<1>7. x \in Nat /\ b \in Nat /\ b % 256 = b
  <2>1. \A c \in 0 .. 255 : c \in Nat /\ c % 256 = c
    OBVIOUS
  <2>2. b \in Nat /\ b % 256 = b
    BY <1>5, <2>1, Zenon DEF Bytes
  <2>3. 0 \in 0 .. 7
    OBVIOUS
  <2>4. QED
    BY <1>3, <2>2, <2>3
<1>8. \A i \in 0 .. 7 : BitOf(x, i) = BitOf(b, i)
  BY <1>3, <1>6
<1>9. /\ BitOf(x, 7) = BitOf(b, 7) /\ BitOf(x, 6) = BitOf(b, 6) /\ BitOf(x, 5) = BitOf(b, 5)
      /\ BitOf(x, 4) = BitOf(b, 4) /\ BitOf(x, 3) = BitOf(b, 3) /\ BitOf(x, 2) = BitOf(b, 2)
      /\ BitOf(x, 1) = BitOf(b, 1) /\ BitOf(x, 0) = BitOf(b, 0)
  BY <1>8
<1>10. x % 256 = b % 256
  <2>1. x % 256 = 32 * (4 * BitOf(x, 7) + 2 * BitOf(x, 6) + BitOf(x, 5))
                  + (16 * BitOf(x, 4) + 8 * BitOf(x, 3) + 4 * BitOf(x, 2)
                     + 2 * BitOf(x, 1) + BitOf(x, 0))
    BY <1>7, EightBits, Zenon
  <2>2. b % 256 = 32 * (4 * BitOf(b, 7) + 2 * BitOf(b, 6) + BitOf(b, 5))
                  + (16 * BitOf(b, 4) + 8 * BitOf(b, 3) + 4 * BitOf(b, 2)
                     + 2 * BitOf(b, 1) + BitOf(b, 0))
    BY <1>7, EightBits, Zenon
  <2>3. QED
    BY <1>9, <2>1, <2>2, Zenon
<1>11. QED
  BY <1>4, <1>7, <1>10 DEF shift, b

\* The symbol that stands for five bits of the key: its value is those bits.
LEMMA SymbolBits ==
  ASSUME KeyOK, NEW s \in Nat, 5 * s + 4 < 8 * KeyBytes
  PROVE  \E v \in 0 .. 31 :
           /\ SymbolAt(s) = ALPHABET[v + 1]
           /\ \A j \in 0 .. 4 : BitOf(v, j) = Bit(5 * s + 4 - j)
<1>1. /\ Bit(5*s) \in {0, 1} /\ Bit(5*s + 1) \in {0, 1} /\ Bit(5*s + 2) \in {0, 1}
      /\ Bit(5*s + 3) \in {0, 1} /\ Bit(5*s + 4) \in {0, 1}
  <2>1. \A i \in 0 .. 4 : Bit(5 * s + i) \in {0, 1}
    <3> SUFFICES ASSUME NEW i \in 0 .. 4 PROVE Bit(5 * s + i) \in {0, 1}
      OBVIOUS
    <3>1. 5 * s + i \in Nat /\ 5 * s + i < 8 * KeyBytes
      BY KeyBytesAssumption
    <3>2. QED
      BY <3>1, BitType
  <2>2. 5 * s + 0 = 5 * s
    OBVIOUS
  <2>3. QED
    BY <2>1, <2>2
<1> DEFINE v == 16 * Bit(5*s) + 8 * Bit(5*s + 1) + 4 * Bit(5*s + 2)
                + 2 * Bit(5*s + 3) + Bit(5*s + 4)
<1>2. /\ v \in 0 .. 31
      /\ BitOf(v, 4) = Bit(5*s) /\ BitOf(v, 3) = Bit(5*s + 1) /\ BitOf(v, 2) = Bit(5*s + 2)
      /\ BitOf(v, 1) = Bit(5*s + 3) /\ BitOf(v, 0) = Bit(5*s + 4)
  BY <1>1, MadeOfBits
<1>3. SymbolAt(s) = ALPHABET[v + 1]
  BY DEF SymbolAt
<1> HIDE DEF v
<1>4. ASSUME NEW j \in 0 .. 4 PROVE BitOf(v, j) = Bit(5 * s + 4 - j)
  <2>1. j = 0 \/ j = 1 \/ j = 2 \/ j = 3 \/ j = 4
    OBVIOUS
  <2>2. 5*s + 4 - 0 = 5*s + 4 /\ 5*s + 4 - 1 = 5*s + 3 /\ 5*s + 4 - 2 = 5*s + 2
        /\ 5*s + 4 - 3 = 5*s + 1 /\ 5*s + 4 - 4 = 5*s
    OBVIOUS
  <2>3. QED
    BY <1>2, <2>1, <2>2
<1>5. QED
  BY <1>2, <1>3, <1>4

(***************************************************************************)
(* The alphabet.                                                           *)
(***************************************************************************)
LEMMA AlphabetType ==
  /\ \A p \in 1 .. 32 : ALPHABET[p] \notin Separators
  /\ \A p \in 1 .. 32 : ALPHABET[p] \notin {"O", "I", "L"}
  /\ \A p \in 1 .. 32 : ALPHABET[p] = "0" => p = 1
  /\ \A p \in 1 .. 32 : ALPHABET[p] = "1" => p = 2
  BY DEF ALPHABET, Separators

LEMMA AlphabetInjective ==
  \A p, q \in 1 .. 32 : ALPHABET[p] = ALPHABET[q] => p = q
  BY DEF ALPHABET

\* However a symbol of the display is typed, the parser takes it for its value.
LEMMA ReadingsValue ==
  ASSUME NEW v \in 0 .. 31, NEW upper \in Readings(ALPHABET[v + 1])
  PROVE  symbol_value(upper) = v
<1> DEFINE p == v + 1
<1>1. p \in 1 .. 32 /\ v = p - 1
  OBVIOUS
<1> HIDE DEF p
<1>2. CASE upper = ALPHABET[p]
  <2>1. upper \notin {"O", "I", "L"}
    BY <1>1, <1>2, AlphabetType
  <2>2. symbol_value(upper) = (CHOOSE q \in 1 .. 32 : ALPHABET[q] = upper) - 1
    BY <2>1 DEF symbol_value
  <2>3. \E q \in 1 .. 32 : ALPHABET[q] = upper
    BY <1>1, <1>2
  <2> DEFINE q == CHOOSE q \in 1 .. 32 : ALPHABET[q] = upper
  <2>4. q \in 1 .. 32 /\ ALPHABET[q] = upper
    BY <2>3
  <2> HIDE DEF q
  <2>5. q = p
    BY <1>1, <1>2, <2>4, AlphabetInjective
  <2>6. QED
    BY <1>1, <2>2, <2>5 DEF q
<1>3. CASE upper = "O" /\ ALPHABET[p] = "0"
  BY <1>1, <1>3, AlphabetType DEF symbol_value
<1>4. CASE upper \in {"I", "L"} /\ ALPHABET[p] = "1"
  BY <1>1, <1>4, AlphabetType DEF symbol_value
<1>5. QED
  BY <1>2, <1>3, <1>4 DEF Readings, p

LEMMA SymbolValueType ==
  ASSUME NEW upper \in Symbols
  PROVE  symbol_value(upper) \in 0 .. 31
<1>1. CASE upper \in {"O", "I", "L"}
  BY <1>1 DEF symbol_value
<1>2. CASE upper \notin {"O", "I", "L"}
  <2>1. \E p \in 1 .. 32 : upper = ALPHABET[p]
    BY <1>2 DEF Symbols
  <2>2. PICK p \in 1 .. 32 : upper = ALPHABET[p]
    BY <2>1
  <2>3. upper \in Readings(ALPHABET[(p - 1) + 1]) /\ p - 1 \in 0 .. 31
    BY <2>2 DEF Readings
  <2>4. QED
    BY <2>3, ReadingsValue
<1>3. QED
  BY <1>1, <1>2

(***************************************************************************)
(* The text.                                                               *)
(***************************************************************************)

\* What belongs at position i of the display.
Glyph(i) == IF i % 5 = 0 THEN "-" ELSE SymbolAt(i - (i \div 5) - 1)

Fives == KeyBytes \div 5

LEMMA FivesOfBytes == Fives \in Nat \ {0} /\ KeyBytes = 5 * Fives
  BY KeyBytesAssumption DEF Fives

\* The text grows by a symbol, and by a hyphen after every fourth.
LEMMA TextPosition ==
  ASSUME NEW n \in Nat
  PROVE  LET at == n + (n \div 4) + 1 IN
         /\ at % 5 # 0 /\ at - (at \div 5) - 1 = n
         /\ (n + 1) % 4 = 0 => (at + 1) % 5 = 0 /\ (n + 1) + ((n + 1) \div 4) = at + 1
         /\ (n + 1) % 4 # 0 => (n + 1) + ((n + 1) \div 4) = at
<1> DEFINE q == n \div 4
           t == n % 4
           at == n + q + 1
<1>1. q \in Nat /\ t \in 0 .. 3 /\ n = 4 * q + t
  OBVIOUS
<1>2. at = 5 * q + (t + 1)
  BY <1>1
<1>3. at \div 5 = q /\ at % 5 = t + 1
  BY <1>1, <1>2
<1>4. CASE t = 3
  <2>1. (n + 1) % 4 = 0 /\ (n + 1) \div 4 = q + 1 /\ (at + 1) % 5 = 0
    BY <1>1, <1>2, <1>4
  <2>2. QED
    BY <1>1, <1>2, <1>3, <1>4, <2>1
<1>5. CASE t < 3
  <2>1. (n + 1) % 4 # 0 /\ (n + 1) \div 4 = q
    BY <1>1, <1>5
  <2>2. QED
    BY <1>1, <1>2, <1>3, <1>5, <2>1
<1>6. QED
  BY <1>1, <1>4, <1>5

(***************************************************************************)
(* The encoder.                                                            *)
(***************************************************************************)
\* The characters of the display.
Glyphs == {ALPHABET[p] : p \in 1 .. 32} \cup {"-"}

EncType ==
  enc \in [read : 0 .. KeyBytes, acc : Nat, acc_bits : 0 .. 12, symbols : Nat,
           out : Seq(Glyphs), done : BOOLEAN]

\* The bits read are the bits of the text and those the accumulator holds, and
\* the text is the display as far as it goes: with a hyphen after every full
\* group while it grows, without the last one when it is done.
EncInv ==
  /\ EncType
  /\ 5 * enc.symbols + enc.acc_bits = 8 * enc.read
  /\ Window(enc.acc, enc.acc_bits, 8 * enc.read)
  /\ \A i \in 1 .. Len(enc.out) : enc.out[i] = Glyph(i)
  /\ ~ enc.done => Len(enc.out) = enc.symbols + (enc.symbols \div 4)
  /\ enc.done => enc.read = KeyBytes /\ enc.acc_bits = 0 /\ Len(enc.out) = 10 * Fives - 1

LEMMA EncFacts ==
  ASSUME EncInv
  PROVE  /\ KeyBytes \in Nat /\ enc.read \in Nat /\ enc.read <= KeyBytes
         /\ enc.acc \in Nat /\ enc.acc_bits \in 0 .. 12 /\ enc.symbols \in Nat
         /\ enc.out \in Seq(Glyphs) /\ enc.done \in BOOLEAN
         /\ 5 * enc.symbols + enc.acc_bits = 8 * enc.read
<1>1. /\ enc.read \in 0 .. KeyBytes /\ enc.acc \in Nat /\ enc.acc_bits \in 0 .. 12
      /\ enc.symbols \in Nat /\ enc.out \in Seq(Glyphs) /\ enc.done \in BOOLEAN
      /\ 5 * enc.symbols + enc.acc_bits = 8 * enc.read
  BY DEF EncInv, EncType
<1>2. QED
  BY <1>1, KeyBytesAssumption

LEMMA EncInitially == Init => KeyOK /\ EncInv
<1> SUFFICES ASSUME Init PROVE KeyOK /\ EncInv
  OBVIOUS
<1>1. KeyOK
  BY KeysAssumption DEF Init, KeyOK
<1>2. /\ enc.read = 0 /\ enc.acc = 0 /\ enc.acc_bits = 0 /\ enc.symbols = 0
      /\ enc.out = <<>> /\ enc.done = FALSE
  BY DEF Init
<1>3. EncType
  <2>1. 0 \in 0 .. KeyBytes /\ 0 \in 0 .. 12 /\ 0 \in Nat /\ <<>> \in Seq(Glyphs)
    BY KeyBytesAssumption
  <2>2. QED
    BY <2>1 DEF Init, EncType
<1>4. Window(enc.acc, enc.acc_bits, 8 * enc.read)
  BY <1>2 DEF Window
<1>5. Len(enc.out) = 0 /\ 0 + (0 \div 4) = 0
  BY <1>2
<1>6. QED
  BY <1>1, <1>2, <1>3, <1>4, <1>5 DEF EncInv

LEMMA SymbolIsGlyph ==
  ASSUME KeyOK, NEW n \in Nat, 5 * n + 4 < 8 * KeyBytes
  PROVE  SymbolAt(n) \in Glyphs
<1>1. PICK v \in 0 .. 31 : SymbolAt(n) = ALPHABET[v + 1]
  BY SymbolBits
<1>2. v + 1 \in 1 .. 32
  OBVIOUS
<1>3. QED
  BY <1>1, <1>2, Zenon DEF Glyphs

\* The key stays what it is, and so do its bits and its text.
LEMMA KeyStays ==
  ASSUME key' = key
  PROVE  /\ KeyOK => KeyOK'
         /\ \A n : Bit(n)' = Bit(n)
         /\ \A n : SymbolAt(n)' = SymbolAt(n)
         /\ \A i : Glyph(i)' = Glyph(i)
<1>1. KeyOK => KeyOK'
  BY DEF KeyOK
<1>2. \A n : Bit(n)' = Bit(n)
  BY DEF Bit
<1>3. \A n : SymbolAt(n)' = SymbolAt(n)
  BY <1>2, Zenon DEF SymbolAt
<1>4. \A i : Glyph(i)' = Glyph(i)
  BY <1>3, Zenon DEF Glyph
<1>5. QED
  BY <1>1, <1>2, <1>3, <1>4

LEMMA EncReads == KeyOK /\ EncInv /\ EncodeByte => EncInv'
<1> SUFFICES ASSUME KeyOK, EncInv, EncodeByte PROVE EncInv'
  OBVIOUS
<1>1. /\ enc.read \in Nat /\ enc.read < KeyBytes /\ enc.acc \in Nat /\ enc.acc_bits \in 0 .. 4
      /\ Window(enc.acc, enc.acc_bits, 8 * enc.read)
      /\ enc.symbols \in Nat /\ 5 * enc.symbols + enc.acc_bits = 8 * enc.read
  <2>1. enc.acc_bits < 5 /\ enc.read < KeyBytes
    BY DEF EncodeByte
  <2>2. Window(enc.acc, enc.acc_bits, 8 * enc.read)
    BY DEF EncInv
  <2>3. \A b \in 0 .. 12 : b < 5 => b \in 0 .. 4
    OBVIOUS
  <2>4. QED
    BY <2>1, <2>2, <2>3, EncFacts, Zenon
<1>2. /\ enc'.read = enc.read + 1 /\ enc'.acc = (enc.acc * 256 + key[enc.read + 1]) % Word
      /\ enc'.acc_bits = enc.acc_bits + 8
      /\ enc'.symbols = enc.symbols /\ enc'.out = enc.out /\ enc'.done = enc.done
      /\ key' = key
  BY DEF EncInv, EncType, EncodeByte
<1>3. enc'.acc \in Nat /\ Window(enc'.acc, enc.acc_bits + 8, 8 * (enc.read + 1))
  BY <1>1, <1>2, WindowByte
<1>4. EncType'
  <2>1. enc'.read \in 0 .. KeyBytes /\ enc'.acc_bits \in 0 .. 12
    BY <1>1, <1>2, KeyBytesAssumption
  <2>2. QED
    BY <1>3, <2>1 DEF EncInv, EncType, EncodeByte
<1>5. Window(enc.acc, enc.acc_bits, 8 * enc.read)'
  BY <1>2, <1>3, KeyStays DEF Window, BitOf
<1>6. \A i \in 1 .. Len(enc'.out) : enc'.out[i] = Glyph(i)'
  BY <1>2, KeyStays DEF EncInv
<1>7. ~ enc.done /\ ~ enc'.done
  BY <1>1, <1>2 DEF EncInv
<1>8. 5 * enc'.symbols + enc'.acc_bits = 8 * enc'.read
  BY <1>1, <1>2
<1>9. Len(enc'.out) = enc'.symbols + (enc'.symbols \div 4)
  BY <1>2, <1>7 DEF EncInv
<1>10. QED
  BY <1>4, <1>5, <1>6, <1>7, <1>8, <1>9 DEF EncInv

LEMMA EncEmits == KeyOK /\ EncInv /\ EmitSymbol => EncInv'
<1> SUFFICES ASSUME KeyOK, EncInv, EmitSymbol PROVE EncInv'
  OBVIOUS
<1> DEFINE n == enc.symbols
           bits == enc.acc_bits
           glyph == Digit(enc.acc, bits - 5)
           text == Append(enc.out, glyph)
           at == n + (n \div 4) + 1
<1>1. /\ enc.read \in Nat /\ enc.acc \in Nat /\ bits \in 5 .. 12
      /\ Window(enc.acc, bits, 8 * enc.read)
      /\ n \in Nat /\ 8 * enc.read = 5 * n + bits /\ enc.out \in Seq(Glyphs)
  <2>1. bits >= 5
    BY DEF EmitSymbol
  <2>2. Window(enc.acc, bits, 8 * enc.read)
    BY DEF EncInv
  <2>3. \A b \in 0 .. 12 : b >= 5 => b \in 5 .. 12
    OBVIOUS
  <2>4. bits \in 5 .. 12
    BY <2>1, <2>3, EncFacts, Zenon
  <2>5. 8 * enc.read = 5 * n + bits
    BY EncFacts, Zenon
  <2>6. QED
    BY <2>2, <2>4, <2>5, EncFacts, Zenon
<1>2. ~ enc.done /\ Len(enc.out) = n + (n \div 4)
  BY <1>1 DEF EncInv
<1>3. glyph = SymbolAt(n)
  <2>1. 8 * enc.read \in Nat
    BY <1>1
  <2> DEFINE end == 8 * enc.read
  <2> HIDE DEF end, n, bits
  <2>2. Digit(enc.acc, bits - 5) = SymbolAt(n)
    BY <1>1, <2>1, DigitIsSymbol DEF end
  <2>3. QED
    BY <2>2 DEF n, bits
<1>4. glyph \in Glyphs
  <2> DEFINE r == enc.read
  <2>1. /\ r <= KeyBytes /\ KeyBytes \in Nat /\ r \in Nat
        /\ n \in Nat /\ bits \in 5 .. 12 /\ 8 * r = 5 * n + bits
    BY <1>1, EncFacts, Zenon
  <2> HIDE DEF n, bits, r
  <2>2. n \in Nat
    BY <2>1
  <2>3. 5 * n + 4 < 8 * KeyBytes
    BY <2>1
  <2>4. QED
    BY <1>3, <2>2, <2>3, SymbolIsGlyph
<1>5. /\ enc'.read = enc.read /\ enc'.acc = enc.acc /\ enc'.acc_bits = bits - 5
      /\ enc'.symbols = n + 1 /\ enc'.done = enc.done /\ key' = key
      /\ enc'.out = IF (n + 1) % 4 = 0 THEN Append(text, "-") ELSE text
  BY DEF EncInv, EncType, EmitSymbol, Grouped
<1> HIDE DEF glyph
<1>6. /\ text \in Seq(Glyphs) /\ Len(text) = at /\ text[at] = glyph
      /\ \A i \in 1 .. at - 1 : text[i] = enc.out[i]
      /\ at \in Nat
  BY <1>1, <1>2, <1>4
<1>7. /\ at % 5 # 0 /\ at - (at \div 5) - 1 = n
      /\ (n + 1) % 4 = 0 => (at + 1) % 5 = 0 /\ (n + 1) + ((n + 1) \div 4) = at + 1
      /\ (n + 1) % 4 # 0 => (n + 1) + ((n + 1) \div 4) = at
  BY <1>1, TextPosition
<1>8. \A i \in 1 .. at : text[i] = Glyph(i)
  <2>1. Glyph(at) = glyph
    BY <1>3, <1>7 DEF Glyph
  <2>2. ASSUME NEW i \in 1 .. at, i # at PROVE text[i] = Glyph(i)
    <3>1. i \in 1 .. at - 1 /\ i \in 1 .. Len(enc.out)
      BY <1>2, <1>6, <2>2
    <3>2. QED
      BY <1>6, <3>1 DEF EncInv
  <2>3. QED
    BY <1>6, <2>1, <2>2
<1> HIDE DEF text, at
<1>9. /\ enc'.out \in Seq(Glyphs)
      /\ Len(enc'.out) = (n + 1) + ((n + 1) \div 4)
      /\ \A i \in 1 .. Len(enc'.out) : enc'.out[i] = Glyph(i)
  <2>1. CASE (n + 1) % 4 = 0
    <3>1. enc'.out = Append(text, "-") /\ "-" \in Glyphs /\ Glyph(at + 1) = "-"
      BY <1>5, <1>7, <2>1 DEF Glyphs, Glyph
    <3>2. /\ enc'.out \in Seq(Glyphs) /\ Len(enc'.out) = at + 1 /\ enc'.out[at + 1] = "-"
          /\ \A i \in 1 .. at : enc'.out[i] = text[i]
      BY <1>6, <3>1
    <3>3. QED
      BY <1>6, <1>7, <1>8, <2>1, <3>1, <3>2
  <2>2. CASE (n + 1) % 4 # 0
    BY <1>5, <1>6, <1>7, <1>8, <2>2
  <2>3. QED
    BY <2>1, <2>2
<1>10. EncType'
  <2>1. enc'.acc_bits \in 0 .. 12 /\ enc'.symbols \in Nat
    BY <1>1, <1>5
  <2> HIDE DEF n, bits
  <2>2. QED
    BY <1>5, <1>9, <2>1 DEF EncInv, EncType, EmitSymbol
<1>11. Window(enc.acc, enc.acc_bits, 8 * enc.read)'
  <2>1. Window(enc.acc, bits - 5, 8 * enc.read)
    <3>1. \A j \in 0 .. 11 : j < bits - 5 => j < bits
      BY <1>1
    <3>2. \A j \in 0 .. 11 : j < bits => BitOf(enc.acc, j) = Bit(8 * enc.read - 1 - j)
      BY <1>1 DEF Window
    <3>3. QED
      BY <3>1, <3>2, Zenon DEF Window
  <2>2. Window(enc'.acc, enc'.acc_bits, 8 * enc'.read)
    BY <1>5, <2>1, Zenon
  <2>3. QED
    BY <1>5, <2>2, KeyStays DEF Window, BitOf
<1>12. \A i \in 1 .. Len(enc'.out) : enc'.out[i] = Glyph(i)'
  BY <1>5, <1>9, KeyStays
<1>13. 5 * enc'.symbols + enc'.acc_bits = 8 * enc'.read
  <2>1. enc'.symbols = n + 1 /\ enc'.acc_bits = bits - 5 /\ enc'.read = enc.read
    BY <1>5
  <2> HIDE DEF n, bits
  <2>2. QED
    BY <1>1, <2>1
<1>14. QED
  BY <1>2, <1>5, <1>9, <1>10, <1>11, <1>12, <1>13 DEF EncInv

\* The key's bits come out even, and the hyphen after the last group goes.
LEMMA EncEnds == KeyOK /\ EncInv /\ EncodeEnd => EncInv' /\ enc'.done
<1> SUFFICES ASSUME KeyOK, EncInv, EncodeEnd PROVE EncInv' /\ enc'.done
  OBVIOUS
<1> DEFINE n == enc.symbols
           last == Len(enc.out)
<1>1. ~ enc.done /\ enc.read = KeyBytes /\ enc.acc_bits < 5
  BY DEF EncodeEnd
<1>2. n = 8 * Fives /\ enc.acc_bits = 0
  <2> DEFINE bits == enc.acc_bits
  <2>1. /\ n \in Nat /\ bits \in Nat /\ bits < 5 /\ 5 * n + bits = 8 * KeyBytes
        /\ Fives \in Nat /\ KeyBytes = 5 * Fives
    BY <1>1, EncFacts, FivesOfBytes
  <2> HIDE DEF n, bits
  <2>2. n = 8 * Fives /\ bits = 0
    BY <2>1
  <2>3. QED
    BY <2>2 DEF n, bits
<1>3. last = 10 * Fives /\ last \in Nat \ {0} /\ last % 5 = 0
  <2>1. last = n + (n \div 4)
    BY <1>1 DEF EncInv
  <2>2. \A k \in Nat : (8 * k) \div 4 = 2 * k /\ (10 * k) % 5 = 0
    OBVIOUS
  <2> HIDE DEF n, last
  <2>3. QED
    BY <1>2, <2>1, <2>2, FivesOfBytes
<1>4. enc.out[last] = "-"
  <2>1. last \in 1 .. Len(enc.out)
    BY <1>3
  <2>2. QED
    BY <1>3, <2>1 DEF EncInv, Glyph
<1>5. /\ enc' = [enc EXCEPT !.done = TRUE, !.out = SubSeq(enc.out, 1, last - 1)]
      /\ key' = key
  BY <1>2, <1>4 DEF EncodeEnd, Last, Front
<1>6. /\ enc'.read = enc.read /\ enc'.acc = enc.acc /\ enc'.acc_bits = enc.acc_bits
      /\ enc'.symbols = enc.symbols /\ enc'.done = TRUE
      /\ enc'.out = SubSeq(enc.out, 1, last - 1)
  BY <1>5 DEF EncInv, EncType
<1>7. /\ enc'.out \in Seq(Glyphs) /\ Len(enc'.out) = last - 1
      /\ \A i \in 1 .. last - 1 : enc'.out[i] = enc.out[i] /\ i \in 1 .. Len(enc.out)
  <2>1. enc.out \in Seq(Glyphs)
    BY EncFacts
  <2>2. QED
    BY <1>3, <1>6, <2>1
<1>8. EncType'
  BY <1>5, <1>7 DEF EncInv, EncType
<1>9. Window(enc.acc, enc.acc_bits, 8 * enc.read)'
  BY <1>2, <1>6 DEF Window
<1>10. \A i \in 1 .. Len(enc'.out) : enc'.out[i] = Glyph(i)'
  BY <1>5, <1>7, KeyStays DEF EncInv
<1>11. 5 * enc'.symbols + enc'.acc_bits = 8 * enc'.read
  BY <1>6 DEF EncInv
<1>12. Len(enc'.out) = 10 * Fives - 1
  BY <1>3, <1>7
<1>13. QED
  BY <1>1, <1>2, <1>6, <1>8, <1>9, <1>10, <1>11, <1>12 DEF EncInv

\* What is displayed is what DisplayIsBase32 says.
LEMMA EncDisplays == EncInv => DisplayIsBase32
<1> SUFFICES ASSUME EncInv, enc.done
             PROVE  LET n == (KeyBytes * 8) \div 5 IN
                    /\ Len(enc.out) = n + ((n - 1) \div 4)
                    /\ \A i \in 1 .. Len(enc.out) :
                         enc.out[i] = IF i % 5 = 0 THEN "-" ELSE SymbolAt(i - (i \div 5) - 1)
  BY DEF DisplayIsBase32
<1>1. (KeyBytes * 8) \div 5 = 8 * Fives
  BY FivesOfBytes
<1>2. (8 * Fives - 1) \div 4 = 2 * Fives - 1
  BY FivesOfBytes
<1>3. Len(enc.out) = 8 * Fives + (2 * Fives - 1)
  BY FivesOfBytes DEF EncInv
<1>4. \A i \in 1 .. Len(enc.out) :
        enc.out[i] = IF i % 5 = 0 THEN "-" ELSE SymbolAt(i - (i \div 5) - 1)
  BY DEF EncInv, Glyph
<1>5. QED
  BY <1>1, <1>2, <1>3, <1>4

(***************************************************************************)
(* The decoder.                                                            *)
(***************************************************************************)
DecType ==
  /\ dec \in [acc : Nat, acc_bits : 0 .. 7, symbols : Nat, out : Seq(Bytes)]
  /\ next \in Nat \ {0} /\ slips \in Nat

\* Up to the end of the text the parser has read as many symbols as there are in
\* the text before the user's place, and what it holds of their bits is the
\* key's; whoever goes on after the end has all the bytes already.
DecInv ==
  /\ DecType
  /\ 8 * Len(dec.out) + dec.acc_bits = 5 * dec.symbols
  /\ ~ enc.done => next = 1 /\ slips = 0
  /\ enc.done => next <= Len(enc.out) + 1
  /\ slips = 0 => /\ dec.symbols = (next - 1) - ((next - 1) \div 5)
                  /\ Window(dec.acc, dec.acc_bits, 5 * dec.symbols)
  /\ slips > 0 => enc.done /\ next > Len(enc.out) /\ Len(dec.out) >= KeyBytes
  /\ \A i \in 1 .. Len(dec.out) : i <= KeyBytes => dec.out[i] = key[i]
  /\ parsed = "ok" => Len(dec.out) = KeyBytes

LEMMA DecFacts ==
  ASSUME DecInv
  PROVE  /\ dec.acc \in Nat /\ dec.acc_bits \in 0 .. 7 /\ dec.symbols \in Nat
         /\ dec.out \in Seq(Bytes) /\ Len(dec.out) \in Nat
         /\ next \in Nat \ {0} /\ slips \in Nat
         /\ 8 * Len(dec.out) + dec.acc_bits = 5 * dec.symbols
  BY DEF DecInv, DecType

LEMMA DecInitially == Init => DecInv
<1> SUFFICES ASSUME Init PROVE DecInv
  OBVIOUS
<1>1. /\ dec.acc = 0 /\ dec.acc_bits = 0 /\ dec.symbols = 0 /\ dec.out = <<>>
      /\ next = 1 /\ slips = 0 /\ parsed = "" /\ enc.done = FALSE
  BY DEF Init
<1>2. DecType
  <2>1. 0 \in 0 .. 7 /\ 0 \in Nat /\ 1 \in Nat \ {0} /\ <<>> \in Seq(Bytes)
    OBVIOUS
  <2>2. QED
    BY <2>1 DEF Init, DecType
<1>3. Len(dec.out) = 0 /\ ~ (0 > 0)
  <2>1. Len(<<>>) = 0 /\ ~ (0 > 0)
    OBVIOUS
  <2>2. QED
    BY <1>1, <2>1, Zenon
<1>4. 8 * 0 + 0 = 5 * 0 /\ 0 = (1 - 1) - ((1 - 1) \div 5)
  <2>1. (1 - 1) \div 5 = 0
    OBVIOUS
  <2>2. QED
    BY <2>1
<1>5. Window(dec.acc, dec.acc_bits, 5 * dec.symbols)
  <2>1. \A j \in 0 .. 11 : ~ (j < 0)
    OBVIOUS
  <2>2. QED
    BY <1>1, <2>1, Zenon DEF Window
<1>6. \A i \in 1 .. Len(dec.out) : FALSE
  BY <1>3
<1>7. QED
  BY <1>1, <1>2, <1>3, <1>4, <1>5, <1>6 DEF DecInv

\* While the key is being encoded nothing is parsed.
LEMMA DecWaits ==
  ASSUME DecInv, ~ enc.done, key' = key, UNCHANGED <<next, dec, slips, parsed>>,
         enc'.done => Len(enc'.out) \in Nat
  PROVE  DecInv'
<1>1. next = 1 /\ slips = 0
  BY DEF DecInv
<1>2. DecType'
  BY DEF DecInv, DecType
<1>3. Window(dec.acc, dec.acc_bits, 5 * dec.symbols)'
  BY <1>1, KeyStays DEF DecInv, Window, BitOf
<1>4. enc'.done => next' <= Len(enc'.out) + 1
  BY <1>1
<1>5. QED
  BY <1>1, <1>2, <1>3, <1>4 DEF DecInv

\* A symbol of value v is taken: a byte comes out, or the bits wait.
LEMMA DecodeTakes ==
  ASSUME DecInv, NEW v \in 0 .. 31, dec' = Took((dec.acc * 32 + v) % Word, dec.acc_bits + 5)
  PROVE  LET bits == dec.acc_bits + 5
             byte == Byte(dec'.acc, bits - 8)
         IN
         /\ dec' \in [acc : Nat, acc_bits : 0 .. 7, symbols : Nat, out : Seq(Bytes)]
         /\ dec'.acc = (dec.acc * 32 + v) % Word /\ dec'.symbols = dec.symbols + 1
         /\ 8 * Len(dec'.out) + dec'.acc_bits = 5 * dec'.symbols
         /\ \/ /\ bits >= 8 /\ dec'.acc_bits = bits - 8
               /\ dec'.out = Append(dec.out, byte) /\ byte \in Bytes
            \/ bits < 8 /\ dec'.acc_bits = bits /\ dec'.out = dec.out
<1> DEFINE bits == dec.acc_bits + 5
           acc == (dec.acc * 32 + v) % Word
           byte == Byte(acc, bits - 8)
           len == Len(dec.out)
<1>1. /\ bits \in 5 .. 12 /\ dec.symbols \in Nat /\ dec.out \in Seq(Bytes) /\ len \in Nat
      /\ 8 * len + bits = 5 * (dec.symbols + 1)
  <2>1. \A b \in 0 .. 7 : b + 5 \in 5 .. 12
    OBVIOUS
  <2>2. \A l, n \in Nat, b \in 0 .. 7 : 8 * l + b = 5 * n => 8 * l + (b + 5) = 5 * (n + 1)
    OBVIOUS
  <2>3. QED
    BY <2>1, <2>2, DecFacts, Zenon
<1>2. acc \in Nat
  <2>1. \A a \in Nat : a * 32 + v \in Nat
    OBVIOUS
  <2>2. dec.acc * 32 + v \in Nat
    BY <2>1, DecFacts, Zenon
  <2>3. QED
    BY <2>2, OverflowKeepsBits
<1> HIDE DEF bits, acc
<1>3. CASE bits >= 8
  <2>1. dec' = [acc |-> acc, acc_bits |-> bits - 8, symbols |-> dec.symbols + 1,
                out |-> Append(dec.out, byte)]
    BY <1>3 DEF Took, TakesByte, bits, acc
  <2>2. byte \in Bytes
    <3>1. bits - 8 \in 0 .. 12
      BY <1>1, <1>3
    <3>2. acc \div Power(bits - 8) \in Nat
      BY <1>2, <3>1, PowerType, Division
    <3>3. \A x \in Nat : x % 256 \in 0 .. 255
      OBVIOUS
    <3>4. QED
      BY <3>2, <3>3, Zenon DEF Byte, Bytes, Power
  <2> HIDE DEF byte
  <2>3. /\ Append(dec.out, byte) \in Seq(Bytes) /\ Len(Append(dec.out, byte)) = len + 1
        /\ bits - 8 \in 0 .. 7 /\ dec.symbols + 1 \in Nat
        /\ 8 * (len + 1) + (bits - 8) = 5 * (dec.symbols + 1)
    BY <1>1, <1>3, <2>2
  <2>4. /\ dec'.acc = acc /\ dec'.acc_bits = bits - 8 /\ dec'.symbols = dec.symbols + 1
        /\ dec'.out = Append(dec.out, byte)
        /\ dec' \in [acc : Nat, acc_bits : 0 .. 7, symbols : Nat, out : Seq(Bytes)]
    <3> DEFINE out == Append(dec.out, byte)
    <3>1. out \in Seq(Bytes)
      BY <2>3
    <3>2. dec' = [acc |-> acc, acc_bits |-> bits - 8, symbols |-> dec.symbols + 1, out |-> out]
      BY <2>1
    <3> HIDE DEF out
    <3>3. bits - 8 \in 0 .. 7 /\ dec.symbols + 1 \in Nat
      BY <2>3
    <3>4. /\ dec'.acc = acc /\ dec'.acc_bits = bits - 8 /\ dec'.symbols = dec.symbols + 1
          /\ dec'.out = out
          /\ dec' \in [acc : Nat, acc_bits : 0 .. 7, symbols : Nat, out : Seq(Bytes)]
      BY <1>2, <3>1, <3>2, <3>3
    <3>5. QED
      BY <3>4 DEF out
  <2>5. QED
    BY <1>3, <2>2, <2>3, <2>4, Zenon DEF byte, bits, acc
<1>4. CASE bits < 8
  <2>1. dec' = [acc |-> acc, acc_bits |-> bits, symbols |-> dec.symbols + 1, out |-> dec.out]
    <3>1. ~ (bits >= 8)
      BY <1>1, <1>4
    <3>2. QED
      BY <3>1 DEF Took, TakesByte, bits, acc
  <2>2. bits \in 0 .. 7 /\ dec.symbols + 1 \in Nat
    BY <1>1, <1>4
  <2>3. /\ dec'.acc = acc /\ dec'.acc_bits = bits /\ dec'.symbols = dec.symbols + 1
        /\ dec'.out = dec.out
        /\ dec' \in [acc : Nat, acc_bits : 0 .. 7, symbols : Nat, out : Seq(Bytes)]
    BY <1>1, <1>2, <2>1, <2>2
  <2>4. QED
    BY <1>1, <1>4, <2>3, Zenon DEF bits, acc
<1>5. QED
  BY <1>1, <1>3, <1>4

\* Whatever is pushed in, the bytes that were there stay.
LEMMA DecodeAppends ==
  ASSUME DecInv, NEW byte \in Bytes
  PROVE  LET out == Append(dec.out, byte) IN
         /\ Len(out) = Len(dec.out) + 1 /\ out[Len(dec.out) + 1] = byte
         /\ \A i \in 1 .. Len(dec.out) : out[i] = dec.out[i]
<1>1. dec.out \in Seq(Bytes)
  BY DecFacts
<1>2. QED
  BY <1>1

\* Where the user is in the text, and how many symbols that is.
LEMMA PlaceInText ==
  ASSUME NEW i \in Nat \ {0}
  PROVE  /\ i % 5 # 0 => /\ (i - 1) - ((i - 1) \div 5) = i - (i \div 5) - 1
                         /\ i - (i \div 5) = (i - (i \div 5) - 1) + 1
                         /\ i - (i \div 5) - 1 \in Nat
         /\ i % 5 = 0 => i - (i \div 5) = (i - 1) - ((i - 1) \div 5)
<1> DEFINE q == i \div 5
           t == i % 5
<1>1. q \in Nat /\ t \in 0 .. 4 /\ i = 5 * q + t
  OBVIOUS
<1>2. CASE t = 0
  <2>1. (i - 1) \div 5 = q - 1
    BY <1>1, <1>2
  <2>2. QED
    BY <1>1, <1>2, <2>1
<1>3. CASE t # 0
  <2>1. (i - 1) \div 5 = q
    BY <1>1, <1>3
  <2>2. QED
    BY <1>1, <1>3, <2>1
<1>4. QED
  BY <1>2, <1>3

\* The next symbol of the text, in whatever way it is typed.
LEMMA DecReads ==
  ASSUME KeyOK, EncInv, DecInv, NEW upper \in Symbols, TypeSymbol(upper)
  PROVE  DecInv'
<1> DEFINE s == dec.symbols
           v == symbol_value(upper)
           bits == dec.acc_bits + 5
           len == Len(dec.out)
<1>1. /\ enc.done /\ next <= Len(enc.out) /\ enc.out[next] \notin Separators
      /\ upper \in Readings(enc.out[next]) /\ next' = next + 1
      /\ key' = key /\ enc' = enc /\ slips' = slips /\ parsed' = parsed /\ parsed # "ok"
      /\ dec' = Took((dec.acc * 32 + v) % Word, bits)
  BY DEF TypeSymbol, Typing, Decode
<1>2. /\ next \in Nat \ {0} /\ slips = 0 /\ next % 5 # 0
      /\ enc.out[next] = SymbolAt(next - (next \div 5) - 1)
  <2>1. next \in 1 .. Len(enc.out)
    BY <1>1, DecFacts, EncFacts
  <2>2. enc.out[next] = Glyph(next)
    BY <2>1 DEF EncInv
  <2>3. slips = 0
    BY <1>1, DecFacts DEF DecInv
  <2>4. QED
    BY <1>1, <2>2, <2>3, DecFacts DEF Glyph, Separators
<1>3. s = next - (next \div 5) - 1 /\ next - (next \div 5) = s + 1 /\ s \in Nat
  <2>1. s = (next - 1) - ((next - 1) \div 5)
    BY <1>2 DEF DecInv
  <2> HIDE DEF s
  <2>2. QED
    BY <1>2, <2>1, PlaceInText, Zenon
<1>4. 5 * s + 4 < 8 * KeyBytes
  <2> DEFINE q == next \div 5
             t == next % 5
  <2>1. q \in Nat /\ t \in 1 .. 4 /\ next = 5 * q + t
    BY <1>2
  <2>2. next <= 10 * Fives - 1 /\ Fives \in Nat /\ KeyBytes = 5 * Fives
    BY <1>1, FivesOfBytes DEF EncInv
  <2>3. s = next - q - 1
    BY <1>3
  <2> HIDE DEF q, t, s
  <2>4. q < 2 * Fives
    BY <2>1, <2>2
  <2>5. QED
    BY <2>1, <2>2, <2>3, <2>4
<1>5. /\ v \in 0 .. 31
      /\ \A j \in 0 .. 4 : BitOf(v, j) = Bit(5 * s + 4 - j)
  <2> HIDE DEF s
  <2>1. PICK w \in 0 .. 31 : /\ SymbolAt(s) = ALPHABET[w + 1]
                             /\ \A j \in 0 .. 4 : BitOf(w, j) = Bit(5 * s + 4 - j)
    BY <1>3, <1>4, SymbolBits
  <2>2. upper \in Readings(ALPHABET[w + 1])
    BY <1>1, <1>2, <1>3, <2>1
  <2>3. v = w
    BY <2>2, ReadingsValue
  <2>4. QED
    BY <2>1, <2>3
<1> HIDE DEF v
<1>6. /\ dec' \in [acc : Nat, acc_bits : 0 .. 7, symbols : Nat, out : Seq(Bytes)]
      /\ dec'.acc = (dec.acc * 32 + v) % Word /\ dec'.symbols = s + 1
      /\ 8 * Len(dec'.out) + dec'.acc_bits = 5 * dec'.symbols
      /\ \/ /\ bits >= 8 /\ dec'.acc_bits = bits - 8
            /\ dec'.out = Append(dec.out, Byte(dec'.acc, bits - 8))
            /\ Byte(dec'.acc, bits - 8) \in Bytes
         \/ bits < 8 /\ dec'.acc_bits = bits /\ dec'.out = dec.out
  BY <1>1, <1>5, DecodeTakes
<1>7. Window(dec'.acc, bits, 5 * (s + 1)) /\ dec'.acc \in Nat
  <2>1. Window(dec.acc, dec.acc_bits, 5 * s)
    BY <1>2 DEF DecInv
  <2>2. dec.acc \in Nat /\ dec.acc_bits \in 0 .. 7
    BY DecFacts
  <2> HIDE DEF s
  <2>3. /\ (dec.acc * 32 + v) % Word \in Nat
        /\ Window((dec.acc * 32 + v) % Word, dec.acc_bits + 5, 5 * (s + 1))
    BY <1>3, <1>5, <2>1, <2>2, WindowSymbol
  <2>4. QED
    BY <1>6, <2>3
<1>8. bits \in 5 .. 12 /\ 8 * len + bits = 5 * (s + 1) /\ len \in Nat
  <2>1. \A b \in 0 .. 7 : b + 5 \in 5 .. 12
    OBVIOUS
  <2>2. \A l, n \in Nat, b \in 0 .. 7 : 8 * l + b = 5 * n => 8 * l + (b + 5) = 5 * (n + 1)
    OBVIOUS
  <2>3. QED
    BY <2>1, <2>2, DecFacts, Zenon
<1> HIDE DEF bits
<1>9. Window(dec'.acc, dec'.acc_bits, 5 * dec'.symbols)
  <2>1. dec'.acc_bits <= bits /\ dec'.acc_bits \in Nat
    BY <1>6, <1>8
  <2>2. \A j \in 0 .. 11 : j < dec'.acc_bits => j < bits
    BY <1>8, <2>1
  <2>3. \A j \in 0 .. 11 : j < bits => BitOf(dec'.acc, j) = Bit(5 * (s + 1) - 1 - j)
    BY <1>7 DEF Window
  <2>4. QED
    BY <1>6, <2>2, <2>3, Zenon DEF Window
<1>10. \A i \in 1 .. Len(dec'.out) : i <= KeyBytes => dec'.out[i] = key[i]
  <2>1. CASE bits < 8
    BY <1>6, <1>8, <2>1 DEF DecInv
  <2>2. CASE bits >= 8
    <3> DEFINE byte == Byte(dec'.acc, bits - 8)
    <3>1. dec'.out = Append(dec.out, byte) /\ byte \in Bytes
      BY <1>6, <1>8, <2>2
    <3>2. len < KeyBytes => byte = key[len + 1]
      <4> SUFFICES ASSUME len < KeyBytes PROVE byte = key[len + 1]
        OBVIOUS
      <4> DEFINE end == 5 * (s + 1)
      <4>1. end \in Nat /\ end = 8 * len + bits /\ bits \in 8 .. 12
        BY <1>3, <1>8, <2>2
      <4> HIDE DEF end
      <4>2. Window(dec'.acc, bits, end)
        BY <1>7 DEF end
      <4>3. QED
        BY <1>7, <1>8, <4>1, <4>2, ByteIsKeyByte
    <3> HIDE DEF byte
    <3>3. /\ Len(dec'.out) = len + 1 /\ dec'.out[len + 1] = byte
          /\ \A i \in 1 .. len : dec'.out[i] = dec.out[i]
      BY <3>1, DecodeAppends
    <3>4. ASSUME NEW i \in 1 .. Len(dec'.out), i <= KeyBytes
          PROVE  dec'.out[i] = key[i]
      <4>1. CASE i = len + 1
        <5>1. len < KeyBytes
          BY <1>8, <3>4, <4>1, KeyBytesAssumption
        <5>2. QED
          BY <3>2, <3>3, <4>1, <5>1
      <4>2. CASE i # len + 1
        <5>1. i \in 1 .. len
          BY <1>8, <3>3, <3>4, <4>2
        <5>2. QED
          BY <3>3, <3>4, <5>1 DEF DecInv
      <4>3. QED
        BY <4>1, <4>2
    <3>5. QED
      BY <3>4
  <2>3. QED
    BY <1>8, <2>1, <2>2
<1>11. DecType'
  BY <1>1, <1>2, <1>6 DEF DecType
<1>12. Window(dec.acc, dec.acc_bits, 5 * dec.symbols)'
  BY <1>1, <1>9, KeyStays DEF Window, BitOf
<1>13. dec'.symbols = (next' - 1) - ((next' - 1) \div 5)
  <2>1. next' - 1 = next
    BY <1>1, <1>2
  <2>2. QED
    BY <1>3, <1>6, <2>1
<1>14. next' <= Len(enc'.out) + 1
  BY <1>1, <1>2, EncFacts
<1>15. slips' = 0 /\ ~ (slips' > 0) /\ enc'.done /\ parsed' # "ok"
  BY <1>1, <1>2
<1>16. \A i \in 1 .. Len(dec'.out) : i <= KeyBytes => dec'.out[i] = key'[i]
  BY <1>1, <1>10
<1>17. QED
  BY <1>6, <1>11, <1>12, <1>13, <1>14, <1>15, <1>16, Zenon DEF DecInv

\* A hyphen is no symbol, and nothing else is in its place.
LEMMA DecPasses ==
  ASSUME KeyOK, EncInv, DecInv, PassSeparator
  PROVE  DecInv'
<1>1. /\ enc.done /\ next <= Len(enc.out) /\ enc.out[next] \in Separators
      /\ next' = next + 1 /\ key' = key /\ enc' = enc /\ dec' = dec
      /\ slips' = slips /\ parsed' = parsed
  BY DEF PassSeparator, Typing
<1>2. next \in Nat \ {0} /\ slips = 0
  <2>1. next \in Nat \ {0} /\ slips \in Nat /\ Len(enc.out) \in Nat
    BY DecFacts, EncFacts
  <2>2. ~ (next > Len(enc.out))
    BY <1>1, <2>1
  <2>3. ~ (slips > 0)
    BY <2>2 DEF DecInv
  <2>4. QED
    BY <2>1, <2>3
<1>3. next % 5 = 0
  <2> SUFFICES ASSUME next % 5 # 0 PROVE FALSE
    OBVIOUS
  <2> DEFINE n == next - (next \div 5) - 1
  <2>1. next \in 1 .. Len(enc.out)
    BY <1>1, <1>2, EncFacts
  <2>2. enc.out[next] = SymbolAt(n)
    BY <2>1 DEF EncInv, Glyph
  <2>3. n \in Nat /\ 5 * n + 4 < 8 * KeyBytes
    <3> DEFINE q == next \div 5
               t == next % 5
    <3>1. q \in Nat /\ t \in 1 .. 4 /\ next = 5 * q + t
      BY <1>2
    <3>2. next <= 10 * Fives - 1 /\ Fives \in Nat /\ KeyBytes = 5 * Fives
      BY <1>1, FivesOfBytes DEF EncInv
    <3>3. n = next - q - 1
      OBVIOUS
    <3> HIDE DEF q, t, n
    <3>4. q < 2 * Fives
      BY <3>1, <3>2
    <3>5. QED
      BY <3>1, <3>2, <3>3, <3>4
  <2> HIDE DEF n
  <2>4. PICK v \in 0 .. 31 : SymbolAt(n) = ALPHABET[v + 1]
    BY <2>3, SymbolBits
  <2>5. v + 1 \in 1 .. 32
    OBVIOUS
  <2>6. QED
    BY <1>1, <2>2, <2>4, <2>5, AlphabetType
<1>4. dec'.symbols = (next' - 1) - ((next' - 1) \div 5)
  <2>1. next' - 1 = next
    BY <1>1, <1>2
  <2>2. dec.symbols = (next - 1) - ((next - 1) \div 5)
    BY <1>2 DEF DecInv
  <2>3. QED
    BY <1>1, <1>2, <1>3, <2>1, <2>2, PlaceInText
<1>5. Window(dec.acc, dec.acc_bits, 5 * dec.symbols)'
  BY <1>1, <1>2, KeyStays DEF DecInv, Window, BitOf
<1>6. DecType'
  BY <1>1, <1>2 DEF DecInv, DecType
<1>7. next' <= Len(enc'.out) + 1
  BY <1>1, <1>2, EncFacts
<1>8. slips' = 0 /\ ~ (slips' > 0) /\ enc'.done
  BY <1>1, <1>2
<1>9. QED
  BY <1>1, <1>4, <1>5, <1>6, <1>7, <1>8 DEF DecInv

\* The user is at the end of the text: the bytes are all there.
LEMMA TextIsKey ==
  ASSUME EncInv, DecInv, enc.done, next > Len(enc.out)
  PROVE  Len(dec.out) >= KeyBytes /\ (slips = 0 => Len(dec.out) = KeyBytes)
<1>1. CASE slips > 0
  BY <1>1 DEF DecInv
<1>2. CASE slips = 0
  <2> DEFINE len == Len(dec.out)
             bits == dec.acc_bits
  <2>1. Fives \in Nat \ {0} /\ KeyBytes = 5 * Fives
    BY FivesOfBytes
  <2>2. next - 1 = 10 * Fives - 1
    <3>1. next <= Len(enc.out) + 1 /\ Len(enc.out) = 10 * Fives - 1
      BY DEF DecInv, EncInv
    <3>2. next \in Nat
      BY DecFacts
    <3>3. QED
      BY <2>1, <3>1, <3>2
  <2>3. (10 * Fives - 1) - ((10 * Fives - 1) \div 5) = 8 * Fives
    BY <2>1
  <2>4. dec.symbols = 8 * Fives
    BY <1>2, <2>2, <2>3 DEF DecInv
  <2>5. len \in Nat /\ bits \in 0 .. 7 /\ 8 * len + bits = 5 * (8 * Fives)
    BY <2>4, DecFacts
  <2> HIDE DEF len, bits
  <2>6. len = KeyBytes /\ len >= KeyBytes
    BY <2>1, <2>5
  <2>7. QED
    BY <2>6 DEF len
<1>3. QED
  BY <1>1, <1>2, DecFacts

\* What is typed after the end comes after the key's bytes.
LEMMA DecSlips ==
  ASSUME KeyOK, EncInv, DecInv, NEW upper \in Symbols, Slip(upper)
  PROVE  DecInv'
<1> DEFINE v == symbol_value(upper)
           bits == dec.acc_bits + 5
           len == Len(dec.out)
<1>1. /\ enc.done /\ next > Len(enc.out) /\ slips' = slips + 1
      /\ key' = key /\ enc' = enc /\ next' = next /\ parsed' = parsed /\ parsed # "ok"
      /\ dec' = Took((dec.acc * 32 + v) % Word, bits)
  BY DEF Slip, Typing, Decode
<1>2. v \in 0 .. 31
  BY SymbolValueType
<1> HIDE DEF v
<1>3. /\ dec' \in [acc : Nat, acc_bits : 0 .. 7, symbols : Nat, out : Seq(Bytes)]
      /\ 8 * Len(dec'.out) + dec'.acc_bits = 5 * dec'.symbols
      /\ \/ /\ dec'.out = Append(dec.out, Byte(dec'.acc, bits - 8))
            /\ Byte(dec'.acc, bits - 8) \in Bytes
         \/ dec'.out = dec.out
  BY <1>1, <1>2, DecodeTakes
<1>4. len \in Nat /\ KeyBytes \in Nat /\ len >= KeyBytes /\ slips \in Nat /\ next \in Nat \ {0}
  BY <1>1, TextIsKey, DecFacts, EncFacts
<1>5. \A i \in 1 .. len : i <= KeyBytes => dec.out[i] = key[i]
  BY DEF DecInv
<1>6. /\ Len(dec'.out) >= KeyBytes
      /\ \A i \in 1 .. Len(dec'.out) : i <= KeyBytes => dec'.out[i] = key[i]
  <2>1. CASE dec'.out = dec.out
    BY <1>4, <1>5, <2>1
  <2>2. CASE dec'.out # dec.out
    <3> DEFINE byte == Byte(dec'.acc, bits - 8)
    <3>1. dec'.out = Append(dec.out, byte) /\ byte \in Bytes
      BY <1>3, <2>2
    <3> HIDE DEF byte
    <3>2. /\ Len(dec'.out) = len + 1
          /\ \A i \in 1 .. len : dec'.out[i] = dec.out[i]
      BY <3>1, DecodeAppends
    <3>3. \A i \in 1 .. Len(dec'.out) : i <= KeyBytes => i \in 1 .. len
      BY <1>4, <3>2
    <3>4. Len(dec'.out) >= KeyBytes
      BY <1>4, <3>2
    <3>5. QED
      BY <1>5, <3>2, <3>3, <3>4
  <2>3. QED
    BY <2>1, <2>2
<1>7. slips' \in Nat /\ slips' > 0 /\ slips' # 0
  BY <1>1, <1>4
<1>8. DecType'
  BY <1>1, <1>3, <1>4, <1>7 DEF DecType
<1>9. next' <= Len(enc'.out) + 1
  BY <1>1 DEF DecInv
<1>10. QED
  BY <1>1, <1>3, <1>6, <1>7, <1>8, <1>9 DEF DecInv

(***************************************************************************)
(* The specification.                                                      *)
(***************************************************************************)
CodecInv == KeyOK /\ EncInv /\ DecInv

LEMMA CodecStep == CodecInv /\ [Next]_vars => CodecInv'
<1> SUFFICES ASSUME KeyOK, EncInv, DecInv, [Next]_vars PROVE CodecInv'
  BY DEF CodecInv
<1>1. key' = key
  BY DEF Next, EncodeByte, EmitSymbol, EncodeEnd, TypeSymbol, Slip, PassSeparator,
         TypeInvalid, ParseEnd, vars
<1>2. KeyOK'
  BY <1>1, KeyStays
<1>3. enc' = enc => EncInv'
  <2> SUFFICES ASSUME enc' = enc PROVE EncInv'
    OBVIOUS
  <2>1. Window(enc.acc, enc.acc_bits, 8 * enc.read)'
    BY <1>1, KeyStays DEF EncInv, Window, BitOf
  <2>2. \A i \in 1 .. Len(enc'.out) : enc'.out[i] = Glyph(i)'
    BY <1>1, KeyStays DEF EncInv
  <2>3. QED
    BY <2>1, <2>2 DEF EncInv, EncType
<1>4. enc' = enc /\ next' = next /\ dec' = dec /\ slips' = slips
        /\ (parsed' = "ok" => Len(dec.out) = KeyBytes)
      => DecInv'
  <2> SUFFICES ASSUME enc' = enc, next' = next, dec' = dec, slips' = slips,
                      parsed' = "ok" => Len(dec.out) = KeyBytes
               PROVE  DecInv'
    OBVIOUS
  <2>1. slips = 0 => Window(dec.acc, dec.acc_bits, 5 * dec.symbols)'
    BY <1>1, KeyStays DEF DecInv, Window, BitOf
  <2>2. QED
    BY <1>1, <2>1 DEF DecInv, DecType
<1>5. CASE EncodeByte \/ EmitSymbol \/ EncodeEnd
  <2>1. EncInv'
    BY <1>5, EncReads, EncEmits, EncEnds
  <2>2. ~ enc.done
    <3>1. enc.done => enc.read = KeyBytes /\ enc.acc_bits = 0
      BY DEF EncInv
    <3>2. CASE EncodeByte
      BY <3>1, <3>2, EncFacts DEF EncodeByte
    <3>3. CASE EmitSymbol
      BY <3>1, <3>3, EncFacts DEF EmitSymbol
    <3>4. CASE EncodeEnd
      BY <3>4 DEF EncodeEnd
    <3>5. QED
      BY <1>5, <3>2, <3>3, <3>4
  <2>3. UNCHANGED <<next, dec, slips, parsed>>
    BY <1>5 DEF EncodeByte, EmitSymbol, EncodeEnd
  <2>4. enc'.done => Len(enc'.out) \in Nat
    BY <2>1 DEF EncInv, EncType
  <2>5. DecInv'
    BY <1>1, <2>2, <2>3, <2>4, DecWaits
  <2>6. QED
    BY <1>2, <2>1, <2>5 DEF CodecInv
<1>6. ASSUME NEW upper \in Symbols, TypeSymbol(upper)
      PROVE  CodecInv'
  BY <1>2, <1>3, <1>6, DecReads DEF CodecInv, TypeSymbol
<1>7. ASSUME NEW upper \in Symbols, Slip(upper)
      PROVE  CodecInv'
  BY <1>2, <1>3, <1>7, DecSlips DEF CodecInv, Slip
<1>8. CASE PassSeparator
  BY <1>2, <1>3, <1>8, DecPasses DEF CodecInv, PassSeparator
<1>9. CASE TypeInvalid
  BY <1>2, <1>3, <1>4, <1>9 DEF CodecInv, TypeInvalid
<1>10. CASE ParseEnd
  BY <1>2, <1>3, <1>4, <1>10 DEF CodecInv, ParseEnd
<1>11. CASE UNCHANGED vars
  <2>1. parsed = "ok" => Len(dec.out) = KeyBytes
    BY DEF DecInv
  <2>2. QED
    BY <1>2, <1>3, <1>4, <1>11, <2>1 DEF CodecInv, vars
<1>12. QED
  BY <1>5, <1>6, <1>7, <1>8, <1>9, <1>10, <1>11 DEF Next

\* At every step, the text, the accumulator's window and the bytes read so far stand
\* for one stretch of the key's bits, in encode_grouped and in decode_forgiving.
THEOREM CodecInvariant == Spec => []CodecInv
<1>1. Init => CodecInv
  BY EncInitially, DecInitially DEF CodecInv
<1>2. QED
  BY <1>1, CodecStep, PTL DEF Spec

\* Whatever the key and however long it is, the display is its base32 in groups
\* of four symbols.
THEOREM CodecDisplays == Spec => []DisplayIsBase32
<1>1. CodecInv => DisplayIsBase32
  BY EncDisplays DEF CodecInv
<1>2. QED
  BY <1>1, CodecInvariant, PTL

\* Whoever types the display, in any of the ways the parser forgives, gets the
\* bytes of the key once the text is done, and nothing else is accepted.
THEOREM CodecReadsBack == Spec => []TypedKeyIsDisplayed
<1>1. CodecInv => TypedKeyIsDisplayed
  <2> SUFFICES ASSUME KeyOK, EncInv, DecInv PROVE TypedKeyIsDisplayed
    BY DEF CodecInv
  <2>1. \A i \in 1 .. Len(dec.out) : i <= KeyBytes => dec.out[i] = key[i]
    BY DEF DecInv
  <2>2. ASSUME Len(dec.out) = KeyBytes PROVE dec.out = key
    <3>1. Len(dec.out) = KeyBytes /\ dec.out \in Seq(Bytes) /\ KeyBytes \in Nat
      BY <2>2, DecFacts, KeyBytesAssumption
    <3>2. \A i \in 1 .. KeyBytes : dec.out[i] = key[i]
      BY <2>1, <3>1
    <3>3. key = [i \in 1 .. KeyBytes |-> key[i]]
      BY DEF KeyOK
    <3>4. dec.out = [i \in 1 .. KeyBytes |-> dec.out[i]]
      BY <3>1
    <3>5. QED
      BY <3>2, <3>3, <3>4
  <2>3. parsed = "ok" => Len(dec.out) = KeyBytes
    BY DEF DecInv
  <2>4. enc.done /\ next > Len(enc.out) /\ slips = 0 => Len(dec.out) = KeyBytes
    BY TextIsKey
  <2>5. QED
    BY <2>1, <2>2, <2>3, <2>4 DEF TypedKeyIsDisplayed
<1>2. QED
  BY <1>1, CodecInvariant, PTL
=============================================================================
