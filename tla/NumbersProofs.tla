---------------------------- MODULE NumbersProofs ----------------------------
(***************************************************************************)
(* What becomes of a number on its way, for every number of 32 bits; and   *)
(* that sets of numbers have a least and a greatest one.  The proofs about *)
(* all that the network carries rest on it.                                *)
(***************************************************************************)
EXTENDS Numbers, FiniteSetsExt, WellFoundedInduction, TLAPS

\* Shift() takes off the lowest byte.
LEMMA ShiftIsDivision ==
    ASSUME NEW n \in Nat
    PROVE  /\ Shift(n) \in Nat
           /\ n % Base \in Byte
           /\ n = Shift(n) * Base + (n % Base)
<1>1. CASE Base = 4
  BY <1>1 DEF Shift, Byte
<1>2. CASE Base = 64
  BY <1>2 DEF Shift, Byte
<1>3. CASE Base = 256
  BY <1>3 DEF Shift, Byte
<1> QED BY <1>1, <1>2, <1>3, BaseAssumption

\* A number written is four bytes, and joined they are the number again.
LEMMA BytesOfNumber ==
    ASSUME NEW n \in Word
    PROVE  \E a, b, c, d \in Byte :
               /\ AddNumber(n) = <<a, b, c, d>>
               /\ Join(a, b, c, d) = n
<1> DEFINE c1 == Shift(n)
           c2 == Shift(c1)
           c3 == Shift(c2)
<1>0. n \in Nat /\ n < Words /\ Base \in Nat
  BY BaseAssumption DEF Word, Words
<1>1. /\ c1 \in Nat /\ n % Base \in Byte
      /\ n = c1 * Base + (n % Base)
  BY <1>0, ShiftIsDivision
<1>2. /\ c2 \in Nat /\ c1 % Base \in Byte
      /\ c1 = c2 * Base + (c1 % Base)
  BY <1>1, ShiftIsDivision
<1>3. /\ c3 \in Nat /\ c2 % Base \in Byte
      /\ c2 = c3 * Base + (c2 % Base)
  BY <1>2, ShiftIsDivision
<1>4. AddNumber(n) = <<c3, c2 % Base, c1 % Base, n % Base>>
  BY DEF AddNumber
<1> HIDE DEF c1, c2, c3
<1>5. Join(c3, c2 % Base, c1 % Base, n % Base) = n
  <2>1. c3 * Base + (c2 % Base) = c2
    BY <1>3
  <2>2. c2 * Base + (c1 % Base) = c1
    BY <1>2
  <2>3. c1 * Base + (n % Base) = n
    BY <1>1
  <2> QED BY <2>1, <2>2, <2>3 DEF Join
<1>6. ASSUME NEW p \in Nat, NEW q \in Nat, NEW r \in Nat,
             NEW x \in Byte, NEW y \in Byte, NEW z \in Byte,
             q = p * Base + x, r = q * Base + y,
             r * Base + z < Words
      PROVE  p < Base
  <2>1. CASE Base = 4
    BY <1>6, <2>1 DEF Words, Byte
  <2>2. CASE Base = 64
    BY <1>6, <2>2 DEF Words, Byte
  <2>3. CASE Base = 256
    BY <1>6, <2>3 DEF Words, Byte
  <2> QED BY <2>1, <2>2, <2>3, BaseAssumption
<1>7. c3 < Base
  BY <1>0, <1>1, <1>2, <1>3, <1>6
<1>8. c3 \in Byte
  BY <1>0, <1>3, <1>7 DEF Byte
<1> QED BY <1>1, <1>2, <1>3, <1>4, <1>5, <1>8

\* get_dword() of client 2 gets back every number that addNumber() wrote.
THEOREM DwordInverts ==
    ASSUME NEW n \in Word
    PROVE  GetDword(AddNumber(n)) = n
<1>1. PICK a \in Byte, b \in Byte, c \in Byte, d \in Byte :
          AddNumber(n) = <<a, b, c, d>> /\ Join(a, b, c, d) = n
  BY BytesOfNumber
<1> QED BY <1>1 DEF GetDword

\* What the loops of the server and of client 1 compute, with the bytes named.
LEMMA SignedSum ==
    ASSUME NEW n \in Word
    PROVE  \E a, b, c, d \in Byte :
               /\ AddNumber(n) = <<a, b, c, d>>
               /\ Join(a, b, c, d) = n
               /\ AsRead(n) = Join(Char(a), Char(b), Char(c), Char(d)) % Words
<1>1. PICK a \in Byte, b \in Byte, c \in Byte, d \in Byte :
          AddNumber(n) = <<a, b, c, d>> /\ Join(a, b, c, d) = n
  BY BytesOfNumber
<1>2. AsRead(n) = Join(Char(a), Char(b), Char(c), Char(d)) % Words
  BY <1>1 DEF AsRead, ReadNumber
<1> QED BY <1>1, <1>2

\* A reader of signed bytes gets a number right exactly when the three lower
\* bytes of it are less than 128: event numbers up to 127 and session ids with
\* luck, but not the default board, which is 640 pixels wide (readNumberFromBuffer()
\* of client 1, isDatagramCorrect() of the server).
THEOREM ReadsPlainNumbers ==
    ASSUME NEW n \in Word
    PROVE  AsRead(n) = n <=> IsPlain(n)
<1>1. PICK a \in Byte, b \in Byte, c \in Byte, d \in Byte :
          /\ AddNumber(n) = <<a, b, c, d>>
          /\ Join(a, b, c, d) = n
          /\ AsRead(n) = Join(Char(a), Char(b), Char(c), Char(d)) % Words
  BY SignedSum
<1>2. IsPlain(n) <=> /\ b < Base \div 2
                     /\ c < Base \div 2
                     /\ d < Base \div 2
  BY <1>1 DEF IsPlain
<1>3. Join(Char(a), Char(b), Char(c), Char(d)) % Words = Join(a, b, c, d)
          <=> b < Base \div 2 /\ c < Base \div 2 /\ d < Base \div 2
  <2>1. CASE Base = 4
    BY <2>1 DEF Join, Char, Words, Byte
  <2>2. CASE Base = 64
    BY <2>2 DEF Join, Char, Words, Byte
  <2>3. CASE Base = 256
    BY <2>3 DEF Join, Char, Words, Byte
  <2> QED BY <2>1, <2>2, <2>3, BaseAssumption
<1> QED BY <1>1, <1>2, <1>3

\* Two sums that differ by a multiple of Base have the same last byte.
LEMMA LastByte ==
    ASSUME NEW p \in Int, NEW q \in Int, NEW k \in Int,
           NEW x \in Byte, NEW y \in Byte,
           p * Base + Char(x) = q * Base + Char(y) + k * Base
    PROVE  x = y /\ p = q + k
<1> DEFINE t == q + k - p
           delta == Char(x) - Char(y)
<1>1. /\ t \in Int /\ delta \in Int /\ delta = t * Base
      /\ 0 - Base < delta /\ delta < Base
  <2>1. CASE Base = 4
    BY <2>1 DEF Char, Byte
  <2>2. CASE Base = 64
    BY <2>2 DEF Char, Byte
  <2>3. CASE Base = 256
    <3>1. /\ Char(x) \in Int /\ -128 <= Char(x) /\ Char(x) <= 127
          /\ Char(y) \in Int /\ -128 <= Char(y) /\ Char(y) <= 127
      BY <2>3 DEF Char, Byte
    <3>2. p * 256 + Char(x) = q * 256 + Char(y) + k * 256
      BY <2>3
    <3>3. Char(x) - Char(y) = (q + k - p) * 256
      BY <3>1, <3>2
    <3> QED BY <2>3, <3>1, <3>3
  <2> QED BY <2>1, <2>2, <2>3, BaseAssumption
<1> HIDE DEF delta, t
<1>2. t = 0 /\ delta = 0
  BY <1>1, BaseAssumption
<1>3. p = q + k
  BY <1>2 DEF t
<1>4. x = y
  BY <1>2, BaseAssumption DEF delta, Char, Byte
<1> QED BY <1>3, <1>4

\* Numbers that are equal in a uint32_t differ by a multiple of Words.
LEMMA EqualInWord ==
    ASSUME NEW u \in Int, NEW v \in Int, u % Words = v % Words
    PROVE  \E k \in Int : u = v + k * Words
<1> DEFINE k == (u \div Words) - (v \div Words)
<1>1. CASE Base = 4
  <2>1. k \in Int /\ u = v + k * Words
    BY <1>1 DEF Words
  <2> QED BY <2>1
<1>2. CASE Base = 64
  <2>1. k \in Int /\ u = v + k * Words
    BY <1>2 DEF Words
  <2> QED BY <2>1
<1>3. CASE Base = 256
  <2>1. k \in Int /\ u = v + k * Words
    BY <1>3 DEF Words
  <2> QED BY <2>1
<1> QED BY <1>1, <1>2, <1>3, BaseAssumption

\* Reading signed bytes confuses no two numbers: what is compared only with
\* itself (a session id with that of the slot, a game id with that followed)
\* is compared correctly although it is read wrong.
THEOREM ReadingIsInjective ==
    ASSUME NEW m \in Word, NEW n \in Word, AsRead(m) = AsRead(n)
    PROVE  m = n
<1>1. PICK a \in Byte, b \in Byte, c \in Byte, d \in Byte :
          /\ AddNumber(m) = <<a, b, c, d>>
          /\ Join(a, b, c, d) = m
          /\ AsRead(m) = Join(Char(a), Char(b), Char(c), Char(d)) % Words
  BY SignedSum
<1>2. PICK e \in Byte, f \in Byte, g \in Byte, h \in Byte :
          /\ AddNumber(n) = <<e, f, g, h>>
          /\ Join(e, f, g, h) = n
          /\ AsRead(n) = Join(Char(e), Char(f), Char(g), Char(h)) % Words
  BY SignedSum
<1>3. Join(Char(a), Char(b), Char(c), Char(d)) % Words
          = Join(Char(e), Char(f), Char(g), Char(h)) % Words
  BY <1>1, <1>2
<1> DEFINE p == Char(a)
           q == p * Base + Char(b)
           r == q * Base + Char(c)
           p2 == Char(e)
           q2 == p2 * Base + Char(f)
           r2 == q2 * Base + Char(g)
<1>4. /\ \A x \in Byte : Char(x) \in Int
      /\ Base \in Int
  BY BaseAssumption DEF Char, Byte
<1>5. p \in Int /\ q \in Int /\ r \in Int /\ p2 \in Int /\ q2 \in Int /\ r2 \in Int
  BY <1>4
<1>6. PICK k \in Int : r * Base + Char(d) = r2 * Base + Char(h) + k * Words
  BY <1>3, <1>4, <1>5, EqualInWord DEF Join
<1> HIDE DEF p, q, r, p2, q2, r2
<1>7. /\ k * Words = (k * Base * Base * Base) * Base
      /\ k * Base * Base * Base = (k * Base * Base) * Base
      /\ k * Base * Base * Base \in Int /\ k * Base * Base \in Int /\ k * Base \in Int
  BY <1>4 DEF Words
<1>8. d = h /\ r = r2 + k * Base * Base * Base
  BY <1>5, <1>6, <1>7, LastByte
<1>9. c = g /\ q = q2 + k * Base * Base
  <2>1. q * Base + Char(c) = q2 * Base + Char(g) + (k * Base * Base) * Base
    BY <1>7, <1>8 DEF r, r2
  <2> QED BY <1>5, <1>7, <2>1, LastByte
<1>10. b = f /\ p = p2 + k * Base
  <2>1. p * Base + Char(b) = p2 * Base + Char(f) + (k * Base) * Base
    BY <1>9 DEF q, q2
  <2> QED BY <1>5, <1>7, <2>1, LastByte
<1>11. a = e
  <2>1. 0 * Base + Char(a) = 0 * Base + Char(e) + k * Base
    BY <1>4, <1>10, <1>7 DEF p, p2
  <2> QED BY <2>1, LastByte
<1> QED BY <1>1, <1>2, <1>8, <1>9, <1>10, <1>11

\* Signed bytes only make less of a number; below zero the sum wraps around
\* and is greater than any number sent.
LEMMA ReadIsLessOrHuge ==
    ASSUME NEW n \in Nat, 2 * n < Words
    PROVE  /\ AsRead(n) \in Nat
           /\ AsRead(n) <= n \/ 2 * AsRead(n) >= Words
<1>0. n \in Word
  BY BaseAssumption DEF Word, Words
<1>1. PICK a \in Byte, b \in Byte, c \in Byte, d \in Byte :
          /\ AddNumber(n) = <<a, b, c, d>>
          /\ Join(a, b, c, d) = n
          /\ AsRead(n) = Join(Char(a), Char(b), Char(c), Char(d)) % Words
  BY <1>0, SignedSum
<1>2. CASE Base = 4
  BY <1>1, <1>2 DEF Join, Char, Words, Byte
<1>3. CASE Base = 64
  BY <1>1, <1>3 DEF Join, Char, Words, Byte
<1>4. CASE Base = 256
  BY <1>1, <1>4 DEF Join, Char, Words, Byte
<1> QED BY <1>2, <1>3, <1>4, BaseAssumption

\* A number of less than one and a half times as many as a byte has values is
\* read right or as a huge one, never as another that small: events up to 383.
LEMMA SmallAreNotMistaken ==
    ASSUME NEW n \in Nat, n < Base + Base \div 2
    PROVE  AsRead(n) = n \/ 2 * AsRead(n) >= Words
<1>0. n \in Word
  BY BaseAssumption DEF Word, Words
<1>1. PICK a \in Byte, b \in Byte, c \in Byte, d \in Byte :
          /\ AddNumber(n) = <<a, b, c, d>>
          /\ Join(a, b, c, d) = n
          /\ AsRead(n) = Join(Char(a), Char(b), Char(c), Char(d)) % Words
  BY <1>0, SignedSum
<1>2. CASE Base = 4
  BY <1>1, <1>2 DEF Join, Char, Words, Byte
<1>3. CASE Base = 64
  BY <1>1, <1>3 DEF Join, Char, Words, Byte
<1>4. CASE Base = 256
  BY <1>1, <1>4 DEF Join, Char, Words, Byte
<1> QED BY <1>2, <1>3, <1>4, BaseAssumption

-----------------------------------------------------------------------------
(* Least and greatest numbers *)

LEMMA LeastNat ==
    ASSUME NEW T \in SUBSET Nat, T # {}
    PROVE  \E m \in T : \A k \in T : m <= k
<1> DEFINE R == OpToRel(<, Nat)
<1>1. IsWellFoundedOn(R, Nat)
  BY NatLessThanWellFounded
<1>2. \A x, y \in Nat : <<y, x>> \in R <=> y < x
  BY DEF OpToRel
<1> HIDE DEF R
<1>3. PICK m \in T : \A k \in T : ~ (<<k, m>> \in R)
  BY <1>1, WFMin
<1>4. ASSUME NEW k \in T PROVE m <= k
  <2>1. m \in Nat /\ k \in Nat
    OBVIOUS
  <2>2. ~(k < m)
    BY <1>2, <1>3, <2>1
  <2> QED BY <2>1, <2>2
<1> QED BY <1>4

LEMMA MinOfNats ==
    ASSUME NEW T \in SUBSET Nat, T # {}
    PROVE  Min(T) \in T /\ \A k \in T : Min(T) <= k
<1>1. \E m \in T : \A k \in T : m <= k
  BY LeastNat
<1> QED BY <1>1 DEF Min

LEMMA MaxOfNats ==
    ASSUME NEW n \in Nat, NEW T \in SUBSET (0..n), T # {}
    PROVE  Max(T) \in T /\ \A k \in T : k <= Max(T)
<1> DEFINE Below == {n - k : k \in T}
<1>0. \A k \in T : k \in Nat /\ k <= n
  OBVIOUS
<1>1. Below \in SUBSET Nat /\ Below # {}
  <2>1. \A k \in T : n - k \in Nat
    BY <1>0
  <2> QED BY <2>1
<1>2. PICK b \in Below : \A k \in Below : b <= k
  BY <1>1, LeastNat
<1>3. PICK m \in T : b = n - m
  OBVIOUS
<1>4. ASSUME NEW k \in T PROVE k <= m
  <2>1. n - k \in Below
    OBVIOUS
  <2>2. n - m <= n - k
    BY <1>2, <1>3, <2>1
  <2> QED BY <1>0, <2>2
<1>5. \E x \in T : \A y \in T : x >= y
  BY <1>4
<1>6. Max(T) \in T /\ \A y \in T : Max(T) >= y
  BY <1>5 DEF Max
<1> QED BY <1>6
=============================================================================
