---------------------------- MODULE MemoryProofs ----------------------------
(***************************************************************************)
(* Facts about addresses and lines, for every size of memory and of lines. *)
(***************************************************************************)
EXTENDS Memory, Integers, TLAPS

(* A number is a multiple of another one and a remainder.                  *)
LEMMA Division ==
  ASSUME NEW a \in Nat, NEW w \in Nat \ {0}
  PROVE  /\ a % w \in 0 .. w - 1
         /\ \E k \in Nat : a = k * w + (a % w)
<1>1. /\ a = w * (a \div w) + (a % w)
      /\ a \div w \in Int /\ a \div w >= 0
      /\ a % w \in 0 .. w - 1
  OBVIOUS
<1>2. a \div w \in Nat /\ w * (a \div w) = (a \div w) * w
  BY <1>1
<1>3. a = (a \div w) * w + (a % w)
  BY <1>1, <1>2
<1> QED BY <1>1, <1>2, <1>3

LEMMA Multiple ==
  ASSUME NEW k \in Nat, NEW w \in Nat \ {0} PROVE (k * w) % w = 0
  OBVIOUS

(* The line of an address begins at or before it and ends behind it.       *)
LEMMA LineOfType ==
  ASSUME NEW a \in Nat
  PROVE  /\ LineOf(a) \in Nat /\ LineOf(a) <= a /\ a < LineOf(a) + Width
         /\ LineOf(a) % Width = 0
         /\ a % Width = 0 => LineOf(a) = a
<1> USE MemoryAssumption
<1>1. PICK k \in Nat : a = k * Width + (a % Width)
  BY Division
<1>2. a % Width \in 0 .. Width - 1 /\ k * Width \in Nat
  BY Division
<1>3. a - (a % Width) = k * Width
  <2>1. \A x \in Nat, r \in 0 .. Width - 1 : a = x + r => a - r = x
    OBVIOUS
  <2> QED BY <1>1, <1>2, <2>1, Zenon
<1>4. LineOf(a) = k * Width
  BY <1>3 DEF LineOf
<1>5. LineOf(a) % Width = 0
  BY <1>4, Multiple
<1>6. LineOf(a) \in Nat /\ a = LineOf(a) + (a % Width)
  BY <1>1, <1>2, <1>4
<1>7. \A l \in Nat, r \in 0 .. Width - 1 :
        a = l + r => l <= a /\ a < l + Width /\ (r = 0 => l = a)
  OBVIOUS
<1> QED BY <1>2, <1>5, <1>6, <1>7

(* The line behind a line is a line, and nothing lies between them.        *)
LEMMA NextLine ==
  ASSUME NEW a \in Nat, a % Width = 0
  PROVE  (a + Width) % Width = 0
<1> USE MemoryAssumption
<1>1. PICK k \in Nat : a = k * Width + (a % Width)
  BY Division
<1>2. a + Width = (k + 1) * Width /\ k + 1 \in Nat
  BY <1>1
<1> QED BY <1>2, Multiple

LEMMA LineGap ==
  ASSUME NEW a \in Nat, NEW b \in Nat,
         a % Width = 0, b % Width = 0, a < b
  PROVE  a + Width <= b
<1> USE MemoryAssumption
<1>1. PICK k \in Nat : a = k * Width + (a % Width)
  BY Division
<1>2. PICK m \in Nat : b = m * Width + (b % Width)
  BY Division
<1>3. a = k * Width /\ b = m * Width
  BY <1>1, <1>2
<1>4. k < m
  BY <1>3
<1>5. (k + 1) * Width <= m * Width
  BY <1>4
<1>6. (k + 1) * Width = k * Width + Width
  OBVIOUS
<1> QED BY <1>3, <1>5, <1>6

(* A line that begins in memory is in memory: the assertions of read and   *)
(* write.                                                                  *)
LEMMA LineFits ==
  ASSUME NEW a \in Nat, a % Width = 0, a < MemSize
  PROVE  LineAccess(a)
BY MemoryAssumption, LineGap DEF LineAccess

(* What is read from a line, and what is left where one has been written.  *)
LEMMA LineRead ==
  ASSUME NEW m, NEW p \in Nat, NEW k \in 0 .. Width - 1
  PROVE  ReadLine(m, p)[k] = m[p + k]
BY DEF ReadLine

LEMMA LineReadType ==
  ASSUME NEW S, NEW m \in [Address -> S], NEW p \in Nat, LineAccess(p)
  PROVE  ReadLine(m, p) \in [0 .. Width - 1 -> S]
<1>1. \A k \in 0 .. Width - 1 : p + k \in Address
  BY MemoryAssumption DEF LineAccess, Address
<1> QED BY <1>1 DEF ReadLine

LEMMA LineWritten ==
  ASSUME NEW m, DOMAIN m = Address, NEW p \in Nat, NEW line, NEW a \in Address
  PROVE  /\ a \in Nat
         /\ p <= a /\ a < p + Width =>
              /\ WriteLine(m, p, line)[a] = line[a - p]
              /\ a - p \in 0 .. Width - 1
         /\ ~(p <= a /\ a < p + Width) => WriteLine(m, p, line)[a] = m[a]
<1>1. a \in Nat /\ Width \in Nat \ {0}
  BY MemoryAssumption DEF Address
<1>2. a \in p .. p + Width - 1 <=> p <= a /\ a < p + Width
  BY <1>1
<1>3. WriteLine(m, p, line)[a] =
        IF a \in p .. p + Width - 1 THEN line[a - p] ELSE m[a]
  BY DEF WriteLine
<1> QED BY <1>1, <1>2, <1>3

(* What is left where a word has been written at a multiple of four.       *)
LEMMA WordWritten ==
  ASSUME NEW m, DOMAIN m = Address, NEW p \in Nat, p % 4 = 0, NEW word,
         NEW a \in Address
  PROVE  ~(a - p \in 0 .. 3) => WriteWord(m, p, word)[a] = m[a]
<1>1. a \in Nat
  BY MemoryAssumption DEF Address
<1>2. WriteWord(m, p, word)[a] =
        IF a \in p .. p + 3 THEN ByteOf(word, a - p) ELSE m[a]
  BY DEF WriteWord
<1> QED BY <1>1, <1>2

(* The bytes of a word are bytes.                                          *)
LEMMA ByteType ==
  ASSUME NEW word \in Nat, NEW k \in 0 .. 3
  PROVE  ByteOf(word, k) \in 0 .. Base - 1
<1> DEFINE w == ByteWeight[k + 1]
<1>1. Base \in Nat /\ Base > 0
  BY MemoryAssumption
<1>2. \A x, y \in Nat : x > 0 /\ y > 0 => x * y \in Nat /\ x * y > 0
  OBVIOUS
<1>3. /\ Base * Base \in Nat /\ Base * Base > 0
      /\ Base * Base * Base \in Nat /\ Base * Base * Base > 0
  BY <1>1, <1>2
<1>4. w \in Nat \ {0}
  <2>1. w \in {1, Base, Base * Base, Base * Base * Base}
    BY DEF ByteWeight
  <2> QED BY <1>1, <1>3, <2>1
<1> HIDE DEF w
<1>5. PICK q \in Nat : q = word \div w
  BY <1>4
<1>6. q % Base \in 0 .. Base - 1
  BY <1>1, Division
<1>7. ByteOf(word, k) = q % Base
  BY <1>5 DEF ByteOf, w
<1> QED BY <1>6, <1>7

LEMMA LineWrittenType ==
  ASSUME NEW S, NEW m \in [Address -> S], NEW p \in Nat,
         NEW line \in [0 .. Width - 1 -> S]
  PROVE  WriteLine(m, p, line) \in [Address -> S]
<1>1. ASSUME NEW a \in Address
      PROVE  (IF a \in p .. p + Width - 1 THEN line[a - p] ELSE m[a]) \in S
  <2>1. a \in Nat /\ Width \in Nat
    BY MemoryAssumption DEF Address
  <2>2. a \in p .. p + Width - 1 => a - p \in 0 .. Width - 1
    BY <2>1
  <2> QED BY <2>2
<1> QED BY <1>1 DEF WriteLine
=============================================================================
