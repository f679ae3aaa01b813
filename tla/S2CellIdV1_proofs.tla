---------------------------- MODULE S2CellIdV1_proofs ----------------------------
(***************************************************************************)
(* Lemmas about the primary layout of S2CellIdV1 for every kMaxLevel: the  *)
(* lowest set bit is unique, parent(level) has a closed form, and the      *)
(* ancestors it yields are valid cells of the requested level on the same  *)
(* face, nested inside each other.  The provers treat ^ as uninterpreted;  *)
(* every fact about a power of two comes from PowersOfTwoAssumption.      *)
(***************************************************************************)
EXTENDS S2CellIdV1, TLAPS

LEMMA WidthType == Width \in Nat /\ Width >= 6 /\ Width = 2 * MaxLevel + 4
BY MaxLevelAssumption DEF Width, kFaceBits, kPosBits

LEMMA PowPos ==
  ASSUME NEW n \in 0..(Width + 2)
  PROVE  2^n \in Nat \ {0}
BY PowersOfTwoAssumption

LEMMA PowSum ==
  ASSUME NEW m \in 0..Width, NEW n \in 0..Width, m + n <= Width
  PROVE  2^(m + n) = 2^m * 2^n
BY PowersOfTwoAssumption

LEMMA PowMono ==
  ASSUME NEW m \in 0..Width, NEW n \in 0..Width, m < n
  PROVE  2^m < 2^n
BY PowersOfTwoAssumption

\* Division with remainder determines quotient and remainder.
LEMMA QuotRem ==
  ASSUME NEW x \in Int, NEW d \in Nat \ {0}, NEW q \in Int, NEW r \in 0..(d - 1),
         x = q * d + r
  PROVE  x \div d = q /\ x % d = r
BY SMT

LEMMA DivModNat ==
  ASSUME NEW x \in Nat, NEW d \in Nat \ {0}
  PROVE  /\ x = (x \div d) * d + (x % d)
         /\ x \div d \in Nat /\ x % d \in 0..(d - 1)
BY SMT

\* Dividing by a then by c is dividing by a * c.
LEMMA NestedDiv ==
  ASSUME NEW x \in Nat, NEW a \in Nat \ {0}, NEW c \in Nat \ {0}
  PROVE  x \div (a * c) = (x \div a) \div c
<1>. DEFINE h == x \div a  t == x % a  g == h \div c  s == h % c
<1>1. x = h * a + t /\ h \in Nat /\ t \in 0..(a - 1)
  BY DivModNat
<1>2. h = g * c + s /\ g \in Nat /\ s \in 0..(c - 1)
  BY <1>1, DivModNat
<1>3. x = g * (a * c) + (s * a + t)
  BY <1>1, <1>2
<1>4. s * a + t \in 0..(a * c - 1)
  BY <1>1, <1>2
<1>5. a * c \in Nat \ {0}
  OBVIOUS
<1>. QED
  BY <1>2, <1>3, <1>4, <1>5, QuotRem

\* A multiple of A * 2 * B, divided by A, is even.
LEMMA MultipleEvenAt ==
  ASSUME NEW id \in Nat, NEW A \in Nat \ {0}, NEW B \in Nat \ {0}, NEW Q \in Nat,
         id = Q * (A * (2 * B))
  PROVE  (id \div A) % 2 = 0
<1>1. id = (Q * B * 2) * A + 0 /\ Q * B * 2 \in Int /\ 0 \in 0..(A - 1)
  OBVIOUS
<1>2. id \div A = Q * B * 2
  BY <1>1, QuotRem
<1>. QED
  BY <1>2

LEMMA MultipleEven ==
  ASSUME NEW id \in Nat, NEW A \in Nat \ {0}, NEW B \in Nat \ {0},
         id % (A * (2 * B)) = 0
  PROVE  (id \div A) % 2 = 0
<1>. DEFINE P == A * (2 * B)
<1>1. P \in Nat \ {0}
  OBVIOUS
<1>2. id = (id \div P) * P + (id % P) /\ id \div P \in Nat
  BY <1>1, DivModNat, Zenon DEF P
<1>3. id = (id \div P) * P
  BY <1>2
<1>. QED
  BY <1>2, <1>3, MultipleEvenAt, Zenon DEF P

\* A multiple of 2^k has bit j clear for every j < k.
LEMMA LowBitsClear ==
  ASSUME NEW id \in Nat, NEW j \in 0..(Width - 1), NEW k \in 0..(Width - 1),
         j < k, id % 2^k = 0
  PROVE  (id \div 2^j) % 2 = 0
<1>0. /\ j \in 0..Width /\ k - j \in 0..Width /\ j + (k - j) <= Width
      /\ 1 \in 0..Width /\ k - j - 1 \in 0..Width /\ 1 + (k - j - 1) <= Width
      /\ j + (k - j) = k /\ 1 + (k - j - 1) = k - j
  BY WidthType
<1>1. 2^k = 2^j * 2^(k - j) /\ 2^(k - j) = 2^1 * 2^(k - j - 1)
  <2>1. 2^(j + (k - j)) = 2^j * 2^(k - j)
    BY <1>0, PowSum, Zenon
  <2>2. 2^(1 + (k - j - 1)) = 2^1 * 2^(k - j - 1)
    BY <1>0, PowSum, Zenon
  <2>. QED
    BY <1>0, <2>1, <2>2
<1>2. 2^j \in Nat \ {0} /\ 2^(k - j - 1) \in Nat \ {0}
  <2>1. j \in 0..(Width + 2) /\ k - j - 1 \in 0..(Width + 2)
    BY WidthType
  <2>. QED
    BY <2>1, PowPos, Zenon
<1>3. 2^k = 2^j * (2 * 2^(k - j - 1))
  BY <1>1, <1>2
<1>4. id % (2^j * (2 * 2^(k - j - 1))) = 0
  BY <1>3, Zenon
<1>. QED
  BY <1>2, <1>4, MultipleEven, Zenon

\* An id has at most one lowest set bit.
LEMMA LowestBitUnique ==
  ASSUME NEW id \in Nat, NEW j \in 0..(Width - 1), NEW k \in 0..(Width - 1),
         LowestBitAt(id, j), LowestBitAt(id, k)
  PROVE  j = k
<1>1. CASE j < k
  <2>1. id % 2^k = 0
    BY DEF LowestBitAt
  <2>2. (id \div 2^j) % 2 = 0
    BY <1>1, <2>1, LowBitsClear
  <2>. QED
    BY <2>2 DEF LowestBitAt
<1>2. CASE k < j
  <2>1. id % 2^j = 0
    BY DEF LowestBitAt
  <2>2. (id \div 2^k) % 2 = 0
    BY <1>2, <2>1, LowBitsClear
  <2>. QED
    BY <2>2 DEF LowestBitAt
<1>. QED
  BY <1>1, <1>2

\* Where bit k is the lowest set bit, countr_zero is k and lsb() is 2^k.
LEMMA CountrZeroAt ==
  ASSUME NEW id \in Nat, NEW k \in 0..(Width - 1), LowestBitAt(id, k)
  PROVE  countr_zero(id) = k /\ lsb(id) = 2^k /\ id # 0
<1>1. countr_zero(id) = k
  <2>1. LowestBitAt(id, countr_zero(id)) /\ countr_zero(id) \in 0..(Width - 1)
    BY DEF countr_zero
  <2>. QED
    BY <2>1, LowestBitUnique
<1>2. id # 0
  BY WidthType, PowPos DEF LowestBitAt
<1>. QED
  BY <1>1, <1>2 DEF lsb

\* The lowest set bit of a valid id is bit 2 * (kMaxLevel - level()).
LEMMA ValidLowestBit ==
  ASSUME NEW id \in Nat, is_valid(id)
  PROVE  /\ level(id) \in 0..MaxLevel
         /\ countr_zero(id) = 2 * (MaxLevel - level(id))
         /\ LowestBitAt(id, countr_zero(id))
         /\ lsb(id) = lsb_for_level(level(id))
<1>1. PICK l \in 0..MaxLevel : lsb(id) = 2^(2 * (MaxLevel - l))
  BY DEF is_valid, EvenBitPowers, lsb_for_level
<1>2. 2 * (MaxLevel - l) \in 0..(Width - 1)
  BY WidthType, MaxLevelAssumption
<1>3. lsb(id) # 0
  BY <1>1, <1>2, PowPos, WidthType
<1>4. countr_zero(id) \in 0..(Width - 1) /\ LowestBitAt(id, countr_zero(id))
  <2>1. \E k \in 0..Width-1 : LowestBitAt(id, k)
    <3>1. SUFFICES ASSUME ~\E k \in 0..Width-1 : LowestBitAt(id, k) PROVE FALSE
      OBVIOUS
    <3>2. countr_zero(id) = Width
      BY <3>1 DEF countr_zero
    <3>3. lsb(id) = 2^Width
      BY <1>3, <3>2 DEF lsb
    <3>4. 2^(2 * (MaxLevel - l)) < 2^Width
      BY <1>2, WidthType, PowMono
    <3>5. 2^Width \in Nat
      BY WidthType, PowPos
    <3>. QED
      BY <1>1, <3>3, <3>4, <3>5
  <2>. QED
    BY <2>1 DEF countr_zero
<1>5. countr_zero(id) = 2 * (MaxLevel - l)
  <2>1. 2^countr_zero(id) = 2^(2 * (MaxLevel - l))
    BY <1>1, <1>3 DEF lsb
  <2>2. CASE countr_zero(id) < 2 * (MaxLevel - l)
    BY <1>2, <1>4, <2>1, <2>2, PowMono, WidthType
  <2>3. CASE countr_zero(id) > 2 * (MaxLevel - l)
    BY <1>2, <1>4, <2>1, <2>3, PowMono, WidthType
  <2>. QED
    BY <1>2, <1>4, <2>2, <2>3
<1>6. level(id) = l
  BY <1>5, MaxLevelAssumption DEF level
<1>. QED
  BY <1>1, <1>4, <1>5, <1>6 DEF lsb_for_level

(***************************************************************************)
(* parent(level) in closed form.  With b = lsb_for_level(level), clearing *)
(* the bits below b and setting bit b gives the odd multiple of b in the   *)
(* same block of 2b: (2 * (id \div 2b) + 1) * b.                           *)
(***************************************************************************)
LEMMA SetClearAt ==
  ASSUME NEW x \in Nat, NEW d \in Nat \ {0}, NEW r \in 0..(d - 1),
         NEW g \in Nat, NEW e \in 0..1, x = (2 * g + e) * d + r
  PROVE  SetBit(ClearBelow(x, d), d) = (2 * g + 1) * d /\ x \div (2 * d) = g
<1>. DEFINE u == 2 * g + e
<1>0. u \in Nat /\ x = u * d + r
  OBVIOUS
<1>1. x % d = r
  BY <1>0, QuotRem
<1>2. ClearBelow(x, d) = u * d
  BY <1>0, <1>1 DEF ClearBelow, u
<1>3. (u * d) \div d = u
  <2>1. u * d = u * d + 0 /\ 0 \in 0..(d - 1)
    OBVIOUS
  <2>. QED
    BY <2>1, QuotRem
<1>4. x = g * (2 * d) + (e * d + r) /\ e * d + r \in 0..(2 * d - 1)
  OBVIOUS
<1>5. x \div (2 * d) = g
  BY <1>4, QuotRem
<1>6. CASE e = 1
  BY <1>2, <1>3, <1>6 DEF SetBit
<1>7. CASE e = 0
  BY <1>2, <1>3, <1>7 DEF SetBit
<1>. QED
  BY <1>5, <1>6, <1>7

LEMMA SetClearForm ==
  ASSUME NEW id \in Nat, NEW b \in Nat \ {0}
  PROVE  SetBit(ClearBelow(id, b), b) = (2 * (id \div (2 * b)) + 1) * b
<1>1. PICK Q \in Nat, R \in 0..(b - 1) : id = Q * b + R
  <2>1. id = (id \div b) * b + (id % b) /\ id \div b \in Nat /\ id % b \in 0..(b - 1)
    BY DivModNat
  <2>. QED
    BY <2>1
<1>2. PICK h \in Nat, s \in 0..1 : Q = 2 * h + s
  <2>1. Q = (Q \div 2) * 2 + (Q % 2) /\ Q \div 2 \in Nat /\ Q % 2 \in 0..1
    BY DivModNat
  <2>. QED
    BY <2>1
<1>3. id = (2 * h + s) * b + R
  BY <1>1, <1>2
<1>4. SetBit(ClearBelow(id, b), b) = (2 * h + 1) * b /\ id \div (2 * b) = h
  BY <1>3, SetClearAt
<1>. QED
  BY <1>4

\* The bit of lsb_for_level(m), and its range.
LEMMA LevelBit ==
  ASSUME NEW m \in 0..MaxLevel
  PROVE  /\ 2 * (MaxLevel - m) \in 0..(Width - 1)
         /\ 2 * (MaxLevel - m) + 1 <= kPosBits
         /\ lsb_for_level(m) \in Nat \ {0}
<1>1. 2 * (MaxLevel - m) \in 0..(Width - 1) /\ 2 * (MaxLevel - m) + 1 <= kPosBits
  BY WidthType, MaxLevelAssumption DEF kPosBits
<1>2. 2 * (MaxLevel - m) \in 0..(Width + 2)
  BY <1>1, WidthType
<1>. QED
  BY <1>1, <1>2, PowPos, Zenon DEF lsb_for_level

LEMMA ParentAtForm ==
  ASSUME NEW id \in Nat, NEW m \in 0..MaxLevel
  PROVE  parent_at(id, m) =
           (2 * (id \div (2 * lsb_for_level(m))) + 1) * lsb_for_level(m)
BY LevelBit, SetClearForm DEF parent_at

\* An odd multiple of b = 2^k has its lowest set bit at k.
LEMMA OddMultipleLowest ==
  ASSUME NEW k \in 0..(Width - 1), NEW h \in Nat
  PROVE  LET X == (2 * h + 1) * 2^k
         IN  X \in Nat /\ LowestBitAt(X, k)
<1>1. 2^k \in Nat \ {0}
  <2>1. k \in 0..(Width + 2)
    BY WidthType
  <2>. QED
    BY <2>1, PowPos
<1>2. (2 * h + 1) * 2^k = (2 * h + 1) * 2^k + 0 /\ 0 \in 0..(2^k - 1)
  BY <1>1
<1>3. ((2 * h + 1) * 2^k) \div 2^k = 2 * h + 1 /\ ((2 * h + 1) * 2^k) % 2^k = 0
  BY <1>1, <1>2, QuotRem
<1>. QED
  BY <1>1, <1>3 DEF LowestBitAt

\* parent(level) yields a cell of that level: its lowest set bit is the
\* level's bit.
LEMMA ParentAtLevel ==
  ASSUME NEW id \in Nat, NEW m \in 0..MaxLevel
  PROVE  /\ parent_at(id, m) \in Nat
         /\ LowestBitAt(parent_at(id, m), 2 * (MaxLevel - m))
         /\ countr_zero(parent_at(id, m)) = 2 * (MaxLevel - m)
         /\ lsb(parent_at(id, m)) = lsb_for_level(m)
         /\ level(parent_at(id, m)) = m
<1>. DEFINE k == 2 * (MaxLevel - m)
<1>1. k \in 0..(Width - 1) /\ lsb_for_level(m) = 2^k /\ 2^k \in Nat \ {0}
  BY LevelBit DEF lsb_for_level
<1>2. id \div (2 * lsb_for_level(m)) \in Nat
  BY <1>1
<1>3. parent_at(id, m) = (2 * (id \div (2 * lsb_for_level(m))) + 1) * 2^k
  BY <1>1, ParentAtForm
<1>4. parent_at(id, m) \in Nat /\ LowestBitAt(parent_at(id, m), k)
  BY <1>1, <1>2, <1>3, OddMultipleLowest
<1>5. countr_zero(parent_at(id, m)) = k /\ lsb(parent_at(id, m)) = 2^k
  BY <1>1, <1>4, CountrZeroAt
<1>6. level(parent_at(id, m)) = m
  BY <1>5, MaxLevelAssumption DEF level
<1>. QED
  BY <1>1, <1>4, <1>5, <1>6

\* The quotient by 2b of the closed form is the quotient of id by 2b.
LEMMA FormQuotAt ==
  ASSUME NEW h \in Nat, NEW b \in Nat \ {0}
  PROVE  ((2 * h + 1) * b) \div (2 * b) = h /\ (2 * h + 1) * b \in Nat
<1>1. (2 * h + 1) * b = h * (2 * b) + b /\ b \in 0..(2 * b - 1) /\ 2 * b \in Nat \ {0}
  OBVIOUS
<1>. QED
  BY <1>1, QuotRem

LEMMA FormQuot ==
  ASSUME NEW id \in Nat, NEW b \in Nat \ {0}
  PROVE  /\ ((2 * (id \div (2 * b)) + 1) * b) \div (2 * b) = id \div (2 * b)
         /\ (2 * (id \div (2 * b)) + 1) * b \in Nat
<1>1. PICK h \in Nat : h = id \div (2 * b)
  <2>1. id \div (2 * b) \in Nat
    BY DivModNat
  <2>. QED
    BY <2>1
<1>2. ((2 * h + 1) * b) \div (2 * b) = h /\ (2 * h + 1) * b \in Nat
  BY FormQuotAt
<1>. QED
  BY <1>1, <1>2

\* Each 2b-block lies in one block of a larger power of two.
LEMMA BlockQuot ==
  ASSUME NEW x \in Nat, NEW y \in Nat, NEW b \in Nat \ {0}, NEW c \in Nat \ {0},
         x \div (2 * b) = y \div (2 * b)
  PROVE  x \div ((2 * b) * c) = y \div ((2 * b) * c)
<1>1. 2 * b \in Nat \ {0}
  OBVIOUS
<1>2. x \div ((2 * b) * c) = (x \div (2 * b)) \div c
  BY <1>1, NestedDiv, Zenon
<1>3. y \div ((2 * b) * c) = (y \div (2 * b)) \div c
  BY <1>1, NestedDiv, Zenon
<1>. QED
  BY <1>2, <1>3

\* parent(level) keeps the face.
LEMMA ParentAtFace ==
  ASSUME NEW id \in Nat, NEW m \in 0..MaxLevel
  PROVE  face(parent_at(id, m)) = face(id)
<1>. DEFINE k == 2 * (MaxLevel - m)  b == lsb_for_level(m)
<1>1. k \in 0..(Width - 1) /\ k + 1 <= kPosBits /\ b = 2^k /\ b \in Nat \ {0}
  BY LevelBit DEF lsb_for_level
<1>2. 2^kPosBits = (2 * b) * 2^(kPosBits - (k + 1)) /\ 2^(kPosBits - (k + 1)) \in Nat \ {0}
  <2>1. /\ k + 1 \in 0..Width /\ kPosBits - (k + 1) \in 0..Width
        /\ (k + 1) + (kPosBits - (k + 1)) <= Width
        /\ (k + 1) + (kPosBits - (k + 1)) = kPosBits
        /\ 1 \in 0..Width /\ k \in 0..Width /\ 1 + k <= Width /\ 1 + k = k + 1
        /\ kPosBits - (k + 1) \in 0..(Width + 2)
    BY <1>1, WidthType, MaxLevelAssumption DEF kPosBits, k
  <2>2. 2^((k + 1) + (kPosBits - (k + 1))) = 2^(k + 1) * 2^(kPosBits - (k + 1))
    BY <2>1, PowSum, Zenon
  <2>3. 2^(1 + k) = 2^1 * 2^k
    BY <2>1, PowSum, Zenon
  <2>4. 2^(kPosBits - (k + 1)) \in Nat \ {0}
    BY <2>1, PowPos, Zenon
  <2>. QED
    BY <1>1, <2>1, <2>2, <2>3, <2>4
<1>3. parent_at(id, m) = (2 * (id \div (2 * b)) + 1) * b
  BY ParentAtForm
<1>4. ((2 * (id \div (2 * b)) + 1) * b) \div (2 * b) = id \div (2 * b)
      /\ (2 * (id \div (2 * b)) + 1) * b \in Nat
  BY <1>1, FormQuot
<1>5. ((2 * (id \div (2 * b)) + 1) * b) \div ((2 * b) * 2^(kPosBits - (k + 1)))
        = id \div ((2 * b) * 2^(kPosBits - (k + 1)))
  BY <1>1, <1>2, <1>4, BlockQuot, Zenon
<1>. QED
  BY <1>2, <1>3, <1>5 DEF face

\* parent(level) of an id on a face is a valid cell.
LEMMA ParentAtValid ==
  ASSUME NEW id \in Nat, NEW m \in 0..MaxLevel, face(id) < kNumFaces
  PROVE  is_valid(parent_at(id, m))
BY ParentAtLevel, ParentAtFace DEF is_valid, EvenBitPowers

(***************************************************************************)
(* Ancestors compose: for every word width, the primary identifier's       *)
(* parent(n) (s2cell_id_v1.h:649-655) of parent(m), for n <= m, is         *)
(* parent(n) of the id itself, whatever the bits below the level-m marker. *)
(* ConvertToOldFormat's climb and the parent(level) delegations rely on    *)
(* it.                                                                     *)
(***************************************************************************)
THEOREM ParentAtCompose ==
  ASSUME NEW id \in Nat, NEW m \in 0..MaxLevel, NEW n \in 0..m
  PROVE  parent_at(parent_at(id, m), n) = parent_at(id, n)
<1>. DEFINE b == lsb_for_level(m)  b2 == lsb_for_level(n)  c == 2^(2 * (m - n))
            X == parent_at(id, m)
<1>1. b \in Nat \ {0} /\ b2 \in Nat \ {0} /\ c \in Nat \ {0} /\ 2 * b2 = (2 * b) * c
  <2>1. /\ 2 * (MaxLevel - m) \in 0..Width /\ 2 * (m - n) \in 0..Width
        /\ 2 * (MaxLevel - m) + 2 * (m - n) <= Width
        /\ 2 * (MaxLevel - m) + 2 * (m - n) = 2 * (MaxLevel - n)
        /\ 2 * (m - n) \in 0..(Width + 2)
    BY WidthType, MaxLevelAssumption
  <2>2. 2^(2 * (MaxLevel - m) + 2 * (m - n)) = 2^(2 * (MaxLevel - m)) * 2^(2 * (m - n))
    BY <2>1, PowSum, Zenon
  <2>3. c \in Nat \ {0}
    BY <2>1, PowPos, Zenon
  <2>4. b \in Nat \ {0} /\ b2 \in Nat \ {0}
    <3>1. n \in 0..MaxLevel
      BY MaxLevelAssumption
    <3>. QED
      BY <3>1, LevelBit DEF b, b2
  <2>. QED
    BY <2>1, <2>2, <2>3, <2>4 DEF lsb_for_level, b, b2, c
<1>0. n \in 0..MaxLevel
  BY MaxLevelAssumption
<1>2. X = (2 * (id \div (2 * b)) + 1) * b
  BY ParentAtForm DEF X, b
<1>3. X \div (2 * b) = id \div (2 * b) /\ X \in Nat
  BY <1>1, <1>2, FormQuot
<1>4. X \div ((2 * b) * c) = id \div ((2 * b) * c)
  BY <1>1, <1>3, BlockQuot
<1>5. parent_at(X, n) = (2 * (X \div (2 * b2)) + 1) * b2
  BY <1>0, <1>3, ParentAtForm DEF b2
<1>6. parent_at(id, n) = (2 * (id \div (2 * b2)) + 1) * b2
  BY <1>0, ParentAtForm DEF b2
<1>. QED
  BY <1>1, <1>4, <1>5, <1>6 DEF X

\* A valid id is its own ancestor at its level.
LEMMA ParentAtSelf ==
  ASSUME NEW id \in Nat, is_valid(id)
  PROVE  parent_at(id, level(id)) = id
<1>. DEFINE L == level(id)  k == 2 * (MaxLevel - L)
<1>1. L \in 0..MaxLevel /\ LowestBitAt(id, k) /\ k \in 0..(Width - 1)
  BY ValidLowestBit, LevelBit
<1>2. lsb_for_level(L) = 2^k /\ 2^k \in Nat \ {0}
  BY <1>1, LevelBit DEF lsb_for_level
<1>3. PICK h \in Nat : id \div 2^k = 2 * h + 1
  <2>1. id \div 2^k \in Nat /\ (id \div 2^k) % 2 = 1
    BY <1>1, <1>2, DivModNat DEF LowestBitAt
  <2>2. id \div 2^k = 2 * ((id \div 2^k) \div 2) + 1 /\ (id \div 2^k) \div 2 \in Nat
    BY <2>1
  <2>. QED
    BY <2>2
<1>4. id = (2 * h + 1) * 2^k + 0
  <2>1. id = (id \div 2^k) * 2^k + (id % 2^k) /\ id % 2^k = 0
    BY <1>1, <1>2, DivModNat DEF LowestBitAt
  <2>. QED
    BY <1>3, <2>1
<1>5. SetBit(ClearBelow(id, 2^k), 2^k) = (2 * h + 1) * 2^k
  <2>1. PICK d \in Nat \ {0} : d = 2^k
    BY <1>2
  <2>2. id = (2 * h + 1) * d + 0 /\ 0 \in 0..(d - 1) /\ 1 \in 0..1
    BY <1>4, <2>1
  <2>3. SetBit(ClearBelow(id, d), d) = (2 * h + 1) * d /\ id \div (2 * d) = h
    BY <2>2, SetClearAt, Zenon
  <2>. QED
    BY <2>1, <2>3
<1>. QED
  BY <1>2, <1>4, <1>5 DEF parent_at

\* parent() of a valid id of positive level is its ancestor one level up.
LEMMA ParentIsParentAt ==
  ASSUME NEW id \in Nat, is_valid(id), level(id) > 0
  PROVE  parent(id) = parent_at(id, level(id) - 1)
<1>. DEFINE L == level(id)  k == 2 * (MaxLevel - L)
<1>1. L \in 1..MaxLevel /\ lsb(id) = 2^k
  BY ValidLowestBit DEF lsb_for_level
<1>2. /\ k \in 0..Width /\ 2 \in 0..Width /\ k + 2 <= Width /\ k + 2 < Width
      /\ k + 2 = 2 * (MaxLevel - (L - 1)) /\ k + 2 \in 0..Width
  BY <1>1, WidthType, MaxLevelAssumption DEF k
<1>3. 2^(k + 2) = 2^k * 2^2
  BY <1>2, PowSum, Zenon
<1>4. 2^(k + 2) < IdSpace /\ 2^(k + 2) \in Nat
  <2>1. 2^(k + 2) < 2^Width
    <3>1. Width \in 0..Width /\ k + 2 \in 0..Width /\ k + 2 < Width
      BY <1>2, WidthType
    <3>. QED
      BY <3>1, PowMono, Zenon
  <2>2. 2^(k + 2) \in Nat
    <3>1. k + 2 \in 0..(Width + 2)
      BY <1>2, WidthType
    <3>. QED
      BY <3>1, PowPos, Zenon
  <2>. QED
    BY <2>1, <2>2 DEF IdSpace
<1>5. U64(lsb(id) * 4) = lsb_for_level(L - 1)
  <2>1. lsb(id) * 4 = 2^(k + 2)
    BY <1>1, <1>3
  <2>2. U64(2^(k + 2)) = 2^(k + 2)
    BY <1>4, WidthType, PowPos DEF U64, IdSpace
  <2>. QED
    BY <1>2, <2>1, <2>2 DEF lsb_for_level
<1>. QED
  BY <1>5 DEF parent, parent_at


-----------------------------------------------------------------------------
(***************************************************************************)
(* The path of an id down to level k: its child positions at levels 1..k,  *)
(* root first, two bits each, read off the position bits below the face.   *)
(***************************************************************************)
PathAt(id, k) == (id \div 2^(2 * (MaxLevel - k) + 1)) % 2^(2 * k)

\* The remainder by 4m splits into the last base-4 digit and the rest.
LEMMA ModSplit ==
  ASSUME NEW q \in Nat, NEW m \in Nat \ {0}
  PROVE  q % (4 * m) = ((q \div 4) % m) * 4 + (q % 4)
<1>1. PICK a \in Nat, r \in 0..3 : q = a * 4 + r /\ a = q \div 4 /\ r = q % 4
  <2>1. q = (q \div 4) * 4 + (q % 4) /\ q \div 4 \in Nat /\ q % 4 \in 0..3
    BY DivModNat
  <2>. QED
    BY <2>1
<1>2. PICK c \in Nat, s \in 0..(m - 1) : a = c * m + s /\ s = a % m
  <2>1. a = (a \div m) * m + (a % m) /\ a \div m \in Nat /\ a % m \in 0..(m - 1)
    BY DivModNat
  <2>. QED
    BY <2>1
<1>3. PICK M \in Nat \ {0} : M = 4 * m
  OBVIOUS
<1>6. PICK t \in 0..(M - 1) : t = s * 4 + r
  <2>1. s * 4 + r \in 0..(M - 1)
    BY <1>3
  <2>. QED
    BY <2>1
<1>4. q = c * M + t
  <2>1. q = a * 4 + r
    BY <1>1
  <2>2. a = c * m + s
    BY <1>2
  <2>. QED
    BY <1>3, <1>6, <2>1, <2>2
<1>5. q % (4 * m) = s * 4 + r
  <2>0. q \in Int /\ c \in Int /\ q = c * M + t
    BY <1>2, <1>4
  <2>1. q % M = t
    BY <1>3, <1>6, <2>0, QuotRem, Zenon
  <2>. QED
    BY <1>3, <1>6, <2>1
<1>. QED
  BY <1>1, <1>2, <1>5

\* The path to level k is a number of 2k bits.
LEMMA PathAtRange ==
  ASSUME NEW id \in Nat, NEW k \in 0..MaxLevel
  PROVE  /\ 2^(2 * k) \in Nat \ {0}
         /\ PathAt(id, k) \in 0..(2^(2 * k) - 1)
<1>1. 2 * k \in 0..(Width + 2) /\ 2 * (MaxLevel - k) + 1 \in 0..(Width + 2)
  BY WidthType, MaxLevelAssumption
<1>2. 2^(2 * k) \in Nat \ {0} /\ 2^(2 * (MaxLevel - k) + 1) \in Nat \ {0}
  BY <1>1, PowPos
<1>3. id \div 2^(2 * (MaxLevel - k) + 1) \in Nat
  BY <1>2
<1>. QED
  BY <1>2, <1>3, DivModNat DEF PathAt

(***************************************************************************)
(* One more level of the path is the path shifted by two bits with the     *)
(* child position at that level below it: the step of the packing loop    *)
(* path = (path << 2) | pos.                                               *)
(***************************************************************************)
LEMMA PathStep ==
  ASSUME NEW id \in Nat, NEW k \in 0..(MaxLevel - 1)
  PROVE  PathAt(id, k + 1) = PathAt(id, k) * 4 + child_position_at(id, k + 1)
<1>. DEFINE e == 2 * (MaxLevel - (k + 1)) + 1
<1>1. e \in 0..Width /\ 2 \in 0..Width /\ 2 + e <= Width
      /\ 2 + e = 2 * (MaxLevel - k) + 1
      /\ 2 * k \in 0..Width /\ 2 + 2 * k <= Width /\ 2 + 2 * k = 2 * (k + 1)
  BY WidthType, MaxLevelAssumption DEF e
<1>2. 2^2 = 4
  OBVIOUS
<1>3. PICK D \in Nat \ {0} : D = 2^e /\ 2^(2 * (MaxLevel - k) + 1) = 4 * D
  <2>0. e \in 0..(Width + 2)
    BY <1>1, WidthType
  <2>1. 2^(2 + e) = 2^2 * 2^e /\ 2^e \in Nat \ {0}
    BY <1>1, <2>0, PowSum, PowPos, Zenon
  <2>. QED
    BY <1>1, <1>2, <2>1
<1>4. PICK m \in Nat \ {0} : m = 2^(2 * k) /\ 2^(2 * (k + 1)) = 4 * m
  <2>0. 2 * k \in 0..(Width + 2)
    BY <1>1, WidthType
  <2>1. 2^(2 + 2 * k) = 2^2 * 2^(2 * k) /\ 2^(2 * k) \in Nat \ {0}
    BY <1>1, <2>0, PowSum, PowPos, Zenon
  <2>. QED
    BY <1>1, <1>2, <2>1
<1>5. PICK Q \in Nat : Q = id \div D
  BY <1>3
<1>6. id \div (4 * D) = Q \div 4
  <2>1. id \div (D * 4) = (id \div D) \div 4
    BY <1>3, NestedDiv
  <2>. QED
    BY <1>5, <2>1
<1>7. /\ PathAt(id, k + 1) = Q % (4 * m)
      /\ PathAt(id, k) = (Q \div 4) % m
      /\ child_position_at(id, k + 1) = Q % 4
  BY <1>3, <1>4, <1>5, <1>6 DEF PathAt, child_position_at, e
<1>. QED
  BY <1>4, <1>5, <1>7, ModSplit

(***************************************************************************)
(* The position that child_position() reads on the ancestor at level m is  *)
(* old's own child position at level m: parent(level) keeps the bits above *)
(* the level.                                                              *)
(***************************************************************************)
LEMMA ClimbDigit ==
  ASSUME NEW id \in Nat, NEW m \in 0..MaxLevel
  PROVE  child_position(parent_at(id, m)) = child_position_at(id, m)
<1>. DEFINE b == lsb_for_level(m)  X == parent_at(id, m)
<1>1. 2 * (MaxLevel - m) \in 0..Width /\ 1 \in 0..Width
      /\ 1 + 2 * (MaxLevel - m) <= Width
      /\ 1 + 2 * (MaxLevel - m) = 2 * (MaxLevel - m) + 1
  BY LevelBit, WidthType
<1>2. 2^(2 * (MaxLevel - m) + 1) = 2 * b /\ b \in Nat \ {0}
  <2>1. 2^(1 + 2 * (MaxLevel - m)) = 2^1 * 2^(2 * (MaxLevel - m))
    BY <1>1, PowSum, Zenon
  <2>2. 2^1 = 2
    OBVIOUS
  <2>. QED
    BY <1>1, <2>1, <2>2, LevelBit DEF b, lsb_for_level
<1>3. PICK h \in Nat : h = id \div (2 * b)
  BY <1>2
<1>4. X = (2 * h + 1) * b /\ level(X) = m
  BY <1>3, ParentAtForm, ParentAtLevel DEF X, b
<1>5. X \div (2 * b) = h
  BY <1>2, <1>4, FormQuotAt
<1>. QED
  BY <1>2, <1>3, <1>4, <1>5 DEF child_position, child_position_at, X

=============================================================================
