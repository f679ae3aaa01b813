---------------------------- MODULE S2CellIdV2_proofs ----------------------------
(***************************************************************************)
(* Proofs about the compact layout of S2CellIdV2 for every word width:     *)
(* the fields of an assembled word read back, and parent() and child(),    *)
(* which s2cell_id.h computes on the compact word itself, are inverse on   *)
(* the canonical words.  The provers treat ^ as uninterpreted; every fact  *)
(* about a power of two comes from V1!PowersOfTwoAssumption.              *)
(***************************************************************************)
EXTENDS S2CellIdV2, SequenceTheorems, TLAPS

\* The canonical word of the cell of face f, path p and level l.
Canon(f, p, l) == RootFix(Pack(f, p, l))

\* The field values of a cell: a face, a level up to kMaxLevel, and a path
\* of one child position per level.
Fields(f, p, l) ==
  /\ f \in 0..(kNumFaces - 1)
  /\ l \in 0..CMaxLevel
  /\ p \in 0..(2^(2 * l) - 1)

LEMMA DivMod ==
  ASSUME NEW x \in Int, NEW d \in Nat \ {0}, NEW q \in Int, NEW r \in 0..(d - 1),
         x = q * d + r
  PROVE  x \div d = q /\ x % d = r
BY SMT

\* The facts about powers of two, for the primary word width.
LEMMA WidthFacts ==
  /\ V1!Width = 2 * MaxLevel + 4 /\ V1!Width \in Nat
  /\ kPathBits = V1!Width - 8 /\ V1!Width - 8 >= 2 * CMaxLevel
  /\ CMaxLevel \in Nat /\ CMaxLevel >= 1
BY PrimaryAssumption, CompactLayoutAssumption
DEF V1!MaxLevelAssumption, V1!Width, V1!kFaceBits, V1!kPosBits, kPathBits,
    kFaceBits, kLevelBits

LEMMA PowNat ==
  ASSUME NEW n \in 0..V1!Width
  PROVE  2^n \in Nat \ {0}
BY WidthFacts, PrimaryAssumption DEF V1!PowersOfTwoAssumption

LEMMA PowAdd ==
  ASSUME NEW m \in 0..V1!Width, NEW n \in 0..V1!Width, m + n <= V1!Width
  PROVE  2^(m + n) = 2^m * 2^n
BY PrimaryAssumption DEF V1!PowersOfTwoAssumption

LEMMA PowLess ==
  ASSUME NEW m \in 0..V1!Width, NEW n \in 0..V1!Width, m < n
  PROVE  2^m < 2^n
BY PrimaryAssumption DEF V1!PowersOfTwoAssumption

\* The unit sizes of the layout, as products of powers of two.
LEMMA Units ==
  /\ LevelUnit = 32
  /\ PathUnit \in Nat /\ PathUnit >= 2 /\ PathUnit % 2 = 0
  /\ FaceUnit = PathUnit * LevelUnit
  /\ V1!IdSpace = 8 * FaceUnit
  /\ FaceUnit = 2 * RootMarker
  /\ \A l \in 0..CMaxLevel : /\ 2^(2 * l) \in Nat \ {0}
                             /\ 2^(2 * l) <= PathUnit
  /\ \A l \in 0..(CMaxLevel - 1) : 2^(2 * (l + 1)) = 4 * 2^(2 * l)
<1>1. 2^1 = 2 /\ 2^2 = 4 /\ 2^3 = 8 /\ 2^5 = 32
  OBVIOUS
<1>2. FaceUnit = PathUnit * LevelUnit
  <2>0. V1!Width - 8 \in 0..V1!Width /\ 5 \in 0..V1!Width /\ (V1!Width - 8) + 5 <= V1!Width
    BY WidthFacts
  <2>1. 2^((V1!Width - 8) + 5) = 2^(V1!Width - 8) * 2^5
    BY <2>0, PowAdd, Zenon
  <2>. QED
    BY WidthFacts, <2>1 DEF FaceUnit, PathUnit, LevelUnit, kFaceBits, kLevelBits
<1>3. V1!IdSpace = 8 * FaceUnit
  <2>0. 3 \in 0..V1!Width /\ V1!Width - 3 \in 0..V1!Width /\ 3 + (V1!Width - 3) <= V1!Width
    BY WidthFacts
  <2>1. 2^(3 + (V1!Width - 3)) = 2^3 * 2^(V1!Width - 3)
    BY <2>0, PowAdd, Zenon
  <2>. QED
    BY WidthFacts, <1>1, <2>1 DEF V1!IdSpace, FaceUnit, kFaceBits
<1>4. FaceUnit = 2 * RootMarker
  <2>0. 1 \in 0..V1!Width /\ V1!Width - 4 \in 0..V1!Width /\ 1 + (V1!Width - 4) <= V1!Width
    BY WidthFacts
  <2>1. 2^(1 + (V1!Width - 4)) = 2^1 * 2^(V1!Width - 4)
    BY <2>0, PowAdd, Zenon
  <2>. QED
    BY WidthFacts, <1>1, <2>1 DEF FaceUnit, RootMarker, kFaceBits, kLevelBits
<1>5. PathUnit \in Nat /\ PathUnit >= 2 /\ PathUnit % 2 = 0
  <2>0. 1 \in 0..V1!Width /\ V1!Width - 8 \in 0..V1!Width /\ 1 < V1!Width - 8
    BY WidthFacts
  <2>1. 2^1 < 2^(V1!Width - 8)
    BY <2>0, PowLess, Zenon
  <2>2. 2^(V1!Width - 8) \in Nat
    BY WidthFacts, PowNat
  <2>3. 2^(1 + (V1!Width - 9)) = 2^1 * 2^(V1!Width - 9)
    <3>0. 1 \in 0..V1!Width /\ V1!Width - 9 \in 0..V1!Width /\ 1 + (V1!Width - 9) <= V1!Width
      BY WidthFacts
    <3>. QED
      BY <3>0, PowAdd, Zenon
  <2>4. 2^(V1!Width - 9) \in Nat
    BY WidthFacts, PowNat
  <2>. QED
    BY <1>1, <2>1, <2>2, <2>3, <2>4, WidthFacts DEF PathUnit, kPathBits
<1>6. ASSUME NEW l \in 0..CMaxLevel
      PROVE  2^(2 * l) \in Nat \ {0} /\ 2^(2 * l) <= PathUnit
  <2>1. 2 * l \in 0..V1!Width /\ 2 * l <= V1!Width - 8
    BY WidthFacts
  <2>2. 2 * l < V1!Width - 8 => 2^(2 * l) < 2^(V1!Width - 8)
    BY WidthFacts, <2>1, PowLess
  <2>3. 2^(2 * l) \in Nat \ {0}
    BY <2>1, PowNat
  <2>. QED
    BY WidthFacts, <2>1, <2>2, <2>3 DEF PathUnit
<1>7. ASSUME NEW l \in 0..(CMaxLevel - 1)
      PROVE  2^(2 * (l + 1)) = 4 * 2^(2 * l)
  <2>0. 2 \in 0..V1!Width /\ 2 * l \in 0..V1!Width /\ 2 + 2 * l <= V1!Width
    BY WidthFacts
  <2>1. 2^(2 + 2 * l) = 2^2 * 2^(2 * l)
    BY <2>0, PowAdd, Zenon
  <2>. QED
    BY <1>1, <2>1
<1>. QED
  BY <1>1, <1>2, <1>3, <1>4, <1>5, <1>6, <1>7 DEF LevelUnit, kLevelBits
-----------------------------------------------------------------------------
\* x % IdSpace is x for a word x.
LEMMA U64Word ==
  ASSUME NEW x \in 0..(V1!IdSpace - 1)
  PROVE  V1!U64(x) = x
<1>1. V1!IdSpace \in Nat \ {0}
  BY Units
<1>. QED
  BY <1>1, DivMod DEF V1!U64

(***************************************************************************)
(* The word Pack(f, p, l) of a cell is f * FaceUnit + p * LevelUnit + l,   *)
(* and the field extractors of s2cell_id.h read back f, l and p.           *)
(***************************************************************************)
LEMMA PackFields ==
  ASSUME NEW f, NEW p, NEW l, Fields(f, p, l)
  PROVE  /\ Pack(f, p, l) = f * FaceUnit + p * LevelUnit + l
         /\ Pack(f, p, l) \in 0..(V1!IdSpace - 1)
         /\ Pack(f, p, l) \div FaceUnit = f
         /\ Pack(f, p, l) % LevelUnit = l
         /\ RawPath(Pack(f, p, l)) = p
<1>. DEFINE w == f * FaceUnit + p * LevelUnit + l
<1>1. /\ f \in 0..5 /\ l \in 0..31 /\ p \in 0..(PathUnit - 1)
      /\ PathUnit \in Nat \ {0} /\ LevelUnit = 32
      /\ FaceUnit = PathUnit * LevelUnit /\ V1!IdSpace = 8 * FaceUnit
  <2>1. 2^(2 * l) <= PathUnit /\ 2^5 = 32
    BY Units DEF Fields
  <2>. QED
    BY <2>1, Units, CompactLayoutAssumption DEF Fields, kNumFaces, kLevelBits
<1>2. p * LevelUnit + l \in 0..(FaceUnit - 1)
  BY <1>1
<1>3. f * FaceUnit \in 0..(V1!IdSpace - 1) /\ p * LevelUnit \in 0..(V1!IdSpace - 1)
  BY <1>1, <1>2
<1>4. Pack(f, p, l) = w
  BY <1>3, U64Word DEF Pack
<1>5. w \in 0..(V1!IdSpace - 1)
  BY <1>1, <1>2
<1>6. w \div FaceUnit = f
  BY <1>1, <1>2, DivMod
<1>7. w \div LevelUnit = f * PathUnit + p /\ w % LevelUnit = l
  <2>1. w = (f * PathUnit + p) * LevelUnit + l
    BY <1>1
  <2>. QED
    BY <1>1, <2>1, DivMod
<1>8. (f * PathUnit + p) % PathUnit = p
  BY <1>1, DivMod
<1>. QED
  BY <1>4, <1>5, <1>6, <1>7, <1>8 DEF RawPath

\* RootMarker is a multiple of LevelUnit below FaceUnit: its level and face
\* fields are 0.
LEMMA RootMarkerFields ==
  /\ RootMarker \in Nat \ {0}
  /\ RootMarker % LevelUnit = 0 /\ RootMarker \div FaceUnit = 0
  /\ RootMarker < FaceUnit /\ RootMarker \in 0..(V1!IdSpace - 1)
<1>1. /\ PathUnit \in Nat /\ PathUnit >= 2 /\ PathUnit % 2 = 0 /\ LevelUnit = 32
      /\ FaceUnit = PathUnit * LevelUnit /\ FaceUnit = 2 * RootMarker
      /\ V1!IdSpace = 8 * FaceUnit
  BY Units
<1>0. RootMarker \in Nat
  <2>1. kLevelBits + kPathBits - 1 \in 0..V1!Width
    BY WidthFacts DEF kLevelBits
  <2>. QED
    BY <2>1, PowNat, Zenon DEF RootMarker
<1>2. FaceUnit = 32 * PathUnit
  BY <1>1
<1>3. RootMarker = 16 * PathUnit
  BY <1>0, <1>1, <1>2
<1>4. PathUnit = 2 * (PathUnit \div 2) /\ PathUnit \div 2 \in Nat
  BY <1>1
<1>5. RootMarker = (PathUnit \div 2) * 32
  BY <1>3, <1>4
<1>6. RootMarker \in Nat \ {0} /\ RootMarker < FaceUnit
  BY <1>0, <1>1, <1>2, <1>3
<1>7. RootMarker % 32 = 0
  BY <1>4, <1>5, <1>6, DivMod
<1>8. RootMarker \div FaceUnit = 0
  <2>1. FaceUnit \in Nat \ {0} /\ RootMarker = 0 * FaceUnit + RootMarker
    BY <1>2, <1>6
  <2>. QED
    BY <1>6, <2>1, DivMod
<1>. QED
  BY <1>1, <1>6, <1>7, <1>8

(***************************************************************************)
(* The canonical word of a cell is a valid word whose face(), level() and  *)
(* path() are the cell's fields; for a cell below the faces it is the     *)
(* assembled word itself.                                                  *)
(***************************************************************************)
LEMMA CanonFields ==
  ASSUME NEW f, NEW p, NEW l, Fields(f, p, l)
  PROVE  /\ Canon(f, p, l) \in 0..(V1!IdSpace - 1)
         /\ is_valid(Canon(f, p, l))
         /\ face(Canon(f, p, l)) = f
         /\ level(Canon(f, p, l)) = l
         /\ path(Canon(f, p, l)) = p
         /\ Canon(f, p, l) = LayoutWord(f, p, l)
         /\ ~(f = 0 /\ l = 0) => Canon(f, p, l) = Pack(f, p, l)
<1>1. /\ f \in 0..5 /\ l \in 0..CMaxLevel /\ CMaxLevel \in Nat
      /\ 2^(2 * l) \in Nat \ {0} /\ p \in 0..(2^(2 * l) - 1)
      /\ LevelUnit = 32 /\ FaceUnit \in Nat \ {0}
  BY Units, WidthFacts DEF Fields, kNumFaces
<1>2. 2^0 = 1
  OBVIOUS
<1>3. CASE f = 0 /\ l = 0
  <2>1. p = 0
    BY <1>1, <1>2, <1>3
  <2>2. Pack(f, p, l) = 0
    <3>1. Pack(f, p, l) = f * FaceUnit + p * LevelUnit + l
      BY PackFields
    <3>. QED
      BY <1>1, <1>3, <2>1, <3>1
  <2>3. Canon(f, p, l) = RootMarker
    BY <2>2 DEF Canon, RootFix
  <2>4. is_valid(RootMarker)
    BY RootMarkerFields DEF is_valid
  <2>. QED
    BY <1>3, <2>1, <2>3, <2>4, RootMarkerFields DEF face, level, path, LayoutWord
<1>4. CASE ~(f = 0 /\ l = 0)
  <2>. DEFINE w == Pack(f, p, l)
  <2>1. /\ w = f * FaceUnit + p * LevelUnit + l /\ w \in 0..(V1!IdSpace - 1)
        /\ w \div FaceUnit = f /\ w % LevelUnit = l /\ RawPath(w) = p
    BY PackFields
  <2>2. w # 0
    BY <1>1, <1>4, <2>1
  <2>3. w # RootMarker
    <3>1. CASE l = 0
      <4>1. f # 0 /\ p = 0
        BY <1>1, <1>2, <1>4, <3>1
      <4>. QED
        BY <1>1, <2>1, <4>1, RootMarkerFields
    <3>2. CASE l # 0
      BY <2>1, <3>2, RootMarkerFields
    <3>. QED
      BY <3>1, <3>2
  <2>4. Canon(f, p, l) = w
    BY <2>2 DEF Canon, RootFix
  <2>5. face(w) = f /\ level(w) = l
    BY <2>1, <2>3 DEF face, level
  <2>6. path(w) = p
    <3>1. CASE l = 0
      BY <1>1, <1>2, <2>5, <3>1 DEF path
    <3>2. CASE l # 0
      <4>1. p % 2^(2 * l) = p
        BY <1>1, DivMod
      <4>. QED
        BY <1>1, <2>1, <2>5, <3>2, <4>1 DEF path
    <3>. QED
      BY <3>1, <3>2
  <2>7. is_valid(w)
    <3>1. p \div 2^(2 * l) = 0
      BY <1>1, DivMod
    <3>. QED
      BY <1>1, <2>1, <2>2, <3>1, CompactLayoutAssumption DEF is_valid, kNumFaces
  <2>8. LayoutWord(f, p, l) = w
    BY <1>4, <2>1 DEF LayoutWord
  <2>. QED
    BY <2>1, <2>4, <2>5, <2>6, <2>7, <2>8
<1>. QED
  BY <1>3, <1>4

\* Every valid word, canonical or not, has the fields of a cell.
LEMMA ValidFields ==
  ASSUME NEW v \in 0..(V1!IdSpace - 1), is_valid(v)
  PROVE  Fields(face(v), path(v), level(v))
<1>1. /\ LevelUnit = 32 /\ FaceUnit \in Nat \ {0} /\ CMaxLevel \in Nat
      /\ \A l \in 0..CMaxLevel : 2^(2 * l) \in Nat \ {0}
  BY Units, WidthFacts
<1>2. 2^0 = 1
  OBVIOUS
<1>3. CASE v = RootMarker
  BY <1>1, <1>2, <1>3 DEF face, path, level, Fields, kNumFaces
<1>4. CASE v # RootMarker
  <2>1. /\ face(v) = v \div FaceUnit /\ level(v) = v % LevelUnit
        /\ v \div FaceUnit \in 0..(kNumFaces - 1) /\ v % LevelUnit \in 0..CMaxLevel
    BY <1>1, <1>4 DEF is_valid, face, level, kNumFaces
  <2>2. RawPath(v) \in Int
    BY <1>1, Units DEF RawPath
  <2>3. path(v) \in 0..(2^(2 * level(v)) - 1)
    BY <1>1, <1>2, <2>1, <2>2 DEF path
  <2>. QED
    BY <2>1, <2>3 DEF Fields
<1>. QED
  BY <1>3, <1>4

\* The range facts a cell's fields give, and the powers of two at its level.
LEMMA FieldsFacts ==
  ASSUME NEW f, NEW p, NEW l, Fields(f, p, l)
  PROVE  /\ f \in 0..5 /\ l \in 0..CMaxLevel /\ CMaxLevel \in Nat
         /\ 2^(2 * l) \in Nat \ {0} /\ p \in 0..(2^(2 * l) - 1)
         /\ l < CMaxLevel => 2^(2 * (l + 1)) = 4 * 2^(2 * l)
         /\ l > 0 => 2^(2 * l) = 4 * 2^(2 * (l - 1)) /\ 2^(2 * (l - 1)) \in Nat \ {0}
<1>1. /\ f \in 0..5 /\ l \in 0..CMaxLevel /\ CMaxLevel \in Nat
  BY WidthFacts DEF Fields, kNumFaces
<1>2. 2^(2 * l) \in Nat \ {0}
  BY <1>1, Units
<1>3. l < CMaxLevel => 2^(2 * (l + 1)) = 4 * 2^(2 * l)
  BY <1>1, Units
<1>4. ASSUME l > 0
      PROVE  2^(2 * l) = 4 * 2^(2 * (l - 1)) /\ 2^(2 * (l - 1)) \in Nat \ {0}
  <2>1. l - 1 \in 0..(CMaxLevel - 1) /\ (l - 1) + 1 = l /\ l - 1 \in 0..CMaxLevel
    BY <1>1, <1>4
  <2>2. 2^(2 * ((l - 1) + 1)) = 4 * 2^(2 * (l - 1))
    BY <2>1, Units
  <2>3. 2^(2 * (l - 1)) \in Nat \ {0}
    BY <2>1, Units
  <2>. QED
    BY <2>1, <2>2, <2>3
<1>. QED
  BY <1>1, <1>2, <1>3, <1>4 DEF Fields

\* child(k) of a canonical word is None or the canonical word one level down.
LEMMA ChildCanon ==
  ASSUME NEW f, NEW p, NEW l, Fields(f, p, l), NEW k \in Int
  PROVE  /\ k \in 0..3 /\ l < CMaxLevel =>
              /\ Fields(f, p * 4 + k, l + 1)
              /\ child(Canon(f, p, l), k) = Canon(f, p * 4 + k, l + 1)
         /\ ~(k \in 0..3 /\ l < CMaxLevel) => child(Canon(f, p, l), k) = None
<1>1. /\ is_valid(Canon(f, p, l)) /\ face(Canon(f, p, l)) = f
      /\ level(Canon(f, p, l)) = l /\ path(Canon(f, p, l)) = p
  BY CanonFields
<1>2. /\ f \in 0..5 /\ l \in 0..CMaxLevel /\ CMaxLevel \in Nat
      /\ 2^(2 * l) \in Nat \ {0} /\ p \in 0..(2^(2 * l) - 1)
      /\ l < CMaxLevel => 2^(2 * (l + 1)) = 4 * 2^(2 * l)
  BY FieldsFacts
<1>3. ASSUME k \in 0..3 /\ l < CMaxLevel
      PROVE  /\ Fields(f, p * 4 + k, l + 1)
             /\ child(Canon(f, p, l), k) = Canon(f, p * 4 + k, l + 1)
  <2>1. Fields(f, p * 4 + k, l + 1)
    BY <1>2, <1>3 DEF Fields, kNumFaces
  <2>2. child(Canon(f, p, l), k) = Pack(f, p * 4 + k, l + 1)
    BY <1>1, <1>2, <1>3 DEF child
  <2>3. ~(f = 0 /\ l + 1 = 0)
    BY <1>2
  <2>4. Canon(f, p * 4 + k, l + 1) = Pack(f, p * 4 + k, l + 1)
    BY <2>1, <2>3, CanonFields, Zenon
  <2>. QED
    BY <2>1, <2>2, <2>4
<1>4. ASSUME ~(k \in 0..3 /\ l < CMaxLevel)
      PROVE  child(Canon(f, p, l), k) = None
  BY <1>1, <1>2, <1>4 DEF child
<1>. QED
  BY <1>3, <1>4

\* parent() of a canonical word is None or the canonical word one level up.
LEMMA ParentCanon ==
  ASSUME NEW f, NEW p, NEW l, Fields(f, p, l)
  PROVE  /\ l > 0 => /\ Fields(f, p \div 4, l - 1)
                      /\ parent(Canon(f, p, l)) = Canon(f, p \div 4, l - 1)
         /\ l = 0 => parent(Canon(f, p, l)) = None
<1>1. /\ is_valid(Canon(f, p, l)) /\ face(Canon(f, p, l)) = f
      /\ level(Canon(f, p, l)) = l /\ path(Canon(f, p, l)) = p
  BY CanonFields
<1>2. /\ f \in 0..5 /\ l \in 0..CMaxLevel /\ CMaxLevel \in Nat
      /\ 2^(2 * l) \in Nat \ {0} /\ p \in 0..(2^(2 * l) - 1)
      /\ l > 0 => 2^(2 * l) = 4 * 2^(2 * (l - 1)) /\ 2^(2 * (l - 1)) \in Nat \ {0}
  BY FieldsFacts
<1>3. ASSUME l > 0
      PROVE  /\ Fields(f, p \div 4, l - 1)
             /\ parent(Canon(f, p, l)) = Canon(f, p \div 4, l - 1)
  <2>1. p \div 4 \in 0..(2^(2 * (l - 1)) - 1)
    BY <1>2, <1>3
  <2>2. Fields(f, p \div 4, l - 1)
    BY <1>2, <1>3, <2>1 DEF Fields, kNumFaces
  <2>3. parent(Canon(f, p, l)) = RootFix(Pack(f, p \div 4, l - 1))
    BY <1>1, <1>2, <1>3 DEF parent
  <2>. QED
    BY <2>2, <2>3 DEF Canon
<1>4. ASSUME l = 0
      PROVE  parent(Canon(f, p, l)) = None
  BY <1>1, <1>4 DEF parent
<1>. QED
  BY <1>2, <1>3, <1>4

-----------------------------------------------------------------------------
(***************************************************************************)
(* parent() undoes child(): for every canonical cell above kMaxLevel and   *)
(* every position k, S2CellId::parent (s2cell_id.h:305-323) of             *)
(* S2CellId::child(k) (s2cell_id.h:345-359) is the cell again, root        *)
(* marker included.  Both are computed on the compact word, without the    *)
(* primary identifier.                                                     *)
(***************************************************************************)
THEOREM ParentOfChild ==
  ASSUME NEW f, NEW p, NEW l, Fields(f, p, l), l < CMaxLevel, NEW k \in 0..3
  PROVE  parent(child(Canon(f, p, l), k)) = Canon(f, p, l)
<1>. DEFINE q == p * 4 + k
<1>1. /\ Fields(f, q, l + 1)
      /\ child(Canon(f, p, l), k) = Canon(f, q, l + 1)
  BY ChildCanon
<1>2. l + 1 > 0 /\ q \div 4 = p /\ (l + 1) - 1 = l
  <2>1. l \in 0..CMaxLevel /\ p \in Nat
    BY FieldsFacts
  <2>. QED
    BY <2>1, DivMod
<1>3. parent(Canon(f, q, l + 1)) = Canon(f, q \div 4, (l + 1) - 1)
  BY <1>1, <1>2, ParentCanon, Zenon
<1>. QED
  BY <1>1, <1>2, <1>3

(***************************************************************************)
(* child() undoes parent(): for every canonical cell below the faces,      *)
(* S2CellId::child of S2CellId::parent at the cell's child_position()      *)
(* (s2cell_id.h:645-654) is the cell again.  With ParentOfChild, parent()  *)
(* and child() are inverse on canonical words, the bijection of design     *)
(* section 3.                                                              *)
(***************************************************************************)
THEOREM ChildOfParent ==
  ASSUME NEW f, NEW p, NEW l, Fields(f, p, l), l > 0
  PROVE  child(parent(Canon(f, p, l)), child_position(Canon(f, p, l)))
           = Canon(f, p, l)
<1>. DEFINE u == Canon(f, p \div 4, l - 1)
<1>1. Fields(f, p \div 4, l - 1) /\ parent(Canon(f, p, l)) = u
  BY ParentCanon
<1>2. child_position(Canon(f, p, l)) = p % 4
  <2>1. /\ is_valid(Canon(f, p, l)) /\ level(Canon(f, p, l)) = l
        /\ path(Canon(f, p, l)) = p
    BY CanonFields
  <2>. QED
    BY <2>1 DEF child_position
<1>3. /\ p % 4 \in 0..3 /\ p % 4 \in Int /\ l - 1 < CMaxLevel
      /\ (p \div 4) * 4 + (p % 4) = p /\ (l - 1) + 1 = l
  <2>1. l \in 0..CMaxLevel /\ CMaxLevel \in Nat /\ p \in Nat
    BY FieldsFacts
  <2>. QED
    BY <2>1
<1>4. child(u, p % 4) = Canon(f, (p \div 4) * 4 + (p % 4), (l - 1) + 1)
  <2>1. Fields(f, p \div 4, l - 1) /\ p % 4 \in Int
    BY <1>1, <1>3
  <2>2. p % 4 \in 0..3 /\ l - 1 < CMaxLevel
    BY <1>3
  <2>. QED
    BY <2>1, <2>2, ChildCanon, Zenon DEF u
<1>. QED
  BY <1>1, <1>2, <1>3, <1>4


(***************************************************************************)
(* The child positions of a path, read as child_position(t) reads them     *)
(* (s2cell_id.h:653-664): digit t of a path p of level l is                *)
(* (p >> 2(l - t)) & 3.                                                    *)
(***************************************************************************)
Digits(p, l) == [j \in 1..l |-> (p \div 2^(2 * (l - j))) % 4]

\* Division by a product is division by each factor in turn.
LEMMA DivDiv ==
  ASSUME NEW x \in Nat, NEW a \in Nat \ {0}, NEW c \in Nat \ {0}
  PROVE  x \div (a * c) = (x \div a) \div c
<1>. DEFINE h == x \div a  t == x % a  g == h \div c  s == h % c
<1>1. x = h * a + t /\ h \in Nat /\ t \in 0..(a - 1)
  BY SMT
<1>2. h = g * c + s /\ g \in Nat /\ s \in 0..(c - 1)
  BY <1>1, SMT
<1>3. x = g * (a * c) + (s * a + t)
  BY <1>1, <1>2
<1>4. s * a <= (c - 1) * a
  BY <1>2
<1>5. x = g * (a * c) + (s * a + t) /\ s * a + t \in 0..(a * c - 1)
  BY <1>1, <1>2, <1>3, <1>4
<1>6. a * c \in Nat \ {0}
  OBVIOUS
<1>. QED
  BY <1>2, <1>5, <1>6, DivMod

\* Digit t of a path, for t below the last level, is digit t of the path
\* with its last digit dropped, and 2^(2(l - t)) = 4 * 2^(2(l - 1 - t)).
LEMMA DigitShift ==
  ASSUME NEW x \in Nat, NEW e \in 0..(CMaxLevel - 1)
  PROVE  x \div 2^(2 * (e + 1)) = (x \div 4) \div 2^(2 * e)
<1>1. 2^(2 * (e + 1)) = 4 * 2^(2 * e) /\ 2^(2 * e) \in Nat \ {0}
  BY Units, WidthFacts
<1>. QED
  BY <1>1, DivDiv

(***************************************************************************)
(* parent() drops the last digit of the path: the digits of p \div 4 at    *)
(* level l - 1 are the first l - 1 digits of p at level l.                 *)
(***************************************************************************)
LEMMA DigitsParent ==
  ASSUME NEW p \in Nat, NEW l \in 1..CMaxLevel
  PROVE  Digits(p \div 4, l - 1) = SubSeq(Digits(p, l), 1, l - 1)
<1>1. ASSUME NEW i \in 1..(l - 1)
      PROVE  Digits(p \div 4, l - 1)[i] = Digits(p, l)[i]
  <2>1. l - 1 - i \in 0..(CMaxLevel - 1) /\ 2 * (l - i) = 2 * ((l - 1 - i) + 1)
    BY WidthFacts
  <2>2. p \div 2^(2 * ((l - 1 - i) + 1)) = (p \div 4) \div 2^(2 * (l - 1 - i))
    BY <2>1, DigitShift
  <2>3. i \in 1..l /\ Digits(p, l)[i] = (p \div 2^(2 * (l - i))) % 4
    BY WidthFacts DEF Digits
  <2>4. Digits(p \div 4, l - 1)[i] = ((p \div 4) \div 2^(2 * (l - 1 - i))) % 4
    BY WidthFacts DEF Digits
  <2>. QED
    BY <2>1, <2>2, <2>3, <2>4
<1>2. l \in Nat /\ SubSeq(Digits(p, l), 1, l - 1) = [i \in 1..(l - 1) |-> Digits(p, l)[i]]
  BY WidthFacts
<1>3. Digits(p \div 4, l - 1) = [i \in 1..(l - 1) |-> Digits(p \div 4, l - 1)[i]]
  BY DEF Digits
<1>. QED
  BY <1>1, <1>2, <1>3

(***************************************************************************)
(* child(k) appends the digit k: the digits of p * 4 + k at level l + 1    *)
(* are the digits of p at level l followed by k.                           *)
(***************************************************************************)
LEMMA DigitsChild ==
  ASSUME NEW p \in Nat, NEW l \in 0..(CMaxLevel - 1), NEW k \in 0..3
  PROVE  Digits(p * 4 + k, l + 1) = Append(Digits(p, l), k)
<1>1. (p * 4 + k) \div 4 = p /\ (p * 4 + k) % 4 = k /\ p * 4 + k \in Nat
  BY DivMod
<1>2. ASSUME NEW i \in 1..l
      PROVE  Digits(p * 4 + k, l + 1)[i] = Digits(p, l)[i]
  <2>1. l - i \in 0..(CMaxLevel - 1) /\ 2 * (l + 1 - i) = 2 * ((l - i) + 1)
    BY WidthFacts
  <2>2. (p * 4 + k) \div 2^(2 * ((l - i) + 1))
          = ((p * 4 + k) \div 4) \div 2^(2 * (l - i))
    BY <1>1, <2>1, DigitShift
  <2>3. Digits(p, l)[i] = (p \div 2^(2 * (l - i))) % 4
    BY WidthFacts DEF Digits
  <2>4. Digits(p * 4 + k, l + 1)[i] = ((p * 4 + k) \div 2^(2 * (l + 1 - i))) % 4
    BY WidthFacts DEF Digits
  <2>. QED
    BY <1>1, <2>1, <2>2, <2>3, <2>4
<1>3. Digits(p * 4 + k, l + 1)[l + 1] = k
  <2>1. 2^0 = 1 /\ 2 * ((l + 1) - (l + 1)) = 0
    OBVIOUS
  <2>. QED
    BY <1>1, <2>1 DEF Digits
<1>4. l \in Nat /\ Digits(p, l) \in Seq(Int) /\ Len(Digits(p, l)) = l
  BY WidthFacts DEF Digits
<1>5. /\ Append(Digits(p, l), k) \in Seq(Int)
      /\ Len(Append(Digits(p, l), k)) = l + 1
      /\ \A i \in 1..l : Append(Digits(p, l), k)[i] = Digits(p, l)[i]
      /\ Append(Digits(p, l), k)[l + 1] = k
  BY <1>4, AppendProperties
<1>6. Digits(p * 4 + k, l + 1) \in Seq(Int) /\ Len(Digits(p * 4 + k, l + 1)) = l + 1
  BY <1>4 DEF Digits
<1>. QED
  BY <1>2, <1>3, <1>5, <1>6, SeqEqual

=============================================================================
