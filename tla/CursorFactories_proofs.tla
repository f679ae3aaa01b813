------------------------- MODULE CursorFactories_proofs -------------------------
(***************************************************************************)
(* Refinement steps of the compact cursor for the factories whose result   *)
(* the conversion computes without its climb: FromFace (s2cell_id.h:139),  *)
(* End (s2cell_id.h:177), and Begin and FromFaceLevel (s2cell_id.h:169,    *)
(* 87-104) outside their level >= 1 branches.  They rest on facts about    *)
(* the primary                                                             *)
(* identifier's words (s2cell_id_v1.h:532-534, 401-407), proved here in    *)
(* its own vocabulary and carried to the cursor's instance by expanding    *)
(* both names to the same expression.                                      *)
(***************************************************************************)
EXTENDS ConvertFromOld_proofs, TLAPS

CONSTANTS FaceInputs, LevelInputs, PositionInputs, PosInputs, CursorOldInputs,
          RawInputs, StepInputs, LimitInputs

VARIABLES cell, call

CC == INSTANCE CompactCursor WITH OldInputs <- CursorOldInputs

\* The units of the primary word: a face cell's lowest bit B, a face's
\* span 2 * B, and the word size 16 * B.
LEMMA WordUnits ==
  /\ 2^(2 * MaxLevel) \in Nat \ {0}
  /\ 2 * MaxLevel \in 0..(Width - 1)
  /\ 2^kPosBits = 2 * 2^(2 * MaxLevel)
  /\ IdSpace = 16 * 2^(2 * MaxLevel)
  /\ lsb_for_level(0) = 2^(2 * MaxLevel)
<1>1. /\ 2 * MaxLevel \in 0..Width /\ 1 \in 0..Width /\ 4 \in 0..Width
      /\ 2 * MaxLevel + 1 <= Width /\ 2 * MaxLevel + 4 <= Width
      /\ 2 * MaxLevel \in 0..(Width - 1) /\ 2 * MaxLevel \in 0..(Width + 2)
  BY WidthType, MaxLevelAssumption
<1>2. 2^(2 * MaxLevel + 1) = 2^(2 * MaxLevel) * 2^1
  BY <1>1, PowSum
<1>3. 2^(2 * MaxLevel + 4) = 2^(2 * MaxLevel) * 2^4
  BY <1>1, PowSum
<1>4. 2^1 = 2 /\ 2^4 = 16
  OBVIOUS
<1>5. 2^(2 * MaxLevel) \in Nat \ {0}
  BY <1>1, PowPos
<1>6. 2^kPosBits = 2 * 2^(2 * MaxLevel)
  <2>1. 2^kPosBits = 2^(2 * MaxLevel + 1)
    BY Zenon DEF kPosBits
  <2>. QED
    BY <1>2, <1>4, <1>5, <2>1
<1>7. IdSpace = 16 * 2^(2 * MaxLevel)
  <2>1. Width = 2 * MaxLevel + 4
    BY WidthType
  <2>2. IdSpace = 2^(2 * MaxLevel + 4)
    BY <2>1, Zenon DEF IdSpace
  <2>. QED
    BY <1>3, <1>4, <1>5, <2>2
<1>8. lsb_for_level(0) = 2^(2 * MaxLevel)
  <2>1. 2 * (MaxLevel - 0) = 2 * MaxLevel
    BY MaxLevelAssumption
  <2>. QED
    BY <2>1 DEF lsb_for_level
<1>. QED
  BY <1>1, <1>5, <1>6, <1>7, <1>8

\* The word (2g + 1) * B has face field g, its lowest set bit at B, and
\* level 0: it is the word of face g's cell, valid exactly when g < 6.
LEMMA FaceWordFields ==
  ASSUME NEW g \in 0..7
  PROVE  /\ (2 * g + 1) * 2^(2 * MaxLevel) \in 0..(IdSpace - 1)
         /\ face((2 * g + 1) * 2^(2 * MaxLevel)) = g
         /\ lsb((2 * g + 1) * 2^(2 * MaxLevel)) = 2^(2 * MaxLevel)
         /\ level((2 * g + 1) * 2^(2 * MaxLevel)) = 0
         /\ is_valid((2 * g + 1) * 2^(2 * MaxLevel)) <=> g < 6
<1>1. PICK B \in Nat \ {0} :
        /\ B = 2^(2 * MaxLevel) /\ 2^kPosBits = 2 * B /\ IdSpace = 16 * B
        /\ lsb_for_level(0) = B
  BY WordUnits
<1>2. (2 * g + 1) * B \in 0..(IdSpace - 1)
  BY <1>1
<1>3. LowestBitAt((2 * g + 1) * B, 2 * MaxLevel)
  <2>1. 2 * MaxLevel \in 0..(Width - 1) /\ g \in Nat
    BY WordUnits
  <2>2. LowestBitAt((2 * g + 1) * 2^(2 * MaxLevel), 2 * MaxLevel)
    BY <2>1, OddMultipleLowest
  <2>. QED
    BY <1>1, <2>2
<1>4. countr_zero((2 * g + 1) * B) = 2 * MaxLevel /\ lsb((2 * g + 1) * B) = B
  BY <1>1, <1>2, <1>3, WordUnits, CountrZeroAt
<1>5. face((2 * g + 1) * B) = g
  <2>1. (2 * g + 1) * B = g * (2 * B) + B /\ B \in 0..(2 * B - 1)
    BY <1>1
  <2>. QED
    BY <1>1, <2>1, QuotRem DEF face
<1>6. level((2 * g + 1) * B) = 0
  BY <1>4, MaxLevelAssumption DEF level
<1>7. lsb((2 * g + 1) * B) \in EvenBitPowers
  BY <1>1, <1>4, MaxLevelAssumption DEF EvenBitPowers
<1>. QED
  BY <1>1, <1>2, <1>4, <1>5, <1>6, <1>7 DEF is_valid, kNumFaces

\* FromFace(f) (s2cell_id_v1.h:532-534) shifts the face into the top three
\* bits: whatever int it is given, the word is face (f mod 8)'s cell.
LEMMA FromFaceWord ==
  ASSUME NEW f \in Int
  PROVE  FromFace(f) = (2 * (f % 8) + 1) * 2^(2 * MaxLevel)
<1>1. PICK B \in Nat \ {0} :
        /\ B = 2^(2 * MaxLevel) /\ 2^kPosBits = 2 * B /\ IdSpace = 16 * B
        /\ lsb_for_level(0) = B
  BY WordUnits
<1>2. PICK a \in 0..(16 * B - 1) : a = U64(f)
  BY <1>1, U64Type
<1>3. PICK q \in Int, r \in 0..7 : a = q * 8 + r /\ r = a % 8
  <2>1. a % 8 = a - 8 * (a \div 8) /\ a \div 8 \in Int
    BY ModDiv
  <2>2. a % 8 \in 0..7
    OBVIOUS
  <2>. QED
    BY <2>1, <2>2
<1>4. r = f % 8
  <2>1. PICK k \in Int : f = k * IdSpace + a
    <3>1. IdSpace \in Nat \ {0}
      BY <1>1
    <3>2. f % IdSpace = f - IdSpace * (f \div IdSpace) /\ f \div IdSpace \in Int
      BY <3>1, ModDiv
    <3>3. a = f - IdSpace * (f \div IdSpace)
      BY <1>2, <3>2, Zenon DEF U64
    <3>4. f = (f \div IdSpace) * IdSpace + a
      BY <3>1, <3>2, <3>3
    <3>. QED
      BY <3>2, <3>4, Zenon
  <2>2. f = (k * (2 * B) + q) * 8 + r /\ k * (2 * B) + q \in Int
    <3>1. k * IdSpace = (k * (2 * B)) * 8 /\ k * (2 * B) \in Int
      BY <1>1
    <3>2. f = (k * (2 * B)) * 8 + (q * 8 + r)
      BY <1>3, <2>1, <3>1
    <3>. QED
      BY <3>1, <3>2
  <2>. QED
    BY <2>2, QuotRem
<1>5. U64(a * (2 * B)) = r * (2 * B)
  <2>1. a * (2 * B) = q * (16 * B) + r * (2 * B)
    BY <1>3
  <2>2. r * (2 * B) \in 0..(16 * B - 1)
    <3>1. r * (2 * B) <= 7 * (2 * B) /\ r * (2 * B) >= 0
      BY <1>1
    <3>. QED
      BY <1>1, <3>1
  <2>3. (a * (2 * B)) % (16 * B) = r * (2 * B)
    <3>1. 16 * B \in Nat \ {0} /\ a * (2 * B) \in Int
      BY <1>1
    <3>. QED
      BY <2>1, <2>2, <3>1, QuotRem
  <2>. QED
    BY <1>1, <2>3 DEF U64
<1>6. r * (2 * B) + B \in 0..(IdSpace - 1)
  <2>1. r * (2 * B) <= 7 * (2 * B)
    BY <1>1
  <2>. QED
    BY <1>1, <2>1
<1>7. FromFace(f) = U64(r * (2 * B) + B)
  BY <1>1, <1>2, <1>5, Zenon DEF FromFace
<1>8. FromFace(f) = r * (2 * B) + B
  BY <1>6, <1>7, U64Id
<1>. QED
  BY <1>1, <1>4, <1>8

\* End(l) (s2cell_id_v1.h:405-407) steps one past face 5's last descendant
\* at level l: the word is 12 * B + lsb_for_level(l), whose face field is 6,
\* so the primary identifier holds no cell there.
LEMMA EndInvalid ==
  ASSUME NEW l \in 0..MaxLevel
  PROVE  ~is_valid(End(l))
<1>1. PICK B \in Nat \ {0} :
        /\ B = 2^(2 * MaxLevel) /\ 2^kPosBits = 2 * B /\ IdSpace = 16 * B
        /\ 2 * MaxLevel \in 0..(Width - 1)
  BY WordUnits
<1>2. FromFace(5) = 11 * B /\ lsb(11 * B) = B
  <2>1. 5 % 8 = 5 /\ 5 \in 0..7 /\ 2 * 5 + 1 = 11
    OBVIOUS
  <2>. QED
    BY <1>1, <2>1, FromFaceWord, FaceWordFields
<1>3. lsb_for_level(l) \in 1..B
  <2>1. 2 * (MaxLevel - l) \in 0..(2 * MaxLevel) /\ 2 * (MaxLevel - l) \in 0..Width
        /\ 2 * MaxLevel \in 0..Width
    BY WidthType, MaxLevelAssumption
  <2>2. 2^(2 * (MaxLevel - l)) \in Nat \ {0}
    BY <2>1, WidthType, PowPos
  <2>3. 2^(2 * (MaxLevel - l)) <= 2^(2 * MaxLevel)
    <3>1. CASE 2 * (MaxLevel - l) < 2 * MaxLevel
      BY <2>1, <3>1, PowMono
    <3>2. CASE 2 * (MaxLevel - l) = 2 * MaxLevel
      <4>1. 2^(2 * (MaxLevel - l)) = 2^(2 * MaxLevel)
        BY <3>2, Zenon
      <4>. QED
        BY <2>2, <4>1
    <3>. QED
      BY <2>1, <3>1, <3>2
  <2>. QED
    BY <1>1, <2>2, <2>3 DEF lsb_for_level
<1>4. End(l) = 12 * B + lsb_for_level(l)
  <2>1. End(l) = U64(11 * B + B + lsb_for_level(l))
    BY <1>2, Zenon DEF End, child_end_at
  <2>2. 11 * B + B + lsb_for_level(l) \in 0..(IdSpace - 1)
    BY <1>1, <1>3
  <2>. QED
    BY <2>1, <2>2, U64Id
<1>5. face(End(l)) = 6
  <2>1. End(l) = 6 * (2 * B) + lsb_for_level(l) /\ lsb_for_level(l) \in 0..(2 * B - 1)
    BY <1>3, <1>4
  <2>. QED
    BY <1>1, <2>1, QuotRem DEF face
<1>. QED
  BY <1>5 DEF is_valid, kNumFaces

-----------------------------------------------------------------------------
(***************************************************************************)
(* The cursor's instance and this module's names for the same layouts: the *)
(* primary identifier's operators are those of S2CellIdV1, the compact     *)
(* ones those of C; both expand to the same expressions.                   *)
(***************************************************************************)
LEMMA PrimaryAlias ==
  /\ \A f : CC!V1!FromFace(f) = FromFace(f)
  /\ \A l : CC!V1!End(l) = End(l)
  /\ \A x : CC!V1!U64(x) = U64(x)
  /\ \A x : CC!V1!face(x) = face(x) /\ CC!V1!level(x) = level(x)
  /\ \A x : CC!V1!is_valid(x) = is_valid(x)
<1>1. CC!V1!IdSpace = IdSpace /\ CC!V1!kPosBits = kPosBits /\ CC!V1!kNumFaces = kNumFaces
      /\ CC!V1!Width = Width
  BY DEF CC!V1!IdSpace, CC!V1!Width, CC!V1!kFaceBits, CC!V1!kPosBits, CC!V1!kNumFaces,
         IdSpace, Width, kFaceBits, kPosBits, kNumFaces
<1>2. \A x : CC!V1!U64(x) = U64(x) /\ CC!V1!face(x) = face(x)
  BY <1>1 DEF CC!V1!U64, U64, CC!V1!face, face
<1>3. \A k : CC!V1!lsb_for_level(k) = lsb_for_level(k)
  BY DEF CC!V1!lsb_for_level, lsb_for_level
<1>4. \A x : CC!V1!lsb(x) = lsb(x) /\ CC!V1!level(x) = level(x)
  BY <1>1 DEF CC!V1!lsb, CC!V1!countr_zero, CC!V1!LowestBitAt, lsb, countr_zero,
              LowestBitAt, CC!V1!level, level
<1>5. \A x : CC!V1!is_valid(x) = is_valid(x)
  BY <1>1, <1>2, <1>3, <1>4 DEF CC!V1!is_valid, is_valid, CC!V1!EvenBitPowers, EvenBitPowers
<1>6. \A f : CC!V1!FromFace(f) = FromFace(f)
  BY <1>1, <1>2, <1>3 DEF CC!V1!FromFace, FromFace
<1>7. \A l : CC!V1!End(l) = End(l)
  BY <1>2, <1>3, <1>4, <1>6 DEF CC!V1!End, CC!V1!child_end_at, End, child_end_at
<1>. QED
  BY <1>2, <1>4, <1>5, <1>6, <1>7

LEMMA CompactAlias ==
  /\ CC!FaceUnit = C!FaceUnit
  /\ CC!None = C!None
  /\ \A x : CC!RootFix(x) = C!RootFix(x)
  /\ \A v : CC!is_valid(v) = C!is_valid(v)
  /\ \A v : CC!face(v) = C!face(v) /\ CC!level(v) = C!level(v)
<1>1. CC!V1!Width = C!V1!Width
  BY DEF CC!V1!Width, C!V1!Width, CC!V1!kFaceBits, C!V1!kFaceBits, CC!V1!kPosBits,
         C!V1!kPosBits
<1>2. /\ CC!FaceUnit = C!FaceUnit /\ CC!LevelUnit = C!LevelUnit
      /\ CC!RootMarker = C!RootMarker /\ CC!kNumFaces = C!kNumFaces
  BY <1>1 DEF CC!FaceUnit, C!FaceUnit, CC!kFaceBits, C!kFaceBits, CC!LevelUnit, C!LevelUnit,
              CC!kLevelBits, C!kLevelBits, CC!RootMarker, C!RootMarker, CC!kPathBits,
              C!kPathBits, CC!kNumFaces, C!kNumFaces
<1>3. \A x : CC!RootFix(x) = C!RootFix(x)
  BY <1>2 DEF CC!RootFix, C!RootFix
<1>4. \A v : CC!is_valid(v) = C!is_valid(v)
  <2>1. CC!kPathBits = C!kPathBits /\ \A v : CC!RawPath(v) = C!RawPath(v)
    BY <1>1, <1>2 DEF CC!kPathBits, C!kPathBits, CC!kFaceBits, C!kFaceBits, CC!kLevelBits,
                      C!kLevelBits, CC!RawPath, C!RawPath, CC!PathUnit, C!PathUnit
  <2>. QED
    BY <1>2, <2>1, Zenon DEF CC!is_valid, C!is_valid
<1>5. \A v : CC!face(v) = C!face(v) /\ CC!level(v) = C!level(v)
  BY <1>2 DEF CC!face, C!face, CC!level, C!level
<1>. QED
  BY <1>2, <1>3, <1>4, <1>5 DEF CC!None, C!None

-----------------------------------------------------------------------------
\* None decodes to no cell.
LEMMA DecodeNone == CC!Decode(CC!None) = CC!NoCell
BY DEF CC!Decode, CC!is_valid, CC!None

\* The compact word of face f's cell decodes to the face's root cell.
LEMMA DecodeFaceCell ==
  ASSUME NEW f \in 0..5
  PROVE  CC!Decode(C!LayoutWord(f, 0, 0)) = [face |-> f, path |-> << >>]
<1>1. 0 \in 0..CMaxLevel /\ 0 \in 0..(2^(2 * 0) - 1)
  BY CompactFacts
<1>2. /\ CC!is_valid(C!LayoutWord(f, 0, 0))
      /\ CC!face(C!LayoutWord(f, 0, 0)) = f
      /\ CC!level(C!LayoutWord(f, 0, 0)) = 0
  BY <1>1, LayoutDecodes, CompactAlias
<1>. QED
  BY <1>2 DEF CC!Decode

\* ConvertFromOldFormat returns None for an invalid primary id
\* (s2cell_id.h:877-879), before its climb.
LEMMA ConvertInvalid ==
  ASSUME NEW o, ~is_valid(o)
  PROVE  CC!ConvertFromOldFormat(o) = CC!None
BY PrimaryAlias DEF CC!ConvertFromOldFormat

\* A valid level-0 primary id of face f takes the face-cell branch
\* (s2cell_id.h:889-900): the compact word of face f's cell.
LEMMA ConvertFace ==
  ASSUME NEW o, is_valid(o), level(o) = 0, face(o) \in 0..5
  PROVE  CC!ConvertFromOldFormat(o) = C!LayoutWord(face(o), 0, 0)
<1>1. CC!ConvertFromOldFormat(o) = CC!RootFix(CC!V1!U64(face(o) * CC!FaceUnit))
  <2>1. ~(0 > CMaxLevel) /\ ~(face(o) < 0 \/ face(o) >= CC!kNumFaces)
    BY CompactFacts DEF CC!kNumFaces
  <2>. QED
    BY <2>1, PrimaryAlias DEF CC!ConvertFromOldFormat
<1>2. CC!RootFix(CC!V1!U64(face(o) * CC!FaceUnit)) = C!RootFix(U64(face(o) * C!FaceUnit))
  BY PrimaryAlias, CompactAlias
<1>. QED
  BY <1>1, <1>2, LayoutFace

(***************************************************************************)
(* FromFace(f) (s2cell_id.h:139-142) converts the primary identifier's     *)
(* face cell: for a face 0..5 the step is the cell tree's FromFace.  So is *)
(* it for an int whose low three bits are 6 or 7 (-1 and 6 among them),   *)
(* whose word has face field 6 or 7.  Any other int outside 0..5 lands on  *)
(* face f mod 8's cell, which the cell tree does not promise.              *)
(***************************************************************************)
THEOREM FromFaceRefines ==
  ASSUME NEW f \in Int, f \in 0..5 \/ f % 8 \in {6, 7}, CC!CallFromFace(f)
  PROVE  CC!Tree!FromFace(f)
<1>1. CC!MapCall(call') = <<"FromFace", f>>
  BY DEF CC!CallFromFace, CC!Set, CC!MapCall
<1>2. PICK g \in 0..7 : g = f % 8 /\ FromFace(f) = (2 * g + 1) * 2^(2 * MaxLevel)
  BY FromFaceWord
<1>3. CC!FromFace(f) = CC!ConvertFromOldFormat(FromFace(f))
  BY PrimaryAlias DEF CC!FromFace, CC!FromS2CellId
<1>4. CASE f \in 0..5
  <2>1. g = f
    BY <1>2, <1>4
  <2>2. is_valid(FromFace(f)) /\ level(FromFace(f)) = 0 /\ face(FromFace(f)) = f
    BY <1>2, <1>4, <2>1, FaceWordFields
  <2>3. CC!Decode(cell') = [face |-> f, path |-> << >>]
    BY <2>2, <1>3, <1>4, ConvertFace, DecodeFaceCell DEF CC!CallFromFace, CC!Set
  <2>. QED
    BY <1>1, <1>4, <2>3 DEF CC!Tree!FromFace, CC!Tree!Set, CC!Tree!Faces
<1>5. CASE f \notin 0..5
  <2>1. g \in {6, 7}
    BY <1>2, <1>5
  <2>2. ~is_valid(FromFace(f))
    BY <1>2, <2>1, FaceWordFields
  <2>3. CC!Decode(cell') = CC!NoCell
    BY <2>2, <1>3, ConvertInvalid, DecodeNone DEF CC!CallFromFace, CC!Set
  <2>. QED
    BY <1>1, <1>5, <2>3 DEF CC!Tree!FromFace, CC!Tree!Set, CC!Tree!Faces, CC!Tree!NoCell,
       CC!NoCell
<1>. QED
  BY <1>4, <1>5

(***************************************************************************)
(* End(l) (s2cell_id.h:177-182) converts the primary identifier's End, which   *)
(* has face field 6: every level's End is no cell, as the cell tree says.  *)
(***************************************************************************)
THEOREM EndRefines ==
  ASSUME NEW l \in Nat, CC!CallEnd(l)
  PROVE  CC!Tree!End(l)
<1>1. CC!MapCall(call') = <<"End", l>>
  BY DEF CC!CallEnd, CC!Set, CC!MapCall
<1>2. CC!End(l) = CC!None
  <2>1. CASE l > CMaxLevel
    BY <2>1 DEF CC!End
  <2>2. CASE l <= CMaxLevel
    <3>1. l \in 0..MaxLevel
      BY <2>2, CompactFacts, MaxLevelAssumption
    <3>2. ~is_valid(End(l))
      BY <3>1, EndInvalid
    <3>. QED
      BY <2>2, <3>2, PrimaryAlias, ConvertInvalid DEF CC!End
  <2>. QED
    BY <2>1, <2>2, CompactFacts
<1>. QED
  BY <1>1, <1>2, DecodeNone DEF CC!CallEnd, CC!Set, CC!Tree!End, CC!Tree!Set, CC!Tree!NoCell,
     CC!NoCell

(***************************************************************************)
(* FromFaceLevel(f, l) (s2cell_id.h:87-104) rejects a face outside 0..5 or *)
(* a level outside 0..kMaxLevel with the invalid S2CellId(), and builds a  *)
(* face cell directly, with the root marker for face 0.  Those steps are   *)
(* the cell tree's FromFaceLevel.  The level >= 1 branch converts          *)
(* FromFacePosLevel's cell through the climb and is left to TLC.           *)
(***************************************************************************)
THEOREM FromFaceLevelRefines ==
  ASSUME NEW f \in Int, NEW l \in Int, ~(f \in 0..5 /\ l \in 1..CMaxLevel),
         CC!CallFromFaceLevel(f, l)
  PROVE  CC!Tree!FromFaceLevel(f, l)
<1>1. CC!MapCall(call') = <<"FromFaceLevel", f, l>>
  BY DEF CC!CallFromFaceLevel, CC!Set, CC!MapCall
<1>2. CMaxLevel \in Nat
  BY CompactFacts
<1>3. CASE f < 0 \/ f > 5 \/ l < 0 \/ l > CMaxLevel
  <2>1. CC!Decode(cell') = CC!NoCell
    BY <1>3, DecodeNone DEF CC!CallFromFaceLevel, CC!Set, CC!FromFaceLevel
  <2>2. ~(f \in CC!Tree!Faces /\ l \in 0..CMaxLevel)
    BY <1>2, <1>3 DEF CC!Tree!Faces
  <2>. QED
    BY <1>1, <2>1, <2>2 DEF CC!Tree!FromFaceLevel, CC!Tree!Set, CC!Tree!NoCell, CC!NoCell
<1>4. CASE ~(f < 0 \/ f > 5 \/ l < 0 \/ l > CMaxLevel)
  <2>1. f \in 0..5 /\ l = 0
    BY <1>2, <1>4
  <2>2. CC!FromFaceLevel(f, l) = C!RootFix(U64(f * C!FaceUnit))
    <3>1. CC!FromFaceLevel(f, l) = CC!RootFix(CC!V1!U64(f * CC!FaceUnit) + 0)
      BY <1>4, <2>1 DEF CC!FromFaceLevel
    <3>2. CC!V1!U64(f * CC!FaceUnit) + 0 = U64(f * C!FaceUnit)
      <4>1. U64(f * C!FaceUnit) \in Int
        BY U64Type, LayoutUnits
      <4>. QED
        BY <4>1, PrimaryAlias, CompactAlias
    <3>. QED
      BY <3>1, <3>2, CompactAlias
  <2>3. CC!Decode(cell') = [face |-> f, path |-> << >>]
    BY <2>1, <2>2, LayoutFace, DecodeFaceCell DEF CC!CallFromFaceLevel, CC!Set
  <2>4. CC!Tree!Zeros(0) = << >>
    BY DEF CC!Tree!Zeros
  <2>. QED
    BY <1>1, <1>2, <2>1, <2>3, <2>4 DEF CC!Tree!FromFaceLevel, CC!Tree!Set, CC!Tree!Faces
<1>. QED
  BY <1>3, <1>4

(***************************************************************************)
(* Begin(l) (s2cell_id.h:169-175) is None above kMaxLevel and, at level 0, *)
(* converts the primary identifier's Begin(0), face 0's cell: both steps   *)
(* are the cell tree's Begin.  Deeper levels go through the climb (TLC).   *)
(***************************************************************************)
THEOREM BeginRefines ==
  ASSUME NEW l \in Nat, l = 0 \/ l > CMaxLevel, CC!CallBegin(l)
  PROVE  CC!Tree!Begin(l)
<1>1. CC!MapCall(call') = <<"Begin", l>>
  BY DEF CC!CallBegin, CC!Set, CC!MapCall
<1>2. CMaxLevel \in Nat
  BY CompactFacts
<1>3. CASE l > CMaxLevel
  <2>1. CC!Decode(cell') = CC!NoCell
    BY <1>3, DecodeNone DEF CC!CallBegin, CC!Set, CC!Begin
  <2>. QED
    BY <1>1, <1>2, <1>3, <2>1 DEF CC!Tree!Begin, CC!Tree!Set, CC!Tree!NoCell, CC!NoCell
<1>4. CASE l = 0
  <2>1. PICK B \in Nat \ {0} :
          /\ B = 2^(2 * MaxLevel) /\ IdSpace = 16 * B /\ lsb_for_level(0) = B
    BY WordUnits
  <2>2. FromFace(0) = B /\ lsb(B) = B /\ is_valid(B) /\ face(B) = 0 /\ level(B) = 0
    <3>1. 0 % 8 = 0 /\ 0 \in 0..7 /\ (2 * 0 + 1) * B = B
      OBVIOUS
    <3>. QED
      BY <2>1, <3>1, FromFaceWord, FaceWordFields
  <2>3. Begin(0) = B
    <3>1. Begin(0) = U64(B - B + B)
      BY <2>1, <2>2, Zenon DEF Begin, child_begin_at
    <3>2. B - B + B \in 0..(IdSpace - 1)
      BY <2>1
    <3>. QED
      BY <3>1, <3>2, U64Id
  <2>4. CC!V1!Begin(0) = Begin(0)
    BY PrimaryAlias DEF CC!V1!Begin, CC!V1!child_begin_at, Begin, child_begin_at,
       CC!V1!lsb_for_level, lsb_for_level, CC!V1!lsb, CC!V1!countr_zero,
       CC!V1!LowestBitAt, lsb, countr_zero, LowestBitAt, CC!V1!Width, Width,
       CC!V1!kFaceBits, kFaceBits, CC!V1!kPosBits, kPosBits
  <2>5. CC!Begin(0) = C!LayoutWord(0, 0, 0)
    <3>1. CC!Begin(0) = CC!ConvertFromOldFormat(B)
      BY <1>2, <2>3, <2>4 DEF CC!Begin
    <3>. QED
      BY <2>2, <3>1, ConvertFace
  <2>6. CC!Decode(cell') = [face |-> 0, path |-> << >>]
    BY <1>4, <2>5, DecodeFaceCell DEF CC!CallBegin, CC!Set
  <2>7. CC!Tree!Zeros(0) = << >>
    BY DEF CC!Tree!Zeros
  <2>. QED
    BY <1>1, <1>2, <1>4, <2>6, <2>7 DEF CC!Tree!Begin, CC!Tree!Set
<1>. QED
  BY <1>3, <1>4

=============================================================================
