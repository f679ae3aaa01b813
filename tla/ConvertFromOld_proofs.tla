------------------------- MODULE ConvertFromOld_proofs -------------------------
(***************************************************************************)
(* Proofs about the conversion loop of ConvertFromOld for every value of   *)
(* the constants.  The provers treat ^ as uninterpreted, so every fact     *)
(* about a power of two comes from PowersOfTwoAssumption.                 *)
(***************************************************************************)
EXTENDS ConvertFromOld, S2CellIdV1_proofs, TLAPS

\* The word size is a multiple of four.
LEMMA IdSpaceQuarter ==
  \E q \in Nat \ {0} : IdSpace = 4 * q
<1>1. 2^2 = 4
  OBVIOUS
<1>2. 2^Width = 2^2 * 2^(Width - 2)
  <2>1. 2 \in 0..Width /\ Width - 2 \in 0..Width /\ 2 + (Width - 2) <= Width
    BY WidthType
  <2>2. 2^(2 + (Width - 2)) = 2^2 * 2^(Width - 2)
    BY <2>1, PowersOfTwoAssumption
  <2>3. 2 + (Width - 2) = Width
    BY WidthType
  <2>. QED
    BY <2>2, <2>3
<1>3. 2^(Width - 2) \in Nat \ {0}
  BY WidthType, PowPos
<1>. QED
  BY <1>1, <1>2, <1>3 DEF IdSpace

LEMMA U64Type ==
  ASSUME NEW x \in Int
  PROVE  U64(x) \in 0..(IdSpace - 1)
BY IdSpaceQuarter DEF U64

LEMMA CountrZeroType ==
  ASSUME NEW id
  PROVE  countr_zero(id) \in 0..Width
BY WidthType DEF countr_zero

LEMMA LsbType ==
  ASSUME NEW id
  PROVE  lsb(id) \in Nat
BY CountrZeroType, WidthType, PowPos DEF lsb

\* The shift in child_position() stays within the range of the assumption.
LEMMA ChildPositionType ==
  ASSUME NEW id \in Int
  PROVE  child_position(id) \in 0..3
<1>1. countr_zero(id) \in 0..Width
  BY CountrZeroType
<1>2. 2 * (MaxLevel - level(id)) + 1 \in 0..(Width + 2)
  <2>1. MaxLevel - level(id) = countr_zero(id) \div 2
    BY <1>1, MaxLevelAssumption DEF level
  <2>. QED
    BY <1>1, <2>1, WidthType
<1>3. 2^(2 * (MaxLevel - level(id)) + 1) \in Nat \ {0}
  BY <1>2, PowPos
<1>. QED
  BY <1>3 DEF child_position, child_position_at

LEMMA ParentType ==
  ASSUME NEW id \in Nat
  PROVE  parent(id) \in Nat
<1>1. U64(lsb(id) * 4) \in Nat
  BY LsbType, U64Type
<1>. QED
  BY <1>1 DEF parent, ClearBelow, SetBit

LEMMA ModDiv ==
  ASSUME NEW x \in Int, NEW y \in Nat \ {0}
  PROVE  x % y = x - y * (x \div y) /\ x \div y \in Int
BY SMT

\* (path << 2) | d stays a uint64: U64(path * 4) is a multiple of 4.
LEMMA ShiftInType ==
  ASSUME NEW p \in Int, NEW d \in 0..3
  PROVE  U64(p * 4) + d \in 0..(IdSpace - 1)
<1>1. PICK q \in Nat \ {0} : IdSpace = 4 * q
  BY IdSpaceQuarter
<1>2. PICK k \in Int : U64(p * 4) = p * 4 - IdSpace * k
  <2>1. IdSpace \in Nat \ {0} /\ p * 4 \in Int
    BY <1>1
  <2>. QED
    BY <2>1, ModDiv DEF U64
<1>3. \E m \in Int : U64(p * 4) = 4 * m
  <2>1. p - q * k \in Int
    OBVIOUS
  <2>. QED
    BY <1>1, <1>2, <2>1
<1>4. U64(p * 4) \in 0..(IdSpace - 1)
  BY U64Type
<1>. QED
  BY <1>1, <1>3, <1>4

\* A valid id has a level in 0..kMaxLevel.
LEMMA ValidLevel ==
  ASSUME NEW id, is_valid(id)
  PROVE  level(id) \in 0..MaxLevel
<1>1. PICK l \in 0..MaxLevel : lsb(id) = 2^(2 * (MaxLevel - l))
  BY DEF is_valid, EvenBitPowers, lsb_for_level
<1>2. 2 * (MaxLevel - l) \in 0..Width
  BY WidthType, MaxLevelAssumption DEF Width, kFaceBits, kPosBits
<1>3. lsb(id) # 0
  BY <1>1, <1>2, PowPos, WidthType
<1>4. lsb(id) = 2^countr_zero(id)
  BY <1>3 DEF lsb
<1>5. countr_zero(id) = 2 * (MaxLevel - l)
  <2>1. countr_zero(id) \in 0..Width
    BY CountrZeroType
  <2>2. 2^countr_zero(id) = 2^(2 * (MaxLevel - l))
    BY <1>1, <1>4
  <2>. QED
    BY <2>1, <2>2, <1>2, PowersOfTwoAssumption
<1>. QED
  BY <1>5, MaxLevelAssumption DEF level

\* The compact layout's instance of the primary layout is this one.
LEMMA InstanceAlias ==
  /\ C!V1!Width = Width
  /\ C!V1!IdSpace = IdSpace
  /\ \A x : C!V1!U64(x) = U64(x)
BY DEF C!V1!Width, C!V1!kFaceBits, C!V1!kPosBits, C!V1!IdSpace, C!V1!U64,
       Width, kFaceBits, kPosBits, IdSpace, U64

LEMMA FaceType ==
  ASSUME NEW id \in Nat
  PROVE  face(id) \in Nat
<1>1. kPosBits \in 0..(Width + 2)
  BY MaxLevelAssumption DEF kPosBits, Width, kFaceBits
<1>. QED
  BY <1>1, PowPos DEF face

\* The compact word of a face cell, root marker included, is a natural.
LEMMA RootWordType ==
  ASSUME NEW f \in Nat
  PROVE  C!RootFix(U64(f * C!FaceUnit)) \in Nat
<1>1. Width - 3 \in 0..(Width + 2) /\ 5 + (Width - 3 - 5) - 1 \in 0..(Width + 2)
  BY WidthType
<1>2. C!FaceUnit \in Nat /\ C!RootMarker \in Nat
  BY <1>1, PowPos, InstanceAlias
  DEF C!FaceUnit, C!RootMarker, C!kPathBits, C!kLevelBits, C!kFaceBits
<1>. QED
  BY <1>2, U64Type DEF C!RootFix

\* The assembled compact word of a non-root cell is a natural.
LEMMA PackType ==
  ASSUME NEW f \in Nat, NEW p \in Nat, NEW l \in Nat
  PROVE  C!Pack(f, p, l) \in Nat
<1>1. Width - 3 \in 0..(Width + 2) /\ 5 \in 0..(Width + 2)
  BY WidthType
<1>2. C!FaceUnit \in Nat /\ C!LevelUnit \in Nat
  BY <1>1, PowPos, InstanceAlias DEF C!FaceUnit, C!LevelUnit, C!kLevelBits, C!kFaceBits
<1>. QED
  BY <1>2, U64Type, InstanceAlias DEF C!Pack

-----------------------------------------------------------------------------
(***************************************************************************)
(* TypeOK is not inductive on its own: the final assembly needs old's     *)
(* level to be a natural, which the early returns of the first step        *)
(* establish for every state after it.                                     *)
(***************************************************************************)
IInv ==
  /\ TypeOK
  /\ pc \in {"climb", "verify", "pack"} => level(old) \in Nat

LEMMA InitIInv == Init => IInv
BY OldInputsAssumption, IdSpaceQuarter DEF Init, IInv, TypeOK, PCs

LEMMA NextIInv == IInv /\ [Next]_vars => IInv'
<1> SUFFICES ASSUME IInv, [Next]_vars PROVE IInv'
  OBVIOUS
<1>. USE DEF IInv, TypeOK, PCs
<1>1. CASE Start
  <2>1. CASE ~is_valid(old) \/ level(old) > CMaxLevel \/ face(old) >= C!kNumFaces
    BY <1>1, <2>1 DEF Start, Return
  <2>2. CASE ~(~is_valid(old) \/ level(old) > CMaxLevel \/ face(old) >= C!kNumFaces)
             /\ level(old) = 0
    BY <1>1, <2>2, FaceType, RootWordType DEF Start, Return
  <2>3. CASE ~(~is_valid(old) \/ level(old) > CMaxLevel \/ face(old) >= C!kNumFaces)
             /\ level(old) # 0
    BY <1>1, <2>3, ValidLevel DEF Start
  <2>. QED
    BY <2>1, <2>2, <2>3
<1>2. CASE Climb
  <2>1. child_position(current) \in 0..3
    BY ChildPositionType
  <2>2. parent(current) \in Nat
    BY ParentType
  <2>3. Append(stack, child_position(current)) \in Seq(0..3)
        /\ Len(Append(stack, child_position(current))) = Len(stack) + 1
    BY <2>1
  <2>. QED
    BY <1>2, <2>2, <2>3 DEF Climb
<1>3. CASE ClimbExit
  BY <1>3 DEF ClimbExit
<1>4. CASE Verify
  BY <1>4 DEF Verify, Return
<1>5. CASE Pack
  <2>1. stack[i] \in 0..3
    BY <1>5 DEF Pack
  <2>. QED
    BY <1>5, <2>1, ShiftInType DEF Pack
<1>6. CASE PackExit
  <2>1. face(old) \in Nat /\ level(old) \in Nat /\ path \in Nat
    BY <1>6, FaceType, IdSpaceQuarter DEF PackExit
  <2>2. C!Pack(face(old), path, level(old)) \in Nat
    BY <2>1, PackType
  <2>. QED
    BY <1>6, <2>2 DEF PackExit, Return
<1>7. CASE UNCHANGED vars
  BY <1>7 DEF vars
<1>. QED
  BY <1>1, <1>2, <1>3, <1>4, <1>5, <1>6, <1>7 DEF Next

(***************************************************************************)
(* Type correctness of the conversion loop of ConvertFromOldFormat for     *)
(* every word size: the locals keep their types through the climb, the     *)
(* face check and the packing loop, whose (path << 2) | d stays a uint64   *)
(* and whose index never leaves the stack.                                 *)
(***************************************************************************)
THEOREM TypeCorrect == Spec => []TypeOK
<1>1. IInv => TypeOK
  BY DEF IInv
<1>. QED
  BY InitIInv, NextIInv, <1>1, PTL DEF Spec

-----------------------------------------------------------------------------
(***************************************************************************)
(* The climb.  ClimbInv is inductive together with IInv: Start enters the  *)
(* climb with current = old, its own ancestor at its level (ParentAtSelf); *)
(* each Climb step replaces the ancestor at level L by parent(), which is  *)
(* the ancestor at L - 1 of that ancestor (ParentIsParentAt), hence of old *)
(* (ParentAtCompose), a valid cell of level L - 1 on old's face            *)
(* (ParentAtLevel, ParentAtFace, ParentAtValid).                          *)
(***************************************************************************)
\* Before the first step the locals still hold their initial values.
Fresh == pc = "start" => current = old /\ stack = << >>

LEMMA InitClimbInv == Init => ClimbInv /\ Fresh
BY DEF Init, ClimbInv, Fresh

LEMMA NextFresh == Fresh /\ [Next]_vars => Fresh'
BY DEF Fresh, Next, vars, Start, Return, Climb, ClimbExit, Verify, Pack, PackExit

LEMMA NextClimbInv == IInv /\ ClimbInv /\ Fresh /\ [Next]_vars => ClimbInv'
<1> SUFFICES ASSUME IInv, ClimbInv, Fresh, [Next]_vars PROVE ClimbInv'
  OBVIOUS
<1>. USE DEF IInv, TypeOK
<1>1. CASE Start
  <2>1. CASE ~is_valid(old) \/ level(old) > CMaxLevel \/ face(old) >= C!kNumFaces
    BY <1>1, <2>1 DEF Start, Return, ClimbInv
  <2>2. CASE ~(~is_valid(old) \/ level(old) > CMaxLevel \/ face(old) >= C!kNumFaces)
             /\ level(old) = 0
    BY <1>1, <2>2 DEF Start, Return, ClimbInv
  <2>3. CASE ~(~is_valid(old) \/ level(old) > CMaxLevel \/ face(old) >= C!kNumFaces)
             /\ level(old) # 0
    <3>1. pc' = "climb" /\ current' = old /\ stack' = << >> /\ old' = old
      BY <1>1, <2>3 DEF Start, Fresh
    <3>2. is_valid(old)
      BY <2>3
    <3>3. parent_at(old, level(old)) = old /\ level(old) \in Nat
      BY <3>2, ParentAtSelf, ValidLowestBit
    <3>4. Len(stack') + level(current') = level(old')
      BY <3>1, <3>3
    <3>. QED
      BY <3>1, <3>2, <3>3, <3>4 DEF ClimbInv
  <2>. QED
    BY <2>1, <2>2, <2>3
<1>2. CASE Climb
  <2>. DEFINE L == level(current)
  <2>1. pc = "climb" /\ L > 0 /\ pc' = "climb" /\ old' = old
        /\ current' = parent(current)
        /\ stack' = Append(stack, child_position(current))
    BY <1>2 DEF Climb
  <2>2. /\ is_valid(current) /\ face(current) = face(old)
        /\ current = parent_at(old, L) /\ Len(stack) + L = level(old)
    BY <2>1 DEF ClimbInv
  <2>3. L \in 1..MaxLevel /\ L - 1 \in 0..MaxLevel /\ L - 1 \in 0..L
        /\ L \in 0..MaxLevel /\ old \in Nat /\ current \in Nat
    <3>1. L \in 0..MaxLevel
      BY <2>1, <2>2, ValidLowestBit
    <3>2. L > 0
      BY <2>1, Zenon
    <3>3. old \in Nat /\ current \in Nat
      OBVIOUS
    <3>. QED
      BY <3>1, <3>2, <3>3, MaxLevelAssumption
  <2>4. parent(current) = parent_at(old, L - 1)
    <3>1. parent(current) = parent_at(current, L - 1)
      BY <2>1, <2>2, <2>3, ParentIsParentAt
    <3>2. parent_at(parent_at(old, L), L - 1) = parent_at(old, L - 1)
      BY <2>3, ParentAtCompose, Zenon
    <3>. QED
      BY <2>2, <3>1, <3>2
  <2>5. level(parent_at(old, L - 1)) = L - 1
    BY <2>3, ParentAtLevel, Zenon
  <2>6. face(parent_at(old, L - 1)) = face(old) /\ is_valid(parent_at(old, L - 1))
    <3>1. face(old) < kNumFaces
      BY <2>2 DEF is_valid
    <3>2. face(parent_at(old, L - 1)) = face(old)
      BY <2>3, ParentAtFace, Zenon
    <3>3. is_valid(parent_at(old, L - 1))
      BY <2>3, <3>1, ParentAtValid, Zenon
    <3>. QED
      BY <3>2, <3>3
  <2>7. Len(stack') = Len(stack) + 1
    BY <2>1, ChildPositionType
  <2>8. level(current') = L - 1 /\ current' = parent_at(old', level(current'))
    BY <2>1, <2>4, <2>5
  <2>9. Len(stack') + level(current') = level(old')
    BY <2>1, <2>2, <2>3, <2>7, <2>8
  <2>. QED
    BY <2>1, <2>2, <2>4, <2>6, <2>8, <2>9 DEF ClimbInv
<1>3. CASE ClimbExit
  BY <1>3 DEF ClimbExit, ClimbInv
<1>4. CASE Verify
  BY <1>4 DEF Verify, Return, ClimbInv
<1>5. CASE Pack
  BY <1>5 DEF Pack, ClimbInv
<1>6. CASE PackExit
  BY <1>6 DEF PackExit, Return, ClimbInv
<1>7. CASE UNCHANGED vars
  BY <1>7 DEF vars, ClimbInv
<1>. QED
  BY <1>1, <1>2, <1>3, <1>4, <1>5, <1>6, <1>7 DEF Next

(***************************************************************************)
(* For every kMaxLevel, the climb of ConvertFromOldFormat                  *)
(* (s2cell_id.h:904-918) visits exactly the ancestors of the argument:     *)
(* current is always the valid ancestor of old at its own level, on old's  *)
(* face, and the stack holds one child position per level climbed.  So    *)
(* the loop stops at old's face cell after level() pushes, and the face    *)
(* check after it (lines 921-923) never fails.                              *)
(***************************************************************************)
THEOREM ClimbCorrect == Spec => []ClimbInv
<1>1. Init => IInv /\ ClimbInv /\ Fresh
  BY InitIInv, InitClimbInv
<1>2. IInv /\ ClimbInv /\ Fresh /\ [Next]_vars => (IInv /\ ClimbInv /\ Fresh)'
  BY NextIInv, NextClimbInv, NextFresh
<1>. QED
  BY <1>1, <1>2, PTL DEF Spec


-----------------------------------------------------------------------------
(***************************************************************************)
(* The compact layout seen from the primary word: the face unit is         *)
(* 2^(Width - 3), eight of them fill the word, and a path of 2l bits,      *)
(* l <= kMaxLevel, shifted above the five level bits stays below one face  *)
(* unit (CompactAssumption: 2 * kMaxLevel <= kPathBits).                   *)
(***************************************************************************)
\* CompactAssumption spelled out on the primary word.
LEMMA CompactFacts ==
  /\ CMaxLevel \in 1..(MaxLevel - 1)
  /\ 2 * CMaxLevel <= Width - 8
  /\ CMaxLevel < 32
<1>1. C!kPathBits = Width - 8
  BY MaxLevelAssumption DEF C!kPathBits, C!kFaceBits, C!kLevelBits, C!V1!Width, C!V1!kFaceBits,
         C!V1!kPosBits, Width, kFaceBits, kPosBits
<1>2. C!CompactLayoutAssumption
  BY CompactAssumption
<1>3. CMaxLevel \in 1..(MaxLevel - 1) /\ 2 * CMaxLevel <= C!kPathBits
      /\ CMaxLevel < 2^C!kLevelBits
  BY <1>2, Zenon DEF C!CompactLayoutAssumption
<1>4. 2^C!kLevelBits = 32
  BY DEF C!kLevelBits
<1>. QED
  BY <1>1, <1>3, <1>4

\* x % IdSpace is x for a word x.
LEMMA U64Id ==
  ASSUME NEW x \in 0..(IdSpace - 1)
  PROVE  U64(x) = x
<1>1. IdSpace \in Nat \ {0} /\ x \in Int /\ 0 \in Int /\ x = 0 * IdSpace + x
  BY IdSpaceQuarter
<1>. QED
  BY <1>1, QuotRem DEF U64

LEMMA LayoutUnits ==
  /\ C!FaceUnit \in Nat \ {0} /\ IdSpace = 8 * C!FaceUnit
  /\ C!LevelUnit = 32 /\ C!FaceUnit = 32 * 2^(Width - 8)
  /\ \A l \in 0..CMaxLevel : 2^(2 * l) \in Nat \ {0} /\ 2^(2 * l) <= 2^(Width - 8)
<1>1. /\ Width - 3 \in 0..Width /\ 3 \in 0..Width /\ 3 + (Width - 3) = Width
      /\ Width - 8 \in 0..Width /\ 5 \in 0..Width /\ 5 + (Width - 8) = Width - 3
      /\ Width - 8 \in 0..(Width + 2) /\ Width - 3 \in 0..(Width + 2)
  BY WidthType, CompactFacts
<1>2. 2^3 = 8 /\ 2^5 = 32
  OBVIOUS
<1>3. C!FaceUnit = 2^(Width - 3) /\ C!LevelUnit = 32
  BY <1>2, InstanceAlias DEF C!FaceUnit, C!kFaceBits, C!LevelUnit, C!kLevelBits
<1>4. 2^Width = 8 * 2^(Width - 3)
  <2>1. 2^(3 + (Width - 3)) = 2^3 * 2^(Width - 3)
    <3>1. 3 \in 0..Width /\ Width - 3 \in 0..Width /\ 3 + (Width - 3) <= Width
      BY <1>1
    <3>. QED
      BY <3>1, PowSum
  <2>. QED
    BY <1>1, <1>2, <2>1
<1>5. 2^(Width - 3) = 32 * 2^(Width - 8)
  <2>1. 2^(5 + (Width - 8)) = 2^5 * 2^(Width - 8)
    <3>1. 5 \in 0..Width /\ Width - 8 \in 0..Width /\ 5 + (Width - 8) <= Width
      BY <1>1
    <3>. QED
      BY <3>1, PowSum
  <2>. QED
    BY <1>1, <1>2, <2>1
<1>6. 2^(Width - 3) \in Nat \ {0} /\ 2^(Width - 8) \in Nat \ {0}
  BY <1>1, PowPos
<1>7. ASSUME NEW l \in 0..CMaxLevel
      PROVE  2^(2 * l) \in Nat \ {0} /\ 2^(2 * l) <= 2^(Width - 8)
  <2>1. 2 * l \in 0..Width /\ 2 * l <= Width - 8 /\ 2 * l \in 0..(Width + 2)
    BY CompactFacts, WidthType
  <2>2. 2^(2 * l) \in Nat \ {0}
    BY <2>1, PowPos
  <2>3. CASE 2 * l = Width - 8
    BY <2>2, <2>3
  <2>4. CASE 2 * l < Width - 8
    BY <1>1, <2>1, <2>2, <2>4, PowMono
  <2>5. 2 * l = Width - 8 \/ 2 * l < Width - 8
    BY <2>1, WidthType, CompactFacts
  <2>. QED
    BY <2>3, <2>4, <2>5, Zenon
<1>. QED
  BY <1>3, <1>4, <1>5, <1>6, <1>7 DEF IdSpace

\* The word assembled for a cell below the faces is its layout word: the
\* two uint64 products of the assembly do not wrap.
LEMMA LayoutPack ==
  ASSUME NEW f \in 0..5, NEW l \in 1..CMaxLevel, NEW p \in 0..(2^(2 * l) - 1)
  PROVE  C!Pack(f, p, l) = C!LayoutWord(f, p, l)
<1>1. /\ C!FaceUnit \in Nat \ {0} /\ IdSpace = 8 * C!FaceUnit /\ C!LevelUnit = 32
      /\ C!FaceUnit = 32 * 2^(Width - 8) /\ 2^(2 * l) \in Nat \ {0}
      /\ 2^(2 * l) <= 2^(Width - 8)
  BY LayoutUnits
<1>2. f * C!FaceUnit \in 0..(IdSpace - 1)
  BY <1>1
<1>3. p * 32 \in 0..(IdSpace - 1)
  <2>1. PICK Q \in Nat \ {0} : Q = 2^(Width - 8)
    <3>1. Width - 8 \in 0..(Width + 2)
      BY WidthType, CompactFacts
    <3>. QED
      BY <3>1, PowPos
  <2>2. PICK P \in Nat \ {0} : P = 2^(2 * l) /\ P <= Q
    BY <1>1, <2>1
  <2>3. p \in 0..(P - 1) /\ C!FaceUnit = 32 * Q
    BY <1>1, <2>1, <2>2
  <2>. QED
    BY <1>1, <2>1, <2>2, <2>3
<1>4. U64(f * C!FaceUnit) = f * C!FaceUnit /\ U64(p * C!LevelUnit) = p * C!LevelUnit
  BY <1>1, <1>2, <1>3, U64Id
<1>. QED
  BY <1>4, InstanceAlias DEF C!Pack, C!LayoutWord

\* The face-cell word of the level-0 shortcut is the layout word of the
\* face, the root marker for face 0.
LEMMA LayoutFace ==
  ASSUME NEW f \in 0..5
  PROVE  C!RootFix(U64(f * C!FaceUnit)) = C!LayoutWord(f, 0, 0)
<1>1. C!FaceUnit \in Nat \ {0} /\ IdSpace = 8 * C!FaceUnit /\ C!LevelUnit = 32
  BY LayoutUnits
<1>2. U64(f * C!FaceUnit) = f * C!FaceUnit
  BY <1>1, U64Id
<1>3. CASE f = 0
  BY <1>1, <1>2, <1>3 DEF C!RootFix, C!LayoutWord
<1>4. CASE f # 0
  <2>1. f * C!FaceUnit # 0
    BY <1>1, <1>4
  <2>. QED
    BY <1>1, <1>2, <2>1 DEF C!RootFix, C!LayoutWord
<1>. QED
  BY <1>3, <1>4


\* The path of a cell at level 0 is empty.
LEMMA PathAtZero ==
  ASSUME NEW id \in Nat
  PROVE  PathAt(id, 0) = 0
<1>1. 2^(2 * 0) = 1
  OBVIOUS
<1>2. 0 \in 0..MaxLevel
  BY MaxLevelAssumption
<1>3. PathAt(id, 0) \in 0..(2^(2 * 0) - 1)
  BY <1>2, PathAtRange, Zenon
<1>. QED
  BY <1>1, <1>3

(***************************************************************************)
(* The compact field readers on a layout word.  With R = 2^(Width - 9):    *)
(* the path field spans 2R values, the root marker (its top bit) is 32R    *)
(* and the face unit 64R, so the path and level fields of a layout word    *)
(* stay below the face unit and the readers of s2cell_id.h take them back. *)
(***************************************************************************)
LEMMA CompactUnits ==
  \E R \in Nat \ {0} :
    /\ C!PathUnit = 2 * R /\ C!RootMarker = 32 * R /\ C!FaceUnit = 64 * R
    /\ C!LevelUnit = 32 /\ C!kPathBits = Width - 8 /\ C!kNumFaces = 6
    /\ \A l \in 0..CMaxLevel : 2^(2 * l) \in Nat \ {0} /\ 2^(2 * l) <= 2 * R
<1>1. /\ Width - 9 \in 0..Width /\ 1 \in 0..Width /\ 5 \in 0..Width
      /\ 1 + (Width - 9) <= Width /\ 5 + (Width - 9) <= Width
      /\ Width - 9 \in 0..(Width + 2)
  BY WidthType, CompactFacts
<1>2. PICK R \in Nat \ {0} : R = 2^(Width - 9)
  BY <1>1, PowPos
<1>3. 2^(1 + (Width - 9)) = 2^1 * R /\ 2^(5 + (Width - 9)) = 2^5 * R
  BY <1>1, <1>2, PowSum
<1>4. C!kPathBits = Width - 8 /\ C!kLevelBits = 5 /\ C!kNumFaces = 6
  BY MaxLevelAssumption DEF C!kPathBits, C!kFaceBits, C!kLevelBits, C!kNumFaces,
     C!V1!Width, C!V1!kFaceBits, C!V1!kPosBits, Width, kFaceBits, kPosBits
<1>5. C!PathUnit = 2 * R /\ C!RootMarker = 32 * R
  <2>1. 1 + (Width - 9) = Width - 8 /\ 5 + (Width - 9) = 5 + (Width - 8) - 1
    BY WidthType
  <2>. QED
    BY <1>3, <1>4, <2>1 DEF C!PathUnit, C!RootMarker
<1>6. C!FaceUnit = 64 * R /\ C!LevelUnit = 32
      /\ \A l \in 0..CMaxLevel : 2^(2 * l) \in Nat \ {0} /\ 2^(2 * l) <= 2 * R
  <2>1. C!FaceUnit = 32 * 2^(Width - 8) /\ C!LevelUnit = 32
        /\ \A l \in 0..CMaxLevel : 2^(2 * l) \in Nat \ {0} /\ 2^(2 * l) <= 2^(Width - 8)
    BY LayoutUnits
  <2>2. 2^(Width - 8) = 2 * R
    <3>1. 1 + (Width - 9) = Width - 8
      BY WidthType
    <3>. QED
      BY <1>3, <3>1
  <2>. QED
    BY <2>1, <2>2
<1>. QED
  BY <1>2, <1>4, <1>5, <1>6

\* The layout word of a cell is a valid compact word whose face(), level()
\* and path() are the cell's face, level and path.
LEMMA LayoutDecodes ==
  ASSUME NEW f \in 0..5, NEW l \in 0..CMaxLevel, NEW p \in 0..(2^(2 * l) - 1)
  PROVE  /\ C!is_valid(C!LayoutWord(f, p, l))
         /\ C!face(C!LayoutWord(f, p, l)) = f
         /\ C!level(C!LayoutWord(f, p, l)) = l
         /\ C!path(C!LayoutWord(f, p, l)) = p
<1>1. PICK R \in Nat \ {0} :
        /\ C!PathUnit = 2 * R /\ C!RootMarker = 32 * R /\ C!FaceUnit = 64 * R
        /\ C!LevelUnit = 32 /\ C!kPathBits = Width - 8 /\ C!kNumFaces = 6
        /\ 2^(2 * l) \in Nat \ {0} /\ 2^(2 * l) <= 2 * R
  BY CompactUnits
<1>2. l \in 0..31 /\ CMaxLevel \in Nat /\ 2^0 = 1
  BY CompactFacts
<1>3. CASE f = 0 /\ l = 0
  <2>1. C!LayoutWord(f, p, l) = 32 * R /\ p = 0
    BY <1>1, <1>2, <1>3 DEF C!LayoutWord
  <2>2. (32 * R) % 32 = 0 /\ (32 * R) \div (64 * R) = 0
    <3>1. 32 * R = R * 32 + 0 /\ 32 * R = 0 * (64 * R) + 32 * R
      OBVIOUS
    <3>. QED
      BY <3>1, QuotRem
  <2>. QED
    BY <1>1, <1>3, <2>1, <2>2 DEF C!is_valid, C!face, C!level, C!path
<1>4. CASE ~(f = 0 /\ l = 0)
  <2>. PICK w \in Nat : w = f * (64 * R) + p * 32 + l
    BY <1>1, <1>2
  <2>1. C!LayoutWord(f, p, l) = w
    BY <1>1, <1>4 DEF C!LayoutWord
  <2>2. w \div (64 * R) = f /\ w % 32 = l
    <3>1. p * 32 + l \in 0..(64 * R - 1) /\ f * 2 * R + p \in Int
      BY <1>1, <1>2
    <3>2. w = f * (64 * R) + (p * 32 + l) /\ w = (f * 2 * R + p) * 32 + l
      OBVIOUS
    <3>. QED
      BY <1>2, <3>1, <3>2, QuotRem
  <2>3. C!RawPath(w) = p
    <3>1. w \div 32 = f * 2 * R + p
      <4>1. w = (f * 2 * R + p) * 32 + l /\ f * 2 * R + p \in Int
        OBVIOUS
      <4>. QED
        BY <1>2, <4>1, QuotRem
    <3>2. (f * 2 * R + p) % (2 * R) = p
      <4>1. p \in 0..(2 * R - 1) /\ f * 2 * R + p = f * (2 * R) + p /\ f \in Int
        BY <1>1
      <4>. QED
        BY <4>1, QuotRem
    <3>. QED
      BY <1>1, <3>1, <3>2 DEF C!RawPath
  <2>4. w # 0 /\ w # 32 * R
    <3>1. CASE l = 0
      BY <1>1, <1>4, <3>1
    <3>2. CASE l # 0
      <4>1. (32 * R) % 32 = 0
        <5>1. 32 * R = R * 32 + 0
          OBVIOUS
        <5>. QED
          BY <5>1, QuotRem
      <4>. QED
        BY <2>2, <3>2, <4>1
    <3>. QED
      BY <3>1, <3>2
  <2>5. p \div 2^(2 * l) = 0 /\ p % 2^(2 * l) = p
    <3>1. p = 0 * 2^(2 * l) + p
      BY <1>1
    <3>. QED
      BY <1>1, <3>1, QuotRem
  <2>6. C!face(w) = f /\ C!level(w) = l
    BY <1>1, <2>2, <2>4 DEF C!face, C!level
  <2>7. C!path(w) = p
    <3>1. CASE l = 0
      BY <1>1, <1>2, <2>6, <3>1 DEF C!path
    <3>2. CASE l # 0
      BY <2>3, <2>5, <2>6, <3>2 DEF C!path
    <3>. QED
      BY <3>1, <3>2
  <2>8. C!is_valid(w)
    BY <1>1, <2>2, <2>3, <2>4, <2>5 DEF C!is_valid
  <2>. QED
    BY <2>1, <2>6, <2>7, <2>8
<1>. QED
  BY <1>3, <1>4

-----------------------------------------------------------------------------
(***************************************************************************)
(* The packing.  PackedLayout needs, besides IInv, ClimbInv and Fresh:     *)
(*  - Entered: past Start, old is a valid cell the compact layout holds,   *)
(*    below the faces;                                                     *)
(*  - Climbed: the climb ended at level 0 with one entry per level;        *)
(*  - StackDigits: entry j of the stack is old's child position at level   *)
(*    level(old) - j + 1, the leaf's first (ClimbDigit);                   *)
(*  - PackInv: after packing the top K = Len(stack) - i entries, path is   *)
(*    old's path truncated to level K (PathStep);                          *)
(*  - PathZero: path is 0 until the packing starts.                        *)
(***************************************************************************)
Entered ==
  pc \in {"climb", "verify", "pack"} =>
    is_valid(old) /\ level(old) \in 1..CMaxLevel /\ face(old) \in 0..5

Climbed ==
  pc \in {"verify", "pack"} => level(current) = 0 /\ Len(stack) = level(old)

StackDigits ==
  \A j \in 1..Len(stack) : stack[j] = child_position_at(old, level(old) - j + 1)

PackInv == pc = "pack" => path = PathAt(old, Len(stack) - i)

PathZero == pc \in {"start", "climb", "verify"} => path = 0

Layout == Entered /\ Climbed /\ StackDigits /\ PackInv /\ PathZero /\ PackedLayout

LEMMA InitLayout == Init => Layout
BY DEF Init, Layout, Entered, Climbed, StackDigits, PackInv, PathZero, PackedLayout

\* One step of the packing loop shifts old's next child position into the
\* path, and the path stays old's path truncated to the levels packed.
LEMMA PackShift ==
  ASSUME IInv, Layout, Pack
  PROVE  /\ path' = path * 4 + child_position_at(old, Len(stack) - i + 1)
         /\ path' = PathAt(old, Len(stack') - i')
<1>. USE DEF IInv, TypeOK
<1>1. pc = "pack" /\ i > 0 /\ path' = U64(path * 4) + stack[i] /\ i' = i - 1
      /\ UNCHANGED <<old, pc, current, stack, result>>
  BY DEF Pack
<1>2. /\ level(old) \in 1..CMaxLevel /\ Len(stack) = level(old)
      /\ path = PathAt(old, Len(stack) - i) /\ i \in 1..Len(stack)
  BY <1>1 DEF Layout, Entered, Climbed, PackInv
<1>. PICK K \in Nat : K = Len(stack) - i
  BY <1>2
<1>3. K \in 0..(MaxLevel - 1) /\ K + 1 \in 0..CMaxLevel /\ K + 1 \in 0..MaxLevel
      /\ path = PathAt(old, K)
  BY <1>2, CompactFacts, MaxLevelAssumption
<1>4. stack[i] = child_position_at(old, K + 1)
  <2>1. stack[i] = child_position_at(old, level(old) - i + 1)
    BY <1>2 DEF Layout, StackDigits
  <2>. QED
    BY <1>2, <2>1
<1>5. PathAt(old, K + 1) = path * 4 + stack[i]
  BY <1>3, <1>4, PathStep
<1>6. U64(path * 4) = path * 4
  <2>1. PICK Q \in Nat : Q = 2^(Width - 8) /\ IdSpace = 256 * Q
    <3>1. Width - 8 \in 0..(Width + 2)
      BY WidthType, CompactFacts
    <3>2. 2^(Width - 8) \in Nat /\ IdSpace = 8 * C!FaceUnit
          /\ C!FaceUnit = 32 * 2^(Width - 8)
      BY <3>1, LayoutUnits, PowPos
    <3>. QED
      BY <3>2
  <2>2. PICK X \in Nat : X = 2^(2 * (K + 1)) /\ X <= Q
    BY <1>3, <2>1, LayoutUnits
  <2>3. PathAt(old, K + 1) \in 0..(X - 1)
    BY <1>3, <2>2, PathAtRange
  <2>4. path \in Nat /\ stack[i] \in 0..3
    BY <1>2
  <2>5. path * 4 <= X - 1
    BY <1>5, <2>3, <2>4
  <2>6. path * 4 \in 0..(IdSpace - 1)
    BY <2>1, <2>2, <2>4, <2>5
  <2>. QED
    BY <2>6, U64Id
<1>7. path' = PathAt(old, Len(stack') - i')
  BY <1>1, <1>5, <1>6
<1>8. child_position_at(old, K + 1) = child_position_at(old, Len(stack) - i + 1)
  OBVIOUS
<1>. QED
  BY <1>1, <1>4, <1>6, <1>7, <1>8

LEMMA NextLayout == IInv /\ ClimbInv /\ Fresh /\ Layout /\ [Next]_vars => Layout'
<1> SUFFICES ASSUME IInv, ClimbInv, Fresh, Layout, [Next]_vars PROVE Layout'
  OBVIOUS
<1>. USE DEF IInv, TypeOK
<1>1. CASE Start
  <2>1. CASE ~is_valid(old) \/ level(old) > CMaxLevel \/ face(old) >= C!kNumFaces
    <3>1. pc' = "done" /\ old' = old /\ stack' = stack
      BY <1>1, <2>1 DEF Start, Return
    <3>2. ~(is_valid(old) /\ level(old) <= CMaxLevel)
      <4>1. is_valid(old) => face(old) < 6
        BY DEF is_valid, kNumFaces
      <4>2. face(old) \in Nat
        BY FaceType
      <4>3. is_valid(old) => level(old) \in Int
        BY ValidLevel
      <4>. QED
        BY <2>1, <4>1, <4>2, <4>3, CompactFacts, MaxLevelAssumption DEF C!kNumFaces
    <3>3. stack = << >>
      BY <1>1 DEF Start, Fresh
    <3>. QED
      BY <3>1, <3>2, <3>3
      DEF Layout, Entered, Climbed, StackDigits, PackInv, PathZero, PackedLayout
  <2>2. CASE ~(~is_valid(old) \/ level(old) > CMaxLevel \/ face(old) >= C!kNumFaces)
             /\ level(old) = 0
    <3>1. pc' = "done" /\ old' = old /\ stack' = stack
          /\ result' = C!RootFix(U64(face(old) * C!FaceUnit))
      BY <1>1, <2>2 DEF Start, Return
    <3>2. face(old) \in 0..5
      <4>1. face(old) \in Nat
        BY FaceType
      <4>. QED
        BY <2>2, <4>1 DEF C!kNumFaces
    <3>3. result' = C!LayoutWord(face(old), PathAt(old, 0), 0)
      BY <3>1, <3>2, LayoutFace, PathAtZero
    <3>4. stack = << >>
      BY <1>1 DEF Start, Fresh
    <3>. QED
      BY <2>2, <3>1, <3>3, <3>4
      DEF Layout, Entered, Climbed, StackDigits, PackInv, PathZero, PackedLayout, PathAt
  <2>3. CASE ~(~is_valid(old) \/ level(old) > CMaxLevel \/ face(old) >= C!kNumFaces)
             /\ level(old) # 0
    <3>1. pc' = "climb" /\ old' = old /\ stack' = stack /\ path' = path
      BY <1>1, <2>3 DEF Start
    <3>2. stack = << >> /\ path = 0
      BY <1>1 DEF Start, Fresh, Layout, PathZero
    <3>3. is_valid(old) /\ level(old) \in 1..CMaxLevel /\ face(old) \in 0..5
      <4>1. face(old) \in Nat /\ level(old) \in 0..MaxLevel
        BY <2>3, FaceType, ValidLevel
      <4>. QED
        BY <2>3, <4>1, CompactFacts, MaxLevelAssumption DEF C!kNumFaces
    <3>. QED
      BY <3>1, <3>2, <3>3
      DEF Layout, Entered, Climbed, StackDigits, PackInv, PathZero, PackedLayout
  <2>. QED
    BY <2>1, <2>2, <2>3
<1>2. CASE Climb
  <2>. DEFINE L == level(current)
  <2>1. pc = "climb" /\ pc' = "climb" /\ old' = old /\ path' = path
        /\ stack' = Append(stack, child_position(current))
    BY <1>2 DEF Climb
  <2>2. current = parent_at(old, L) /\ Len(stack) + L = level(old)
        /\ is_valid(current)
    BY <2>1 DEF ClimbInv
  <2>3. L \in 0..MaxLevel /\ Len(stack) \in Nat
    BY <2>2, ValidLevel
  <2>4. child_position(current) = child_position_at(old, L)
    BY <2>2, <2>3, ClimbDigit
  <2>5. StackDigits'
    <3>1. SUFFICES ASSUME NEW j \in 1..Len(stack')
                   PROVE  stack'[j] = child_position_at(old, level(old) - j + 1)
      BY <2>1 DEF StackDigits
    <3>2. Len(stack') = Len(stack) + 1
      BY <2>1
    <3>3. CASE j \in 1..Len(stack)
      BY <2>1, <3>3 DEF Layout, StackDigits
    <3>4. CASE j = Len(stack) + 1
      BY <2>1, <2>2, <2>3, <2>4, <3>4
    <3>. QED
      BY <3>1, <3>2, <3>3, <3>4
  <2>. QED
    BY <2>1, <2>5
    DEF Layout, Entered, Climbed, PackInv, PathZero, PackedLayout
<1>3. CASE ClimbExit
  <2>1. pc = "climb" /\ pc' = "verify" /\ UNCHANGED <<old, current, stack, path, result>>
    BY <1>3 DEF ClimbExit
  <2>2. level(current) = 0 /\ Len(stack) = level(old)
    <3>1. is_valid(current) /\ Len(stack) + level(current) = level(old)
      BY <2>1 DEF ClimbInv
    <3>2. level(current) \in 0..MaxLevel /\ level(current) <= 0
      BY <1>3, <3>1, ValidLevel DEF ClimbExit
    <3>. QED
      BY <3>1, <3>2
  <2>. QED
    BY <2>1, <2>2
    DEF Layout, Entered, Climbed, StackDigits, PackInv, PathZero, PackedLayout
<1>4. CASE Verify
  <2>1. pc = "verify" /\ face(current) = face(old)
    BY <1>4 DEF Verify, ClimbInv
  <2>2. pc' = "pack" /\ i' = Len(stack) /\ UNCHANGED <<old, current, stack, path, result>>
    BY <1>4, <2>1 DEF Verify
  <2>3. path = PathAt(old, Len(stack) - i')
    BY <2>1, <2>2, PathAtZero DEF Layout, PathZero
  <2>. QED
    BY <2>1, <2>2, <2>3
    DEF Layout, Entered, Climbed, StackDigits, PackInv, PathZero, PackedLayout
<1>5. CASE Pack
  <2>1. UNCHANGED <<old, pc, current, stack, result>> /\ pc = "pack"
    BY <1>5 DEF Pack
  <2>2. path' = PathAt(old, Len(stack') - i')
    BY <1>5, PackShift
  <2>. QED
    BY <2>1, <2>2
    DEF Layout, Entered, Climbed, StackDigits, PackInv, PathZero, PackedLayout
<1>6. CASE PackExit
  <2>1. pc = "pack" /\ i = 0 /\ pc' = "done"
        /\ result' = C!Pack(face(old), path, level(old))
        /\ UNCHANGED <<old, current, stack, i, path>>
    BY <1>6 DEF PackExit, Return
  <2>2. /\ level(old) \in 1..CMaxLevel /\ face(old) \in 0..5
        /\ path = PathAt(old, level(old))
    BY <2>1 DEF Layout, Entered, Climbed, PackInv
  <2>3. path \in 0..(2^(2 * level(old)) - 1)
    <3>1. level(old) \in 0..MaxLevel /\ old \in Nat
      BY <2>2, CompactFacts, MaxLevelAssumption
    <3>. QED
      BY <2>2, <3>1, PathAtRange
  <2>4. result' = C!LayoutWord(face(old), PathAt(old, level(old)), level(old))
    BY <2>1, <2>2, <2>3, LayoutPack
  <2>. QED
    BY <2>1, <2>4
    DEF Layout, Entered, Climbed, StackDigits, PackInv, PathZero, PackedLayout, PathAt
<1>7. CASE UNCHANGED vars
  BY <1>7 DEF vars, Layout, Entered, Climbed, StackDigits, PackInv, PathZero, PackedLayout
<1>. QED
  BY <1>1, <1>2, <1>3, <1>4, <1>5, <1>6, <1>7 DEF Next

(***************************************************************************)
(* For every word size and every compact kMaxLevel that the layout         *)
(* admits, ConvertFromOldFormat (s2cell_id.h:876-936) returns for a valid  *)
(* cell the compact layout holds exactly its layout word: old's face,      *)
(* old's child positions root first as the path, old's level, and the      *)
(* root marker for the face-0 root.  The leaf-first stack is popped from   *)
(* the top, so the path comes out root first, and neither (path << 2) nor  *)
(* the face and path shifts of the assembly wrap.                          *)
(***************************************************************************)
THEOREM PackedCorrect == Spec => []PackedLayout
<1>1. Init => IInv /\ ClimbInv /\ Fresh /\ Layout
  BY InitIInv, InitClimbInv, InitLayout
<1>2. IInv /\ ClimbInv /\ Fresh /\ Layout /\ [Next]_vars
        => (IInv /\ ClimbInv /\ Fresh /\ Layout)'
  BY NextIInv, NextClimbInv, NextFresh, NextLayout
<1>3. Layout => PackedLayout
  BY DEF Layout
<1>. QED
  BY <1>1, <1>2, <1>3, PTL DEF Spec


(***************************************************************************)
(* What the returned word decodes to: for a valid cell the compact layout  *)
(* holds, ConvertFromOldFormat's result passes the compact is_valid(), and *)
(* its face(), level() and path() (s2cell_id.h) are old's face, level and  *)
(* child positions root first.  This is the half of RoundTrip that needs   *)
(* no descent through ConvertToOldFormat.                                  *)
(***************************************************************************)
ResultFields ==
  pc = "done" /\ is_valid(old) /\ level(old) <= CMaxLevel =>
    /\ C!is_valid(result)
    /\ C!face(result) = face(old)
    /\ C!level(result) = level(old)
    /\ C!path(result) = PathAt(old, level(old))

LEMMA LayoutResultFields == TypeOK /\ PackedLayout => ResultFields
<1> SUFFICES ASSUME TypeOK, PackedLayout,
                    pc = "done", is_valid(old), level(old) <= CMaxLevel
             PROVE  /\ C!is_valid(result)
                    /\ C!face(result) = face(old)
                    /\ C!level(result) = level(old)
                    /\ C!path(result) = PathAt(old, level(old))
  BY DEF ResultFields
<1>1. old \in Nat
  BY DEF TypeOK
<1>2. face(old) \in 0..5
  <2>1. face(old) \in Nat /\ face(old) < 6
    BY <1>1, FaceType DEF is_valid, kNumFaces
  <2>. QED
    BY <2>1
<1>3. level(old) \in 0..CMaxLevel /\ level(old) \in 0..MaxLevel
  BY ValidLevel, CompactFacts
<1>4. PathAt(old, level(old)) \in 0..(2^(2 * level(old)) - 1)
  BY <1>1, <1>3, PathAtRange
<1>5. result = C!LayoutWord(face(old), PathAt(old, level(old)), level(old))
  BY DEF PackedLayout, PathAt
<1>. QED
  BY <1>2, <1>3, <1>4, <1>5, LayoutDecodes

(***************************************************************************)
(* For every word size and every compact kMaxLevel the layout admits, the  *)
(* word ConvertFromOldFormat (s2cell_id.h:876-936) returns for a valid     *)
(* cell of level at most kMaxLevel is a valid compact cell with old's      *)
(* face, level and path.                                                   *)
(***************************************************************************)
THEOREM ResultDecodes == Spec => []ResultFields
<1>1. TypeOK /\ PackedLayout => ResultFields
  BY LayoutResultFields
<1>. QED
  BY TypeCorrect, PackedCorrect, <1>1, PTL


(***************************************************************************)
(* For every word size and compact kMaxLevel, each step of the packing     *)
(* loop of ConvertFromOldFormat (s2cell_id.h:927-929) shifts old's child   *)
(* position at the next level, root first, into the path, and the shift    *)
(* drops no bit.                                                           *)
(***************************************************************************)
THEOREM PackStepCorrect == Spec => PackStep
<1>. DEFINE Shifts == pc = "pack" /\ pc' = "pack" =>
                        path' = path * 4 + child_position_at(old, Len(stack) - i + 1)
<1>1. IInv /\ Layout /\ [Next]_vars => [Shifts]_vars
  <2> SUFFICES ASSUME IInv, Layout, [Next]_vars PROVE [Shifts]_vars
    OBVIOUS
  <2>1. CASE Pack
    BY <2>1, PackShift DEF Shifts
  <2>2. CASE Start \/ Climb \/ ClimbExit \/ Verify
    BY <2>2 DEF Start, Climb, ClimbExit, Verify, Shifts
  <2>3. CASE PackExit
    BY <2>3 DEF PackExit, Return, Shifts
  <2>4. CASE UNCHANGED vars
    BY <2>4
  <2>. QED
    BY <2>1, <2>2, <2>3, <2>4 DEF Next
<1>2. Init => IInv /\ ClimbInv /\ Fresh /\ Layout
  BY InitIInv, InitClimbInv, InitLayout
<1>3. IInv /\ ClimbInv /\ Fresh /\ Layout /\ [Next]_vars
        => (IInv /\ ClimbInv /\ Fresh /\ Layout)'
  BY NextIInv, NextClimbInv, NextFresh, NextLayout
<1>. QED
  BY <1>1, <1>2, <1>3, PTL DEF Spec, PackStep, Shifts

=============================================================================
