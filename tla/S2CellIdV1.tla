----------------------------- MODULE S2CellIdV1 -----------------------------
(***************************************************************************)
(* The primary cell identifier s2v1::S2CellId (src/src/s2/s2cell_id_v1.h): *)
(* a uint64 holding a 3-bit face followed by the Hilbert-curve position of *)
(* the cell centre, whose lowest set bit encodes the level.                *)
(*                                                                         *)
(* The code fixes kMaxLevel = 30 and a 64-bit word.  The model keeps the   *)
(* layout and takes kMaxLevel as the constant MaxLevel, so the word is     *)
(* Width = 3 + 2*MaxLevel + 1 bits (64 when MaxLevel = 30) and every       *)
(* uint64 sum, difference and shift is taken modulo IdSpace = 2^Width.     *)
(* The bitwise operators the code applies are written with \div and % on  *)
(* powers of two; each use below says which bits it touches.               *)
(***************************************************************************)
EXTENDS Integers

CONSTANT MaxLevel          \* S2CellId::kMaxLevel (S2::kMaxCellLevel = 30)

ASSUME MaxLevelAssumption == MaxLevel \in Nat \ {0}

kFaceBits == 3
kNumFaces == 6
kPosBits  == 2 * MaxLevel + 1
Width     == kFaceBits + kPosBits

\* The modulus of uint64 arithmetic, generalised to Width bits.
IdSpace == 2^Width

(***************************************************************************)
(* tlapm's provers treat ^ as uninterpreted, so the facts about the powers *)
(* of two that the proofs use are stated here; TLC evaluates them for the  *)
(* instance of every run.                                                  *)
(***************************************************************************)
ASSUME PowersOfTwoAssumption ==
  /\ \A n \in 0..(Width + 2) : 2^n \in Nat \ {0}
  /\ \A m, n \in 0..Width : m + n <= Width => 2^(m + n) = 2^m * 2^n
  /\ \A m, n \in 0..Width : m < n => 2^m < 2^n

U64(x) == x % IdSpace

None     == 0                \* S2CellId::None()
Sentinel == IdSpace - 1      \* S2CellId::Sentinel() = ~uint64_t{0}

lsb_for_level(lvl) == 2^(2 * (MaxLevel - lvl))

(***************************************************************************)
(* absl::countr_zero and lsb() = id & (~id + 1).  Only id = 0 has no set  *)
(* bit; its countr_zero is the word width and its lsb() is 0.             *)
(***************************************************************************)
\* Bit k is the lowest set bit of id.
LowestBitAt(id, k) == (id \div 2^k) % 2 = 1 /\ id % 2^k = 0

countr_zero(id) ==
  IF \E k \in 0..Width-1 : LowestBitAt(id, k)
  THEN CHOOSE k \in 0..Width-1 : LowestBitAt(id, k)
  ELSE Width

lsb(id) == IF id = 0 THEN 0 ELSE 2^countr_zero(id)

face(id) == id \div 2^kPosBits

pos(id) == id % 2^kPosBits

(***************************************************************************)
(* level() is kMaxLevel - countr_zero(id) / 2 under ABSL_ASSUME(id != 0).  *)
(* For id = 0 the assumption is broken; the build computes countr_zero(0)  *)
(* = 64, which is the value given here.  The only caller that reaches      *)
(* level(0) (S2CellIdV2's delegating navigation) returns None for every    *)
(* value it could take, so the choice does not matter.                     *)
(***************************************************************************)
level(id) == MaxLevel - (countr_zero(id) \div 2)

\* lsb() & 0x1555555555555555: the lowest set bit is at an even position
\* no higher than 2*kMaxLevel.
EvenBitPowers == {lsb_for_level(l) : l \in 0..MaxLevel}

is_valid(id) == face(id) < kNumFaces /\ lsb(id) \in EvenBitPowers

is_leaf(id) == id % 2 = 1

is_face(id) == id % lsb_for_level(0) = 0

child_position_at(id, lvl) == (id \div 2^(2 * (MaxLevel - lvl) + 1)) % 4

child_position(id) == child_position_at(id, level(id))

range_min(id) == U64(id - (lsb(id) - 1))
range_max(id) == U64(id + (lsb(id) - 1))

contains(id, other) == other >= range_min(id) /\ other <= range_max(id)

intersects(id, other) ==
  range_min(other) <= range_max(id) /\ range_max(other) >= range_min(id)

(***************************************************************************)
(* id & (~b + 1) for a single bit b clears the bits below b (and for b = 0 *)
(* the mask ~0 + 1 is 0); y | b sets bit b.                                *)
(***************************************************************************)
ClearBelow(id, b) == IF b = 0 THEN 0 ELSE id - (id % b)
SetBit(y, b)      == IF b = 0 \/ (y \div b) % 2 = 1 THEN y ELSE y + b

parent_at(id, lvl) ==
  LET new_lsb == lsb_for_level(lvl)
  IN  SetBit(ClearBelow(id, new_lsb), new_lsb)

\* A plausible fault: the lsb moved up one bit (lsb() << 1) instead of two.
parent_onebit(id) ==
  LET new_lsb == U64(lsb(id) * 2)
  IN  SetBit(ClearBelow(id, new_lsb), new_lsb)

parent(id) ==
  LET new_lsb == U64(lsb(id) * 4)
  IN  SetBit(ClearBelow(id, new_lsb), new_lsb)

\* id + (2 * position + 1 - 4) * new_lsb, the int factor converted to uint64.
child(id, position) ==
  LET new_lsb == lsb(id) \div 4
  IN  U64(id + (2 * position + 1 - 4) * new_lsb)

child_begin(id)           == U64(id - lsb(id) + lsb(id) \div 4)
child_begin_at(id, lvl) == U64(id - lsb(id) + lsb_for_level(lvl))
child_end(id)             == U64(id + lsb(id) + lsb(id) \div 4)
child_end_at(id, lvl)   == U64(id + lsb(id) + lsb_for_level(lvl))

next(id) == U64(id + 2 * lsb(id))
prev(id) == U64(id - 2 * lsb(id))

kWrapOffset == U64(kNumFaces * 2^kPosBits)

next_wrap(id) ==
  LET n == next(id) IN IF n < kWrapOffset THEN n ELSE U64(n - kWrapOffset)

prev_wrap(id) ==
  LET p == prev(id) IN IF p < kWrapOffset THEN p ELSE U64(p + kWrapOffset)

\* (static_cast<uint64_t>(face) << kPosBits) + lsb_for_level(0)
FromFace(f) == U64(U64(U64(f) * 2^kPosBits) + lsb_for_level(0))

\* pos | 1 sets the low bit; parent(level) then rounds to the cell centre.
FromFacePosLevel(f, p, lvl) ==
  LET p1 == IF p % 2 = 1 THEN p ELSE p + 1
  IN  parent_at(U64(U64(U64(f) * 2^kPosBits) + p1), lvl)

Begin(lvl) == child_begin_at(FromFace(0), lvl)
End(lvl)   == child_end_at(FromFace(5), lvl)


(***************************************************************************)
(* The curve-position methods of the primary identifier that its .cc file *)
(* implements.  That file is not part of this repository, so they are     *)
(* modelled from their contracts in s2cell_id_v1.h:330-374 and design     *)
(* section 4.1, on a valid id.  A level's cells are numbered along the    *)
(* curve over all six faces; number k is (2k+1) * lsb, and number          *)
(* kWrapOffset / (2 * lsb) is End(level()).                                *)
(***************************************************************************)
\* id_ >> (2 * (kMaxLevel - level()) + 1)
distance_from_begin(id) == id \div (2 * lsb(id))

\* kWrapOffset >> (2 * (kMaxLevel - level()) + 1)
CellsAtLevel(id) == kWrapOffset \div (2 * lsb(id))

\* Move steps cells along the curve, never before Begin() nor past End().
advance(id, steps) ==
  LET d == distance_from_begin(id)
      s == IF steps < -d THEN -d
           ELSE IF steps > CellsAtLevel(id) - d THEN CellsAtLevel(id) - d
           ELSE steps
  IN  U64(id + s * 2 * lsb(id))

\* Move steps cells along the curve, wrapping between the last and first face.
advance_wrap(id, steps) ==
  LET d == distance_from_begin(id)
  IN  U64(id + (((d + steps) % CellsAtLevel(id)) - d) * 2 * lsb(id))

\* The deepest level whose ancestors of id and other coincide; -1 across faces.
GetCommonAncestorLevel(id, other) ==
  LET common == {l \in 0..MaxLevel : /\ l <= level(id) /\ l <= level(other)
                                     /\ parent_at(id, l) = parent_at(other, l)}
  IN  IF face(id) # face(other) THEN -1
      ELSE CHOOSE l \in common : \A m \in common : m <= l

\* Fault: a tile need not begin at id (its alignment test dropped).
maximum_tile_unaligned(id, limit) ==
  LET start == range_min(id)
      fits(c) == range_max(c) < range_min(limit)
      tiles == {c \in {parent_at(start, l) : l \in 0..MaxLevel} : fits(c)}
  IN  IF start >= range_min(limit) THEN limit
      ELSE CHOOSE c \in tiles : \A t \in tiles : level(c) <= level(t)

\* Fault: the smallest fitting cell is chosen instead of the largest.
maximum_tile_finest(id, limit) ==
  LET start == range_min(id)
      fits(c) == range_min(c) = start /\ range_max(c) < range_min(limit)
      tiles == {c \in {parent_at(start, l) : l \in 0..MaxLevel} : fits(c)}
  IN  IF start >= range_min(limit) THEN limit
      ELSE CHOOSE c \in tiles : \A t \in tiles : level(c) >= level(t)

(***************************************************************************)
(* The largest cell with range_min() = id.range_min() and range_max() <    *)
(* limit.range_min(), or limit when id.range_min() >= limit.range_min().   *)
(* The candidates are the ancestors of the first leaf of id.               *)
(***************************************************************************)
maximum_tile(id, limit) ==
  LET start == range_min(id)
      fits(c) == range_min(c) = start /\ range_max(c) < range_min(limit)
      tiles == {c \in {parent_at(start, l) : l \in 0..MaxLevel} : fits(c)}
  IN  IF start >= range_min(limit) THEN limit
      ELSE CHOOSE c \in tiles : \A t \in tiles : level(c) <= level(t)

=============================================================================
