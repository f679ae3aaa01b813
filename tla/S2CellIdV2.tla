----------------------------- MODULE S2CellIdV2 -----------------------------
(***************************************************************************)
(* The compact cell identifier S2CellId of src/src/s2/s2cell_id.h: a       *)
(* uint64 new_id_ = [face:3][path:kPathBits][level:5], the path holding    *)
(* one 2-bit child position per level, root first, right-aligned.  Level   *)
(* is capped at kMaxLevel = 28 (CMaxLevel here), two below the primary    *)
(* identifier's cap.  Face 0 at level 0 would be the all-zero word, which  *)
(* is None, so that one cell is encoded as the top path bit (RootMarker).  *)
(*                                                                         *)
(* Everything that needs curve positions delegates to the primary          *)
(* identifier (module S2CellIdV1, instanced as V1) through the two         *)
(* conversion routines ConvertToOldFormat and ConvertFromOldFormat.        *)
(***************************************************************************)
EXTENDS Integers, Sequences

CONSTANTS
  MaxLevel,        \* s2v1::S2CellId::kMaxLevel (30)
  CMaxLevel,       \* S2CellId::kMaxLevel (28)
  ParentHopLimit   \* parent(level) delegates to V1 beyond this many levels (5)

V1 == INSTANCE S2CellIdV1

kFaceBits  == 3
kNumFaces  == 6
kLevelBits == 5
kPathBits  == V1!Width - kFaceBits - kLevelBits   \* 56 for a 64-bit word

ASSUME CompactLayoutAssumption ==
  /\ CMaxLevel \in 1..(MaxLevel - 1)
  /\ 2 * CMaxLevel <= kPathBits
  /\ CMaxLevel < 2^kLevelBits
  /\ ParentHopLimit \in Nat \ {0}

\* The primary layout's assumptions, for its instance V1.
ASSUME PrimaryAssumption == V1!MaxLevelAssumption /\ V1!PowersOfTwoAssumption

None     == 0
Sentinel == V1!IdSpace - 1

FaceUnit   == 2^(V1!Width - kFaceBits)        \* 1 << (64 - kFaceBits)
LevelUnit  == 2^kLevelBits                    \* kLevelMask + 1
PathUnit   == 2^kPathBits                     \* (1 << kPathBits) - 1 is the mask
RootMarker == 2^(kLevelBits + kPathBits - 1)  \* top bit of the path field

\* (new_id_ >> kLevelBits) & ((1 << kPathBits) - 1)
RawPath(v) == (v \div LevelUnit) % PathUnit

(***************************************************************************)
(* (face << (64 - kFaceBits)) | (path << kLevelBits) | level.  Wherever    *)
(* the code builds an id, path < 4^level and level < 32, so the three      *)
(* fields are disjoint and | is +.                                         *)
(***************************************************************************)
Pack(f, p, l) == V1!U64(f * FaceUnit) + V1!U64(p * LevelUnit) + l

\* The word the layout gives the cell of face f, path p and level l: the
\* three fields, or the root marker for the face-0 root.
LayoutWord(f, p, l) ==
  IF f = 0 /\ l = 0 THEN RootMarker ELSE f * FaceUnit + p * LevelUnit + l

\* A plausible fault: the marker set on every root, used as a "valid" bit.
RootFixAlways(id) == id + RootMarker

\* The face-0 root fix-up: an id that came out 0 becomes RootMarker.
RootFix(id) == IF id = 0 THEN RootMarker ELSE id

face(v)  == IF v = RootMarker THEN 0 ELSE v \div FaceUnit
level(v) == IF v = RootMarker THEN 0 ELSE v % LevelUnit

path(v) ==
  LET l == level(v)
  IN  IF l = 0 THEN 0
      ELSE IF l <= CMaxLevel THEN RawPath(v) % 2^(2 * l)
      ELSE RawPath(v)

is_valid(v) ==
  LET f == v \div FaceUnit
      l == v % LevelUnit
  IN  /\ v # 0
      /\ \/ l = 0 /\ f = 0 /\ v = RootMarker
         \/ /\ f < kNumFaces
            /\ l <= CMaxLevel
            /\ \/ l = 0
               \/ 2 * l >= kPathBits
               \/ RawPath(v) \div 2^(2 * l) = 0

is_leaf(v) == level(v) = CMaxLevel
is_face(v) == level(v) = 0

child_position_at(v, t) ==
  IF ~is_valid(v) \/ t <= 0 \/ t > level(v) THEN -1
  ELSE (path(v) \div 2^(2 * (level(v) - t))) % 4

child_position(v) ==
  IF ~is_valid(v) \/ level(v) = 0 THEN -1 ELSE path(v) % 4

\* A plausible fault: the path read least significant digit first.
ConvertToOldFormatLsbFirst(v) ==
  LET f == v \div FaceUnit
      l == v % LevelUnit
      p == RawPath(v)
      down[i \in 0..l] ==
        IF i = 0 THEN V1!FromFace(f)
        ELSE IF down[i - 1] = V1!None THEN V1!None
        ELSE LET c == V1!child(down[i - 1], (p \div 2^(2 * (i - 1))) % 4)
             IN  IF V1!is_valid(c) THEN c ELSE V1!None
  IN  IF v = 0 THEN V1!None
      ELSE IF v = RootMarker THEN V1!FromFace(0)
      ELSE IF f >= kNumFaces THEN V1!None
      ELSE IF l > CMaxLevel THEN V1!None
      ELSE IF l = 0 THEN V1!FromFace(f)
      ELSE down[l]

(***************************************************************************)
(* ConvertToOldFormat: start from the face cell and call V1 child() once   *)
(* per level with the path read most significant first; an invalid        *)
(* intermediate result returns None (and None stays None below).           *)
(***************************************************************************)
ConvertToOldFormat(v) ==
  LET f == v \div FaceUnit
      l == v % LevelUnit
      p == RawPath(v)
      down[i \in 0..l] ==
        IF i = 0 THEN V1!FromFace(f)
        ELSE IF down[i - 1] = V1!None THEN V1!None
        ELSE LET c == V1!child(down[i - 1], (p \div 2^(2 * (l - i))) % 4)
             IN  IF V1!is_valid(c) THEN c ELSE V1!None
  IN  IF v = 0 THEN V1!None
      ELSE IF v = RootMarker THEN V1!FromFace(0)
      ELSE IF f >= kNumFaces THEN V1!None
      ELSE IF l > CMaxLevel THEN V1!None
      ELSE IF l = 0 THEN V1!FromFace(f)
      ELSE down[l]

(***************************************************************************)
(* ConvertFromOldFormat: climb with child_position()/parent() until level  *)
(* 0, pushing positions leaf first; check the root's face; then pack the   *)
(* stack from its top, so that the root's position ends up most            *)
(* significant.  For a valid id the climb takes level() <= MaxLevel steps; *)
(* the function runs MaxLevel rounds, each guarded by the loop condition.  *)
(* The code's check that a child position is in 0..3 cannot fail (it is   *)
(* masked with & 3) and is left out.                                       *)
(***************************************************************************)
PackStack(stack) ==
  LET n == Len(stack)
      acc[j \in 0..n] ==
        IF j = 0 THEN 0 ELSE V1!U64(acc[j - 1] * 4) + stack[n - j + 1]
  IN  acc[n]

ConvertFromOldFormat(o) ==
  LET f == V1!face(o)
      l == V1!level(o)
      climb[k \in 0..MaxLevel] ==
        IF k = 0 THEN [cur |-> o, stack |-> << >>]
        ELSE LET s == climb[k - 1]
             IN  IF V1!level(s.cur) > 0
                 THEN [cur   |-> V1!parent(s.cur),
                       stack |-> Append(s.stack, V1!child_position(s.cur))]
                 ELSE s
      top == climb[MaxLevel]
  IN  IF ~V1!is_valid(o) THEN None
      ELSE IF l > CMaxLevel THEN None
      ELSE IF f < 0 \/ f >= kNumFaces THEN None
      ELSE IF l = 0 THEN RootFix(V1!U64(f * FaceUnit))
      ELSE IF V1!face(top.cur) # f THEN None
      ELSE Pack(f, PackStack(top.stack), l)

\* The pattern of every delegating navigation method: a result deeper than
\* kMaxLevel is None, anything else goes through the converting constructor.
Delegate(o) == IF V1!level(o) > CMaxLevel THEN None ELSE ConvertFromOldFormat(o)

\* old_id.level() > kMaxLevel ? old_id.parent(kMaxLevel) : old_id
Truncate(o) == IF V1!level(o) > CMaxLevel THEN V1!parent_at(o, CMaxLevel) ELSE o

(***************************************************************************)
(* Factories.                                                              *)
(***************************************************************************)
FromS2CellId(o) == ConvertFromOldFormat(o)

FromFace(f) == ConvertFromOldFormat(V1!FromFace(f))

FromFaceLevel(f, l) ==
  LET o == V1!FromFacePosLevel(f, 0, l)
  IN  IF f < 0 \/ f > 5 \/ l < 0 \/ l > CMaxLevel THEN None
      ELSE IF l = 0 THEN RootFix(V1!U64(f * FaceUnit) + l)
      ELSE IF ~V1!is_valid(o) THEN None
      ELSE ConvertFromOldFormat(o)

FromFacePosLevel(f, p, l) ==
  IF l > CMaxLevel THEN None
  ELSE ConvertFromOldFormat(V1!FromFacePosLevel(f, p, l))

Begin(l) == IF l > CMaxLevel THEN None ELSE ConvertFromOldFormat(V1!Begin(l))
End(l)   == IF l > CMaxLevel THEN None ELSE ConvertFromOldFormat(V1!End(l))

(***************************************************************************)
(* Hierarchy, computed on the compact layout.                              *)
(***************************************************************************)
parent(v) ==
  IF ~is_valid(v) \/ level(v) = 0 THEN None
  ELSE RootFix(Pack(face(v), path(v) \div 4, level(v) - 1))

\* Short hops climb with parent() while level() > target; long hops delegate.
parent_at(v, t) ==
  LET hops == level(v) - t
      up[k \in 0..hops] ==
        IF k = 0 THEN v
        ELSE IF level(up[k - 1]) > t THEN parent(up[k - 1]) ELSE up[k - 1]
  IN  IF t < 0 \/ t > CMaxLevel THEN None
      ELSE IF t >= level(v) THEN v
      ELSE IF hops > ParentHopLimit
           THEN ConvertFromOldFormat(V1!parent_at(ConvertToOldFormat(v), t))
      ELSE up[hops]

\* A plausible fault: the depth check off by one (> for >=).
child_offbyone(v, position) ==
  IF \/ ~is_valid(v)
     \/ position < 0 \/ position >= 4
     \/ level(v) > CMaxLevel
  THEN None
  ELSE Pack(face(v), path(v) * 4 + position, level(v) + 1)

child(v, position) ==
  IF \/ ~is_valid(v)
     \/ position < 0 \/ position >= 4
     \/ level(v) >= CMaxLevel
  THEN None
  ELSE Pack(face(v), path(v) * 4 + position, level(v) + 1)

(***************************************************************************)
(* Iteration and navigation, delegated.                                    *)
(***************************************************************************)
child_begin(v) == IF level(v) >= CMaxLevel THEN None ELSE child(v, 0)

child_begin_at(v, t) ==
  IF t > CMaxLevel \/ t <= level(v) THEN None
  ELSE ConvertFromOldFormat(V1!child_begin_at(ConvertToOldFormat(v), t))

child_end(v) ==
  IF level(v) >= CMaxLevel THEN None
  ELSE Delegate(V1!child_end(ConvertToOldFormat(v)))

child_end_at(v, t) ==
  IF t > CMaxLevel \/ t <= level(v) THEN None
  ELSE ConvertFromOldFormat(V1!child_end_at(ConvertToOldFormat(v), t))

next(v)      == Delegate(V1!next(ConvertToOldFormat(v)))
prev(v)      == Delegate(V1!prev(ConvertToOldFormat(v)))
next_wrap(v) == Delegate(V1!next_wrap(ConvertToOldFormat(v)))
prev_wrap(v) == Delegate(V1!prev_wrap(ConvertToOldFormat(v)))

\* range_min()/range_max(): each failure returns None; a leaf result is
\* truncated to its kMaxLevel ancestor.
RangeEnd(v, R(_)) ==
  LET o == ConvertToOldFormat(v)
      r == R(o)
  IN  IF ~is_valid(v) THEN None
      ELSE IF ~V1!is_valid(o) THEN None
      ELSE IF ~V1!is_valid(r) THEN None
      ELSE ConvertFromOldFormat(Truncate(r))

range_min(v) == RangeEnd(v, V1!range_min)
range_max(v) == RangeEnd(v, V1!range_max)

(***************************************************************************)
(* Comparisons: == on new_id_, the order on the converted primary ids.     *)
(***************************************************************************)
Less(a, b) == ConvertToOldFormat(a) < ConvertToOldFormat(b)

contains(a, b) == V1!contains(ConvertToOldFormat(a), ConvertToOldFormat(b))


(***************************************************************************)
(* Traversal and analysis: convert, call the primary method, and for a     *)
(* cell result apply the level check of the delegated result.              *)
(***************************************************************************)
maximum_tile(v, limit) ==
  Delegate(V1!maximum_tile(ConvertToOldFormat(v), ConvertToOldFormat(limit)))

advance(v, steps)      == Delegate(V1!advance(ConvertToOldFormat(v), steps))
advance_wrap(v, steps) == Delegate(V1!advance_wrap(ConvertToOldFormat(v), steps))

GetCommonAncestorLevel(a, b) ==
  V1!GetCommonAncestorLevel(ConvertToOldFormat(a), ConvertToOldFormat(b))

\* Fault: the compact word is read as a primary id, without ToOldFormat().
distance_from_begin_raw(v) == V1!distance_from_begin(v)

distance_from_begin(v) == V1!distance_from_begin(ConvertToOldFormat(v))

=============================================================================
