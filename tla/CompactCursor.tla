---------------------------- MODULE CompactCursor ----------------------------
(***************************************************************************)
(* A caller holding one compact S2CellId (src/src/s2/s2cell_id.h) and      *)
(* replacing it with the result of one API call after another.  cell is   *)
(* the new_id_ word the caller holds, call the last call and its inputs.  *)
(* Every factory and every navigation method that yields an S2CellId is    *)
(* an action; its result is the S2CellIdV2 operator of the same name.      *)
(*                                                                         *)
(* The methods that delegate to a primary-identifier method which          *)
(* ABSL_DCHECKs is_valid() (s2cell_id_v1.h:650, 683, 690, 697, 712, 719)  *)
(* without a check of their own are called only on a valid cell: the      *)
(* contract of section 4.1 of the design, which a debug build enforces.    *)
(* Methods that test is_valid() themselves are called on anything.         *)
(***************************************************************************)
EXTENDS S2CellIdV2

CONSTANTS
  FaceInputs,      \* int face arguments
  LevelInputs,     \* int level arguments
  PositionInputs,  \* int child positions for child()
  PosInputs,       \* uint64 Hilbert positions for FromFacePosLevel
  OldInputs,       \* primary ids passed to FromS2CellId
  RawInputs,       \* words passed to the explicit S2CellId(uint64_t) constructor
  StepInputs,      \* int64 steps for advance and advance_wrap
  LimitInputs      \* compact ids passed as the limit of maximum_tile

VARIABLES cell, call

vars == <<cell, call>>

Set(v, label) == cell' = v /\ call' = label

Init == cell = None /\ call = <<"None">>

CallFromFace(f)          == Set(FromFace(f), <<"FromFace", f>>)
CallFromFaceLevel(f, l)  == Set(FromFaceLevel(f, l), <<"FromFaceLevel", f, l>>)
CallFromFacePosLevel(f, p, l) ==
  Set(FromFacePosLevel(f, p, l), <<"FromFacePosLevel", f, p, l>>)
CallFromS2CellId(o)      == Set(FromS2CellId(o), <<"FromS2CellId", o>>)
CallFromRaw(w)           == Set(w, <<"FromRaw", w>>)
CallSentinel             == Set(Sentinel, <<"Sentinel">>)
CallBegin(l)             == Set(Begin(l), <<"Begin", l>>)
CallEnd(l)               == Set(End(l), <<"End", l>>)

Parent       == Set(parent(cell), <<"Parent">>)
ParentAt(t)  == is_valid(cell) /\ Set(parent_at(cell, t), <<"ParentAt", t>>)
Child(k)     == Set(child(cell, k), <<"Child", k>>)
ChildBegin   == Set(child_begin(cell), <<"ChildBegin">>)
ChildBeginAt(t) == is_valid(cell) /\ Set(child_begin_at(cell, t), <<"ChildBeginAt", t>>)
ChildEnd     == is_valid(cell) /\ Set(child_end(cell), <<"ChildEnd">>)
ChildEndAt(t) == is_valid(cell) /\ Set(child_end_at(cell, t), <<"ChildEndAt", t>>)
Next         == Set(next(cell), <<"Next">>)
Prev         == Set(prev(cell), <<"Prev">>)
NextWrap     == is_valid(cell) /\ Set(next_wrap(cell), <<"NextWrap">>)
PrevWrap     == is_valid(cell) /\ Set(prev_wrap(cell), <<"PrevWrap">>)
RangeMin     == Set(range_min(cell), <<"RangeMin">>)
RangeMax     == Set(range_max(cell), <<"RangeMax">>)

\* level() of the converted id runs under ABSL_ASSUME(id_ != 0), and
\* advance_wrap requires a valid cell: both are called on valid cells.
Advance(s)     == is_valid(cell) /\ Set(advance(cell, s), <<"Advance", s>>)
AdvanceWrap(s) == is_valid(cell) /\ Set(advance_wrap(cell, s), <<"AdvanceWrap", s>>)
MaximumTile(l) == is_valid(cell) /\ Set(maximum_tile(cell, l), <<"MaximumTile", l>>)

NextStep ==
  \/ \E f \in FaceInputs : CallFromFace(f)
  \/ \E f \in FaceInputs, l \in LevelInputs : CallFromFaceLevel(f, l)
  \/ \E f \in FaceInputs \cap 0..5, p \in PosInputs, l \in LevelInputs \cap Nat :
        CallFromFacePosLevel(f, p, l)
  \/ \E o \in OldInputs : CallFromS2CellId(o)
  \/ \E w \in RawInputs : CallFromRaw(w)
  \/ CallSentinel
  \/ \E l \in LevelInputs \cap Nat : CallBegin(l) \/ CallEnd(l)
  \/ Parent
  \/ \E t \in LevelInputs : ParentAt(t) \/ ChildBeginAt(t) \/ ChildEndAt(t)
  \/ \E k \in PositionInputs : Child(k)
  \/ ChildBegin \/ ChildEnd
  \/ Next \/ Prev \/ NextWrap \/ PrevWrap
  \/ RangeMin \/ RangeMax
  \/ \E s \in StepInputs : Advance(s) \/ AdvanceWrap(s)
  \/ \E l \in LimitInputs : MaximumTile(l)

Spec == Init /\ [][NextStep]_vars

-----------------------------------------------------------------------------
(***************************************************************************)
(* The cell a word names: its face and its child positions, read with      *)
(* child_position(level); every invalid word names no cell.               *)
(***************************************************************************)
NoCell == [face |-> -1, path |-> << >>]

Decode(v) ==
  IF is_valid(v)
  THEN [face |-> face(v), path |-> [j \in 1..level(v) |-> child_position_at(v, j)]]
  ELSE NoCell

\* The cell a primary id names, read with its child_position(level).
DecodeOld(o) ==
  IF V1!is_valid(o)
  THEN [face |-> V1!face(o),
        path |-> [j \in 1..V1!level(o) |-> V1!child_position_at(o, j)]]
  ELSE NoCell

MapCall(c) ==
  CASE c[1] = "FromS2CellId" -> <<"FromS2CellId", DecodeOld(c[2])>>
    [] c[1] = "FromRaw"      -> <<"FromRaw", Decode(c[2])>>
    [] c[1] = "MaximumTile"  -> <<"MaximumTile", Decode(c[2])>>
    [] OTHER                 -> c

\* The input sets of the cell tree: the cells the inputs decode to.
TreeOldInputs   == {DecodeOld(o) : o \in OldInputs}
TreeRawInputs   == {Decode(w) : w \in RawInputs}
TreeLimitInputs == {Decode(w) : w \in LimitInputs}

Tree == INSTANCE CellTree WITH
          Depth <- CMaxLevel, LeafDepth <- MaxLevel,
          OldInputs <- TreeOldInputs,
          RawInputs <- TreeRawInputs,
          LimitInputs <- TreeLimitInputs,
          cell <- Decode(cell), call <- MapCall(call)

-----------------------------------------------------------------------------
\* The cursor always holds a 64-bit word.
TypeOK == cell \in 0..(V1!IdSpace - 1)

(***************************************************************************)
(* Every call behaves as the cell tree says: Decode of the word after a    *)
(* call is the abstract result of the same call on the decoded cell.  This *)
(* covers the root-marker handling in parent(), the two branches of        *)
(* parent(level), both conversion routines and every delegation.           *)
(***************************************************************************)
RefinesTree == Tree!Spec

(***************************************************************************)
(* The two queries that return numbers, not cells, agree with the tree:    *)
(* distance_from_begin() is the cell's rank along its level, and           *)
(* GetCommonAncestorLevel(other) the length of the common path prefix (-1 *)
(* across faces), both computed by the primary identifier on converted     *)
(* ids (s2cell_id.h:548-556).                                              *)
(***************************************************************************)
QueriesAgree ==
  is_valid(cell) =>
    /\ distance_from_begin(cell) = Tree!Index(Decode(cell))
    /\ \A o \in LimitInputs :
         is_valid(o) => GetCommonAncestorLevel(cell, o) = Tree!CommonLevel(Decode(cell), Decode(o))

(***************************************************************************)
(* A valid word the cursor holds is the one encoding of its cell that the  *)
(* layout of design section 3 allows: face, path and level fields with     *)
(* nothing else set, the root marker only for face 0 at level 0.  Then     *)
(* == on new_id_ agrees with operator< (which compares converted ids), and *)
(* the mapping between the two formats is the bijection section 3 says.   *)
(***************************************************************************)
Canonical == is_valid(cell) => cell = LayoutWord(face(cell), path(cell), level(cell))

(***************************************************************************)
(* Sentinel() is greater than every valid cell under operator<, as the     *)
(* primary identifier documents (s2cell_id_v1.h:139-141, design section 3).*)
(***************************************************************************)
SentinelGreatest == is_valid(cell) => Less(cell, Sentinel)

(***************************************************************************)
(* child_begin(level()) of a valid cell is the cell itself, as for the    *)
(* primary identifier, whose child_begin(level) accepts level ==          *)
(* this->level() (s2cell_id_v1.h:684).                                    *)
(***************************************************************************)
ChildBeginOwnLevel ==
  [][is_valid(cell) /\ call'[1] = "ChildBeginAt" /\ call'[2] = level(cell)
       => cell' = cell]_vars

=============================================================================
