------------------------------ MODULE CellTree ------------------------------
(***************************************************************************)
(* What a cell identifier promises, independent of any encoding: a cell is *)
(* a face 0..5 and the sequence of child positions (0..3) from the face    *)
(* down to it, at most Depth long.  The cells of one level are ordered     *)
(* along the space-filling curve, which (the child positions being         *)
(* Hilbert-curve positions already) is the lexicographic order on face     *)
(* and positions.  NoCell stands for every invalid identifier.             *)
(*                                                                         *)
(* The state is a caller's cursor: the cell it holds and the last call it *)
(* made, with its inputs.  Each action is one method of the identifier    *)
(* API, applied to the cursor and storing the result in it.                *)
(***************************************************************************)
EXTENDS Integers, Sequences

CONSTANTS
  Depth,           \* deepest level an identifier can name
  LeafDepth,       \* deepest level of the primary identifier
  FaceInputs,      \* face arguments callers pass
  LevelInputs,     \* level arguments callers pass
  PositionInputs,  \* child-position arguments callers pass
  PosInputs,       \* Hilbert positions passed to FromFacePosLevel
  OldInputs,       \* primary cells passed to FromS2CellId (as cells)
  RawInputs,       \* cells restored from a raw word (as cells)
  StepInputs,      \* step counts passed to advance and advance_wrap
  LimitInputs      \* limits passed to maximum_tile (as cells)

VARIABLES cell, call

vars == <<cell, call>>

Faces  == 0..5
NoCell == [face |-> -1, path |-> << >>]

CellsAt(n)  == [face : Faces, path : [1..n -> 0..3]]
Cells       == UNION {CellsAt(n) : n \in 0..Depth}
CellOrNone  == Cells \cup {NoCell}

Lvl(c)      == Len(c.path)
Zeros(n)    == [i \in 1..n |-> 0]
Threes(n)   == [i \in 1..n |-> 3]

\* Curve order: the rank of a cell among the 6 * 4^n cells of its level.
Index(c) ==
  LET rank[i \in 0..Len(c.path)] ==
        IF i = 0 THEN c.face ELSE 4 * rank[i - 1] + c.path[i]
  IN  rank[Len(c.path)]
CellAt(n, k) == [face |-> k \div 4^n,
                 path |-> [j \in 1..n |-> (k \div 4^(n - j)) % 4]]
NumAt(n)    == 6 * 4^n

Succ(c) == IF c = NoCell \/ Index(c) + 1 >= NumAt(Lvl(c)) THEN NoCell
           ELSE CellAt(Lvl(c), Index(c) + 1)
Pred(c) == IF c = NoCell \/ Index(c) = 0 THEN NoCell
           ELSE CellAt(Lvl(c), Index(c) - 1)
SuccWrap(c) == IF c = NoCell THEN NoCell
               ELSE CellAt(Lvl(c), (Index(c) + 1) % NumAt(Lvl(c)))
PredWrap(c) == IF c = NoCell THEN NoCell
               ELSE CellAt(Lvl(c), (Index(c) - 1) % NumAt(Lvl(c)))

\* The first cell of level t below c, or NoCell.
FirstBelow(c, t) == IF c = NoCell THEN NoCell
                    ELSE [c EXCEPT !.path = @ \o Zeros(t - Lvl(c))]

\* A cell given by the Hilbert position of one of its leaf descendants.
PosCell(f, p, l) == [face |-> f,
                     path |-> [j \in 1..l |-> (p \div 2^(2 * (LeafDepth - j) + 1)) % 4]]

\* The span of leaves below c, as leaf numbers [Lo(c), Lo(c) + Span(c)).
\* No cell stands for one past the last leaf (End).
Span(c) == 4^(LeafDepth - Lvl(c))
Lo(c)   == IF c = NoCell THEN NumAt(LeafDepth) ELSE Index(c) * Span(c)

\* The deepest level at which a and b have the same ancestor; -1 across faces.
CommonLevel(a, b) ==
  IF a.face # b.face THEN -1
  ELSE CHOOSE t \in 0..Depth :
         /\ t <= Lvl(a) /\ t <= Lvl(b)
         /\ SubSeq(a.path, 1, t) = SubSeq(b.path, 1, t)
         /\ (t < Lvl(a) /\ t < Lvl(b)) => a.path[t + 1] # b.path[t + 1]

(***************************************************************************)
(* The largest cell that starts where c starts and ends before lim starts: *)
(* the shallowest level t whose cells align with Lo(c) and still fit.      *)
(* A fitting cell deeper than Depth has no identifier.                     *)
(***************************************************************************)
Tile(c, lim) ==
  LET fits(t) == Lo(c) % 4^(LeafDepth - t) = 0
                 /\ Lo(c) + 4^(LeafDepth - t) <= Lo(lim)
      t == CHOOSE t \in 0..LeafDepth : fits(t) /\ \A u \in 0..LeafDepth : fits(u) => t <= u
  IN  IF Lo(c) >= Lo(lim) THEN lim
      ELSE IF t > Depth THEN NoCell
      ELSE CellAt(t, Lo(c) \div 4^(LeafDepth - t))

-----------------------------------------------------------------------------
Init == cell = NoCell /\ call = <<"None">>

\* The call is compared first, and each guard comes after its Set: the
\* label tells the actions apart before any cell is computed.
Set(c, label) == call' = label /\ cell' = c

FromFace(f) ==
  Set(IF f \in Faces THEN [face |-> f, path |-> << >>] ELSE NoCell, <<"FromFace", f>>)

FromFaceLevel(f, l) ==
  Set(IF f \in Faces /\ l \in 0..Depth THEN [face |-> f, path |-> Zeros(l)] ELSE NoCell,
      <<"FromFaceLevel", f, l>>)

FromFacePosLevel(f, p, l) ==
  Set(IF l <= Depth THEN PosCell(f, p, l) ELSE NoCell, <<"FromFacePosLevel", f, p, l>>)

FromS2CellId(o) ==
  Set(IF o # NoCell /\ Lvl(o) <= Depth THEN o ELSE NoCell, <<"FromS2CellId", o>>)

FromRaw(c) == Set(c, <<"FromRaw", c>>)

Sentinel == Set(NoCell, <<"Sentinel">>)

Begin(l) == Set(IF l <= Depth THEN [face |-> 0, path |-> Zeros(l)] ELSE NoCell, <<"Begin", l>>)

\* One past the last cell of the level: never a cell.
End(l) == Set(NoCell, <<"End", l>>)

Parent ==
  Set(IF cell = NoCell \/ Lvl(cell) = 0 THEN NoCell
      ELSE [cell EXCEPT !.path = SubSeq(@, 1, Len(@) - 1)], <<"Parent">>)

ParentAt(t) ==
  /\ Set(CASE t < 0 \/ t > Depth -> NoCell
           [] t >= Lvl(cell)     -> cell
           [] OTHER              -> [cell EXCEPT !.path = SubSeq(@, 1, t)],
         <<"ParentAt", t>>)
  /\ cell # NoCell

Child(k) ==
  Set(IF cell = NoCell \/ k \notin 0..3 \/ Lvl(cell) >= Depth THEN NoCell
      ELSE [cell EXCEPT !.path = Append(@, k)], <<"Child", k>>)

ChildBegin ==
  Set(IF cell = NoCell \/ Lvl(cell) >= Depth THEN NoCell
      ELSE [cell EXCEPT !.path = Append(@, 0)], <<"ChildBegin">>)

ChildBeginAt(t) ==
  /\ Set(IF t > Depth \/ t <= Lvl(cell) THEN NoCell ELSE FirstBelow(cell, t),
         <<"ChildBeginAt", t>>)
  /\ cell # NoCell

\* One past the last child: the first child of the next cell of the level.
ChildEnd ==
  /\ Set(IF Lvl(cell) >= Depth THEN NoCell ELSE FirstBelow(Succ(cell), Lvl(cell) + 1),
         <<"ChildEnd">>)
  /\ cell # NoCell

ChildEndAt(t) ==
  /\ Set(IF t > Depth \/ t <= Lvl(cell) THEN NoCell ELSE FirstBelow(Succ(cell), t),
         <<"ChildEndAt", t>>)
  /\ cell # NoCell

Next     == Set(Succ(cell), <<"Next">>)
Prev     == Set(Pred(cell), <<"Prev">>)
NextWrap == Set(SuccWrap(cell), <<"NextWrap">>) /\ cell # NoCell
PrevWrap == Set(PredWrap(cell), <<"PrevWrap">>) /\ cell # NoCell

\* The first and last descendants at the deepest level.
RangeMin == Set(FirstBelow(cell, Depth), <<"RangeMin">>)
RangeMax ==
  Set(IF cell = NoCell THEN NoCell
      ELSE [cell EXCEPT !.path = @ \o Threes(Depth - Lvl(cell))], <<"RangeMax">>)

\* Steps along the level, clamped to [first cell, End], End being no cell.
Advance(s) ==
  LET k == Index(cell) + s
      m == IF k < 0 THEN 0 ELSE IF k > NumAt(Lvl(cell)) THEN NumAt(Lvl(cell)) ELSE k
  IN  /\ Set(IF m = NumAt(Lvl(cell)) THEN NoCell ELSE CellAt(Lvl(cell), m), <<"Advance", s>>)
      /\ cell # NoCell

AdvanceWrap(s) ==
  /\ Set(CellAt(Lvl(cell), (Index(cell) + s) % NumAt(Lvl(cell))), <<"AdvanceWrap", s>>)
  /\ cell # NoCell

MaximumTile(lim) == Set(Tile(cell, lim), <<"MaximumTile", lim>>) /\ cell # NoCell

NextStep ==
  \/ \E f \in FaceInputs : FromFace(f)
  \/ \E f \in FaceInputs, l \in LevelInputs : FromFaceLevel(f, l)
  \/ \E f \in FaceInputs \cap Faces, p \in PosInputs, l \in LevelInputs \cap Nat : FromFacePosLevel(f, p, l)
  \/ \E o \in OldInputs : FromS2CellId(o)
  \/ \E c \in RawInputs : FromRaw(c)
  \/ Sentinel
  \/ \E l \in LevelInputs \cap Nat : Begin(l) \/ End(l)
  \/ Parent
  \/ \E t \in LevelInputs : ParentAt(t) \/ ChildBeginAt(t) \/ ChildEndAt(t)
  \/ \E k \in PositionInputs : Child(k)
  \/ ChildBegin \/ ChildEnd
  \/ Next \/ Prev \/ NextWrap \/ PrevWrap
  \/ RangeMin \/ RangeMax
  \/ \E s \in StepInputs : Advance(s) \/ AdvanceWrap(s)
  \/ \E lim \in LimitInputs : MaximumTile(lim)

Spec == Init /\ [][NextStep]_vars

=============================================================================
