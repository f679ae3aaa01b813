------------------------- MODULE CompactCursor_proofs -------------------------
(***************************************************************************)
(* Proofs about the caller of the compact API, for every word width.       *)
(***************************************************************************)
EXTENDS CompactCursor, S2CellIdV2_proofs, TLAPS

\* A valid canonical word is the canonical word of its own fields.
LEMMA CanonicalWord ==
  ASSUME NEW v \in 0..(V1!IdSpace - 1), is_valid(v),
         v = LayoutWord(face(v), path(v), level(v))
  PROVE  /\ Fields(face(v), path(v), level(v))
         /\ v = Canon(face(v), path(v), level(v))
<1>1. Fields(face(v), path(v), level(v))
  BY ValidFields
<1>. QED
  BY <1>1, CanonFields

\* The canonical word of a cell satisfies the canonical-layout predicate.
LEMMA CanonIsLayout ==
  ASSUME NEW f, NEW p, NEW l, Fields(f, p, l)
  PROVE  LET v == Canon(f, p, l)
         IN  is_valid(v) => v = LayoutWord(face(v), path(v), level(v))
BY CanonFields

\* Replacing the path of a cell record keeps its face.
LEMMA RecordPathUpdate ==
  ASSUME NEW a, NEW b, NEW c
  PROVE  [[face |-> a, path |-> b] EXCEPT !.path = c] = [face |-> a, path |-> c]
<1>. DEFINE r == [face |-> a, path |-> b]
<1>1. [r EXCEPT !.path = c] = [k \in DOMAIN r |-> IF k = "path" THEN c ELSE r[k]]
  OBVIOUS
<1>2. DOMAIN r = {"face", "path"} /\ r.face = a
  OBVIOUS
<1>3. [k \in {"face", "path"} |-> IF k = "path" THEN c ELSE r[k]] = [face |-> a, path |-> c]
  BY <1>2
<1>. QED
  BY <1>1, <1>2, <1>3

\* No operation yields a valid None.
LEMMA NoneInvalid == ~is_valid(None)
BY DEF is_valid, None

(***************************************************************************)
(* The two hierarchy methods that s2cell_id.h computes on the compact word *)
(* itself, parent() (lines 305-323) and child(k) (lines 345-359), keep the *)
(* cursor's word in the canonical layout the Canonical invariant states:   *)
(* from a canonical word they reach None or the canonical word of the      *)
(* parent or child cell.  Only the raw constructor brings in a word that   *)
(* is not canonical (run noncanonical_raw_word).                           *)
(***************************************************************************)
THEOREM HierarchyKeepsCanonical ==
  ASSUME TypeOK, Canonical, Parent \/ \E k \in Int : Child(k)
  PROVE  Canonical'
<1>1. CASE ~is_valid(cell)
  <2>1. cell' = None
    BY <1>1 DEF Parent, Child, Set, parent, child
  <2>. QED
    BY <2>1, NoneInvalid DEF Canonical
<1>2. CASE is_valid(cell)
  <2>. DEFINE f == face(cell)  p == path(cell)  l == level(cell)
  <2>1. Fields(f, p, l) /\ cell = Canon(f, p, l)
    BY <1>2, CanonicalWord DEF TypeOK, Canonical
  <2>2. CASE Parent
    <3>1. CASE l > 0
      <4>a. Fields(f, p \div 4, l - 1) /\ parent(Canon(f, p, l)) = Canon(f, p \div 4, l - 1)
        BY <2>1, <3>1, ParentCanon
      <4>b. LET v == Canon(f, p \div 4, l - 1)
            IN  is_valid(v) => v = LayoutWord(face(v), path(v), level(v))
        BY <4>a, CanonIsLayout
      <4>. QED
        BY <2>1, <2>2, <4>a, <4>b DEF Parent, Set, Canonical
    <3>2. CASE l = 0
      BY <2>1, <2>2, <3>2, ParentCanon, NoneInvalid DEF Parent, Set, Canonical
    <3>. QED
      BY <2>1, <3>1, <3>2, FieldsFacts
  <2>3. CASE \E k \in Int : Child(k)
    <3>1. PICK k \in Int : Child(k)
      BY <2>3
    <3>2. CASE k \in 0..3 /\ l < CMaxLevel
      <4>a. Fields(f, p * 4 + k, l + 1) /\ child(Canon(f, p, l), k) = Canon(f, p * 4 + k, l + 1)
        BY <2>1, <3>2, ChildCanon
      <4>b. LET v == Canon(f, p * 4 + k, l + 1)
            IN  is_valid(v) => v = LayoutWord(face(v), path(v), level(v))
        BY <4>a, CanonIsLayout
      <4>. QED
        BY <2>1, <3>1, <4>a, <4>b DEF Child, Set, Canonical
    <3>3. CASE ~(k \in 0..3 /\ l < CMaxLevel)
      BY <2>1, <3>1, <3>3, ChildCanon, NoneInvalid DEF Child, Set, Canonical
    <3>. QED
      BY <3>2, <3>3
  <2>. QED
    BY <2>2, <2>3
<1>. QED
  BY <1>1, <1>2

-----------------------------------------------------------------------------
(***************************************************************************)
(* The refinement mapping Decode, on a valid word: its face and the        *)
(* child_position(t) digits of its path (s2cell_id.h:653-664).             *)
(***************************************************************************)
LEMMA DecodeValid ==
  ASSUME NEW v \in 0..(V1!IdSpace - 1), is_valid(v)
  PROVE  Decode(v) = [face |-> face(v), path |-> Digits(path(v), level(v))]
<1>1. level(v) \in Nat
  BY ValidFields, FieldsFacts
<1>. QED
  BY <1>1 DEF Decode, child_position_at, Digits

\* The decoded canonical word of a cell is the cell.
LEMMA DecodeCanon ==
  ASSUME NEW f, NEW p, NEW l, Fields(f, p, l)
  PROVE  Decode(Canon(f, p, l)) = [face |-> f, path |-> Digits(p, l)]
BY CanonFields, DecodeValid

\* A call other than the three conversions keeps its label under MapCall.
LEMMA MapCallPlain ==
  ASSUME NEW c, c[1] \notin {"FromS2CellId", "FromRaw", "MaximumTile"}
  PROVE  MapCall(c) = c
BY DEF MapCall

\* Every word the cell tree sees for a valid word is a cell of it.
LEMMA DecodeNotNoCell ==
  ASSUME NEW v \in 0..(V1!IdSpace - 1), is_valid(v)
  PROVE  /\ Decode(v) # Tree!NoCell
         /\ Tree!Lvl(Decode(v)) = level(v)
<1>1. Fields(face(v), path(v), level(v))
  BY ValidFields
<1>2. face(v) \in 0..5 /\ level(v) \in Nat
  BY <1>1, FieldsFacts
<1>. QED
  BY <1>2, DecodeValid DEF Tree!NoCell, Tree!Lvl, Digits

(***************************************************************************)
(* The cursor starts where the cell tree starts: the default constructor   *)
(* (s2cell_id.h:45-48) gives the invalid word None, decoding to NoCell.    *)
(***************************************************************************)
THEOREM InitRefines == Init => Tree!Init
BY NoneInvalid DEF Init, Tree!Init, Decode, NoCell, Tree!NoCell, MapCall

(***************************************************************************)
(* Every parent() step of the cursor is a Parent step of the cell tree:    *)
(* S2CellId::parent (s2cell_id.h:305-323), computed on the compact word    *)
(* with its root-marker fix-up, drops the last child position of the cell  *)
(* and turns an invalid word or a face into NoCell.  No canonical layout   *)
(* is assumed: a valid word with a stale path bit above the level decodes  *)
(* to the same cell as its canonical form.                                 *)
(***************************************************************************)
THEOREM ParentRefines ==
  ASSUME TypeOK, Parent
  PROVE  Tree!Parent
<1>1. MapCall(call') = <<"Parent">>
  BY MapCallPlain DEF Parent, Set
<1>2. CASE ~is_valid(cell)
  BY <1>1, <1>2, NoneInvalid DEF Parent, Set, parent, Tree!Parent, Tree!Set,
     Decode, NoCell, Tree!NoCell
<1>3. CASE is_valid(cell)
  <2>. DEFINE f == face(cell)  p == path(cell)  l == level(cell)
  <2>1. Fields(f, p, l) /\ p \in Nat /\ l \in 0..CMaxLevel
    BY <1>3, ValidFields, FieldsFacts DEF TypeOK
  <2>2. Decode(cell) = [face |-> f, path |-> Digits(p, l)]
    BY <1>3, DecodeValid DEF TypeOK
  <2>3. Decode(cell) # Tree!NoCell /\ Tree!Lvl(Decode(cell)) = l
    BY <1>3, DecodeNotNoCell DEF TypeOK
  <2>4. CASE l = 0
    BY <1>1, <1>3, <2>3, <2>4, NoneInvalid DEF Parent, Set, parent, Tree!Parent,
       Tree!Set, Decode, NoCell, Tree!NoCell
  <2>5. CASE l > 0
    <3>1. Fields(f, p \div 4, l - 1)
      BY <2>1, <2>5, ParentCanon
    <3>2. cell' = Canon(f, p \div 4, l - 1)
      BY <1>3, <2>5 DEF Parent, Set, parent, Canon
    <3>3. Decode(cell') = [face |-> f, path |-> Digits(p \div 4, l - 1)]
      BY <3>1, <3>2, DecodeCanon
    <3>4. Digits(p \div 4, l - 1) = SubSeq(Digits(p, l), 1, l - 1)
      <4>1. p \in Nat /\ l \in 1..CMaxLevel
        BY <2>1, <2>5, WidthFacts
      <4>. QED
        BY <4>1, DigitsParent, Zenon
    <3>5. Len(Digits(p, l)) = l
      BY <2>1, WidthFacts DEF Digits
    <3>6. [Decode(cell) EXCEPT !.path = SubSeq(Decode(cell).path, 1, Len(Decode(cell).path) - 1)]
            = [face |-> f, path |-> SubSeq(Digits(p, l), 1, l - 1)]
      <4>1. SubSeq(Decode(cell).path, 1, Len(Decode(cell).path) - 1)
              = SubSeq(Digits(p, l), 1, l - 1)
        BY <2>2, <3>5
      <4>2. [Decode(cell) EXCEPT !.path = SubSeq(Decode(cell).path, 1, Len(Decode(cell).path) - 1)]
              = [[face |-> f, path |-> Digits(p, l)] EXCEPT !.path = SubSeq(Digits(p, l), 1, l - 1)]
        BY <2>2, <4>1, Zenon
      <4>3. [[face |-> f, path |-> Digits(p, l)] EXCEPT !.path = SubSeq(Digits(p, l), 1, l - 1)]
              = [face |-> f, path |-> SubSeq(Digits(p, l), 1, l - 1)]
        BY RecordPathUpdate
      <4>. QED
        BY <4>2, <4>3, Zenon
    <3>7. ~(Decode(cell) = Tree!NoCell \/ Tree!Lvl(Decode(cell)) = 0)
      BY <2>3, <2>5
    <3>8. Decode(cell') = [Decode(cell) EXCEPT !.path = SubSeq(Decode(cell).path, 1,
                                                              Len(Decode(cell).path) - 1)]
      BY <3>3, <3>4, <3>6
    <3>. QED
      BY <1>1, <3>7, <3>8, Zenon DEF Tree!Parent, Tree!Set
  <2>. QED
    BY <2>1, <2>4, <2>5
<1>. QED
  BY <1>2, <1>3

(***************************************************************************)
(* child(k) (s2cell_id.h:345-359) on any word decodes to the cell tree's   *)
(* child: position k appended, or NoCell.                                  *)
(***************************************************************************)
LEMMA ChildDecode ==
  ASSUME NEW v \in 0..(V1!IdSpace - 1), NEW k \in Int
  PROVE  Decode(child(v, k))
           = IF Decode(v) = Tree!NoCell \/ k \notin 0..3 \/ Tree!Lvl(Decode(v)) >= CMaxLevel
             THEN Tree!NoCell ELSE [Decode(v) EXCEPT !.path = Append(@, k)]
<1>2. CASE ~is_valid(v)
  BY <1>2, NoneInvalid DEF child, Decode, NoCell, Tree!NoCell
<1>3. CASE is_valid(v)
  <2>. DEFINE f == face(v)  p == path(v)  l == level(v)
  <2>1. Fields(f, p, l) /\ p \in Nat /\ l \in 0..CMaxLevel
    BY <1>3, ValidFields, FieldsFacts
  <2>2. Decode(v) = [face |-> f, path |-> Digits(p, l)]
    BY <1>3, DecodeValid
  <2>3. Decode(v) # Tree!NoCell /\ Tree!Lvl(Decode(v)) = l
    BY <1>3, DecodeNotNoCell
  <2>4. CASE ~(k \in 0..3 /\ l < CMaxLevel)
    <3>0. k < 0 \/ k >= 4 \/ level(v) >= CMaxLevel
      BY <2>1, <2>4, WidthFacts DEF l
    <3>1. child(v, k) = None
      BY <3>0 DEF child
    <3>2. Decode(child(v, k)) = Tree!NoCell
      BY <3>1, NoneInvalid DEF Decode, NoCell, Tree!NoCell
    <3>3. k \notin 0..3 \/ Tree!Lvl(Decode(v)) >= CMaxLevel
      BY <2>1, <2>3, <2>4, WidthFacts
    <3>. QED
      BY <3>2, <3>3
  <2>5. CASE k \in 0..3 /\ l < CMaxLevel
    <3>1. Fields(f, p * 4 + k, l + 1)
      BY <2>1, <2>5, ChildCanon
    <3>2. ~(f = 0 /\ l + 1 = 0)
      BY <2>1
    <3>3. Canon(f, p * 4 + k, l + 1) = Pack(f, p * 4 + k, l + 1)
      BY <3>1, <3>2, CanonFields
    <3>4. child(v, k) = Canon(f, p * 4 + k, l + 1)
      <4>1. ~(k < 0 \/ k >= 4 \/ level(v) >= CMaxLevel)
        BY <2>1, <2>5, WidthFacts DEF l
      <4>2. child(v, k) = Pack(f, p * 4 + k, l + 1)
        BY <1>3, <4>1 DEF child, f, p, l
      <4>. QED
        BY <3>3, <4>2
    <3>5. Decode(child(v, k)) = [face |-> f, path |-> Digits(p * 4 + k, l + 1)]
      BY <3>1, <3>4, DecodeCanon
    <3>6. Digits(p * 4 + k, l + 1) = Append(Digits(p, l), k)
      <4>1. p \in Nat /\ l \in 0..(CMaxLevel - 1) /\ k \in 0..3
        BY <2>1, <2>5, WidthFacts
      <4>. QED
        BY <4>1, DigitsChild, Zenon
    <3>7. [Decode(v) EXCEPT !.path = Append(@, k)]
            = [face |-> f, path |-> Append(Digits(p, l), k)]
      BY <2>2
    <3>8. ~(Decode(v) = Tree!NoCell \/ k \notin 0..3 \/ Tree!Lvl(Decode(v)) >= CMaxLevel)
      BY <2>1, <2>3, <2>5, WidthFacts
    <3>. QED
      BY <3>5, <3>6, <3>7, <3>8
  <2>. QED
    BY <2>4, <2>5
<1>. QED
  BY <1>2, <1>3


(***************************************************************************)
(* Every child(k) step of the cursor is a Child(k) step of the v tree:  *)
(* S2CellId::child (s2cell_id.h:345-359) appends position k to the path    *)
(* and gives None for an invalid word, a position outside 0..3 or a v   *)
(* at kMaxLevel.                                                           *)
(***************************************************************************)
THEOREM ChildRefines ==
  ASSUME TypeOK, NEW k \in Int, Child(k)
  PROVE  Tree!Child(k)
<1>1. MapCall(call') = <<"Child", k>>
  BY MapCallPlain DEF Child, Set
<1>. QED
  BY <1>1, ChildDecode DEF TypeOK, Child, Set, Tree!Child, Tree!Set

(***************************************************************************)
(* Every child_begin() step is a ChildBegin step of the cell tree: the     *)
(* first child (s2cell_id.h:442-445 delegates to child(0) below kMaxLevel) *)
(* appends position 0, and a cell at kMaxLevel has none.                   *)
(***************************************************************************)
THEOREM ChildBeginRefines ==
  ASSUME TypeOK, ChildBegin
  PROVE  Tree!ChildBegin
<1>1. MapCall(call') = <<"ChildBegin">>
  BY MapCallPlain DEF ChildBegin, Set
<1>2. CASE level(cell) >= CMaxLevel
  <2>1. cell' = None
    BY <1>2 DEF ChildBegin, Set, child_begin
  <2>2. Decode(cell') = Tree!NoCell
    BY <2>1, NoneInvalid DEF Decode, NoCell, Tree!NoCell
  <2>3. Decode(cell) = Tree!NoCell \/ Tree!Lvl(Decode(cell)) >= CMaxLevel
    BY <1>2, DecodeNotNoCell DEF TypeOK, Decode, NoCell, Tree!NoCell
  <2>. QED
    BY <1>1, <2>2, <2>3 DEF Tree!ChildBegin, Tree!Set
<1>3. CASE ~(level(cell) >= CMaxLevel)
  <2>1. cell' = child(cell, 0)
    BY <1>3 DEF ChildBegin, Set, child_begin
  <2>. QED
    BY <1>1, <2>1, ChildDecode DEF TypeOK, Tree!ChildBegin, Tree!Set
<1>. QED
  BY <1>2, <1>3

(***************************************************************************)
(* Sentinel() (s2cell_id.h:184-186), the all-ones word, has face field 7   *)
(* and is no cell: the step decodes to the cell tree's Sentinel.           *)
(***************************************************************************)
THEOREM SentinelRefines ==
  ASSUME CallSentinel
  PROVE  Tree!Sentinel
<1>1. /\ V1!IdSpace = 8 * FaceUnit /\ FaceUnit \in Nat \ {0}
  BY Units
<1>2. Sentinel = 7 * FaceUnit + (FaceUnit - 1) /\ FaceUnit - 1 \in 0..(FaceUnit - 1)
  BY <1>1 DEF Sentinel
<1>3. Sentinel \div FaceUnit = 7
  BY <1>1, <1>2, DivMod
<1>4. ~is_valid(Sentinel)
  BY <1>3, RootMarkerFields DEF is_valid, kNumFaces
<1>5. MapCall(call') = <<"Sentinel">>
  BY MapCallPlain DEF CallSentinel, Set
<1>. QED
  BY <1>4, <1>5 DEF CallSentinel, Set, Decode, NoCell, Tree!Sentinel, Tree!Set,
     Tree!NoCell

(***************************************************************************)
(* A word restored from its raw value (s2cell_id.h:51) is the cell it      *)
(* decodes to: the step is a FromRaw step of the cell tree.                *)
(***************************************************************************)
LEMMA FromRawRefines ==
  ASSUME NEW w, CallFromRaw(w)
  PROVE  Tree!FromRaw(Decode(w))
BY DEF CallFromRaw, Set, MapCall, Tree!FromRaw, Tree!Set

=============================================================================
