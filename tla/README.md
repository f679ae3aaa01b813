# TLA+ models of the compact S2CellId

This directory holds the formal models of `src/src/s2/s2cell_id.h`, the
compact cell identifier, and of the primary identifier `s2v1::S2CellId` in
`src/src/s2/s2cell_id_v1.h` that it delegates to. It contains TLC
configurations for small instances and TLAPS proofs.

## The system

`s2v1::S2CellId` (the *primary* identifier) packs a cell into 64 bits:
- 3 face bits;
- a Hilbert-curve position of 2·30+1 bits;
- the level, given by the position of the lowest set bit.

`S2CellId` (the *compact* identifier) packs the same cells, down to level 28,
differently:
- 3 face bits;
- a path of 2-bit child positions, root first and right-aligned;
- a 5-bit level.

The face-0 root would be the all-zero word, which is `None()`. It is therefore
encoded as the top path bit (the *root marker*).

The compact class implements only part of its API on its own word:
- face, level and path;
- `is_valid`;
- `parent()` and `child()`;
- `parent(level)` for up to 5 levels.

Everything else goes through `ToOldFormat()`, calls the primary method, and
comes back through `S2CellId(old)`. The two conversion routines are
`ConvertToOldFormat` and `ConvertFromOldFormat`. The methods that take this
route are:
- the factories;
- `child_begin` and `child_end` at a given level;
- `next`, `prev` and their wrapping forms;
- `range_min` and `range_max`;
- `advance`, `advance_wrap`, `maximum_tile`, `GetCommonAncestorLevel` and
  `distance_from_begin`;
- `operator<` and `contains`.

The primary `advance`, `advance_wrap`, `maximum_tile`,
`GetCommonAncestorLevel` and `distance_from_begin` are implemented in a `.cc`
that is not in this repository. They are modelled from their contracts in
`s2cell_id_v1.h` 330-374 and design section 4.1, and marked `spec_modelled` in
PROJECT.json.

## Modules

| module | models | kind |
|---|---|---|
| `S2CellIdV1` | primary layout and navigation (`s2cell_id_v1.h` 106-141, 470-492, 532-540, 570-733) | operators on the word |
| `S2CellIdV2` | compact layout, both conversions, every compact method that yields a cell (`s2cell_id.h` 34-522, 617-666, 753-756, 876-980) | operators; `INSTANCE S2CellIdV1` as `V1` |
| `CellTree` | the abstract promise: a cell is a face and a sequence of child positions, ordered lexicographically along the curve | state machine (abstract) |
| `CompactCursor` | a caller holding one compact word and replacing it with the result of one API call after another; refinement mapping to `CellTree` | state machine |
| `ConvertFromOld` | `ConvertFromOldFormat` one loop iteration per step (`s2cell_id.h` 876-937) | state machine; `INSTANCE S2CellIdV2` |
| `S2CellIdV1_proofs` | TLAPS lemmas on the primary word: `countr_zero`, `lsb`, `parent(level)` and their composition | theorems |
| `ConvertFromOld_proofs` | TLAPS proofs about `ConvertFromOld`: its types, its climb invariant, the layout of its result and its pack step | theorems |
| `CursorFactories_proofs` | TLAPS proofs that the cursor's `FromFace`, `End`, `Begin` and `FromFaceLevel` steps refine `CellTree`, outside the level >= 1 branches that climb | theorems |
| `S2CellIdV2_proofs` | TLAPS proofs that the compact `parent()` and `child(k)` (`s2cell_id.h` 305-359) invert each other, and what they do to the child-position digits | theorems |
| `CompactCursor_proofs` | TLAPS proofs that the cursor's `Parent` and `Child` steps keep the `Canonical` layout, and that its `Init`, `Parent`, `Child`, `ChildBegin` and `Sentinel` steps refine `CellTree` | theorems |
| `Tiling` | the tiling loop of the `maximum_tile` comment (`s2cell_id_v1.h` 352-359) on compact ids: `maximum_tile` and `next` composed | state machine; extends `S2CellIdV2` |
| `MCCompactCursor`, `MCConvertFromOld`, `MCTiling` | the instances TLC checks | MC |

### How the modules correspond to the code

**Integers and words.** Integers are the code's `uint64_t` words. The word
width is parameterised: `Width = 2·MaxLevel + 4`, and `U64(x) = x % 2^Width`
models unsigned wrap-around wherever the code shifts or adds.

**Levels.** `level()` is `kMaxLevel - countr_zero(id)/2`. For id 0 the code's
`ABSL_ASSUME` is broken; the model gives `countr_zero(0)` the value the build
computes, which is the width. Every path that reaches it then yields `None`.

**Sequential early returns.** These are IF/ELSE IF chains in the order the code
tests them.

**`CompactCursor`.** Each action is one call:
- `cell' = <operator>(cell, input)`;
- `call'` records the call for the refinement mapping.

Inputs come from small constant sets. Six methods are called only on a valid
cell: `parent(level)`, `child_begin(level)`, `child_end`, `child_end(level)`,
`next_wrap` and `prev_wrap`. They reach a primary method that `ABSL_DCHECK`s
`is_valid()` (`s2cell_id_v1.h` 650, 683, 690, 697, 712, 719) without testing
validity themselves. That is the documented contract. Their release-build
behaviour on invalid input is not modelled, and the hazards list records this.

`Advance(s)`, `AdvanceWrap(s)` and `MaximumTile(l)` take their step counts and
limits from `StepInputs` and `LimitInputs`. In `CellTree` a cell's curve index
at its level is `Index`; advance clamps it to `[0, NumAt]`, where `NumAt` (the
primary `End`) is no compact cell; `advance_wrap` takes it modulo `NumAt`;
`Tile` is the largest aligned cell starting at a cell's first leaf that ends
before the limit's first leaf, and `CommonLevel` the length of the common
prefix of two child-position sequences.

**`Tiling`.** The state is `start`, `limit`, the loop variable `id` and the
sequence `tiles` of cells the loop body has seen. `Init` is the loop's
initialisation `id = start.maximum_tile(limit)`; `Step` is one body and the
update `id = id.next().maximum_tile(limit)`, taken while `id != limit`.

**`ConvertFromOld`.** The state is:
- the argument `old`;
- the locals `current`, `stack` (`path_stack`), `i`, `path` and `result`;
- a program counter.

The actions are `Start` (the early returns and the level-0 shortcut), `Climb`,
`ClimbExit`, `Verify` (the face check), `Pack` and `PackExit` (the assembly).
The code's `child_pos` range check cannot fail: the value is masked with `& 3`.
It is therefore not a separate branch.

**Refinement.** `Decode` maps a compact word to the abstract cell:
- its face;
- its child positions read with `child_position(level)`;
- `NoCell` for an invalid word.

`Tree == INSTANCE CellTree WITH cell <- Decode(cell), ...`, and
`RefinesTree == Tree!Spec` is checked as a temporal property.

**Fault operators.** A few operators named as plausible faults sit just before
the definition they perturb (`child_offbyone`, `RootFixAlways`,
`ConvertToOldFormatLsbFirst`, `parent_onebit`, `ClimbExitStrict`,
`VerifyPastTop`, `PackLeafFirst`, `ClimbParentFirst`, `distance_from_begin_raw`,
`maximum_tile_unaligned`, `maximum_tile_finest`). Each one, substituted for its original,
makes TLC report a violation of the property listed with it in PROJECT.json.

## Runs

| run | cfg | expect | shows |
|---|---|---|---|
| `compact_api` | `MCCompactCursor.cfg` | pass (6841 states, about 1.5 min) | Every call sequence, `advance`, `advance_wrap` and `maximum_tile` included, agrees with the abstract cell tree (`RefinesTree`). Every valid word held is the canonical layout word of its cell (`Canonical`). `distance_from_begin` is the tree's curve index and `GetCommonAncestorLevel` the tree's common-prefix length (`QueriesAgree`). |
| `convert_from_old` | `MCConvertFromOld.cfg` | pass (152216 states, 5 s) | On every 16-bit primary word: the climb invariant, the round trip through `ConvertToOldFormat`, termination. For every valid id within the compact maximum, the returned word is the layout word of the id's face, its path read from the primary position bits, and its level (`PackedLayout`). Each pass of the pack loop shifts in the next digit, root first (`PackStep`, an action property). |
| `noncanonical_raw_word` | `MCCompactCursor_Canonical.cfg` | violation | `S2CellId(FaceUnit + RootMarker)` is valid but is not the encoding of face 1. |
| `sentinel_order` | `MCCompactCursor_Sentinel.cfg` | violation | `FromFace(0) < Sentinel()` is false. |
| `child_begin_own_level` | `MCCompactCursor_ChildBegin.cfg` | violation | `c.child_begin(c.level())` is `None`. |
| `tiling` | `MCTiling.cfg` | pass (91574 states, about 30 s) | The tiling loop ends within the tile bound (`TilingEnds`) and its tiles are valid, adjacent, and cover exactly the leaves of `[start, limit)` (`TilingCovers`). |
| `tiling_to_end` | `MCTiling_End.cfg` | violation | With limit `End(kMaxLevel)` the loop yields no tile. |

### Findings (details in PROJECT.json)

1. **`is_valid` accepts non-canonical words.** At level 0, `is_valid` accepts
   every face-0..5 word whatever its path bits hold (`s2cell_id.h:285`). The
   encoding is therefore not the bijection the design describes, and `==`
   separates two words for one cell.
2. **`Sentinel()` sorts first.** `Sentinel()` (`~0`) is an invalid compact
   word, so `operator<` compares it as `None` and ranks it below every cell.
3. **`child_begin(level())` returns `None`.** This is because of the `<=` at
   `s2cell_id.h:448`. The primary identifier returns the cell itself.

4. **A tiling up to `End` is empty.** `End(level)` comes from a face-6 primary
   id, so it is always `None`. `start.maximum_tile(End(kMaxLevel))` returns the
   limit at once, and the documented tiling loop covers nothing.

`next()` of the last cell of a level is also `None`, so
`for (c = Begin(l); c != End(l); c = c.next())` works, but `c < End(l)` does
not.

### Bounds and why they suffice

**`compact_api`** uses a 14-bit word:
- primary `kMaxLevel` 5 and compact `kMaxLevel` 3. The code's 30 and 28 keep
  the same gap of two, so `range_min`/`range_max` truncate to `kMaxLevel`, and
  `FromS2CellId` of a deeper id returns `None`; both cases occur.
- `ParentHopLimit` 1 instead of the code's 5, so that both branches of
  `parent(level)` (the `parent()` loop and the delegation) run within three
  levels.
- The input sets contain the out-of-range values the code tests for: faces −1
  and 6, levels −1 and `kMaxLevel+1`, positions −1 and 4.
- There are primary ids of every level, the face-0 root, a leaf, and `End`.
- The search is exhaustive over all call sequences from these inputs.

The step inputs are −1000, 3 and 1000: a small step, and steps beyond the
cells of a level in both directions, so both clamps and the wrap run. The
limits are a face cell and a cell of the deepest compact level on another
face, so `maximum_tile` meets limits before, after and inside the cell.

**`tiling`** uses the same 14-bit word. Every face-0 cell is a start: every
compact level, every position. Every cell of faces 0 and 1 is a limit, so
limits of every level lie before, inside and after the start and across the face
boundary. Cells are taken in their one canonical word; `is_valid` also
accepts level-0 words with stray path bits (finding 1). The longest tiling
here has 18 tiles (search depth 19), and `MaxTiles` is 40.

**`convert_from_old`** uses a 16-bit word (primary level 6, compact level 4)
with every one of its 65536 words as the argument. That includes all invalid
ones, ids deeper than the compact maximum, and face 6 and 7.

### Fairness

Only `ConvertFromOld` assumes fairness: `WF_vars(Next)`. The routine is
straight-line sequential code with no waiting, so it keeps stepping until it
returns. `CompactCursor` is a caller making arbitrary calls and has no
liveness claim.

`Tiling` states the termination of its loop as the invariant `TilingEnds`
(the loop reaches `limit` before `MaxTiles` bodies) rather than as `<>(id =
limit)` under weak fairness. The two say the same on this instance, because
the loop is deterministic after `Init`. TLC evaluates `ENABLED Step` for the
fairness condition, which recomputes `maximum_tile` over every ancestor of a
leaf for each state, and that made the liveness check many times slower.
Deadlock checking is off: the loop stops by design when `id = limit`.

## What is proved (TLAPS)

`ConvertFromOld_proofs.tla` proves `THEOREM TypeCorrect == Spec => []TypeOK` for
every `MaxLevel`, `CMaxLevel` and input set allowed by the assumptions:
- `MaxLevelAssumption` and `CompactLayoutAssumption`;
- `OldInputsAssumption`: inputs are words;
- `PowersOfTwoAssumption`: positivity, the product law and monotonicity of
  `2^n` up to the width. The provers treat `^` as uninterpreted, so this
  assumption supplies those facts. TLC evaluates it on each run.

`TypeOK` is not inductive: the final assembly needs `level(old)` to be a
natural, and nothing in `TypeOK` says so. The inductive invariant `IInv`
conjoins "past `Start`, `level(old)` is a natural", which the early returns of
`Start` establish through `ValidLevel`.

The proof rests on these lemmas:
- `ShiftInType`: `U64(p*4) + d` stays a uint64, because the word space is a
  multiple of four;
- `ChildPositionType`;
- `ParentType`;
- `PackType`.

It has one case per action.

`S2CellIdV1_proofs.tla` proves facts about the primary word for every
`MaxLevel`. It works from `MaxLevelAssumption` and `PowersOfTwoAssumption`:
- `CountrZeroAt` and `ValidLowestBit`: `countr_zero` (a CHOOSE of the lowest
  set bit) is unique, and for a valid id it is `2 * (MaxLevel - level)`;
- `ParentAtForm`: `parent(m)` is `(2 * (id \div 2b) + 1) * b` with
  `b = lsb_for_level(m)`;
- `ParentAtLevel`, `ParentAtFace` and `ParentAtValid`: `parent(m)` has level
  `m`, the same face, and is valid;
- `ParentAtSelf` and `ParentIsParentAt`: a valid id is its own ancestor at its
  level, and `parent()` is `parent(level - 1)`;
- `THEOREM ParentAtCompose`: `parent(n)` of `parent(m)` is `parent(n)` for
  `n <= m`.

Two proof techniques recur. Each lemma has a single equation as hypothesis
(`x = (2*g + e)*d + r`), because the provers do not instantiate chained
equations. Quotients and powers are named by fresh constants (`PICK h \in Nat :
h = id \div 2b`), because SMT gives up on nonlinear facts about `\div`.

`ConvertFromOld_proofs.tla` also proves `THEOREM ClimbCorrect ==
Spec => []ClimbInv`. While the climb runs, `current` is a valid cell on
`old`'s face, it is `old`'s ancestor at its own level, and the stack holds
one position per level climbed.

`ClimbInv` is not inductive. `Start` enters the climb and leaves `current` and
`stack` as they are, and nothing in `ClimbInv` says what they hold before the
climb. So the inductive invariant `IInv /\ ClimbInv /\ Fresh` adds
`Fresh == pc = "start" => current = old /\ stack = << >>`.

The climb step follows from the lemmas above:
- the new `current` is `parent(current) = parent_at(current, L - 1)`;
- by `ParentAtCompose` it equals `parent_at(old, L - 1)`;
- by `ParentAtLevel`, `ParentAtFace` and `ParentAtValid` it is a valid cell
  of level `L - 1` on `old`'s face.

`S2CellIdV2_proofs.tla` proves, for every `MaxLevel` and `CMaxLevel` allowed
by the assumptions, the two laws of the hierarchy methods that `s2cell_id.h`
computes on the compact word itself:
- `ParentOfChild`: `parent(child(c, k)) = c` for a valid `c` below
  `CMaxLevel` and `k` in `0..3`;
- `ChildOfParent`: `child(parent(c), child_position(c)) = c` for a valid `c`
  of positive level.

The cell is written `Canon(f, p, l)`, the packed fields with the face-0 root
fix-up (`RootFix(Pack(f, p, l))`). The lemma chain is:
- `Units`: the field units are powers of two (`LevelUnit = 32`,
  `FaceUnit = PathUnit * LevelUnit`, `IdSpace = 8 * FaceUnit`,
  `FaceUnit = 2 * RootMarker`);
- `PackFields`: the three fields of `Pack` are disjoint, so `|` is `+`;
- `CanonFields`: `Canon` is valid and `face`, `path` and `level` read the
  fields back;
- `ValidFields`: every valid word is the `Canon` of its own fields;
- `ChildCanon` and `ParentCanon`: `child` and `parent` move from `Canon` to
  `Canon` (or to `None` at the bottom and the top).

`S2CellIdV2` restates the primary module's assumptions as
`PrimaryAssumption`, because tlapm does not make the assumptions of an
INSTANCEd module available as facts.

`CompactCursor_proofs.tla` proves `HierarchyKeepsCanonical`: a `Parent` or
`Child(k)` step from a state satisfying `TypeOK` and `Canonical` leads to a
state satisfying `Canonical`. The other cursor steps delegate to the primary
identifier (or take a raw word), so `Spec => []Canonical` as a whole stays with
the `compact_api` run.

`CompactCursor_proofs.tla` also proves the refinement mapping
`Tree == INSTANCE CellTree WITH cell <- Decode(cell), call <- MapCall(call)`
step by step, for every width:
- `InitRefines`: `Init => Tree!Init`;
- `ParentRefines`, `ChildRefines`, `ChildBeginRefines` and `SentinelRefines`:
  each of the cursor's `Parent`, `Child(k)`, `ChildBegin` and `CallSentinel`
  steps from a state satisfying `TypeOK` is the matching `CellTree` step.

No canonical layout is assumed. `Decode` reads a valid word through `face`,
`level` and `child_position(t)`, and these depend only on the fields.
`DecodeValid` writes the decoded path as `Digits(path, level)`.
`DigitsParent` and `DigitsChild` (in `S2CellIdV2_proofs`) show that
`path \div 4` drops the last digit and that `path * 4 + k` appends `k`.

The other steps go through `ConvertToOldFormat` and `ConvertFromOldFormat`,
whose loops are recursive functions. So `RefinesTree` (`Spec => Tree!Spec`)
as a whole stays with TLC.

`TypeOK` of the cursor is a hypothesis of these step theorems. It is not
proved because `ConvertFromOldFormat`'s packing is a recursive function, and
bounding it needs induction.

`ConvertFromOld_proofs.tla` also proves what the routine returns, from
`CompactAssumption` (`ConvertFromOld` restates `S2CellIdV2`'s
`CompactLayoutAssumption` so that it is a usable fact):
- `THEOREM PackedCorrect == Spec => []PackedLayout`. On return from a valid
  id within the compact maximum, `result` is
  `LayoutWord(face(old), PathAt(old, level(old)), level(old))`. Here
  `PathAt(id, k)` is the primary position bits above the lowest set bit, cut
  to `k` digits.
- `THEOREM PackStepCorrect == Spec => PackStep`. Each pass of the pack loop
  appends `child_position(level)` of the next level, root first.
- `THEOREM ResultDecodes == Spec => []ResultFields`. On return, the result is
  valid, and `face`, `level` and `path` of the compact word read back `old`'s
  face, level and `PathAt(old, level(old))`. This is the half of `RoundTrip`
  that does not need `ConvertToOldFormat`.

`PackedLayout` is not inductive. The inductive invariant is
`IInv /\ ClimbInv /\ Fresh /\ Layout`, where `Layout` adds:
- `Entered`: past `Start`, `old` is a valid id of level `1..CMaxLevel` on a
  face `0..5`, which the early returns establish;
- `Climbed`: after the climb, `current` is the face and the stack holds
  `level(old)` entries;
- `StackDigits`: stack entry `j` is `child_position_at(old, level(old)-j+1)`,
  leaf first;
- `PackInv`: in the pack loop, `path = PathAt(old, Len(stack) - i)`;
- `PathZero`: `path` is 0 before the pack loop.

`StackDigits` needs `ClimbInv`: it uses the fact that `current` is `old`'s
ancestor, so its position is `old`'s digit at that level (`ClimbDigit`).
`PackInv` advances by `PathStep`: `PathAt(id, k+1) = 4*PathAt(id, k) +`
digit `k+1`. The lemma `PackShift` shows the step, and that `U64(path * 4)`
does not wrap because the path has fewer than `2 * CMaxLevel` bits. `LayoutPack` shows that `Pack` is
`LayoutWord` on fields in range, and `LayoutFace` does the same for the
level-0 shortcut. `LayoutDecodes` reads the fields of a `LayoutWord` back.

`CursorFactories_proofs.tla` proves four more refinement steps of the
cursor, for every width:
- `FromFaceRefines`;
- `EndRefines`;
- `BeginRefines` at level 0 and above `kMaxLevel`;
- `FromFaceLevelRefines` on rejected arguments and on the level-0 shortcut.

In these branches `ConvertFromOldFormat` returns before its climb: for an
invalid id, or through the face-cell branch for a level-0 id. Three facts
about the primary word carry them:
- `FromFaceWord`: `FromFace(f)` is `(2*(f mod 8)+1)*B` for every int `f`,
  where `B = lsb_for_level(0)`;
- `FaceWordFields`: that word has face `f mod 8` and level 0;
- `EndInvalid`: `End(l)` has face field 6.

So `FromFace` refines the tree for faces 0..5, and for ints whose low three
bits are 6 or 7 (−1 and 6, the model's out-of-range inputs). For other ints
outside 0..5, such as 8, the code builds face `f mod 8`'s cell. That call
breaks the documented `0..5` contract of `FromFace`, and the tree's `NoCell`
does not describe it.

This module EXTENDS `ConvertFromOld_proofs` and instantiates `CompactCursor`
as `CC`. tlapm 1.4.5 cannot use a theorem of an INSTANCEd module as a fact.
So each name of the instance is carried to the name the lemmas speak of by
expanding both to the same expression (`PrimaryAlias`, `CompactAlias`,
`InstanceAlias`).

`CellTree` writes its curve index as a recursive function rather than with a
fold, so that no module with a theorem reaches a RECURSIVE operator through it.

**Left to TLC:**
- The `ConvertToOldFormat` half of `RoundTrip`, `RefinesTree` (beyond the
  steps above: the level >= 1 branches of `Begin`, `FromFaceLevel`,
  `FromFacePosLevel` and `FromS2CellId`, and every delegating navigation step)
  and the cursor's `TypeOK`. They need what the recursive conversion functions (`PackStack`,
  the descent of `ConvertToOldFormat`, `CellTree`'s `Index`) compute for every
  input. That is induction over data, and the installed provers cannot
  instantiate the library's induction theorems.
- `Termination`, which is liveness.
- `QueriesAgree`, `TilingCovers` and `TilingEnds`, which rest on what the
  primary `maximum_tile` and the conversions compute for every cell.

## Not modelled

- **Geometry** (`FromPoint`, `FromLatLng`, `FromFaceIJ`, `ToPoint`,
  neighbours): it uses floating point and projections.
- **Text and byte encodings** (`ToToken`, `FromToken`, `ToString`,
  `Encode`/`Decode`, `Coder`, the flags in `s2cell_id.cc`): they have no state,
  and they enter the model only through the conversions, which are modelled.
- **Release-build calls on invalid words**: `CompactCursor` makes the six
  DCHECK-guarded calls (`child_begin(level)`, `child_end`, `child_end(level)`,
  deep `parent(level)`, `next_wrap`, `prev_wrap`) only on valid cells. The
  design (sections 4.1 and 7) calls them contract violations on invalid words
  and promises no result for release builds, so nothing is checked about them.

## Plan for later work

1. **Prove the conversion functions of `S2CellIdV2` equal to the loop of
   `ConvertFromOld`.** That needs induction over the recursive `climb` and
   `PackStack`. It would carry `PackedCorrect` to every cursor step that
   converts.
2. **Tiling across the compact maximum.** Use starts deeper than
   `kMaxLevel` reached by `range_min`.
3. **Refinement of the navigation steps** (`Next`, `Prev`, `RangeMin`, ...).
   These need the curve index of a canonical word, which is a recursive
   function.
