-------------------------------- MODULE Tiling --------------------------------
(***************************************************************************)
(* The tiling loop documented with maximum_tile (s2cell_id_v1.h:356-359),  *)
(* run on compact ids:                                                     *)
(*                                                                         *)
(*   for (S2CellId id = start.maximum_tile(limit);                         *)
(*        id != limit; id = id.next().maximum_tile(limit)) { ... }         *)
(*                                                                         *)
(* It composes two delegating methods of S2CellId: maximum_tile converts  *)
(* both ids, tiles on the primary curve and drops a tile deeper than the   *)
(* compact kMaxLevel to None; next converts and steps along the level.     *)
(* tiles is the sequence of cells the body sees.                           *)
(***************************************************************************)
EXTENDS S2CellIdV2

CONSTANTS
  Starts,    \* compact ids the loop starts from
  Limits,    \* compact ids it stops at
  MaxTiles   \* bound on the body's executions

ASSUME MaxTilesAssumption == MaxTiles \in Nat \ {0}

VARIABLES start, limit, id, tiles

vars == <<start, limit, id, tiles>>

Init ==
  /\ start \in Starts
  /\ limit \in Limits
  /\ id = maximum_tile(start, limit)
  /\ tiles = << >>

\* One run of the body, then id = id.next().maximum_tile(limit).
Step ==
  /\ id # limit
  /\ Len(tiles) < MaxTiles
  /\ tiles' = Append(tiles, id)
  /\ id' = maximum_tile(next(id), limit)
  /\ UNCHANGED <<start, limit>>

Spec == Init /\ [][Step]_vars

-----------------------------------------------------------------------------
\* The first and last leaf positions of a compact cell on the primary curve.
LeafLo(c) == V1!range_min(ConvertToOldFormat(c))
LeafHi(c) == V1!range_max(ConvertToOldFormat(c))

\* Where the range [start, limit) ends: limit's first leaf, or one past
\* the last leaf of face 5 when limit is no cell (End(level) or None).
LimitLo ==
  IF is_valid(limit) THEN LeafLo(limit)
  ELSE V1!range_min(V1!End(MaxLevel))

TypeOK ==
  /\ start \in Starts /\ limit \in Limits
  /\ id \in 0..(V1!IdSpace - 1)
  /\ tiles \in Seq(0..(V1!IdSpace - 1))

(***************************************************************************)
(* When the loop stops, the cells the body saw tile [start, limit): each   *)
(* is a valid cell, the first begins at start's first leaf, each begins at *)
(* the leaf after the previous one ends, and the last ends just before     *)
(* limit's first leaf.  An empty range gives no tiles.                     *)
(***************************************************************************)
TilingCovers ==
  id = limit =>
    LET n == Len(tiles)
    IN  IF LeafLo(start) >= LimitLo THEN n = 0
        ELSE /\ n > 0
             /\ \A k \in 1..n : is_valid(tiles[k])
             /\ LeafLo(tiles[1]) = LeafLo(start)
             /\ \A k \in 1..(n - 1) : LeafLo(tiles[k + 1]) = LeafHi(tiles[k]) + 2
             /\ LeafHi(tiles[n]) + 2 = LimitLo

(***************************************************************************)
(* The loop ends: id reaches limit before the body has run MaxTiles times, *)
(* more than any tiling of the instance needs.  A maximum_tile that drops  *)
(* a tile to None would loop for ever (None.next() is None, never limit).  *)
(***************************************************************************)
TilingEnds == id # limit => Len(tiles) < MaxTiles

=============================================================================
