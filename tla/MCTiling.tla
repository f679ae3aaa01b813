------------------------------- MODULE MCTiling -------------------------------
(***************************************************************************)
(* The 14-bit instance of MCCompactCursor (primary kMaxLevel 5, compact 3):*)
(* every valid cell of face 0 as start, every valid cell of faces 0 and 1  *)
(* as limit, so that starts and limits of every level meet, on one face    *)
(* and across a face boundary.                                             *)
(***************************************************************************)
EXTENDS Tiling

\* The cells of the given faces, each by its one canonical word (is_valid
\* also accepts level-0 words with stray path bits, which are left out).
MCValid(faces) ==
  {v \in 0..(V1!IdSpace - 1) :
     /\ is_valid(v) /\ face(v) \in faces
     /\ v = LayoutWord(face(v), path(v), level(v))}

\* Every face-0 cell as start and every cell of faces 0 and 1 as limit:
\* every compact level on both sides, limits before, inside and after the
\* start and across the face boundary.
MCStarts == MCValid({0})
MCLimits == MCValid({0, 1})

\* The longest tiling of the instance has 18 tiles; the bound is above it.
MCMaxTiles == 40

\* The limit End(kMaxLevel), which the compact identifier encodes as None.
MCLimitsEnd == {End(CMaxLevel)}

=============================================================================
