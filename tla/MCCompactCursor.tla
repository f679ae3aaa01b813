--------------------------- MODULE MCCompactCursor ---------------------------
(***************************************************************************)
(* A 14-bit instance of the two identifiers: primary kMaxLevel 5, compact  *)
(* kMaxLevel 3 (the code's 30 and 28 keep the same distance of two, which  *)
(* the 5-bit level field forces), parent(level) delegating beyond one hop  *)
(* (the code: five) so that both of its branches run on three levels.      *)
(***************************************************************************)
EXTENDS CompactCursor

MCFaceInputs     == {-1, 0, 5, 6}
MCLevelInputs    == -1..(CMaxLevel + 1)
MCPositionInputs == {-1, 0, 3, 4}

\* The lowest and the highest position of a face.
MCPosInputs == {0, 2^V1!kPosBits - 1}

\* None and primary ids of every level down to the leaf (on face 5).
MCOldInputs ==
  {V1!None} \cup {V1!FromFacePosLevel(5, 1365, l) : l \in 0..MaxLevel}

\* Words a caller restores: None, the face-0 root, a leaf, the last cell.
MCRawInputs == {None, RootMarker, FromFacePosLevel(2, 1365, CMaxLevel), End(1)}

\* A step along the level (across a face boundary for deep enough cells),
\* and steps that clamp at, or wrap past, both ends.
MCStepInputs == {-1000, 3, 1000}

\* Limits for maximum_tile: a face, and a deepest cell of the face before.
MCLimitInputs == {FromFace(3), FromFacePosLevel(2, 1365, CMaxLevel)}

\* The same, with two level-0 words that is_valid() accepts and no cell
\* encodes: the root marker set on face 1, and stray path bits on face 3.
MCRawNonCanonical ==
  MCRawInputs \cup {FaceUnit + RootMarker, 3 * FaceUnit + LevelUnit}

=============================================================================
