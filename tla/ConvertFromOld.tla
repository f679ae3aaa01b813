---------------------------- MODULE ConvertFromOld ----------------------------
(***************************************************************************)
(* S2CellId::ConvertFromOldFormat (src/src/s2/s2cell_id.h:876-937) one     *)
(* loop iteration per step: the climb from the given primary id to its     *)
(* face, pushing child positions leaf first; the face check; the packing   *)
(* loop that pops them root first into the path; the final assembly.       *)
(* old is the argument, the other variables are the routine's locals.      *)
(***************************************************************************)
EXTENDS S2CellIdV1, Sequences

CONSTANTS
  CMaxLevel,       \* S2CellId::kMaxLevel
  ParentHopLimit,  \* only for the instance of S2CellIdV2
  OldInputs        \* the primary ids the routine is called with

\* The argument is a uint64.
ASSUME OldInputsAssumption == OldInputs \subseteq 0..(IdSpace - 1)

C == INSTANCE S2CellIdV2

\* The compact layout's constants, as S2CellIdV2 states them.
ASSUME CompactAssumption == C!CompactLayoutAssumption

VARIABLES old, pc, current, stack, i, path, result

vars == <<old, pc, current, stack, i, path, result>>

PCs == {"start", "climb", "verify", "pack", "done"}

Init ==
  /\ old \in OldInputs
  /\ pc = "start"
  /\ current = old
  /\ stack = << >>
  /\ i = 0
  /\ path = 0
  /\ result = 0

Return(r) == pc' = "done" /\ result' = r

\* The early returns before the climb, and the level-0 shortcut.
Start ==
  /\ pc = "start"
  /\ IF ~is_valid(old) \/ level(old) > CMaxLevel \/ face(old) >= C!kNumFaces
     THEN Return(0)
     ELSE IF level(old) = 0
     THEN Return(C!RootFix(U64(face(old) * C!FaceUnit)))
     ELSE pc' = "climb" /\ UNCHANGED result
  /\ UNCHANGED <<old, current, stack, i, path>>

\* A plausible fault: current moved to its parent before its position is
\* pushed, so every entry is the position one level up.
ClimbParentFirst ==
  /\ pc = "climb"
  /\ level(current) > 0
  /\ stack' = Append(stack, child_position(parent(current)))
  /\ current' = parent(current)
  /\ UNCHANGED <<old, pc, i, path, result>>

\* while (current.level() > 0) { push_back(child_position()); current = parent(); }
Climb ==
  /\ pc = "climb"
  /\ level(current) > 0
  /\ stack' = Append(stack, child_position(current))
  /\ current' = parent(current)
  /\ UNCHANGED <<old, pc, i, path, result>>

\* A plausible fault: the loop leaves only below level 0 (< for <=).
ClimbExitStrict ==
  /\ pc = "climb"
  /\ level(current) < 0
  /\ pc' = "verify"
  /\ UNCHANGED <<old, current, stack, i, path, result>>

ClimbExit ==
  /\ pc = "climb"
  /\ level(current) <= 0
  /\ pc' = "verify"
  /\ UNCHANGED <<old, current, stack, i, path, result>>

\* A plausible fault: the loop index one past the top of the stack.
VerifyPastTop ==
  /\ pc = "verify"
  /\ IF face(current) # face(old)
     THEN Return(0) /\ UNCHANGED i
     ELSE pc' = "pack" /\ i' = Len(stack) + 1 /\ UNCHANGED result
  /\ UNCHANGED <<old, current, stack, path>>

\* if (current.face() != face) return 0; then i = path_stack.size() - 1
\* (i here counts from 1, so it starts at the size).
Verify ==
  /\ pc = "verify"
  /\ IF face(current) # face(old)
     THEN Return(0) /\ UNCHANGED i
     ELSE pc' = "pack" /\ i' = Len(stack) /\ UNCHANGED result
  /\ UNCHANGED <<old, current, stack, path>>

\* A plausible fault: the stack popped from the bottom, leaf first.
PackLeafFirst ==
  /\ pc = "pack"
  /\ i > 0
  /\ path' = U64(path * 4) + stack[Len(stack) - i + 1]
  /\ i' = i - 1
  /\ UNCHANGED <<old, pc, current, stack, result>>

\* path = (path << 2) | path_stack[i]
Pack ==
  /\ pc = "pack"
  /\ i > 0
  /\ path' = U64(path * 4) + stack[i]
  /\ i' = i - 1
  /\ UNCHANGED <<old, pc, current, stack, result>>

PackExit ==
  /\ pc = "pack"
  /\ i = 0
  /\ Return(C!Pack(face(old), path, level(old)))
  /\ UNCHANGED <<old, current, stack, i, path>>

Next == Start \/ Climb \/ ClimbExit \/ Verify \/ Pack \/ PackExit

\* The routine is sequential code: each step it can take, it takes.
Spec == Init /\ [][Next]_vars /\ WF_vars(Next)

-----------------------------------------------------------------------------
TypeOK ==
  /\ old \in Nat
  /\ pc \in PCs
  /\ current \in Nat
  /\ stack \in Seq(0..3)
  /\ i \in 0..Len(stack)
  /\ path \in 0..(IdSpace - 1)
  /\ result \in Nat

(***************************************************************************)
(* Throughout the climb, current is the ancestor of old at its own level,  *)
(* still valid and on old's face, and the stack holds one position per     *)
(* level climbed.  So the climb ends at old's face cell after level(old)   *)
(* pushes and the face check after it never fails.                         *)
(***************************************************************************)
ClimbInv ==
  pc \in {"climb", "verify"} =>
    /\ is_valid(current)
    /\ face(current) = face(old)
    /\ current = parent_at(old, level(current))
    /\ Len(stack) + level(current) = level(old)

(***************************************************************************)
(* What the routine returns: 0 exactly for an invalid id, one deeper than  *)
(* the compact kMaxLevel, or (never) a failed face check; otherwise a      *)
(* valid compact word that ConvertToOldFormat maps back to old.  This is   *)
(* the order reversal between the leaf-first stack and the root-first      *)
(* path, checked against the independent descent of ConvertToOldFormat.    *)
(***************************************************************************)
RoundTrip ==
  pc = "done" =>
    IF is_valid(old) /\ level(old) <= CMaxLevel
    THEN C!is_valid(result) /\ C!ConvertToOldFormat(result) = old
    ELSE result = 0

(***************************************************************************)
(* The word returned for a cell the compact layout holds is exactly the    *)
(* layout word of old's cell: old's face, old's child positions root first *)
(* as the path field, old's level, and the root marker for the face-0      *)
(* root (the assembly of s2cell_id.h:931-933 and the fix-up of lines       *)
(* 895-898).  The path is read off old's bits directly, independently of   *)
(* the climb and the stack, so a loop that pops the stack the wrong way    *)
(* round returns a valid word of another cell and breaks this.             *)
(***************************************************************************)
PackedLayout ==
  pc = "done" /\ is_valid(old) /\ level(old) <= CMaxLevel =>
    result = C!LayoutWord(face(old),
                          (old \div 2^(2 * (MaxLevel - level(old)) + 1))
                            % 2^(2 * level(old)),
                          level(old))

(***************************************************************************)
(* Each step of the packing loop (s2cell_id.h:927-929) shifts old's next   *)
(* child position into the path, root first: after the top K entries of    *)
(* the stack, the next one is old's position at level K + 1, and the      *)
(* shift (path << 2) drops no bit.  A climb that pushes a position of the *)
(* wrong level, or a loop that reads the stack from the bottom, breaks     *)
(* this at the first step where the two differ.                            *)
(***************************************************************************)
PackStep ==
  [][pc = "pack" /\ pc' = "pack" =>
       path' = path * 4 + child_position_at(old, Len(stack) - i + 1)]_vars

\* The loops terminate: every call of the routine returns.
Termination == <>(pc = "done")

=============================================================================
