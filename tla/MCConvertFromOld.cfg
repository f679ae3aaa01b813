CONSTANTS
  MaxLevel = 6
  CMaxLevel = 4
  ParentHopLimit = 5
  OldInputs <- MCOldInputs
SPECIFICATION Spec
INVARIANTS TypeOK ClimbInv RoundTrip PackedLayout
PROPERTIES PackStep Termination
CHECK_DEADLOCK FALSE
