CONSTANTS
  MaxLevel = 5
  CMaxLevel = 3
  ParentHopLimit = 1
  FaceInputs <- MCFaceInputs
  LevelInputs <- MCLevelInputs
  PositionInputs <- MCPositionInputs
  PosInputs <- MCPosInputs
  OldInputs <- MCOldInputs
  RawInputs <- MCRawInputs
  StepInputs <- MCStepInputs
  LimitInputs <- MCLimitInputs
SPECIFICATION Spec
PROPERTY ChildBeginOwnLevel
