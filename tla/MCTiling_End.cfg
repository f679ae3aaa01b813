CONSTANTS
  MaxLevel = 5
  CMaxLevel = 3
  ParentHopLimit = 1
  Starts <- MCStarts
  Limits <- MCLimitsEnd
  MaxTiles <- MCMaxTiles
SPECIFICATION Spec
INVARIANT TilingCovers
CHECK_DEADLOCK FALSE
