CONSTANTS
  MaxLevel = 5
  CMaxLevel = 3
  ParentHopLimit = 1
  Starts <- MCStarts
  Limits <- MCLimits
  MaxTiles <- MCMaxTiles
SPECIFICATION Spec
INVARIANTS TilingCovers TilingEnds
CHECK_DEADLOCK FALSE
