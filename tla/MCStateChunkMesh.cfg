CONSTANTS
  Ident = {1, 2}
  Item <- FullVertices
  Saved <- MCSaved
  Created <- MCCreated
  MinGrowth = 8
  MaxSections = 3
  MaxItems = 3
  GARBAGE <- MCGarbage
SPECIFICATION Spec
INVARIANTS
  ReserveCovers
CHECK_DEADLOCK FALSE
