CONSTANTS
  Ident = {1, 2}
  Item <- MCItem
  Saved <- MCSaved
  Created <- MCCreated
  MinGrowth = 8
  MaxSections = 3
  MaxItems = 2
  GARBAGE <- MCGarbage
SPECIFICATION Spec
INVARIANTS
  SectionsKept
  SeekFinds
  ReferencesListed
  ReadBack
