CONSTANTS
  Object = {o1, o2}
  Id = {1, 2}
  Class <- MCClass
  Registered <- MCRegistered
  Includes <- MCIncludes
  Body <- MCBody
  Originals <- MCOriginals
  MaxIncluded = 2
  NULL = NULL
  ABSENT = ABSENT
  BROKEN = BROKEN
SPECIFICATION Spec
SYMMETRY ObjectSymmetry
INVARIANTS
  DocumentsProper
  LoadsGraph
  FaultsForeseen
PROPERTIES
  SavesContext
  ShallowSaveSame
CHECK_DEADLOCK FALSE
