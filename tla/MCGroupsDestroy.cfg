CONSTANTS
  Addr = {a1, a2}
  Class <- MCClass
  GroupClass <- MCGroupClass
  ToNotify <- MCToNotify
  BeObject <- MCBeObject
  MaxSlots = 2
  MaxBatch = 1
  MaxLoad = 3
  NULL = NULL
  FREED = FREED
SPECIFICATION GroupSpec
INVARIANTS
  NoDanglingMember
CHECK_DEADLOCK FALSE
