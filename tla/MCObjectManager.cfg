CONSTANTS
  Addr = {a1, a2, a3}
  Class <- MCClass
  GroupClass <- MCGroupClass
  ToNotify <- MCToNotify
  MaxSlots = 3
  MaxBatch = 2
  NULL = NULL
  FREED = FREED
SPECIFICATION FairSpec
INVARIANTS
  SlotAccounting
  OneSlotPerObject
  GroupIndexExact
  ListedInBounds
  NoMarkedSurvivor
PROPERTIES
  TableSpec
  DestroyReturns
CHECK_DEADLOCK FALSE
