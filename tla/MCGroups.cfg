CONSTANTS
  Addr = {a1, a2, a3}
  Class <- MCClass
  GroupClass <- MCGroupClass
  ToNotify <- MCToNotify
  BeObject <- MCBeObject
  MaxSlots = 3
  MaxBatch = 1
  MaxLoad = 3
  NULL = NULL
  FREED = FREED
SPECIFICATION ClientSpec
SYMMETRY AddrSymmetry
INVARIANTS
  MembershipExact
  MembersProper
  
CHECK_DEADLOCK FALSE
