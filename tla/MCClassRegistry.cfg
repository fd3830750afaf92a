CONSTANTS
  Cid <- MCCid
  Root <- MCRoot
  Declaration <- MCDeclaration
SPECIFICATION FairRegistrySpec
INVARIANTS
  HierarchyExact
  NotifyExact
PROPERTIES
  BuildEnds
