CONSTANTS
  Transition = {t1}
  File = {f1}
  Sizes <- MCSizes
  Contents <- MCContents
  MaxWord = 2
  Offered <- MCOffered
  Hidden <- MCHidden
  LinkClass <- MCLinkClass
  Documents <- MCDocuments
  MaxObjects = 2
  MaxMtlSlots = 1
  NONE = NONE
SPECIFICATION Spec
INVARIANTS
  HandlesExact
  VisibleListed
  SavedComplete
  LinksTyped

  
CHECK_DEADLOCK FALSE
