-------------------------- MODULE MCObjectManager --------------------------
(* ObjectManager with materials, and groups, which listen to every object  *)
(* and to each other, as CKBuildClassHierarchyTable derives it for these    *)
(* classes.                                                                 *)
EXTENDS ObjectManager

MCGroupClass == {"GROUP"}

MCClass == {"MATERIAL", "GROUP"}

MCToNotify == [c \in MCClass |-> {"GROUP"}]
=============================================================================
