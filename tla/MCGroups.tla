------------------------------ MODULE MCGroups ------------------------------
(* Groups with materials, groups and plain objects, which are no CKBeObject *)
(* and which no group may take.                                            *)
EXTENDS Groups

MCClass == {"OBJECT", "MATERIAL", "GROUP"}

MCGroupClass == {"GROUP"}

MCBeObject == {"MATERIAL", "GROUP"}

\* A group listens to CKCID_BEOBJECT and hence to everything below it.
MCToNotify == [c \in MCClass |-> IF c \in MCBeObject THEN {"GROUP"} ELSE {}]

AddrSymmetry == Permutations(Addr)
=============================================================================
