---------------------------- MODULE ObjectTable ----------------------------
(***************************************************************************)
(* What the object manager of a CKContext promises to its callers: a       *)
(* partial, injective table from identifiers (CK_ID) to live objects.  An  *)
(* identifier that is bound keeps its object until it is unbound or the    *)
(* whole table is cleared; a new object is bound to an identifier nobody   *)
(* holds.  ObjectManager implements this specification.                    *)
(***************************************************************************)
EXTENDS Integers

CONSTANTS Id,     \* the identifiers that can be handed out
          Object  \* the objects

VARIABLE table    \* identifier -> object, for the bound identifiers

Bound == DOMAIN table

Bindings == {table[id] : id \in Bound}

Empty == [id \in {} |-> {}]

Bind(id, o) ==
  /\ id \notin Bound
  /\ o \notin Bindings
  /\ table' = [i \in Bound \cup {id} |-> IF i = id THEN o ELSE table[i]]

Unbind(id) ==
  /\ id \in Bound
  /\ table' = [i \in Bound \ {id} |-> table[i]]

Clear == table' = Empty

Init == table = Empty

Next ==
  \/ \E id \in Id, o \in Object : Bind(id, o)
  \/ \E id \in Id : Unbind(id)
  \/ Clear

Spec == Init /\ [][Next]_table
=============================================================================
