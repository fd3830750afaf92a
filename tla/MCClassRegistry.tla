-------------------------- MODULE MCClassRegistry --------------------------
(* ClassRegistry with a root and three classes, registered below any parent *)
(* that is there and listening to at most one class, registered or not.     *)
EXTENDS ClassRegistry

MCCid == 1 .. 4

MCRoot == 1

Wish == {{}} \cup {{c} : c \in MCCid}

MCDeclaration ==
  {[cid |-> MCRoot, parent |-> MCRoot, listenTo |-> w] : w \in {{}, {3}}}
  \cup {[cid |-> c, parent |-> p, listenTo |-> w] :
          c \in MCCid \ {MCRoot}, p \in MCCid, w \in Wish}
=============================================================================
