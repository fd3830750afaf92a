--------------------------- MODULE ClassRegistry ---------------------------
(***************************************************************************)
(* The class registry of CKGlobals.cpp: CKStartUp registers the classes    *)
(* and CKBuildClassHierarchyTable derives, in five passes over             *)
(* g_CKClassInfo, who inherits from whom and which classes are notified of *)
(* the deletion of which.  ObjectManager!DestroyObjects follows ToNotify.  *)
(*                                                                         *)
(* The array is visited in the order of class identifiers, which is not    *)
(* the order of inheritance, so two passes recurse into the parent and     *)
(* mark what they have done.  One action is one turn of a pass or one      *)
(* return of that recursion.  The bit arrays are sets of identifiers.      *)
(***************************************************************************)
EXTENDS Integers, Sequences, FiniteSets

CONSTANTS
  Cid,         \* class identifiers: indices of g_CKClassInfo
  Root,        \* CKCID_OBJECT
  Declaration  \* what may be registered: [cid, parent, listenTo]

ASSUME RegistryAssumption ==
  /\ Cid \subseteq Nat
  /\ Root \in Cid
  /\ Declaration \subseteq [cid : Cid, parent : Cid, listenTo : SUBSET Cid]

VARIABLES
  isValid,           \* the identifiers whose CKClassDesc has IsValid
  parentOf,          \* Parent
  listenTo,          \* what RegisterFct passes to CKClassNeedNotificationFrom
  level,             \* DerivationLevel
  parents,           \* Parents
  children,          \* Children
  toBeNotify,        \* ToBeNotify
  commonToBeNotify,  \* CommonToBeNotify
  toNotify,          \* ToNotify
  done,              \* the classes whose Done is set
  phase,             \* the pass that is running
  todo,              \* the items its loop has not reached
  stack              \* the calls of the recursive function, innermost last

declVars == <<isValid, parentOf, listenTo>>
hierarchyVars == <<level, parents, children>>
notifyVars == <<toBeNotify, commonToBeNotify, toNotify>>
loopVars == <<done, phase, todo, stack>>
registryVars == <<declVars, hierarchyVars, notifyVars, loopVars>>

NoSets == [c \in Cid |-> {}]

-----------------------------------------------------------------------------
(* Registration.  The parent is there before its children, as in the list   *)
(* of CKStartUp; the root is its own parent.                                *)

CKClassRegister(d) ==
  /\ phase = "register"
  /\ d.cid \notin isValid
  /\ d.parent \in isValid \/ (d.cid = Root /\ d.parent = Root)
  /\ isValid' = isValid \cup {d.cid}
  /\ parentOf' = [parentOf EXCEPT ![d.cid] = d.parent]
  /\ listenTo' = [listenTo EXCEPT ![d.cid] = d.listenTo]
  /\ UNCHANGED <<hierarchyVars, notifyVars, loopVars>>

-----------------------------------------------------------------------------
(* The passes.                                                              *)

PassOrder == <<"register", "parents", "children", "wishes", "notify", "inverse", "built">>

NextPass(p) == PassOrder[1 + CHOOSE i \in 1 .. 6 : PassOrder[i] = p]

\* A pass begins with all valid items; two of them clear Done first.
BeginPass(p) ==
  /\ phase' = p
  /\ todo' = IF p = "built" THEN {} ELSE isValid
  /\ done' = IF p \in {"parents", "notify"} THEN {} ELSE done
  /\ stack' = <<>>
  /\ UNCHANGED <<declVars, hierarchyVars, notifyVars>>

CKBuildClassHierarchyTable ==
  /\ phase = "register"
  /\ Root \in isValid
  /\ BeginPass("parents")

EndPass ==
  /\ phase \notin {"register", "built"}
  /\ todo = {} /\ stack = <<>>
  /\ BeginPass(NextPass(phase))

\* The next item in the order of the array.
Item == CHOOSE c \in todo : \A d \in todo : c <= d

-----------------------------------------------------------------------------
(* ComputeParentsTable and ComputeParentsNotifyTable recurse alike.         *)

Recursive == {"parents", "notify"}

desc == stack[Len(stack)]

\* Faulty variant: the loop does not advance.
ItemKept ==
  /\ phase \in Recursive
  /\ stack = <<>> /\ todo # {}
  /\ stack' = <<Item>>
  /\ UNCHANGED <<declVars, hierarchyVars, notifyVars, done, phase, todo>>

\* The loop calls the function for an item.
CallItem ==
  /\ phase \in Recursive
  /\ stack = <<>> /\ todo # {}
  /\ stack' = <<Item>>
  /\ todo' = todo \ {Item}
  /\ UNCHANGED <<declVars, hierarchyVars, notifyVars, done, phase>>

\* The call returns at once when the item has been done.
ReturnDone ==
  /\ phase \in Recursive
  /\ stack # <<>> /\ desc \in done
  /\ stack' = SubSeq(stack, 1, Len(stack) - 1)
  /\ UNCHANGED <<declVars, hierarchyVars, notifyVars, done, phase, todo>>

\* Faulty variant: parents are taken in the order of the array.
NotRecursive(c) == FALSE

\* A call for a parent that has been done returns at once as well: only the
\* other calls are pushed.
ParentFirst(c) == parentOf[c] # c /\ parentOf[c] \notin done

CallParent ==
  /\ phase \in Recursive
  /\ stack # <<>> /\ desc \notin done
  /\ ParentFirst(desc)
  /\ stack' = Append(stack, parentOf[desc])
  /\ UNCHANGED <<declVars, hierarchyVars, notifyVars, done, phase, todo>>

\* The rest of the function runs when the recursive call, if any, is back.
Compute ==
  /\ stack # <<>> /\ desc \notin done
  /\ ~ ParentFirst(desc)
  /\ done' = done \cup {desc}
  /\ stack' = SubSeq(stack, 1, Len(stack) - 1)
  /\ UNCHANGED <<declVars, phase, todo>>

ComputeParentsTable ==
  /\ phase = "parents"
  /\ Compute
  /\ parents' = [parents EXCEPT ![desc] = parents[parentOf[desc]] \cup {desc}]
  /\ level' = [level EXCEPT ![desc] = level[parentOf[desc]] + 1]
  /\ UNCHANGED <<children, notifyVars>>

\* Faulty variant: the children of a wanted class are left out.
WishesOnly(c) == toBeNotify[c] \cap isValid

\* The wishes of a class are wishes for the children of what it listens to;
\* it inherits those of its parent.
ExpandedWishes(c) == UNION {children[t] : t \in toBeNotify[c] \cap isValid}

ComputeParentsNotifyTable ==
  /\ phase = "notify"
  /\ Compute
  /\ commonToBeNotify' =
       [commonToBeNotify EXCEPT
          ![desc] = @ \cup ExpandedWishes(desc) \cup commonToBeNotify[parentOf[desc]]]
  /\ UNCHANGED <<hierarchyVars, toBeNotify, toNotify>>

-----------------------------------------------------------------------------
(* The other passes handle an item per turn.                                *)

Turn(p) ==
  /\ phase = p
  /\ todo # {}
  /\ todo' = todo \ {Item}
  /\ UNCHANGED <<declVars, done, phase, stack>>

\* The item registers itself with each of its parents.
RegisterAsChild ==
  /\ Turn("children")
  /\ children' = [c \in Cid |-> IF c \in isValid /\ c \in parents[Item]
                                  THEN children[c] \cup {Item} ELSE children[c]]
  /\ UNCHANGED <<level, parents, notifyVars>>

\* RegisterFct: CKClassNeedNotificationFrom ignores an unknown class.
RegisterFct ==
  /\ Turn("wishes")
  /\ toBeNotify' = [toBeNotify EXCEPT ![Item] = @ \cup (listenTo[Item] \cap isValid)]
  /\ UNCHANGED <<hierarchyVars, commonToBeNotify, toNotify>>

AskTheGuests ==
  /\ Turn("inverse")
  /\ toNotify' = [toNotify EXCEPT
                    ![Item] = @ \cup {c \in isValid : Item \in commonToBeNotify[c]}]
  /\ UNCHANGED <<hierarchyVars, toBeNotify, commonToBeNotify>>

BuildStep ==
  \/ EndPass
  \/ CallItem
  \/ ReturnDone
  \/ CallParent
  \/ ComputeParentsTable
  \/ ComputeParentsNotifyTable
  \/ RegisterAsChild
  \/ RegisterFct
  \/ AskTheGuests

CKShutdown ==
  /\ phase = "built"
  /\ isValid' = {}
  /\ parentOf' = [c \in Cid |-> Root] /\ listenTo' = NoSets
  /\ level' = [c \in Cid |-> 0] /\ parents' = NoSets /\ children' = NoSets
  /\ toBeNotify' = NoSets /\ commonToBeNotify' = NoSets /\ toNotify' = NoSets
  /\ done' = {}
  /\ phase' = "register"
  /\ UNCHANGED <<todo, stack>>

RegistryInit ==
  /\ isValid = {}
  /\ parentOf = [c \in Cid |-> Root] /\ listenTo = NoSets
  /\ level = [c \in Cid |-> 0] /\ parents = NoSets /\ children = NoSets
  /\ toBeNotify = NoSets /\ commonToBeNotify = NoSets /\ toNotify = NoSets
  /\ done = {}
  /\ phase = "register"
  /\ todo = {} /\ stack = <<>>

RegistryNext ==
  \/ \E d \in Declaration : CKClassRegister(d)
  \/ CKBuildClassHierarchyTable
  \/ BuildStep
  \/ CKShutdown

RegistrySpec == RegistryInit /\ [][RegistryNext]_registryVars

\* CKBuildClassHierarchyTable runs to its end.
FairRegistrySpec == RegistrySpec /\ WF_registryVars(BuildStep)

-----------------------------------------------------------------------------
(* Queries.                                                                 *)

CKIsChildClassOf(child, parent) ==
  child \in isValid /\ parent \in isValid /\ parent \in parents[child]

CKIsNeedNotify(listener, deletedObjCid) ==
  listener \in isValid /\ deletedObjCid \in commonToBeNotify[listener]

CKGetAllNotifyClassID(delObjCids) ==
  UNION {toNotify[c] : c \in delObjCids \cap isValid}

-----------------------------------------------------------------------------
(* Properties.                                                              *)

\* The reference: the classes that every set with the class and the parents of
\* its members contains, that is, the path to the root; and those whose path
\* meets one that the class or one of its ancestors asked for.
ParentClosed(A) == \A x \in A : parentOf[x] \in A

Ancestors(c) == {a \in Cid : \A A \in SUBSET Cid : c \in A /\ ParentClosed(A) => a \in A}

Descendants(c) == {d \in isValid : c \in Ancestors(d)}

HeardBy(c) ==
  UNION {Descendants(t) : t \in isValid \cap UNION {listenTo[a] : a \in Ancestors(c)}}

Built == phase = "built"

\* CKIsChildClassOf answers for the transitive closure of the declared
\* parents, whatever the order of the identifiers, and Children is its
\* inverse.
HierarchyExact ==
  Built => \A c, d \in isValid :
    /\ CKIsChildClassOf(c, d) <=> d \in Ancestors(c)
    /\ c \in children[d] <=> d \in Ancestors(c)

\* The deletion of an object is announced to exactly the classes that asked
\* for it, themselves or through an ancestor, of its class or of an ancestor
\* of its class; the two queries agree on it.
NotifyExact ==
  Built => \A listener, deleted \in isValid :
    /\ listener \in CKGetAllNotifyClassID({deleted}) <=> deleted \in HeardBy(listener)
    /\ CKIsNeedNotify(listener, deleted) <=> deleted \in HeardBy(listener)

\* CKStartUp returns.
BuildEnds == (phase = "parents") ~> Built
=============================================================================
