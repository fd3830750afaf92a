--------------------------- MODULE ObjectManager ---------------------------
(***************************************************************************)
(* CKObjectManager (LibCmo/CK2/MgrImpls/CKObjectManager.cpp): the owner of *)
(* every object of a CKContext.  It hands out identifiers, recycles the    *)
(* slots of destroyed objects, keeps one list of identifiers per class,    *)
(* allocates the global indices of groups, and destroys objects in the     *)
(* protocol mark / filter / notify / PreDelete / free / notify.            *)
(*                                                                         *)
(* The heap is a finite set of addresses; `new` may return any free one,   *)
(* so an address is reused after `delete` as a real allocator does.  A     *)
(* virtual call on a null slot ends the process: `fault` records it and    *)
(* nothing happens afterwards.                                             *)
(***************************************************************************)
EXTENDS Integers, Sequences, FiniteSets

CONSTANTS
  Addr,        \* heap addresses
  Class,       \* the class identifiers that have a CKClassDesc
  GroupClass,  \* the classes whose constructor allocates a group index
  ToNotify,    \* CKClassDesc::ToNotify, the listeners of each class
  MaxSlots,    \* bound: capacity of m_ObjectsList
  MaxBatch,    \* bound: identifiers in one call of DestroyObjects
  NULL,        \* nullptr
  FREED        \* content of an address that holds no object

ASSUME ConstantsAssumption ==
  /\ GroupClass \subseteq Class
  /\ ToNotify \in [Class -> SUBSET Class]
  /\ MaxSlots \in Nat
  /\ MaxBatch \in Nat
  /\ NULL \notin Addr
  /\ FREED \notin Class

VARIABLES
  classOf,           \* GetClassID() of the object at an address, or FREED
  ident,             \* CKObject::m_ID
  groupIndexOf,      \* CKGroup::m_GroupIndex
  dying,             \* objects flagged CK_OBJECT_TOBEDELETED
  slots,             \* m_ObjectsList
  returned,          \* m_ReturnedObjectOffsets
  count,             \* m_ObjectCount
  byClass,           \* m_ObjectsListByClass, order and repetition abstracted
  groupGlobalIndex,  \* the set bits of m_GroupGlobalIndex
  pc,                \* the loop of DestroyObjects that is running, or "idle"
  batch,             \* its ids argument, from the element to be marked on
  valid,             \* its validObjIds, from the element to be freed on
  cids,              \* its cids
  fault              \* "none", or how the process died

heapVars == <<classOf, ident, groupIndexOf, dying>>
tableVars == <<slots, returned, count, byClass, groupGlobalIndex>>
callVars == <<pc, batch, valid, cids>>
vars == <<heapVars, tableVars, callVars, fault>>

-----------------------------------------------------------------------------
(* Identifiers and slots. *)

OBJECT_ID_OFFSET == 61

Id2Offset(id) == id - OBJECT_ID_OFFSET

Offset2Id(off) == off + OBJECT_ID_OFFSET

\* Offsets are those of the vector: the first slot is 0.
Offsets == 0 .. (Len(slots) - 1)

Slot(off) == slots[off + 1]

\* Id2Offset wraps around below 61 in the code, to an offset past any size.
GetObject(id) ==
  IF Id2Offset(id) \in Offsets THEN Slot(Id2Offset(id)) ELSE NULL

IsObjectSafe(id) == GetObject(id) # NULL

Live == {a \in Addr : classOf[a] # FREED}

-----------------------------------------------------------------------------
(* CreateObject.  `a` is the address `new` returns and `gidx` the index    *)
(* AllocateGroupGlobalIndex finds: the first clear bit.                    *)

FirstUnset(i) ==
  /\ i \notin groupGlobalIndex
  /\ \A j \in 0 .. (i - 1) : j \in groupGlobalIndex

\* The slot the new object takes: the last one returned, or a new one.
DecidedOffset == IF returned = <<>> THEN Len(slots) ELSE returned[Len(returned)]

TakeNewSlot(a) ==
  /\ returned = <<>>
  /\ Len(slots) < MaxSlots
  /\ slots' = Append(slots, a)
  /\ UNCHANGED returned

\* Faulty variant: the returned offset stays on the free list.
NotPopped(a) ==
  /\ returned # <<>>
  /\ slots' = [slots EXCEPT ![DecidedOffset + 1] = a]
  /\ UNCHANGED returned

TakeReturnedSlot(a) ==
  /\ returned # <<>>
  /\ slots' = [slots EXCEPT ![DecidedOffset + 1] = a]
  /\ returned' = SubSeq(returned, 1, Len(returned) - 1)

CreateObject(cls, a, gidx) ==
  /\ pc = "idle" /\ fault = "none"
  /\ classOf[a] = FREED
  /\ FirstUnset(gidx)
  /\ TakeNewSlot(a) \/ TakeReturnedSlot(a)
  /\ classOf' = [classOf EXCEPT ![a] = cls]
  /\ ident' = [ident EXCEPT ![a] = Offset2Id(DecidedOffset)]
  /\ groupIndexOf' =
       IF cls \in GroupClass THEN [groupIndexOf EXCEPT ![a] = gidx]
                             ELSE groupIndexOf
  /\ groupGlobalIndex' =
       IF cls \in GroupClass THEN groupGlobalIndex \cup {gidx}
                             ELSE groupGlobalIndex
  /\ count' = count + 1
  /\ byClass' = [byClass EXCEPT ![cls] = @ \cup {Offset2Id(DecidedOffset)}]
  /\ UNCHANGED <<dying, callVars, fault>>

-----------------------------------------------------------------------------
(* DestroyObjects, one action per loop, or per iteration where an          *)
(* iteration touches the tables.                                           *)

DestroyObjects(ids) ==
  /\ pc = "idle" /\ fault = "none"
  /\ pc' = "mark"
  /\ batch' = ids
  /\ valid' = <<>>
  /\ cids' = {}
  /\ UNCHANGED <<heapVars, tableVars, fault>>

\* One iteration of the collecting loop: an identifier without an object is
\* skipped, a repeated one is collected again.
MarkCollect(obj) ==
  /\ obj # NULL
  /\ dying' = dying \cup {obj}
  /\ cids' = cids \cup {classOf[obj]}
  /\ valid' = Append(valid, Head(batch))

MarkSkip(obj) == obj = NULL /\ UNCHANGED <<dying, cids, valid>>

\* Faulty variant: an identifier without an object is tried again.
StuckOnInvalid ==
  /\ pc = "mark" /\ fault = "none"
  /\ batch # <<>>
  /\ LET obj == GetObject(Head(batch))
     IN /\ MarkCollect(obj) \/ MarkSkip(obj)
        /\ batch' = IF obj = NULL THEN batch ELSE Tail(batch)
  /\ UNCHANGED <<classOf, ident, groupIndexOf, tableVars, pc, fault>>

Mark ==
  /\ pc = "mark" /\ fault = "none"
  /\ batch # <<>>
  /\ LET obj == GetObject(Head(batch)) IN MarkCollect(obj) \/ MarkSkip(obj)
  /\ batch' = Tail(batch)
  /\ UNCHANGED <<classOf, ident, groupIndexOf, tableVars, pc, fault>>

\* GenericXArrayCheck_ItemCheck<CK_ID, true>: the item exists and survives.
ItemCheck(id) == IsObjectSafe(id) /\ GetObject(id) \notin dying

\* NSXObjectArray::PreDeletedCheck hands ItemCheck itself to std::erase_if.
PreDeletedCheck(ids) == {id \in ids : ~ ItemCheck(id)}

FilterClassLists ==
  /\ pc = "mark" /\ fault = "none"
  /\ batch = <<>>
  /\ byClass' = [c \in Class |->
                   IF c \in cids THEN PreDeletedCheck(byClass[c]) ELSE byClass[c]]
  /\ pc' = "notify"
  /\ UNCHANGED <<heapVars, slots, returned, count, groupGlobalIndex,
                 batch, valid, cids, fault>>

\* CKGetAllNotifyClassID, and the identifiers both notifying loops visit.
NotifyClasses == UNION {ToNotify[c] : c \in cids}

Notified == UNION {byClass[c] : c \in NotifyClasses}

\* m_ObjectsList[Id2Offset(objid)]-> on an empty slot.
NullNotified == \E id \in Notified : GetObject(id) = NULL

NotifyPreDeletion ==
  /\ pc = "notify" /\ fault = "none"
  /\ ~ NullNotified
  /\ pc' = "free"
  /\ UNCHANGED <<heapVars, tableVars, batch, valid, cids, fault>>

\* Faulty variant: the destructor of a group keeps its index.
KeptGroupIndex(obj) ==
  /\ classOf' = [classOf EXCEPT ![obj] = FREED]
  /\ ident' = [ident EXCEPT ![obj] = 0]
  /\ groupIndexOf' = [groupIndexOf EXCEPT ![obj] = 0]
  /\ dying' = dying \ {obj}
  /\ UNCHANGED groupGlobalIndex

\* CKGroup's destructor gives the index of the group back.  Freed memory
\* holds nothing a property looks at; the model clears it.
InternalDestroy(obj) ==
  /\ classOf' = [classOf EXCEPT ![obj] = FREED]
  /\ ident' = [ident EXCEPT ![obj] = 0]
  /\ groupIndexOf' = [groupIndexOf EXCEPT ![obj] = 0]
  /\ dying' = dying \ {obj}
  /\ groupGlobalIndex' =
       IF classOf[obj] \in GroupClass
         THEN groupGlobalIndex \ {groupIndexOf[obj]}
         ELSE groupGlobalIndex

\* Faulty variant: the slot is not set to null.
KeptSlot(off) ==
  /\ returned' = Append(returned, off)
  /\ count' = count - 1
  /\ UNCHANGED slots

ReturnSlot(off) ==
  /\ slots' = [slots EXCEPT ![off + 1] = NULL]
  /\ returned' = Append(returned, off)
  /\ count' = count - 1

\* One iteration of the freeing loop.
Free ==
  /\ pc = "free" /\ fault = "none"
  /\ valid # <<>>
  /\ LET obj == GetObject(Head(valid))
     IN obj # NULL /\ InternalDestroy(obj)
  /\ ReturnSlot(Id2Offset(Head(valid)))
  /\ valid' = Tail(valid)
  /\ UNCHANGED <<byClass, pc, batch, cids, fault>>

\* Faulty variant: the freeing loop ends one short.
LastOneKept ==
  /\ pc = "free" /\ fault = "none"
  /\ Len(valid) <= 1
  /\ ~ NullNotified
  /\ pc' = "idle"
  /\ cids' = {}
  /\ UNCHANGED <<heapVars, tableVars, batch, valid, fault>>

NotifyPostDeletion ==
  /\ pc = "free" /\ fault = "none"
  /\ valid = <<>>
  /\ ~ NullNotified
  /\ pc' = "idle"
  /\ cids' = {}
  /\ UNCHANGED <<heapVars, tableVars, batch, valid, fault>>

\* A virtual call on a null slot: in one of the notifying loops, or in the
\* freeing loop on an identifier that was collected twice.
Crash ==
  /\ fault = "none"
  /\ \/ pc = "notify" /\ NullNotified
     \/ pc = "free" /\ valid # <<>> /\ GetObject(Head(valid)) = NULL
     \/ pc = "free" /\ valid = <<>> /\ NullNotified
  /\ fault' = "null"
  /\ UNCHANGED <<heapVars, tableVars, callVars>>

DestroyStep ==
  \/ Mark
  \/ FilterClassLists
  \/ NotifyPreDeletion
  \/ Free
  \/ NotifyPostDeletion
  \/ Crash

-----------------------------------------------------------------------------
\* Faulty variant: the class lists are forgotten.
KeptClassLists == UNCHANGED byClass

ClearClassLists == byClass' = [c \in Class |-> {}]

DestroyAllObjects ==
  /\ pc = "idle" /\ fault = "none"
  /\ classOf' = [a \in Addr |->
                   IF \E off \in Offsets : Slot(off) = a THEN FREED ELSE classOf[a]]
  /\ ident' = [a \in Addr |-> 0]
  /\ groupIndexOf' = [a \in Addr |-> 0]
  /\ dying' = {a \in dying : \A off \in Offsets : Slot(off) # a}
  /\ slots' = <<>>
  /\ returned' = <<>>
  /\ count' = 0
  /\ ClearClassLists
  /\ groupGlobalIndex' = {}
  /\ UNCHANGED <<callVars, fault>>

-----------------------------------------------------------------------------
Init ==
  /\ classOf = [a \in Addr |-> FREED]
  /\ ident = [a \in Addr |-> 0]
  /\ groupIndexOf = [a \in Addr |-> 0]
  /\ dying = {}
  /\ slots = <<>>
  /\ returned = <<>>
  /\ count = 0
  /\ byClass = [c \in Class |-> {}]
  /\ groupGlobalIndex = {}
  /\ pc = "idle"
  /\ batch = <<>>
  /\ valid = <<>>
  /\ cids = {}
  /\ fault = "none"

\* The identifiers a caller can pass: the null one, whose offset lies past
\* any size, and those handed out since the slots were last emptied.
CallerIds == {0} \cup {Offset2Id(off) : off \in Offsets}

Batches == UNION {[1 .. n -> CallerIds] : n \in 1 .. MaxBatch}

Create == \E cls \in Class, a \in Addr, gidx \in 0 .. MaxSlots : CreateObject(cls, a, gidx)

Destroy == \E ids \in Batches : DestroyObjects(ids)

Next ==
  \/ Create
  \/ Destroy
  \/ DestroyStep
  \/ DestroyAllObjects

Spec == Init /\ [][Next]_vars

\* One thread runs a call of DestroyObjects to its end.
FairSpec == Spec /\ WF_vars(DestroyStep)

-----------------------------------------------------------------------------
(* Properties. *)

Phases == {"idle", "mark", "notify", "free"}

\* Every variable has its type; the lists of one call are identifiers.
TypeOK ==
  /\ classOf \in [Addr -> Class \cup {FREED}]
  /\ ident \in [Addr -> Nat]
  /\ groupIndexOf \in [Addr -> Nat]
  /\ dying \subseteq Addr
  /\ slots \in Seq(Addr \cup {NULL})
  /\ returned \in Seq(Nat)
  /\ count \in Int
  /\ byClass \in [Class -> SUBSET Nat]
  /\ groupGlobalIndex \subseteq Nat
  /\ pc \in Phases
  /\ batch \in Seq(Nat)
  /\ valid \in Seq(Nat)
  /\ cids \subseteq Class
  /\ fault \in {"none", "null"}

\* The free list of CreateObject holds every empty slot once and nothing
\* else, and m_ObjectCount is the number of the other slots: an offset that
\* was returned twice, or lost, would give two objects one identifier or
\* leak it.
SlotAccounting ==
  /\ \A i, j \in DOMAIN returned : returned[i] = returned[j] => i = j
  /\ \A i \in DOMAIN returned :
        returned[i] \in Offsets /\ Slot(returned[i]) = NULL
  /\ \A off \in Offsets :
        Slot(off) = NULL => \E i \in DOMAIN returned : returned[i] = off
  /\ count + Len(returned) = Len(slots)

\* Each object on the heap is owned by exactly one slot, the one its own
\* identifier names: GetObject(o->GetID()) is o, and no object leaks or is
\* reachable after its release.
OneSlotPerObject ==
  /\ \A off \in Offsets : Slot(off) # NULL =>
        /\ classOf[Slot(off)] # FREED
        /\ ident[Slot(off)] = Offset2Id(off)
  /\ \A a \in Live : GetObject(ident[a]) = a

LiveGroups == {a \in Live : classOf[a] \in GroupClass}

\* The bits of m_GroupGlobalIndex are the indices of the living groups, and
\* no two of them share one: a shared or a prematurely freed bit would make
\* the members of one group members of another.
GroupIndexExact ==
  /\ \A a \in LiveGroups : groupIndexOf[a] \in groupGlobalIndex
  /\ \A i \in groupGlobalIndex : \E a \in LiveGroups : groupIndexOf[a] = i
  /\ \A a, b \in LiveGroups : groupIndexOf[a] = groupIndexOf[b] => a = b

\* DestroyObjects and GetObjectByNameAndClass index m_ObjectsList with the
\* listed identifiers and check no bound: they never have to.
ListedInBounds ==
  \A c \in Class : \A id \in byClass[c] : Id2Offset(id) \in Offsets

\* When a call of DestroyObjects has returned no object carries the flag
\* CK_OBJECT_TOBEDELETED: whatever was announced to the listeners is gone.
NoMarkedSurvivor == pc = "idle" => dying = {}

\* A call of DestroyObjects returns or brings the process down; it does not
\* hang in one of its loops.
DestroyReturns == (pc # "idle") ~> (pc = "idle" \/ fault # "none")

\* The manager implements the table of identifiers.
boundIds == {Offset2Id(off) : off \in {o \in Offsets : Slot(o) # NULL}}

Table == INSTANCE ObjectTable
  WITH Id <- {Offset2Id(off) : off \in 0 .. MaxSlots}, Object <- Addr,
       table <- [id \in boundIds |-> GetObject(id)]

TableSpec == Table!Spec

\* Between two calls the list of a class names exactly the living objects of
\* that class ("remove deleted object from m_ObjectListByClass").
ClassListExact ==
  pc = "idle" /\ fault = "none" =>
    \A c \in Class : byClass[c] = {ident[a] : a \in {o \in Live : classOf[o] = c}}
=============================================================================
