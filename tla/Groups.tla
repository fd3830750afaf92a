------------------------------- MODULE Groups -------------------------------
(***************************************************************************)
(* CKGroup and the group bits of CKBeObject (ObjImpls/CKGroup.cpp,         *)
(* ObjImpls/CKBeObject.cpp), on top of the object manager.  Membership is  *)
(* stored twice: the group lists pointers to its members, each member has  *)
(* a bit array indexed by CKGroup::m_GroupIndex.  No operation compares    *)
(* the two, so nothing but the operations keeps them in step.              *)
(*                                                                         *)
(* ClientSpec is the use the programs of this repository make of groups:   *)
(* they create objects, edit and load groups and drop a whole context, and *)
(* destroy no single object.  GroupSpec adds DestroyObjects.               *)
(***************************************************************************)
EXTENDS ObjectManager, SequencesExt

CONSTANTS
  BeObject,  \* the classes below CKCID_BEOBJECT
  MaxLoad    \* bound: entries of the pointer array in a group's chunk

ASSUME GroupsAssumption ==
  /\ GroupClass \subseteq BeObject
  /\ BeObject \subseteq Class
  /\ MaxLoad \in Nat

VARIABLES
  members,   \* CKGroup::m_ObjectArray of the object at an address
  groupBits  \* CKBeObject::m_Groups, as the set of its set bits

groupVars == <<members, groupBits>>
allVars == <<vars, groupVars>>

Idle == pc = "idle" /\ fault = "none"

-----------------------------------------------------------------------------
IsInGroup(o, g) == groupIndexOf[g] \in groupBits[o]

\* ExplicitSetGroup on each object of a set.
SetBits(objs, i) ==
  [o \in Addr |-> IF o \in objs THEN groupBits[o] \cup {i} ELSE groupBits[o]]

UnsetBits(objs, i) ==
  [o \in Addr |-> IF o \in objs THEN groupBits[o] \ {i} ELSE groupBits[o]]

\* What AddObject and Load accept: not null, not the group, a CKBeObject.
Admissible(g, o) == o # NULL /\ o # g /\ classOf[o] \in BeObject

-----------------------------------------------------------------------------
(* The operations.  What is refused with an error code changes nothing and  *)
(* has no action.                                                           *)

\* A new object starts with no member and no bit.
NewObject(cls, a, gidx) ==
  /\ CreateObject(cls, a, gidx)
  /\ members' = [members EXCEPT ![a] = <<>>]
  /\ groupBits' = [groupBits EXCEPT ![a] = {}]

\* Faulty variant: the bit is not looked at.
AddUnchecked(g, o) ==
  /\ Idle
  /\ Admissible(g, o)
  /\ groupBits' = SetBits({o}, groupIndexOf[g])
  /\ members' = [members EXCEPT ![g] = Append(@, o)]
  /\ UNCHANGED vars

\* Faulty variant: the identifier is taken for the index.
AddById(g, o) ==
  /\ Idle
  /\ Admissible(g, o)
  /\ ~ IsInGroup(o, g)
  /\ groupBits' = SetBits({o}, ident[g])
  /\ members' = [members EXCEPT ![g] = Append(@, o)]
  /\ UNCHANGED vars

AddObject(g, o) ==
  /\ Idle
  /\ Admissible(g, o)
  /\ ~ IsInGroup(o, g)
  /\ groupBits' = SetBits({o}, groupIndexOf[g])
  /\ members' = [members EXCEPT ![g] = Append(@, o)]
  /\ UNCHANGED vars

\* RemoveObject, given a position.
RemoveObjectAt(g, pos) ==
  /\ Idle
  /\ pos \in DOMAIN members[g]
  /\ groupBits' = UnsetBits({members[g][pos]}, groupIndexOf[g])
  /\ members' = [members EXCEPT ![g] = RemoveAt(@, pos)]
  /\ UNCHANGED vars

\* RemoveObject, given an object: the first pointer to it goes.
RemoveObject(g, o) ==
  /\ Idle
  /\ Contains(members[g], o)
  /\ groupBits' = UnsetBits({o}, groupIndexOf[g])
  /\ members' = [members EXCEPT ![g] = RemoveFirst(@, o)]
  /\ UNCHANGED vars

\* Faulty variant: the members keep their bits.
KeptBits(g) == groupBits

ClearedBits(g) == UnsetBits(ToSet(members[g]), groupIndexOf[g])

Clear(g) ==
  /\ Idle
  /\ groupBits' = ClearedBits(g)
  /\ members' = [members EXCEPT ![g] = <<>>]
  /\ UNCHANGED vars

\* The pointers of a chunk that Load takes, after Clear, by position: each
\* admissible object whose bit is not set yet, where it comes first.
Taken(g, ptrs) ==
  {i \in DOMAIN ptrs :
     /\ Admissible(g, ptrs[i])
     /\ groupIndexOf[g] \notin ClearedBits(g)[ptrs[i]]
     /\ \A j \in 1 .. i - 1 : ptrs[j] # ptrs[i]}

\* They become the members, in the order of the chunk.
Load(g, ptrs) ==
  /\ Idle
  /\ \E n \in 0 .. Len(ptrs) : \E order \in Bijection(1 .. n, Taken(g, ptrs)) :
       /\ \A i, j \in 1 .. n : i < j => order[i] < order[j]
       /\ members' = [members EXCEPT ![g] = [k \in 1 .. n |-> ptrs[order[k]]]]
  /\ groupBits' =
       [o \in Addr |-> IF \E i \in Taken(g, ptrs) : ptrs[i] = o
                         THEN ClearedBits(g)[o] \cup {groupIndexOf[g]}
                         ELSE ClearedBits(g)[o]]
  /\ UNCHANGED vars

-----------------------------------------------------------------------------
(* The callbacks of DestroyObjects.  Reading the flags of a freed member is *)
(* a read of freed memory: `junk` are the freed addresses it finds flagged. *)

NotifiedGroups ==
  {a \in LiveGroups : ident[a] \in Notified}

\* CKGroup::CheckPreDeletion filters with the same PreDeletedCheck.
Filtered(g, junk) ==
  SelectSeq(members[g], LAMBDA o : o \in dying \cup junk)

AfterFilter(junk) ==
  [g \in Addr |-> IF g \in NotifiedGroups THEN Filtered(g, junk) ELSE members[g]]

\* CKGroup::PreDelete unlinks what the filter has left.
DyingGroups == LiveGroups \cap dying

PreDelete(junk) ==
  /\ members' = [g \in Addr |-> IF g \in DyingGroups THEN <<>> ELSE AfterFilter(junk)[g]]
  /\ groupBits' =
       [o \in Addr |-> groupBits[o] \
          {groupIndexOf[g] : g \in {d \in DyingGroups : Contains(AfterFilter(junk)[d], o)}}]

NotifyAndPreDelete(junk) ==
  /\ NotifyPreDeletion
  /\ PreDelete(junk)

-----------------------------------------------------------------------------
EmptyGroups ==
  /\ members = [a \in Addr |-> <<>>]
  /\ groupBits = [a \in Addr |-> {}]

\* The pointers of a chunk resolve to living objects or to null.
Pointers == UNION {[1 .. n -> Live \cup {NULL}] : n \in 0 .. MaxLoad}

Edit ==
  \E g \in LiveGroups :
    \/ \E o \in Live : AddObject(g, o)
    \/ \E pos \in DOMAIN members[g] : RemoveObjectAt(g, pos)
    \/ \E o \in Live : RemoveObject(g, o)
    \/ Clear(g)
    \/ \E ptrs \in Pointers : Load(g, ptrs)

Make == \E cls \in Class, a \in Addr, gidx \in 0 .. MaxSlots : NewObject(cls, a, gidx)

\* Objects die without PreDelete when everything does.
Drop == DestroyAllObjects /\ UNCHANGED groupVars

DestroyCall ==
  \/ Destroy /\ UNCHANGED groupVars
  \/ (Mark \/ FilterClassLists \/ Free \/ NotifyPostDeletion \/ Crash) /\ UNCHANGED groupVars
  \/ \E junk \in SUBSET (Addr \ Live) : NotifyAndPreDelete(junk)

ClientSpec == Init /\ EmptyGroups /\ [][Make \/ Edit \/ Drop]_allVars

GroupSpec == Init /\ EmptyGroups /\ [][Make \/ Edit \/ Drop \/ DestroyCall]_allVars

-----------------------------------------------------------------------------
(* Properties.                                                              *)

\* The two representations agree: an object has the bit of a group exactly
\* when the group lists it.  AddObject refuses by the bit and RemoveObject
\* looks in the list, so an object with only one of them can no longer be
\* added, or is listed for ever.
MembershipExact ==
  Idle => \A g \in LiveGroups, o \in Live : IsInGroup(o, g) <=> Contains(members[g], o)

\* A group lists living objects, none of them twice, and never itself, so
\* that what Save writes can be loaded back as the same group.
MembersProper ==
  Idle => \A g \in LiveGroups :
    /\ \A o \in ToSet(members[g]) : o \in Live \ {g} /\ classOf[o] \in BeObject
    /\ IsInjective(members[g])

\* After a deletion no group lists a released object ("remove invalid
\* pointers before deletion").
NoDanglingMember ==
  Idle => \A g \in LiveGroups : ToSet(members[g]) \subseteq Live

\* Every bit of a living object belongs to a living group: a bit that
\* outlives its group would make the object a member of the next group that
\* is given the index.
BitsOfLivingGroups ==
  Idle => \A o \in Live : \A i \in groupBits[o] :
    \E g \in LiveGroups : groupIndexOf[g] = i
=============================================================================
