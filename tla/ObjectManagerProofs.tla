------------------------ MODULE ObjectManagerProofs ------------------------
(***************************************************************************)
(* Theorems about ObjectManager for every heap, every set of classes and   *)
(* every notification relation; about Groups as the programs of this       *)
(* repository use them: for every heap and every set of classes the list   *)
(* of a group and the bits of its members say the same; and about          *)
(* ClassRegistry, from which the manager has that relation, for every set  *)
(* of identifiers and every list of declarations that registers a parent   *)
(* before its children.                                                    *)
(***************************************************************************)
EXTENDS Groups, ClassRegistry, InductionLemmas

-----------------------------------------------------------------------------
(* Type correctness.                                                       *)

\* GetObject yields the slot its argument names or the null pointer.
LEMMA GetObjectType ==
  ASSUME TypeOK, NEW id \in Nat
  PROVE  /\ GetObject(id) \in Addr \cup {NULL}
         /\ GetObject(id) # NULL =>
              /\ GetObject(id) \in Addr
              /\ Id2Offset(id) \in Offsets
              /\ Id2Offset(id) \in Nat
              /\ Slot(Id2Offset(id)) = GetObject(id)
              /\ Id2Offset(id) + 1 \in 1 .. Len(slots)
<1>1. slots \in Seq(Addr \cup {NULL}) /\ Len(slots) \in Nat
  BY DEF TypeOK
<1>2. Id2Offset(id) \in Int
  BY DEF Id2Offset, OBJECT_ID_OFFSET
<1>3. CASE Id2Offset(id) \in Offsets
  <2>1. Id2Offset(id) + 1 \in 1 .. Len(slots)
    BY <1>1, <1>2, <1>3 DEF Offsets
  <2>2. slots[Id2Offset(id) + 1] \in Addr \cup {NULL}
    BY <1>1, <2>1, ElementOfSeq, Zenon
  <2>3. QED BY <1>1, <1>2, <1>3, <2>1, <2>2 DEF GetObject, Slot, Offsets
<1>4. CASE Id2Offset(id) \notin Offsets
  BY <1>4 DEF GetObject
<1>5. QED BY <1>3, <1>4

-----------------------------------------------------------------------------
(* The inductive invariant.  Beside the invariants it says that the flagged *)
(* objects are those DestroyObjects still has to free: without it nothing   *)
(* would relate the flags to the end of the call.                           *)

DyingCollected ==
  /\ \A a \in dying : \E i \in DOMAIN valid : GetObject(valid[i]) = a
  /\ pc = "idle" => valid = <<>>

IInv ==
  /\ TypeOK
  /\ SlotAccounting
  /\ OneSlotPerObject
  /\ GroupIndexExact
  /\ ListedInBounds
  /\ DyingCollected

\* The object an identifier denotes is alive.
LEMMA GetObjectLive ==
  ASSUME TypeOK, OneSlotPerObject, NEW id \in Nat, GetObject(id) # NULL
  PROVE  /\ classOf[GetObject(id)] \in Class
         /\ ident[GetObject(id)] = id
<1>1. /\ GetObject(id) \in Addr
      /\ Id2Offset(id) \in Offsets
      /\ Slot(Id2Offset(id)) = GetObject(id)
  BY GetObjectType
<1>2. /\ classOf[GetObject(id)] # FREED
      /\ ident[GetObject(id)] = Offset2Id(Id2Offset(id))
  BY <1>1 DEF OneSlotPerObject
<1>3. Offset2Id(Id2Offset(id)) = id
  BY DEF Offset2Id, Id2Offset, OBJECT_ID_OFFSET
<1>4. QED BY <1>1, <1>2, <1>3 DEF TypeOK

-----------------------------------------------------------------------------
(* CreateObject.                                                            *)

\* Both ways to find a slot: it was empty or did not exist, it now holds the
\* new object, and every other slot is as it was.
LEMMA CreateSlots ==
  ASSUME TypeOK, SlotAccounting, NEW a \in Addr,
         TakeNewSlot(a) \/ TakeReturnedSlot(a)
  PROVE  /\ slots' \in Seq(Addr \cup {NULL})
         /\ Len(slots') \in Nat
         /\ Len(slots) <= Len(slots')
         /\ DecidedOffset \in 0 .. (Len(slots') - 1)
         /\ slots'[DecidedOffset + 1] = a
         /\ \A off \in 0 .. (Len(slots') - 1) :
               off # DecidedOffset => off \in Offsets /\ slots'[off + 1] = slots[off + 1]
         /\ DecidedOffset \in Offsets => Slot(DecidedOffset) = NULL
<1>1. /\ slots \in Seq(Addr \cup {NULL}) /\ Len(slots) \in Nat
      /\ returned \in Seq(Nat) /\ Len(returned) \in Nat
  BY DEF TypeOK
<1>2. CASE TakeNewSlot(a)
  <2>1. slots' = Append(slots, a) /\ returned = <<>>
    BY <1>2 DEF TakeNewSlot
  <2>2. DecidedOffset = Len(slots)
    BY <2>1 DEF DecidedOffset
  <2>3. /\ slots' \in Seq(Addr \cup {NULL})
        /\ Len(slots') = Len(slots) + 1
        /\ \A i \in 1 .. Len(slots) : slots'[i] = slots[i]
        /\ slots'[Len(slots) + 1] = a
    BY <1>1, <2>1, AppendProperties
  <2>4. QED BY <1>1, <2>2, <2>3 DEF Offsets
<1>3. CASE TakeReturnedSlot(a)
  <2>1. returned # <<>> /\ slots' = [slots EXCEPT ![DecidedOffset + 1] = a]
    BY <1>3 DEF TakeReturnedSlot
  <2>2. Len(returned) > 0 /\ Len(returned) \in DOMAIN returned
    BY <1>1, <2>1, EmptySeq, LenProperties
  <2>3. DecidedOffset = returned[Len(returned)]
    BY <2>1 DEF DecidedOffset
  <2>4. DecidedOffset \in Offsets /\ Slot(DecidedOffset) = NULL
    BY <2>2, <2>3 DEF SlotAccounting
  <2>5. DecidedOffset + 1 \in 1 .. Len(slots)
    BY <1>1, <2>4 DEF Offsets
  <2>6. /\ slots' \in Seq(Addr \cup {NULL})
        /\ Len(slots') = Len(slots)
        /\ \A i \in 1 .. Len(slots) :
              slots'[i] = IF i = DecidedOffset + 1 THEN a ELSE slots[i]
    BY <1>1, <2>1, <2>5, ExceptSeq
  <2>7. QED BY <1>1, <2>4, <2>5, <2>6 DEF Offsets
<1>4. QED BY <1>2, <1>3

LEMMA CreateAccounting ==
  ASSUME TypeOK, SlotAccounting, NEW a \in Addr,
         TakeNewSlot(a) \/ TakeReturnedSlot(a), count' = count + 1
  PROVE  returned' \in Seq(Nat) /\ SlotAccounting'
<1>0. NULL \notin Addr
  BY ConstantsAssumption
<1>1. /\ slots \in Seq(Addr \cup {NULL}) /\ Len(slots) \in Nat
      /\ returned \in Seq(Nat) /\ Len(returned) \in Nat
      /\ count \in Int
      /\ DOMAIN returned = 1 .. Len(returned)
  BY LenProperties DEF TypeOK
<1>a. \A i, j \in 1 .. Len(returned) : returned[i] = returned[j] => i = j
  BY <1>1 DEF SlotAccounting
<1>b. \A i \in 1 .. Len(returned) :
        returned[i] \in Offsets /\ Slot(returned[i]) = NULL
  BY <1>1 DEF SlotAccounting
<1>c. count + Len(returned) = Len(slots)
  BY DEF SlotAccounting
<1>2. CASE TakeNewSlot(a)
  <2>1. slots' = Append(slots, a) /\ returned' = returned /\ returned = <<>>
    BY <1>2 DEF TakeNewSlot
  <2>2. /\ Len(slots') = Len(slots) + 1
        /\ \A i \in 1 .. Len(slots) : slots'[i] = slots[i]
        /\ slots'[Len(slots) + 1] = a
    BY <1>1, <2>1, AppendProperties
  <2>3. QED BY <1>0, <1>1, <2>1, <2>2 DEF SlotAccounting, Offsets, Slot
<1>3. CASE TakeReturnedSlot(a)
  <2>1. /\ returned # <<>>
        /\ slots' = [slots EXCEPT ![DecidedOffset + 1] = a]
        /\ returned' = SubSeq(returned, 1, Len(returned) - 1)
    BY <1>3 DEF TakeReturnedSlot
  <2>2. Len(returned) > 0 /\ Len(returned) \in DOMAIN returned
    BY <1>1, <2>1, EmptySeq
  <2>3. /\ returned' \in Seq(Nat)
        /\ Len(returned') = Len(returned) - 1
        /\ DOMAIN returned' = 1 .. (Len(returned) - 1)
        /\ \A i \in 1 .. (Len(returned) - 1) : returned'[i] = returned[i]
    BY <1>1, <2>1, <2>2
  <2>4. DecidedOffset = returned[Len(returned)]
    BY <2>1 DEF DecidedOffset
  <2>5. DecidedOffset \in Offsets
    BY <2>2, <2>4 DEF SlotAccounting
  <2>6. DecidedOffset + 1 \in 1 .. Len(slots)
    BY <1>1, <2>5 DEF Offsets
  <2>7. /\ Len(slots') = Len(slots)
        /\ \A i \in 1 .. Len(slots) :
              slots'[i] = IF i = DecidedOffset + 1 THEN a ELSE slots[i]
    BY <1>1, <2>1, <2>6, ExceptSeq
  <2>8. \A i, j \in DOMAIN returned' : returned'[i] = returned'[j] => i = j
    <3>1. SUFFICES ASSUME NEW i \in 1 .. (Len(returned) - 1),
                          NEW j \in 1 .. (Len(returned) - 1),
                          returned'[i] = returned'[j]
                   PROVE  i = j
      BY <2>3
    <3>2. i \in 1 .. Len(returned) /\ j \in 1 .. Len(returned)
      BY <1>1, <3>1
    <3>3. returned[i] = returned[j]
      BY <2>3, <3>1
    <3>4. QED BY <1>a, <3>2, <3>3
  <2>9. (\A i \in DOMAIN returned :
            returned[i] \in Offsets /\ Slot(returned[i]) = NULL)'
    <3>1. SUFFICES ASSUME NEW i \in 1 .. (Len(returned) - 1)
                   PROVE  (returned[i] \in Offsets /\ Slot(returned[i]) = NULL)'
      BY <2>3
    <3>2. /\ i \in 1 .. Len(returned)
          /\ i # Len(returned)
          /\ returned'[i] = returned[i]
      <4>1. returned'[i] = returned[i]
        BY <2>3, <3>1
      <4>2. i \in Int /\ Len(returned) \in Int /\ 1 <= i /\ i <= Len(returned) - 1
        BY <1>1, <3>1
      <4>4. i \in 1 .. Len(returned) /\ i # Len(returned)
        BY <4>2
      <4>3. QED BY <4>1, <4>4
    <3>3. returned[i] \in Offsets /\ Slot(returned[i]) = NULL
      BY <1>b, <3>2
    <3>4. returned[i] # DecidedOffset
      BY <1>1, <1>a, <2>2, <2>4, <3>2
    <3>5. returned[i] + 1 \in 1 .. Len(slots) /\ returned[i] + 1 # DecidedOffset + 1
      BY <1>1, <2>5, <3>3, <3>4 DEF Offsets
    <3>6. returned'[i] \in Offsets' /\ slots'[returned'[i] + 1] = NULL
      <4>1. slots'[returned[i] + 1] = slots[returned[i] + 1]
        BY <2>7, <3>5
      <4>2. Offsets' = Offsets
        BY <2>7 DEF Offsets
      <4>3. slots[returned[i] + 1] = NULL
        BY <3>3 DEF Slot
      <4>4. QED BY <3>2, <3>3, <4>1, <4>2, <4>3
    <3>7. QED BY <3>6 DEF Slot
  <2>10. \A off \in Offsets' :
           Slot(off)' = NULL => \E i \in DOMAIN returned' : returned'[i] = off
    <3>1. SUFFICES ASSUME NEW off \in Offsets', Slot(off)' = NULL
                   PROVE  \E i \in DOMAIN returned' : returned'[i] = off
      OBVIOUS
    <3>2. off \in Offsets /\ off # DecidedOffset /\ Slot(off) = NULL
      BY <1>0, <1>1, <2>6, <2>7, <3>1 DEF Offsets, Slot
    <3>3. PICK i \in DOMAIN returned : returned[i] = off
      BY <3>2 DEF SlotAccounting
    <3>4. i \in DOMAIN returned' /\ returned'[i] = off
      BY <1>1, <2>2, <2>3, <2>4, <3>2, <3>3
    <3>5. QED BY <3>4
  <2>11. count' + Len(returned') = Len(slots')
    <3>1. count \in Int /\ Len(returned) \in Int /\ Len(slots) \in Int
      BY <1>1
    <3>2. Len(returned') = Len(returned) - 1 /\ Len(slots') = Len(slots)
      BY <2>3, <2>7
    <3>3. QED BY <1>c, <3>1, <3>2
  <2>12. QED BY <2>3, <2>8, <2>9, <2>10, <2>11 DEF SlotAccounting
<1>4. QED BY <1>2, <1>3

LEMMA CreateType ==
  ASSUME TypeOK, SlotAccounting, NEW cls \in Class, NEW a \in Addr,
         NEW gidx \in 0 .. MaxSlots, CreateObject(cls, a, gidx)
  PROVE  TypeOK'
<1>1. TakeNewSlot(a) \/ TakeReturnedSlot(a)
  BY DEF CreateObject
<1>2. slots' \in Seq(Addr \cup {NULL}) /\ Offset2Id(DecidedOffset) \in Nat
  BY <1>1, CreateSlots DEF Offset2Id, OBJECT_ID_OFFSET
<1>3. returned' \in Seq(Nat)
  BY <1>1, CreateAccounting DEF CreateObject
<1>4. gidx \in Nat
  BY ConstantsAssumption
<1>5. QED BY <1>2, <1>3, <1>4 DEF CreateObject, TypeOK, callVars

\* The new object is owned by the decided slot, the others by the slot that
\* owned them before.
LEMMA CreateOwnership ==
  ASSUME TypeOK, SlotAccounting, OneSlotPerObject, NEW cls \in Class, NEW a \in Addr,
         NEW gidx \in 0 .. MaxSlots, CreateObject(cls, a, gidx)
  PROVE  OneSlotPerObject'
<1>0. NULL \notin Addr /\ FREED \notin Class
  BY ConstantsAssumption
<1>1. TakeNewSlot(a) \/ TakeReturnedSlot(a)
  BY DEF CreateObject
<1>2. /\ Len(slots) \in Nat /\ Len(slots') \in Nat /\ Len(slots) <= Len(slots')
      /\ DecidedOffset \in 0 .. (Len(slots') - 1)
      /\ slots'[DecidedOffset + 1] = a
      /\ \A off \in 0 .. (Len(slots') - 1) :
            off # DecidedOffset => off \in Offsets /\ slots'[off + 1] = slots[off + 1]
      /\ DecidedOffset \in Offsets => Slot(DecidedOffset) = NULL
  BY <1>1, CreateSlots DEF TypeOK
<1>3. /\ classOf[a] = FREED
      /\ classOf' = [classOf EXCEPT ![a] = cls]
      /\ ident' = [ident EXCEPT ![a] = Offset2Id(DecidedOffset)]
      /\ classOf \in [Addr -> Class \cup {FREED}]
      /\ ident \in [Addr -> Nat]
  BY DEF CreateObject, TypeOK
<1>4. Offsets \subseteq Offsets' /\ Offsets' = 0 .. (Len(slots') - 1)
  BY <1>2 DEF Offsets
<1>5. \A off \in Offsets' : (Slot(off) # NULL =>
        /\ classOf[Slot(off)] # FREED
        /\ ident[Slot(off)] = Offset2Id(off))'
  <2>1. SUFFICES ASSUME NEW off \in Offsets', Slot(off)' # NULL
                 PROVE  /\ classOf'[slots'[off + 1]] # FREED
                        /\ ident'[slots'[off + 1]] = Offset2Id(off)
    BY DEF Slot, Offset2Id
  <2>2. CASE off = DecidedOffset
    <3>1. slots'[off + 1] = a
      BY <1>2, <2>2
    <3>2. QED BY <1>0, <1>3, <2>2, <3>1
  <2>3. CASE off # DecidedOffset
    <3>1. off \in Offsets /\ slots'[off + 1] = slots[off + 1]
      BY <1>2, <1>4, <2>1, <2>3
    <3>2. slots[off + 1] # NULL
      BY <2>1, <3>1 DEF Slot
    <3>3. classOf[slots[off + 1]] # FREED /\ ident[slots[off + 1]] = Offset2Id(off)
      BY <3>1, <3>2 DEF OneSlotPerObject, Slot
    <3>4. slots[off + 1] # a
      BY <1>3, <3>3
    <3>5. slots[off + 1] \in Addr
      <4>1. slots \in Seq(Addr \cup {NULL}) /\ off + 1 \in 1 .. Len(slots)
        BY <1>2, <3>1 DEF Offsets, TypeOK
      <4>2. QED BY <3>2, <4>1, ElementOfSeq
    <3>6. QED BY <1>3, <3>1, <3>3, <3>4, <3>5
  <2>4. QED BY <2>2, <2>3
<1>6. \A b \in Live' : GetObject(ident[b])' = b
  <2>1. SUFFICES ASSUME NEW b \in Live'
                 PROVE  GetObject(ident[b])' = b
    OBVIOUS
  <2>2. CASE b = a
    <3>1. ident'[b] = Offset2Id(DecidedOffset)
      BY <1>3, <2>2
    <3>2. Id2Offset(ident[b])' = DecidedOffset
      BY <1>2, <3>1 DEF Id2Offset, Offset2Id, OBJECT_ID_OFFSET
    <3>3. QED BY <1>2, <1>4, <2>2, <3>2 DEF GetObject, Slot
  <2>3. CASE b # a
    <3>1. b \in Live /\ b \in Addr /\ ident'[b] = ident[b] /\ ident[b] \in Nat
      BY <1>3, <2>1, <2>3 DEF Live
    <3>2. GetObject(ident[b]) = b
      BY <3>1 DEF OneSlotPerObject
    <3>3. /\ Id2Offset(ident[b]) \in Offsets
          /\ Slot(Id2Offset(ident[b])) = b
      BY <1>0, <3>1, <3>2, GetObjectType
    <3>4. Id2Offset(ident[b]) # DecidedOffset
      BY <1>0, <1>2, <3>1, <3>3
    <3>5. slots'[Id2Offset(ident[b]) + 1] = b
      BY <1>2, <1>4, <3>3, <3>4 DEF Slot
    <3>6. Id2Offset(ident[b])' = Id2Offset(ident[b])
      BY <3>1 DEF Id2Offset
    <3>7. QED BY <1>4, <3>3, <3>5, <3>6 DEF GetObject, Slot
  <2>4. QED BY <2>2, <2>3
<1>7. QED BY <1>5, <1>6 DEF OneSlotPerObject

\* The first clear bit belongs to no living group.
LEMMA CreateGroups ==
  ASSUME TypeOK, GroupIndexExact, NEW cls \in Class, NEW a \in Addr,
         NEW gidx \in 0 .. MaxSlots, CreateObject(cls, a, gidx)
  PROVE  GroupIndexExact'
<1>0. FREED \notin Class /\ GroupClass \subseteq Class
  BY ConstantsAssumption
<1>1. /\ classOf[a] = FREED
      /\ classOf' = [classOf EXCEPT ![a] = cls]
      /\ classOf \in [Addr -> Class \cup {FREED}]
      /\ groupIndexOf \in [Addr -> Nat]
      /\ gidx \notin groupGlobalIndex
  BY DEF CreateObject, TypeOK, FirstUnset
<1>2. CASE cls \in GroupClass
  <2>1. /\ groupIndexOf' = [groupIndexOf EXCEPT ![a] = gidx]
        /\ groupGlobalIndex' = groupGlobalIndex \cup {gidx}
    BY <1>2 DEF CreateObject
  <2>2. LiveGroups' = LiveGroups \cup {a} /\ a \notin LiveGroups
    BY <1>0, <1>1, <1>2 DEF LiveGroups, Live
  <2>3. /\ groupIndexOf'[a] = gidx
        /\ \A b \in LiveGroups : groupIndexOf'[b] = groupIndexOf[b]
    BY <1>1, <2>1, <2>2 DEF LiveGroups, Live
  <2>4. QED BY <1>1, <2>1, <2>2, <2>3 DEF GroupIndexExact
<1>3. CASE cls \notin GroupClass
  <2>1. groupIndexOf' = groupIndexOf /\ groupGlobalIndex' = groupGlobalIndex
    BY <1>3 DEF CreateObject
  <2>2. LiveGroups' = LiveGroups
    BY <1>0, <1>1, <1>3 DEF LiveGroups, Live
  <2>3. QED BY <2>1, <2>2 DEF GroupIndexExact
<1>4. QED BY <1>2, <1>3

LEMMA CreateLists ==
  ASSUME TypeOK, SlotAccounting, ListedInBounds, NEW cls \in Class, NEW a \in Addr,
         NEW gidx \in 0 .. MaxSlots, CreateObject(cls, a, gidx)
  PROVE  ListedInBounds'
<1>1. TakeNewSlot(a) \/ TakeReturnedSlot(a)
  BY DEF CreateObject
<1>2. /\ Len(slots) \in Nat /\ Len(slots') \in Nat /\ Len(slots) <= Len(slots')
      /\ DecidedOffset \in 0 .. (Len(slots') - 1)
  BY <1>1, CreateSlots DEF TypeOK
<1>3. Offsets \subseteq Offsets' /\ DecidedOffset \in Offsets'
  BY <1>2 DEF Offsets
<1>4. Id2Offset(Offset2Id(DecidedOffset)) = DecidedOffset
  BY <1>2 DEF Id2Offset, Offset2Id, OBJECT_ID_OFFSET
<1>5. /\ byClass' = [byClass EXCEPT ![cls] = @ \cup {Offset2Id(DecidedOffset)}]
      /\ byClass \in [Class -> SUBSET Nat]
  BY DEF CreateObject, TypeOK
<1>6. SUFFICES ASSUME NEW c \in Class, NEW id \in byClass'[c]
               PROVE  Id2Offset(id) \in Offsets'
  BY DEF ListedInBounds, Id2Offset
<1>7. id \in byClass[c] \/ id = Offset2Id(DecidedOffset)
  BY <1>5, <1>6
<1>8. CASE id \in byClass[c]
  BY <1>3, <1>8 DEF ListedInBounds
<1>9. CASE id = Offset2Id(DecidedOffset)
  BY <1>3, <1>4, <1>9
<1>10. QED BY <1>7, <1>8, <1>9

LEMMA CreateKeeps ==
  ASSUME IInv, NEW cls \in Class, NEW a \in Addr,
         NEW gidx \in 0 .. MaxSlots, CreateObject(cls, a, gidx)
  PROVE  IInv'
<1>1. TypeOK' /\ SlotAccounting' /\ OneSlotPerObject'
  BY CreateType, CreateAccounting, CreateOwnership DEF IInv, CreateObject
<1>2. GroupIndexExact' /\ ListedInBounds'
  BY CreateGroups, CreateLists DEF IInv
<1>3. DyingCollected'
  <2>1. pc = "idle" /\ dying' = dying /\ valid' = valid /\ pc' = pc
    BY DEF CreateObject, callVars
  <2>2. valid = <<>> /\ dying = {}
    BY <2>1, EmptySeq DEF IInv, DyingCollected
  <2>3. QED BY <2>1, <2>2 DEF DyingCollected
<1>4. QED BY <1>1, <1>2, <1>3 DEF IInv

-----------------------------------------------------------------------------
(* DestroyObjects, up to its freeing loop.                                  *)

\* What a step leaves alone when it leaves the objects and their slots alone.
LEMMA TablesKept ==
  ASSUME SlotAccounting, OneSlotPerObject, GroupIndexExact,
         UNCHANGED <<classOf, ident, groupIndexOf, slots, returned, count,
                     groupGlobalIndex>>
  PROVE  SlotAccounting' /\ OneSlotPerObject' /\ GroupIndexExact'
<1>1. SlotAccounting'
  BY DEF SlotAccounting, Offsets, Slot
<1>2. OneSlotPerObject'
  BY DEF OneSlotPerObject, Offsets, Slot, Live, GetObject, Id2Offset, Offset2Id
<1>3. GroupIndexExact'
  BY DEF GroupIndexExact, LiveGroups, Live
<1>4. QED BY <1>1, <1>2, <1>3

LEMMA BatchType ==
  ASSUME TypeOK, NEW ids \in Batches
  PROVE  ids \in Seq(Nat)
<1>1. CallerIds \subseteq Nat
  BY DEF CallerIds, Offsets, Offset2Id, OBJECT_ID_OFFSET, TypeOK
<1>2. PICK n \in 1 .. MaxBatch : ids \in [1 .. n -> CallerIds]
  BY DEF Batches
<1>3. n \in Nat
  BY ConstantsAssumption
<1>4. ids \in [1 .. n -> Nat]
  BY <1>1, <1>2
<1>5. QED BY <1>3, <1>4, SeqDef

LEMMA DestroyKeeps ==
  ASSUME IInv, NEW ids \in Batches, DestroyObjects(ids)
  PROVE  IInv'
<1>1. /\ pc = "idle" /\ pc' = "mark" /\ batch' = ids /\ valid' = <<>> /\ cids' = {}
      /\ UNCHANGED <<classOf, ident, groupIndexOf, dying, slots, returned, count,
                     byClass, groupGlobalIndex, fault>>
  BY DEF DestroyObjects, heapVars, tableVars
<1>2. TypeOK'
  BY <1>1, BatchType, EmptySeq DEF IInv, TypeOK, Phases
<1>3. SlotAccounting' /\ OneSlotPerObject' /\ GroupIndexExact'
  BY <1>1, TablesKept DEF IInv
<1>4. ListedInBounds'
  BY <1>1 DEF IInv, ListedInBounds, Offsets, Id2Offset
<1>5. DyingCollected'
  <2>1. dying = {}
    BY <1>1, EmptySeq DEF IInv, DyingCollected
  <2>2. QED BY <1>1, <2>1 DEF DyingCollected
<1>6. QED BY <1>2, <1>3, <1>4, <1>5 DEF IInv

LEMMA MarkKeeps ==
  ASSUME IInv, Mark
  PROVE  IInv'
<1> DEFINE id == Head(batch)
           obj == GetObject(id)
<1>1. /\ pc = "mark" /\ batch # <<>> /\ batch' = Tail(batch) /\ pc' = pc
      /\ UNCHANGED <<classOf, ident, groupIndexOf, slots, returned, count,
                     byClass, groupGlobalIndex, fault>>
      /\ MarkCollect(obj) \/ MarkSkip(obj)
  BY DEF Mark, tableVars
<1>2. id \in Nat /\ Tail(batch) \in Seq(Nat)
  BY <1>1, HeadTailProperties DEF IInv, TypeOK
<1>3. valid \in Seq(Nat) /\ dying \subseteq Addr /\ cids \subseteq Class
  BY DEF IInv, TypeOK
<1>4. /\ valid' \in Seq(Nat) /\ dying' \subseteq Addr /\ cids' \subseteq Class
      /\ \A a \in dying' : \E i \in DOMAIN valid' : GetObject(valid'[i]) = a
  <2>1. CASE MarkSkip(obj)
    BY <1>3, <2>1 DEF MarkSkip, IInv, DyingCollected
  <2>2. CASE MarkCollect(obj)
    <3>1. obj # NULL /\ dying' = dying \cup {obj} /\ valid' = Append(valid, id)
          /\ cids' = cids \cup {classOf[obj]}
      BY <2>2 DEF MarkCollect
    <3>2. obj \in Addr /\ classOf[obj] \in Class
      BY <1>2, <3>1, GetObjectType, GetObjectLive DEF IInv
    <3>3. /\ valid' \in Seq(Nat)
          /\ DOMAIN valid = 1 .. Len(valid) /\ Len(valid) \in Nat
          /\ DOMAIN valid' = 1 .. (Len(valid) + 1)
          /\ \A i \in 1 .. Len(valid) : valid'[i] = valid[i]
          /\ valid'[Len(valid) + 1] = id
      BY <1>2, <1>3, <3>1, AppendProperties, LenProperties
    <3>4. ASSUME NEW a \in dying'
          PROVE  \E i \in DOMAIN valid' : GetObject(valid'[i]) = a
      <4>1. CASE a \in dying
        <5>1. PICK i \in DOMAIN valid : GetObject(valid[i]) = a
          BY <4>1 DEF IInv, DyingCollected
        <5>2. i \in DOMAIN valid' /\ valid'[i] = valid[i]
          BY <3>3, <5>1
        <5>3. QED BY <5>1, <5>2
      <4>2. CASE a = obj
        <5>1. Len(valid) + 1 \in DOMAIN valid'
          BY <3>3
        <5>2. QED BY <3>3, <4>2, <5>1
      <4>3. QED BY <3>1, <3>4, <4>1, <4>2
    <3>5. QED BY <1>3, <3>1, <3>2, <3>3, <3>4
  <2>3. QED BY <1>1, <2>1, <2>2
<1>5. TypeOK'
  BY <1>1, <1>2, <1>4 DEF IInv, TypeOK
<1>6. SlotAccounting' /\ OneSlotPerObject' /\ GroupIndexExact'
  BY <1>1, TablesKept DEF IInv
<1>7. ListedInBounds'
  BY <1>1 DEF IInv, ListedInBounds, Offsets, Id2Offset
<1>8. DyingCollected'
  BY <1>1, <1>4 DEF DyingCollected, GetObject, Slot, Offsets, Id2Offset
<1>9. QED BY <1>5, <1>6, <1>7, <1>8 DEF IInv

LEMMA FilterKeeps ==
  ASSUME IInv, FilterClassLists
  PROVE  IInv'
<1>1. /\ pc' = "notify"
      /\ byClass' = [c \in Class |->
                       IF c \in cids THEN PreDeletedCheck(byClass[c]) ELSE byClass[c]]
      /\ UNCHANGED <<classOf, ident, groupIndexOf, dying, slots, returned, count,
                     groupGlobalIndex, batch, valid, cids, fault>>
  BY DEF FilterClassLists, heapVars
<1>2. \A c \in Class : byClass'[c] \subseteq byClass[c]
  BY <1>1 DEF PreDeletedCheck
<1>3. TypeOK'
  <2>1. byClass \in [Class -> SUBSET Nat]
    BY DEF IInv, TypeOK
  <2>2. \A c \in Class : byClass'[c] \subseteq Nat
    BY <1>2, <2>1
  <2>3. byClass' \in [Class -> SUBSET Nat]
    BY <1>1, <2>2
  <2>4. QED BY <1>1, <2>3 DEF IInv, TypeOK, Phases
<1>4. SlotAccounting' /\ OneSlotPerObject' /\ GroupIndexExact'
  BY <1>1, TablesKept DEF IInv
<1>5. ListedInBounds'
  BY <1>1, <1>2 DEF IInv, ListedInBounds, Offsets, Id2Offset
<1>6. DyingCollected'
  BY <1>1 DEF IInv, DyingCollected, GetObject, Slot, Offsets, Id2Offset
<1>7. QED BY <1>3, <1>4, <1>5, <1>6 DEF IInv

\* The notifying loops and the crash change nothing the invariant speaks of
\* but the phase.
LEMMA NotifyKeeps ==
  ASSUME IInv, NotifyPreDeletion \/ NotifyPostDeletion \/ Crash
  PROVE  IInv'
<1>1. UNCHANGED <<classOf, ident, groupIndexOf, dying, slots, returned, count,
                  byClass, groupGlobalIndex, batch, valid>>
  BY DEF NotifyPreDeletion, NotifyPostDeletion, Crash, heapVars, tableVars, callVars
<1>2. /\ pc' \in Phases /\ fault' \in {"none", "null"} /\ cids' \subseteq Class
      /\ pc' = "idle" => valid = <<>>
  BY DEF NotifyPreDeletion, NotifyPostDeletion, Crash, callVars, IInv, TypeOK,
         DyingCollected, Phases
<1>3. TypeOK'
  BY <1>1, <1>2 DEF IInv, TypeOK
<1>4. SlotAccounting' /\ OneSlotPerObject' /\ GroupIndexExact'
  BY <1>1, TablesKept DEF IInv
<1>5. ListedInBounds'
  BY <1>1 DEF IInv, ListedInBounds, Offsets, Id2Offset
<1>6. DyingCollected'
  BY <1>1, <1>2 DEF IInv, DyingCollected, GetObject, Slot, Offsets, Id2Offset
<1>7. QED BY <1>3, <1>4, <1>5, <1>6 DEF IInv

-----------------------------------------------------------------------------
(* One iteration of the freeing loop.                                       *)

\* The facts every part of the invariant needs of it: which object is freed,
\* and which slot it leaves.
LEMMA FreeEffect ==
  ASSUME IInv, Free,
         NEW id, id = Head(valid),
         NEW obj, obj = GetObject(id),
         NEW off, off = Id2Offset(id)
  PROVE  /\ id \in Nat /\ obj \in Addr
         /\ off \in Offsets /\ off \in Nat /\ off + 1 \in 1 .. Len(slots)
         /\ slots[off + 1] = obj
         /\ classOf[obj] \in Class /\ ident[obj] = id /\ Offset2Id(off) = id
         /\ slots' \in Seq(Addr \cup {NULL})
         /\ Len(slots) \in Nat /\ Len(slots') = Len(slots) /\ Offsets' = Offsets
         /\ \A i \in 1 .. Len(slots) :
               slots'[i] = IF i = off + 1 THEN NULL ELSE slots[i]
         /\ returned' = Append(returned, off)
         /\ count' = count - 1
         /\ classOf' = [classOf EXCEPT ![obj] = FREED]
         /\ ident' = [ident EXCEPT ![obj] = 0]
         /\ groupIndexOf' = [groupIndexOf EXCEPT ![obj] = 0]
         /\ dying' = dying \ {obj}
<1>1. /\ valid # <<>> /\ obj # NULL
      /\ slots' = [slots EXCEPT ![off + 1] = NULL]
      /\ returned' = Append(returned, off)
      /\ count' = count - 1
      /\ classOf' = [classOf EXCEPT ![obj] = FREED]
      /\ ident' = [ident EXCEPT ![obj] = 0]
      /\ groupIndexOf' = [groupIndexOf EXCEPT ![obj] = 0]
      /\ dying' = dying \ {obj}
  BY DEF Free, InternalDestroy, ReturnSlot
<1>2. id \in Nat
  BY <1>1, HeadTailProperties DEF IInv, TypeOK
<1>3. /\ obj \in Addr /\ off \in Offsets /\ off \in Nat /\ Slot(off) = obj
      /\ off + 1 \in 1 .. Len(slots)
  BY <1>1, <1>2, GetObjectType DEF IInv
<1>4. classOf[obj] \in Class /\ ident[obj] = id
  BY <1>1, <1>2, GetObjectLive DEF IInv
<1>5. Offset2Id(off) = id
  BY <1>2 DEF Offset2Id, Id2Offset, OBJECT_ID_OFFSET
<1>6. slots \in Seq(Addr \cup {NULL}) /\ Len(slots) \in Nat
  BY DEF IInv, TypeOK
<1>7. /\ slots' \in Seq(Addr \cup {NULL})
      /\ Len(slots') = Len(slots)
      /\ \A i \in 1 .. Len(slots) :
            slots'[i] = IF i = off + 1 THEN NULL ELSE slots[i]
  BY <1>1, <1>3, <1>6, ExceptSeq
<1>8. Offsets' = Offsets
  BY <1>7 DEF Offsets
<1>9. QED BY <1>1, <1>2, <1>3, <1>4, <1>5, <1>6, <1>7, <1>8 DEF Slot

\* The freed slot was in use, so it was not on the free list.
LEMMA FreeAccounting ==
  ASSUME IInv, Free
  PROVE  returned' \in Seq(Nat) /\ SlotAccounting'
<1>0. NULL \notin Addr
  BY ConstantsAssumption
<1>1. PICK id, obj, off :
        id = Head(valid) /\ obj = GetObject(id) /\ off = Id2Offset(id)
  OBVIOUS
<1>2. /\ obj \in Addr
      /\ off \in Offsets /\ off \in Nat /\ off + 1 \in 1 .. Len(slots)
      /\ slots[off + 1] = obj
      /\ Len(slots) \in Nat /\ Len(slots') = Len(slots) /\ Offsets' = Offsets
      /\ \A i \in 1 .. Len(slots) :
            slots'[i] = IF i = off + 1 THEN NULL ELSE slots[i]
      /\ returned' = Append(returned, off)
      /\ count' = count - 1
  BY <1>1, FreeEffect
<1>3. /\ returned \in Seq(Nat) /\ Len(returned) \in Nat /\ count \in Int
      /\ DOMAIN returned = 1 .. Len(returned)
  BY LenProperties DEF IInv, TypeOK
<1>4. /\ returned' \in Seq(Nat)
      /\ Len(returned') = Len(returned) + 1
      /\ DOMAIN returned' = 1 .. (Len(returned) + 1)
      /\ \A i \in 1 .. Len(returned) : returned'[i] = returned[i]
      /\ returned'[Len(returned) + 1] = off
  BY <1>2, <1>3, AppendProperties, LenProperties
<1>5. \A i \in 1 .. Len(returned) :
        returned[i] \in Offsets /\ Slot(returned[i]) = NULL /\ returned[i] # off
  <2>1. \A i \in 1 .. Len(returned) : returned[i] \in Offsets /\ Slot(returned[i]) = NULL
    BY <1>3 DEF IInv, SlotAccounting
  <2>2. Slot(off) # NULL
    BY <1>0, <1>2 DEF Slot
  <2>3. QED BY <2>1, <2>2
<1>6. \A i, j \in DOMAIN returned' : returned'[i] = returned'[j] => i = j
  <2>1. \A i, j \in 1 .. Len(returned) : returned[i] = returned[j] => i = j
    BY <1>3 DEF IInv, SlotAccounting
  <2>2. QED BY <1>3, <1>4, <1>5, <2>1
<1>7. \A i \in DOMAIN returned' : returned'[i] \in Offsets' /\ slots'[returned'[i] + 1] = NULL
  <2>1. SUFFICES ASSUME NEW i \in 1 .. (Len(returned) + 1)
                 PROVE  returned'[i] \in Offsets' /\ slots'[returned'[i] + 1] = NULL
    BY <1>4
  <2>2. CASE i = Len(returned) + 1
    BY <1>2, <1>4, <2>2
  <2>3. CASE i # Len(returned) + 1
    <3>1. i \in 1 .. Len(returned)
      BY <1>3, <2>1, <2>3
    <3>2. returned'[i] = returned[i] /\ returned[i] \in Offsets
          /\ slots[returned[i] + 1] = NULL
      BY <1>4, <1>5, <3>1 DEF Slot
    <3>3. returned[i] + 1 \in 1 .. Len(slots)
      BY <1>2, <3>2 DEF Offsets
    <3>4. QED BY <1>2, <3>2, <3>3
  <2>4. QED BY <2>2, <2>3
<1>8. \A o \in Offsets' :
        slots'[o + 1] = NULL => \E i \in DOMAIN returned' : returned'[i] = o
  <2>1. SUFFICES ASSUME NEW o \in Offsets, slots'[o + 1] = NULL
                 PROVE  \E i \in DOMAIN returned' : returned'[i] = o
    BY <1>2
  <2>2. CASE o = off
    <3>1. Len(returned) + 1 \in DOMAIN returned'
      BY <1>3, <1>4
    <3>2. QED BY <1>4, <2>2, <3>1
  <2>3. CASE o # off
    <3>1. o + 1 \in 1 .. Len(slots) /\ o + 1 # off + 1
      BY <1>2, <2>1, <2>3 DEF Offsets
    <3>2. Slot(o) = NULL
      BY <1>2, <2>1, <3>1 DEF Slot
    <3>3. PICK i \in DOMAIN returned : returned[i] = o
      BY <2>1, <3>2 DEF IInv, SlotAccounting
    <3>4. i \in DOMAIN returned' /\ returned'[i] = o
      BY <1>3, <1>4, <3>3
    <3>5. QED BY <3>4
  <2>4. QED BY <2>2, <2>3
<1>9. count' + Len(returned') = Len(slots')
  <2>1. count + Len(returned) = Len(slots)
    BY DEF IInv, SlotAccounting
  <2>2. QED BY <1>2, <1>3, <1>4, <2>1
<1>10. QED BY <1>4, <1>6, <1>7, <1>8, <1>9 DEF SlotAccounting, Slot

\* No other slot holds the freed object, so the others keep what they own.
LEMMA FreeOwnership ==
  ASSUME IInv, Free
  PROVE  OneSlotPerObject'
<1>0. NULL \notin Addr /\ FREED \notin Class
  BY ConstantsAssumption
<1>1. PICK id, obj, off :
        id = Head(valid) /\ obj = GetObject(id) /\ off = Id2Offset(id)
  OBVIOUS
<1>2. /\ obj \in Addr /\ off \in Offsets /\ slots[off + 1] = obj
      /\ ident[obj] = id /\ Offset2Id(off) = id
      /\ Len(slots) \in Nat /\ Offsets' = Offsets
      /\ \A i \in 1 .. Len(slots) :
            slots'[i] = IF i = off + 1 THEN NULL ELSE slots[i]
      /\ classOf' = [classOf EXCEPT ![obj] = FREED]
      /\ ident' = [ident EXCEPT ![obj] = 0]
  BY <1>1, FreeEffect
<1>3. /\ classOf \in [Addr -> Class \cup {FREED}]
      /\ ident \in [Addr -> Nat]
      /\ slots \in Seq(Addr \cup {NULL})
  BY DEF IInv, TypeOK
<1>4. \A o \in Offsets : slots'[o + 1] = IF o = off THEN NULL ELSE slots[o + 1]
  BY <1>2 DEF Offsets
<1>5. ASSUME NEW o \in Offsets, o # off, slots[o + 1] # NULL
      PROVE  /\ slots[o + 1] \in Addr /\ slots[o + 1] # obj
             /\ classOf[slots[o + 1]] # FREED
             /\ ident[slots[o + 1]] = Offset2Id(o)
  <2>1. o + 1 \in 1 .. Len(slots)
    BY <1>2, <1>5 DEF Offsets
  <2>2. slots[o + 1] \in Addr
    BY <1>3, <1>5, <2>1, ElementOfSeq
  <2>3. classOf[slots[o + 1]] # FREED /\ ident[slots[o + 1]] = Offset2Id(o)
    BY <1>5 DEF IInv, OneSlotPerObject, Slot
  <2>4. Offset2Id(o) # Offset2Id(off)
    BY <1>2, <1>5 DEF Offsets, Offset2Id, OBJECT_ID_OFFSET
  <2>5. QED BY <1>2, <2>2, <2>3, <2>4
<1>6. ASSUME NEW o \in Offsets', slots'[o + 1] # NULL
      PROVE  /\ classOf'[slots'[o + 1]] # FREED
             /\ ident'[slots'[o + 1]] = Offset2Id(o)
  <2>1. o \in Offsets /\ o # off /\ slots'[o + 1] = slots[o + 1]
    BY <1>2, <1>4, <1>6
  <2>2. /\ slots[o + 1] \in Addr /\ slots[o + 1] # obj
        /\ classOf[slots[o + 1]] # FREED
        /\ ident[slots[o + 1]] = Offset2Id(o)
    BY <1>5, <1>6, <2>1
  <2>3. QED BY <1>2, <1>3, <2>1, <2>2
<1>7. ASSUME NEW b \in Live'
      PROVE  GetObject(ident[b])' = b
  <2>1. b \in Live /\ b # obj /\ b \in Addr /\ ident'[b] = ident[b] /\ ident[b] \in Nat
    BY <1>2, <1>3, <1>7 DEF Live
  <2>2. GetObject(ident[b]) = b
    BY <2>1 DEF IInv, OneSlotPerObject
  <2>3. Id2Offset(ident[b]) \in Offsets /\ slots[Id2Offset(ident[b]) + 1] = b
    BY <1>0, <2>1, <2>2, GetObjectType DEF IInv, Slot
  <2>4. Id2Offset(ident[b]) # off
    BY <1>2, <2>1, <2>3
  <2>5. slots'[Id2Offset(ident[b]) + 1] = b
    BY <1>4, <2>3, <2>4
  <2>6. Id2Offset(ident[b])' = Id2Offset(ident[b])
    BY <2>1 DEF Id2Offset
  <2>7. QED BY <1>2, <2>3, <2>5, <2>6 DEF GetObject, Slot
<1>8. QED BY <1>6, <1>7 DEF OneSlotPerObject, Slot, Offset2Id

\* The index a dying group gives back is its own, and nobody else's.
LEMMA FreeGroups ==
  ASSUME IInv, Free
  PROVE  GroupIndexExact' /\ groupGlobalIndex' \subseteq groupGlobalIndex
<1>0. FREED \notin Class /\ GroupClass \subseteq Class
  BY ConstantsAssumption
<1>1. PICK id, obj, off :
        id = Head(valid) /\ obj = GetObject(id) /\ off = Id2Offset(id)
  OBVIOUS
<1>2. /\ obj \in Addr /\ classOf[obj] \in Class
      /\ classOf' = [classOf EXCEPT ![obj] = FREED]
      /\ groupIndexOf' = [groupIndexOf EXCEPT ![obj] = 0]
  BY <1>1, FreeEffect
<1>3. /\ classOf \in [Addr -> Class \cup {FREED}]
      /\ groupIndexOf \in [Addr -> Nat]
  BY DEF IInv, TypeOK
<1>4. groupGlobalIndex' = IF classOf[obj] \in GroupClass
                            THEN groupGlobalIndex \ {groupIndexOf[obj]}
                            ELSE groupGlobalIndex
  BY <1>1 DEF Free, InternalDestroy, ReturnSlot
<1>5. LiveGroups' = LiveGroups \ {obj}
  BY <1>0, <1>2, <1>3 DEF LiveGroups, Live
<1>6. \A b \in LiveGroups' : b \in Addr /\ groupIndexOf'[b] = groupIndexOf[b]
  BY <1>2, <1>3, <1>5 DEF LiveGroups, Live
<1>7. obj \in LiveGroups <=> classOf[obj] \in GroupClass
  BY <1>0, <1>2 DEF LiveGroups, Live
<1>8. GroupIndexExact
  BY DEF IInv
<1>9. GroupIndexExact'
  BY <1>4, <1>5, <1>6, <1>7, <1>8 DEF GroupIndexExact
<1>10. QED BY <1>4, <1>9

\* The objects still flagged are those still to be freed.
LEMMA FreeDying ==
  ASSUME IInv, Free
  PROVE  DyingCollected'
<1>0. NULL \notin Addr
  BY ConstantsAssumption
<1>1. PICK id, obj, off :
        id = Head(valid) /\ obj = GetObject(id) /\ off = Id2Offset(id)
  OBVIOUS
<1>2. /\ obj \in Addr /\ slots[off + 1] = obj /\ off \in Offsets
      /\ Len(slots) \in Nat /\ Offsets' = Offsets
      /\ \A i \in 1 .. Len(slots) :
            slots'[i] = IF i = off + 1 THEN NULL ELSE slots[i]
      /\ dying' = dying \ {obj}
  BY <1>1, FreeEffect
<1>3. /\ pc = "free" /\ pc' = pc /\ valid # <<>> /\ valid' = Tail(valid)
      /\ valid \in Seq(Nat) /\ dying \subseteq Addr
  BY DEF Free, InternalDestroy, ReturnSlot, IInv, TypeOK
<1>4. /\ valid' \in Seq(Nat)
      /\ Len(valid) \in Nat /\ Len(valid') = Len(valid) - 1
      /\ DOMAIN valid = 1 .. Len(valid)
      /\ DOMAIN valid' = 1 .. (Len(valid) - 1)
      /\ \A i \in 1 .. Len(valid') : valid'[i] = valid[i + 1]
  BY <1>3, HeadTailProperties, LenProperties
<1>5. valid[1] = id
  BY <1>1, <1>3
<1>6. ASSUME NEW a \in dying'
      PROVE  \E i \in DOMAIN valid' : GetObject(valid[i])' = a
  <2>1. a \in dying /\ a # obj /\ a \in Addr
    BY <1>2, <1>3, <1>6
  <2>2. PICK i \in DOMAIN valid : GetObject(valid[i]) = a
    BY <2>1 DEF IInv, DyingCollected
  <2>3. i # 1
    BY <1>1, <1>5, <2>1, <2>2
  <2>4. i - 1 \in 1 .. (Len(valid) - 1) /\ i - 1 + 1 = i
    BY <1>4, <2>2, <2>3
  <2>5. valid'[i - 1] = valid[i]
    BY <1>4, <2>4
  <2>6. valid[i] \in Nat
    BY <1>3, <1>4, <2>2, ElementOfSeq
  <2>7. Id2Offset(valid[i]) \in Offsets /\ slots[Id2Offset(valid[i]) + 1] = a
    BY <1>0, <2>1, <2>2, <2>6, GetObjectType DEF IInv, Slot
  <2>8. Id2Offset(valid[i]) + 1 \in 1 .. Len(slots)
    BY <1>2, <2>7 DEF Offsets
  <2>9. Id2Offset(valid[i]) # off
    BY <1>2, <2>1, <2>7
  <2>10. slots'[Id2Offset(valid[i]) + 1] = a
    <3>1. Id2Offset(valid[i]) + 1 # off + 1
      BY <1>2, <2>7, <2>9 DEF Offsets
    <3>2. QED BY <1>2, <2>7, <2>8, <3>1
  <2>11. GetObject(valid[i - 1])' = a
    BY <1>2, <2>5, <2>7, <2>10 DEF GetObject, Slot, Id2Offset
  <2>12. QED BY <1>4, <2>4, <2>11
<1>7. QED BY <1>3, <1>6 DEF DyingCollected

LEMMA FreeKeeps ==
  ASSUME IInv, Free
  PROVE  IInv'
<1>1. PICK id, obj, off :
        id = Head(valid) /\ obj = GetObject(id) /\ off = Id2Offset(id)
  OBVIOUS
<1>2. /\ slots' \in Seq(Addr \cup {NULL}) /\ Offsets' = Offsets
      /\ count' = count - 1
      /\ classOf' = [classOf EXCEPT ![obj] = FREED]
      /\ ident' = [ident EXCEPT ![obj] = 0]
      /\ groupIndexOf' = [groupIndexOf EXCEPT ![obj] = 0]
      /\ dying' = dying \ {obj}
  BY <1>1, FreeEffect
<1>3. /\ valid # <<>> /\ valid' = Tail(valid)
      /\ UNCHANGED <<byClass, pc, batch, cids, fault>>
  BY DEF Free, InternalDestroy, ReturnSlot
<1>4. valid' \in Seq(Nat)
  BY <1>3, HeadTailProperties DEF IInv, TypeOK
<1>5. TypeOK'
  <2>1. /\ returned' \in Seq(Nat) /\ groupGlobalIndex' \subseteq groupGlobalIndex
    BY FreeAccounting, FreeGroups
  <2>2. TypeOK
    BY DEF IInv
  <2>3. /\ classOf' \in [Addr -> Class \cup {FREED}]
        /\ ident' \in [Addr -> Nat] /\ groupIndexOf' \in [Addr -> Nat]
    <3>1. classOf \in [Addr -> Class \cup {FREED}]
      BY <2>2 DEF TypeOK
    <3>2. ident \in [Addr -> Nat] /\ groupIndexOf \in [Addr -> Nat]
      BY <2>2 DEF TypeOK
    <3>3. classOf' \in [Addr -> Class \cup {FREED}]
      BY <1>2, <3>1
    <3>4. ident' \in [Addr -> Nat] /\ groupIndexOf' \in [Addr -> Nat]
      BY <1>2, <3>2
    <3>5. QED BY <3>3, <3>4
  <2>5. dying' \subseteq Addr /\ count' \in Int
    BY <1>2, <2>2 DEF TypeOK
  <2>4. QED BY <1>2, <1>3, <1>4, <2>1, <2>2, <2>3, <2>5 DEF TypeOK
<1>6. ListedInBounds'
  BY <1>2, <1>3 DEF IInv, ListedInBounds, Id2Offset
<1>7. QED BY <1>5, <1>6, FreeAccounting, FreeOwnership, FreeGroups, FreeDying DEF IInv

-----------------------------------------------------------------------------
(* The invariant.                                                           *)

LEMMA InitInvariant ==
  ASSUME Init
  PROVE  IInv
<1>1. Offsets = {} /\ Live = {} /\ LiveGroups = {}
  BY EmptySeq DEF Init, Offsets, Live, LiveGroups
<1>2. TypeOK
  BY EmptySeq DEF Init, TypeOK, Phases
<1>3. SlotAccounting
  BY <1>1, EmptySeq DEF Init, SlotAccounting
<1>4. OneSlotPerObject /\ GroupIndexExact /\ ListedInBounds /\ DyingCollected
  BY <1>1 DEF Init, OneSlotPerObject, GroupIndexExact, ListedInBounds, DyingCollected
<1>5. QED BY <1>2, <1>3, <1>4 DEF IInv

\* Every object of the heap is in a slot, so nothing is left when the slots
\* are emptied.
LEMMA DestroyAllKeeps ==
  ASSUME IInv, DestroyAllObjects
  PROVE  IInv'
<1>0. NULL \notin Addr
  BY ConstantsAssumption
<1>1. /\ pc = "idle" /\ slots' = <<>> /\ returned' = <<>> /\ count' = 0
      /\ classOf' = [a \in Addr |->
           IF \E off \in Offsets : Slot(off) = a THEN FREED ELSE classOf[a]]
      /\ ident' = [a \in Addr |-> 0] /\ groupIndexOf' = [a \in Addr |-> 0]
      /\ dying' = {a \in dying : \A off \in Offsets : Slot(off) # a}
      /\ byClass' = [c \in Class |-> {}] /\ groupGlobalIndex' = {}
      /\ UNCHANGED <<pc, batch, valid, cids, fault>>
  BY DEF DestroyAllObjects, ClearClassLists, callVars
<1>2. Live' = {}
  <2>1. SUFFICES ASSUME NEW a \in Addr, classOf'[a] # FREED
                 PROVE  FALSE
    BY DEF Live
  <2>2. a \in Live /\ \A off \in Offsets : Slot(off) # a
    BY <1>1, <2>1 DEF Live
  <2>3. GetObject(ident[a]) = a /\ ident[a] \in Nat
    BY <2>1, <2>2 DEF IInv, OneSlotPerObject, TypeOK
  <2>4. Id2Offset(ident[a]) \in Offsets /\ Slot(Id2Offset(ident[a])) = a
    BY <1>0, <2>1, <2>3, GetObjectType DEF IInv
  <2>5. QED BY <2>2, <2>4
<1>3. Offsets' = {} /\ LiveGroups' = {}
  BY <1>1, <1>2, EmptySeq DEF Offsets, LiveGroups
<1>4. TypeOK'
  <2>1. /\ classOf \in [Addr -> Class \cup {FREED}] /\ dying \subseteq Addr
        /\ pc \in Phases /\ batch \in Seq(Nat) /\ valid \in Seq(Nat)
        /\ cids \subseteq Class /\ fault \in {"none", "null"}
    BY DEF IInv, TypeOK
  <2>2. classOf' \in [Addr -> Class \cup {FREED}] /\ dying' \subseteq Addr
    BY <1>1, <2>1
  <2>3. slots' \in Seq(Addr \cup {NULL}) /\ returned' \in Seq(Nat)
    BY <1>1, EmptySeq
  <2>4. /\ ident' \in [Addr -> Nat] /\ groupIndexOf' \in [Addr -> Nat]
        /\ count' \in Int /\ byClass' \in [Class -> SUBSET Nat]
        /\ groupGlobalIndex' \subseteq Nat
    BY <1>1
  <2>5. QED BY <1>1, <2>1, <2>2, <2>3, <2>4 DEF TypeOK, Phases
<1>5. SlotAccounting'
  BY <1>1, <1>3, EmptySeq DEF SlotAccounting
<1>6. OneSlotPerObject' /\ GroupIndexExact' /\ ListedInBounds'
  BY <1>1, <1>2, <1>3 DEF OneSlotPerObject, GroupIndexExact, ListedInBounds
<1>7. DyingCollected'
  <2>1. dying = {} /\ valid = <<>>
    BY <1>1, EmptySeq DEF IInv, DyingCollected
  <2>2. QED BY <1>1, <2>1 DEF DyingCollected
<1>8. QED BY <1>4, <1>5, <1>6, <1>7 DEF IInv

LEMMA StutterKeeps ==
  ASSUME IInv, UNCHANGED vars
  PROVE  IInv'
<1>1. UNCHANGED <<classOf, ident, groupIndexOf, dying, slots, returned, count,
                  byClass, groupGlobalIndex, pc, batch, valid, cids, fault>>
  BY DEF vars, heapVars, tableVars, callVars
<1>2. TypeOK'
  BY <1>1 DEF IInv, TypeOK
<1>3. SlotAccounting' /\ OneSlotPerObject' /\ GroupIndexExact'
  BY <1>1, TablesKept DEF IInv
<1>4. ListedInBounds' /\ DyingCollected'
  BY <1>1 DEF IInv, ListedInBounds, DyingCollected, GetObject, Slot, Offsets, Id2Offset
<1>5. QED BY <1>2, <1>3, <1>4 DEF IInv

\* The invariant is inductive.
LEMMA NextKeeps ==
  ASSUME IInv, [Next]_vars
  PROVE  IInv'
<1>1. CASE Create
  BY <1>1, CreateKeeps DEF Create
<1>2. CASE Destroy
  BY <1>2, DestroyKeeps DEF Destroy
<1>3. CASE DestroyStep
  BY <1>3, MarkKeeps, FilterKeeps, NotifyKeeps, FreeKeeps DEF DestroyStep
<1>4. CASE DestroyAllObjects
  BY <1>4, DestroyAllKeeps
<1>5. CASE UNCHANGED vars
  BY <1>5, StutterKeeps
<1>6. QED BY <1>1, <1>2, <1>3, <1>4, <1>5 DEF Next

\* Every state the object manager reaches satisfies the inductive invariant.
THEOREM Invariance == Spec => []IInv
<1>1. Init => IInv
  BY InitInvariant
<1>2. IInv /\ [Next]_vars => IInv'
  BY NextKeeps
<1>3. QED BY <1>1, <1>2, PTL DEF Spec

\* Every variable of the object manager keeps its type.
THEOREM TypeCorrect == Spec => []TypeOK
<1>1. IInv => TypeOK
  BY DEF IInv
<1>2. QED BY <1>1, Invariance, PTL

\* CreateObject and DestroyObjects keep the free list exact: no offset is
\* lost and none is handed out twice.
THEOREM FreeListExact == Spec => []SlotAccounting
<1>1. IInv => SlotAccounting
  BY DEF IInv
<1>2. QED BY <1>1, Invariance, PTL

\* Every object is reachable through its own identifier and only through it.
THEOREM ObjectsOwned == Spec => []OneSlotPerObject
<1>1. IInv => OneSlotPerObject
  BY DEF IInv
<1>2. QED BY <1>1, Invariance, PTL

\* The allocator of group indices and the living groups agree.
THEOREM GroupIndicesExact == Spec => []GroupIndexExact
<1>1. IInv => GroupIndexExact
  BY DEF IInv
<1>2. QED BY <1>1, Invariance, PTL

\* The unchecked accesses through the class lists are within bounds.
THEOREM ListsInBounds == Spec => []ListedInBounds
<1>1. IInv => ListedInBounds
  BY DEF IInv
<1>2. QED BY <1>1, Invariance, PTL

\* No object outlives the call of DestroyObjects that flagged it.
THEOREM NoSurvivor == Spec => []NoMarkedSurvivor
<1>1. IInv => NoMarkedSurvivor
  <2>1. SUFFICES ASSUME IInv, pc = "idle"
                 PROVE  dying = {}
    BY DEF NoMarkedSurvivor
  <2>2. valid = <<>> /\ \A a \in dying : \E i \in DOMAIN valid : GetObject(valid[i]) = a
    BY <2>1 DEF IInv, DyingCollected
  <2>3. QED BY <2>2, EmptySeq
<1>2. QED BY <1>1, Invariance, PTL

-----------------------------------------------------------------------------
(* The object manager implements the table of identifiers.                 *)

SlotsBounded == Len(slots) <= MaxSlots

LEMMA BoundKept ==
  ASSUME IInv, SlotsBounded, [Next]_vars
  PROVE  SlotsBounded'
<1>0. Len(slots) \in Nat /\ slots \in Seq(Addr \cup {NULL}) /\ MaxSlots \in Nat
  BY ConstantsAssumption DEF IInv, TypeOK
<1>1. CASE Create
  <2>1. PICK cls \in Class, a \in Addr, gidx \in 0 .. MaxSlots : CreateObject(cls, a, gidx)
    BY <1>1 DEF Create
  <2>2. CASE TakeNewSlot(a)
    <3>1. Len(slots) < MaxSlots /\ slots' = Append(slots, a)
      BY <2>2 DEF TakeNewSlot
    <3>2. Len(slots') = Len(slots) + 1
      BY <1>0, <3>1, AppendProperties
    <3>3. QED BY <1>0, <3>1, <3>2 DEF SlotsBounded
  <2>3. CASE TakeReturnedSlot(a)
    <3>1. slots' = [slots EXCEPT ![DecidedOffset + 1] = a]
      BY <2>3 DEF TakeReturnedSlot
    <3>2. Len(slots') = Len(slots)
      BY <1>0, <3>1, LenProperties
    <3>3. QED BY <3>2 DEF SlotsBounded
  <2>4. QED BY <2>1, <2>2, <2>3 DEF CreateObject
<1>2. CASE Free
  <2>1. PICK id, obj, off :
          id = Head(valid) /\ obj = GetObject(id) /\ off = Id2Offset(id)
    OBVIOUS
  <2>2. Len(slots') = Len(slots)
    BY <1>2, <2>1, FreeEffect
  <2>3. QED BY <2>2 DEF SlotsBounded
<1>3. CASE DestroyAllObjects
  <2>1. slots' = <<>>
    BY <1>3 DEF DestroyAllObjects
  <2>2. QED BY <1>0, <2>1, EmptySeq DEF SlotsBounded
<1>4. CASE UNCHANGED slots
  BY <1>4 DEF SlotsBounded
<1>5. Create \/ Free \/ DestroyAllObjects \/ UNCHANGED slots
  BY DEF Next, Destroy, DestroyObjects, DestroyStep, Mark, FilterClassLists,
         NotifyPreDeletion, NotifyPostDeletion, Crash, heapVars, tableVars, vars
<1>6. QED BY <1>1, <1>2, <1>3, <1>4, <1>5

IdTable == [id \in boundIds |-> GetObject(id)]

Id == {Offset2Id(off) : off \in 0 .. MaxSlots}

\* An identifier is bound when GetObject finds something.
BoundIffFound ==
  /\ boundIds \subseteq Nat
  /\ \A id \in Nat : id \in boundIds <=> GetObject(id) # NULL

LEMMA BoundIdsAre == TypeOK => BoundIffFound
<1>0. SUFFICES ASSUME TypeOK
               PROVE  BoundIffFound
  OBVIOUS
<1>1. \A off \in Offsets : off \in Nat
  BY <1>0 DEF Offsets, TypeOK
<1>2. \A off \in Offsets : Offset2Id(off) \in Nat /\ Id2Offset(Offset2Id(off)) = off
  BY <1>1 DEF Offset2Id, Id2Offset, OBJECT_ID_OFFSET
<1>3. ASSUME NEW id \in boundIds
      PROVE  id \in Nat /\ GetObject(id) # NULL
  <2>1. PICK off \in Offsets : Slot(off) # NULL /\ id = Offset2Id(off)
    BY <1>3 DEF boundIds
  <2>2. QED BY <1>2, <2>1 DEF GetObject
<1>4. ASSUME NEW id \in Nat, GetObject(id) # NULL
      PROVE  id \in boundIds
  <2>1. Id2Offset(id) \in Offsets /\ Slot(Id2Offset(id)) # NULL
    BY <1>4 DEF GetObject
  <2>2. Offset2Id(Id2Offset(id)) = id
    BY DEF Offset2Id, Id2Offset, OBJECT_ID_OFFSET
  <2>3. QED BY <2>1, <2>2 DEF boundIds
<1>5. QED BY <1>3, <1>4 DEF BoundIffFound

LEMMA BoundIdsNext ==
  ASSUME IInv, IInv'
  PROVE  BoundIffFound /\ BoundIffFound'
<1>1. (TypeOK => BoundIffFound)'
  BY BoundIdsAre, PTL
<1>2. QED BY <1>1, BoundIdsAre DEF IInv

\* The effect of CreateObject and of one iteration of the freeing loop on
\* what GetObject finds.
LEMMA CreateTable ==
  ASSUME IInv, NEW cls \in Class, NEW a \in Addr,
         NEW gidx \in 0 .. MaxSlots, CreateObject(cls, a, gidx),
         NEW new, new = Offset2Id(DecidedOffset)
  PROVE  /\ new \in Nat /\ new \notin boundIds
         /\ DecidedOffset \in Offsets'
         /\ \A id \in Nat : GetObject(id)' = IF id = new THEN a ELSE GetObject(id)
<1>1. TakeNewSlot(a) \/ TakeReturnedSlot(a)
  BY DEF CreateObject
<1>2. /\ Len(slots) \in Nat /\ Len(slots') \in Nat /\ Len(slots) <= Len(slots')
      /\ DecidedOffset \in 0 .. (Len(slots') - 1)
      /\ slots'[DecidedOffset + 1] = a
      /\ \A off \in 0 .. (Len(slots') - 1) :
            off # DecidedOffset => off \in Offsets /\ slots'[off + 1] = slots[off + 1]
      /\ DecidedOffset \in Offsets => Slot(DecidedOffset) = NULL
  BY <1>1, CreateSlots DEF IInv, TypeOK
<1>3. Offsets \subseteq Offsets' /\ Offsets' = 0 .. (Len(slots') - 1)
  BY <1>2 DEF Offsets
<1>4. new \in Nat /\ Id2Offset(new) = DecidedOffset
  BY <1>2 DEF Id2Offset, Offset2Id, OBJECT_ID_OFFSET
<1>5. new \notin boundIds
  <2>1. GetObject(new) = NULL
    BY <1>2, <1>4 DEF GetObject
  <2>2. QED BY <1>4, <2>1, BoundIdsAre DEF BoundIffFound, IInv
<1>6. ASSUME NEW id \in Nat
      PROVE  GetObject(id)' = IF id = new THEN a ELSE GetObject(id)
  <2>1. CASE id = new
    BY <1>2, <1>3, <1>4, <2>1 DEF GetObject, Slot, Id2Offset
  <2>2. CASE id # new
    <3>1. Id2Offset(id) # DecidedOffset
      BY <1>4, <2>2 DEF Id2Offset, OBJECT_ID_OFFSET
    <3>2. Id2Offset(id) \in Offsets <=> Id2Offset(id) \in Offsets'
      BY <1>2, <1>3, <3>1
    <3>3. Id2Offset(id) \in Offsets => slots'[Id2Offset(id) + 1] = slots[Id2Offset(id) + 1]
      BY <1>2, <1>3, <3>1
    <3>4. QED BY <2>2, <3>2, <3>3 DEF GetObject, Slot, Id2Offset
  <2>3. QED BY <2>1, <2>2
<1>7. QED BY <1>2, <1>3, <1>4, <1>5, <1>6

LEMMA FreeTable ==
  ASSUME IInv, Free, NEW old, old = Head(valid)
  PROVE  /\ old \in boundIds
         /\ \A id \in Nat : GetObject(id)' = IF id = old THEN NULL ELSE GetObject(id)
<1>1. PICK obj, off : obj = GetObject(old) /\ off = Id2Offset(old)
  OBVIOUS
<1>2. /\ old \in Nat /\ obj \in Addr /\ off \in Offsets /\ off \in Nat
      /\ Len(slots) \in Nat /\ Offsets' = Offsets /\ Offset2Id(off) = old
      /\ \A i \in 1 .. Len(slots) :
            slots'[i] = IF i = off + 1 THEN NULL ELSE slots[i]
  BY <1>1, FreeEffect
<1>3. old \in boundIds
  <2>1. GetObject(old) # NULL
    BY <1>1, <1>2, ConstantsAssumption
  <2>2. QED BY <1>2, <2>1, BoundIdsAre DEF BoundIffFound, IInv
<1>4. \A o \in Offsets : slots'[o + 1] = IF o = off THEN NULL ELSE slots[o + 1]
  BY <1>2 DEF Offsets
<1>5. \A id \in Nat : Id2Offset(id) = off <=> id = old
  BY <1>1, <1>2 DEF Id2Offset, OBJECT_ID_OFFSET
<1>6. ASSUME NEW id \in Nat
      PROVE  GetObject(id)' = IF id = old THEN NULL ELSE GetObject(id)
  <2>1. CASE Id2Offset(id) \in Offsets
    BY <1>2, <1>4, <1>5, <2>1 DEF GetObject, Slot, Id2Offset
  <2>2. CASE Id2Offset(id) \notin Offsets
    <3>1. id # old
      BY <1>2, <1>5, <2>2
    <3>2. QED BY <1>2, <2>2, <3>1 DEF GetObject, Id2Offset
  <2>3. QED BY <2>1, <2>2
<1>7. QED BY <1>3, <1>6

LEMMA InitImplements ==
  ASSUME Init
  PROVE  Table!Init
<1>1. boundIds = {}
  BY EmptySeq DEF Init, boundIds, Offsets
<1>2. QED BY <1>1 DEF Table!Init, Table!Empty

\* CreateObject binds an identifier nobody holds to an object nobody is
\* bound to.
LEMMA CreateBinds ==
  ASSUME IInv, IInv', SlotsBounded', NEW cls \in Class, NEW a \in Addr,
         NEW gidx \in 0 .. MaxSlots, CreateObject(cls, a, gidx)
  PROVE  Table!Next
<1>1. PICK new : new = Offset2Id(DecidedOffset)
  OBVIOUS
<1>2. /\ new \in Nat /\ new \notin boundIds /\ DecidedOffset \in Offsets'
      /\ \A id \in Nat : GetObject(id)' = IF id = new THEN a ELSE GetObject(id)
  BY <1>1, CreateTable
<1>3. a # NULL /\ NULL \notin Addr
  BY ConstantsAssumption
<1>4. BoundIffFound /\ BoundIffFound'
  BY BoundIdsNext
<1>5. boundIds' = boundIds \cup {new}
  BY <1>2, <1>3, <1>4 DEF BoundIffFound
<1>6. \A id \in boundIds : GetObject(id) # a
  <2>1. \A id \in boundIds : id \in Nat /\ GetObject(id) # NULL
    BY <1>4 DEF BoundIffFound
  <2>2. \A id \in boundIds : classOf[GetObject(id)] \in Class
    BY <2>1, GetObjectLive DEF IInv
  <2>3. classOf[a] = FREED /\ FREED \notin Class
    BY ConstantsAssumption DEF CreateObject
  <2>4. QED BY <2>2, <2>3
<1>7. \A id \in boundIds' : GetObject(id)' = IF id = new THEN a ELSE GetObject(id)
  BY <1>2, <1>4 DEF BoundIffFound
<1>8. IdTable' = [id \in boundIds \cup {new} |->
                    IF id = new THEN a ELSE IdTable[id]]
  <2>1. \A id \in boundIds : IdTable[id] = GetObject(id)
    BY DEF IdTable
  <2>2. \A id \in boundIds \cup {new} :
          GetObject(id)' = IF id = new THEN a ELSE IdTable[id]
    BY <1>5, <1>7, <2>1
  <2>3. IdTable' = [id \in boundIds' |-> GetObject(id)']
    BY DEF IdTable
  <2>4. QED BY <1>5, <2>2, <2>3
<1>9. new \in Id
  <2>1. DecidedOffset \in 0 .. MaxSlots
    BY <1>2, ConstantsAssumption DEF SlotsBounded, Offsets, IInv, TypeOK
  <2>2. QED BY <1>1, <2>1 DEF Id
<1>10. Table!Bind(new, a)
  BY <1>2, <1>6, <1>8 DEF Table!Bind, Table!Bound, Table!Bindings, IdTable
<1>11. QED BY <1>9, <1>10 DEF Table!Next, Id

\* An iteration of the freeing loop unbinds one identifier.
LEMMA FreeUnbinds ==
  ASSUME IInv, IInv', SlotsBounded, Free
  PROVE  Table!Next
<1>1. PICK old : old = Head(valid)
  OBVIOUS
<1>2. /\ old \in boundIds
      /\ \A id \in Nat : GetObject(id)' = IF id = old THEN NULL ELSE GetObject(id)
  BY <1>1, FreeTable
<1>3. BoundIffFound /\ BoundIffFound'
  BY BoundIdsNext
<1>4. boundIds' = boundIds \ {old}
  BY <1>2, <1>3 DEF BoundIffFound
<1>5. IdTable' = [id \in boundIds \ {old} |-> IdTable[id]]
  <2>1. \A id \in boundIds \ {old} : GetObject(id)' = IdTable[id]
    BY <1>2, <1>3 DEF BoundIffFound, IdTable
  <2>2. IdTable' = [id \in boundIds' |-> GetObject(id)']
    BY DEF IdTable
  <2>3. QED BY <1>4, <2>1, <2>2
<1>6. old \in Id
  <2>1. PICK off \in Offsets : old = Offset2Id(off)
    BY <1>2 DEF boundIds
  <2>2. off \in 0 .. MaxSlots
    BY <2>1, ConstantsAssumption DEF SlotsBounded, Offsets, IInv, TypeOK
  <2>3. QED BY <2>1, <2>2 DEF Id
<1>7. Table!Unbind(old)
  BY <1>2, <1>5 DEF Table!Unbind, Table!Bound, IdTable
<1>8. QED BY <1>6, <1>7 DEF Table!Next, Id

LEMMA DestroyAllClears ==
  ASSUME DestroyAllObjects
  PROVE  Table!Next
<1>1. boundIds' = {}
  BY EmptySeq DEF DestroyAllObjects, boundIds, Offsets
<1>2. Table!Clear
  BY <1>1 DEF Table!Clear, Table!Empty
<1>3. QED BY <1>2 DEF Table!Next

LEMMA SlotsUnchangedStutters ==
  ASSUME UNCHANGED slots
  PROVE  UNCHANGED IdTable
BY DEF IdTable, boundIds, GetObject, Offsets, Slot, Id2Offset, Offset2Id

LEMMA NextImplements ==
  ASSUME IInv, IInv', SlotsBounded, SlotsBounded', [Next]_vars
  PROVE  Table!Next \/ UNCHANGED IdTable
<1>1. CASE Create
  BY <1>1, CreateBinds DEF Create
<1>2. CASE Free
  BY <1>2, FreeUnbinds
<1>3. CASE DestroyAllObjects
  BY <1>3, DestroyAllClears
<1>4. CASE UNCHANGED slots
  BY <1>4, SlotsUnchangedStutters
<1>5. Create \/ Free \/ DestroyAllObjects \/ UNCHANGED slots
  BY DEF Next, Destroy, DestroyObjects, DestroyStep, Mark, FilterClassLists,
         NotifyPreDeletion, NotifyPostDeletion, Crash, heapVars, tableVars, vars
<1>6. QED BY <1>1, <1>2, <1>3, <1>4, <1>5

\* The object manager implements the table of identifiers: seen through
\* GetObject, every step of it binds a free identifier, unbinds one, empties
\* the table or changes nothing.
THEOREM ImplementsTable == Spec => TableSpec
<1>1. Init => Table!Init
  BY InitImplements
<1>2. Init => SlotsBounded
  BY EmptySeq, ConstantsAssumption DEF Init, SlotsBounded
<1>3. IInv /\ SlotsBounded /\ [Next]_vars => SlotsBounded'
  BY BoundKept
<1>4. IInv /\ IInv' /\ SlotsBounded /\ SlotsBounded' /\ [Next]_vars
        => [Table!Next]_IdTable
  BY NextImplements
<1>5. QED BY <1>1, <1>2, <1>3, <1>4, Invariance, PTL
          DEF Spec, TableSpec, Table!Spec, IdTable

-----------------------------------------------------------------------------
(* Groups.  BitsOfLivingGroups is what a new group needs: the index it is  *)
(* given is set in nobody.                                                 *)

GroupType ==
  /\ members \in [Addr -> Seq(Addr)]
  /\ groupBits \in [Addr -> SUBSET Nat]

GInv ==
  /\ IInv
  /\ Idle
  /\ GroupType
  /\ MembershipExact
  /\ MembersProper
  /\ BitsOfLivingGroups

-----------------------------------------------------------------------------
(* Sequences.                                                               *)

LEMMA ContainsIs ==
  ASSUME NEW s \in Seq(Addr), NEW o
  PROVE  Contains(s, o) <=> o \in ToSet(s)
BY LenProperties DEF Contains, ToSet

\* What is left of a list without repetition when one position is taken out.
LEMMA WithoutOne ==
  ASSUME NEW s \in Seq(Addr), IsInjective(s), NEW pos \in 1 .. Len(s)
  PROVE  /\ RemoveAt(s, pos) \in Seq(Addr)
         /\ IsInjective(RemoveAt(s, pos))
         /\ ToSet(RemoveAt(s, pos)) = ToSet(s) \ {s[pos]}
<1> DEFINE front == SubSeq(s, 1, pos - 1)
           back == SubSeq(s, pos + 1, Len(s))
           r == RemoveAt(s, pos)
<1>1. Len(s) \in Nat /\ DOMAIN s = 1 .. Len(s) /\ \A i \in 1 .. Len(s) : s[i] \in Addr
  BY LenProperties, ElementOfSeq
<1>2. /\ front \in Seq(Addr) /\ Len(front) = pos - 1
      /\ \A i \in 1 .. pos - 1 : front[i] = s[i]
  <2>1. \A i \in 1 .. pos - 1 : s[i] \in Addr
    BY <1>1
  <2>2. /\ front \in Seq(Addr) /\ Len(front) = IF 1 <= pos - 1 THEN pos - 1 - 1 + 1 ELSE 0
        /\ \A i \in 1 .. pos - 1 - 1 + 1 : front[i] = s[1 + i - 1]
    BY <1>1, <2>1, SubSeqProperties
  <2>3. QED BY <1>1, <2>2
<1>3. /\ back \in Seq(Addr) /\ Len(back) = Len(s) - pos
      /\ \A i \in 1 .. Len(s) - pos : back[i] = s[pos + i]
  <2>1. \A i \in pos + 1 .. Len(s) : s[i] \in Addr
    BY <1>1
  <2>2. /\ back \in Seq(Addr)
        /\ Len(back) = IF pos + 1 <= Len(s) THEN Len(s) - (pos + 1) + 1 ELSE 0
        /\ \A i \in 1 .. Len(s) - (pos + 1) + 1 : back[i] = s[pos + 1 + i - 1]
    BY <1>1, <2>1, SubSeqProperties
  <2>3. ASSUME NEW i \in 1 .. Len(s) - pos PROVE back[i] = s[pos + i]
    <3>1. i \in 1 .. Len(s) - (pos + 1) + 1 /\ pos + 1 + i - 1 = pos + i
      BY <1>1
    <3>2. QED BY <2>2, <3>1
  <2>4. Len(back) = Len(s) - pos
    <3>1. pos + 1 <= Len(s) \/ pos = Len(s)
      <4>1. ASSUME NEW n \in Nat, NEW p \in 1 .. n PROVE p + 1 <= n \/ p = n
        OBVIOUS
      <4>2. QED BY <1>1, <4>1, Zenon
    <3>2. CASE pos + 1 <= Len(s)
      BY <1>1, <2>2, <3>2
    <3>3. CASE pos = Len(s)
      BY <1>1, <2>2, <3>3
    <3>4. QED BY <3>1, <3>2, <3>3
  <2>5. QED BY <2>2, <2>3, <2>4
<1>4. r = front \o back
  BY DEF RemoveAt
<1> HIDE DEF front, back, r
<1>5. /\ r \in Seq(Addr) /\ Len(r) = Len(s) - 1
      /\ \A i \in 1 .. Len(s) - 1 : r[i] = IF i < pos THEN s[i] ELSE s[i + 1]
  <2>1. /\ r \in Seq(Addr) /\ Len(r) = Len(front) + Len(back)
        /\ \A i \in 1 .. Len(front) + Len(back) :
              r[i] = IF i <= Len(front) THEN front[i] ELSE back[i - Len(front)]
    BY <1>2, <1>3, <1>4, ConcatProperties
  <2>2. Len(r) = Len(s) - 1
    BY <1>1, <1>2, <1>3, <2>1
  <2>3. ASSUME NEW i \in 1 .. Len(s) - 1 PROVE r[i] = IF i < pos THEN s[i] ELSE s[i + 1]
    <3>1. r[i] = IF i <= pos - 1 THEN front[i] ELSE back[i - (pos - 1)]
      BY <1>1, <1>2, <1>3, <2>1
    <3>2. CASE i < pos
      BY <1>2, <3>1, <3>2
    <3>3. CASE ~ (i < pos)
      <4>1. i - (pos - 1) \in 1 .. Len(s) - pos /\ pos + (i - (pos - 1)) = i + 1
        BY <1>1, <3>3
      <4>2. back[i - (pos - 1)] = s[i + 1]
        BY <1>3, <4>1
      <4>3. QED BY <3>1, <3>3, <4>2
    <3>4. QED BY <3>2, <3>3
  <2>4. QED BY <2>1, <2>2, <2>3
<1>6. DOMAIN r = 1 .. Len(s) - 1
  BY <1>5, LenProperties
<1>7. IsInjective(r)
  BY <1>1, <1>5, <1>6 DEF IsInjective
<1>8. ToSet(r) = ToSet(s) \ {s[pos]}
  <2>1. ASSUME NEW o \in ToSet(r) PROVE o \in ToSet(s) /\ o # s[pos]
    <3>1. PICK i \in 1 .. Len(s) - 1 : r[i] = o
      BY <1>6, <2>1 DEF ToSet
    <3>2. PICK k \in 1 .. Len(s) : k # pos /\ s[k] = o
      <4>1. CASE i < pos
        <5>1. i \in 1 .. Len(s) /\ i # pos /\ r[i] = s[i]
          BY <1>1, <1>5, <4>1
        <5>2. QED BY <3>1, <5>1
      <4>2. CASE ~ (i < pos)
        <5>1. i + 1 \in 1 .. Len(s) /\ i + 1 # pos
          BY <1>1, <4>2
        <5>2. QED BY <1>5, <3>1, <4>2, <5>1
      <4>3. QED BY <4>1, <4>2
    <3>3. QED BY <1>1, <3>2 DEF ToSet, IsInjective
  <2>2. ASSUME NEW i \in 1 .. Len(s), i # pos PROVE s[i] \in ToSet(r)
    <3>1. CASE i < pos
      <4>1. i \in 1 .. Len(s) - 1 /\ r[i] = s[i]
        BY <1>1, <1>5, <3>1
      <4>2. QED BY <1>6, <4>1 DEF ToSet
    <3>2. CASE i > pos
      <4>1. i - 1 \in 1 .. Len(s) - 1 /\ r[i - 1] = s[i]
        BY <1>1, <1>5, <3>2
      <4>2. QED BY <1>6, <4>1 DEF ToSet
    <3>3. QED BY <2>2, <3>1, <3>2
  <2>3. QED BY <1>1, <2>1, <2>2 DEF ToSet
<1>9. QED BY <1>5, <1>7, <1>8 DEF r

\* In a list without repetition the first place of an object is its only one.
LEMMA WithoutFirst ==
  ASSUME NEW s \in Seq(Addr), IsInjective(s), NEW o, Contains(s, o)
  PROVE  \E pos \in 1 .. Len(s) : s[pos] = o /\ RemoveFirst(s, o) = RemoveAt(s, pos)
<1>1. PICK pos \in 1 .. Len(s) : s[pos] = o
  BY DEF Contains
<1>2. DOMAIN s = 1 .. Len(s) /\ Len(s) \in Nat
  BY LenProperties
<1>3. {i \in 1 .. Len(s) : s[i] = o} = {pos}
  BY <1>1, <1>2 DEF IsInjective
<1>4. Min({pos}) = pos
  BY <1>2 DEF Min
<1>5. SelectInSeq(s, LAMBDA v : v = o) = pos
  BY <1>3, <1>4, Zenon DEF SelectInSeq
<1>6. RemoveFirst(s, o) = RemoveAt(s, pos)
  BY <1>1, <1>5, Zenon DEF RemoveFirst
<1>7. QED BY <1>1, <1>6

-----------------------------------------------------------------------------
(* The calls on one group.                                                  *)

\* Whatever gives one group another list, and its bit to exactly the objects
\* in it, keeps the invariant.
LEMMA EditKeeps ==
  ASSUME GInv, NEW g \in LiveGroups, NEW s \in Seq(Addr), IsInjective(s),
         \A o \in ToSet(s) : o \in Live \ {g} /\ classOf[o] \in BeObject,
         members' = [members EXCEPT ![g] = s],
         groupBits' \in [Addr -> SUBSET Nat],
         \A o \in Addr, i \in Nat :
            i # groupIndexOf[g] => (i \in groupBits'[o] <=> i \in groupBits[o]),
         \A o \in Live : groupIndexOf[g] \in groupBits'[o] <=> o \in ToSet(s),
         UNCHANGED vars
  PROVE  GInv'
<1>1. /\ UNCHANGED <<classOf, ident, groupIndexOf, pc, fault>>
      /\ Live' = Live /\ LiveGroups' = LiveGroups
  BY DEF vars, heapVars, callVars, Live, LiveGroups
<1>2. IInv'
  BY StutterKeeps DEF GInv
<1>3. Idle'
  BY <1>1 DEF GInv, Idle
<1>4. g \in Addr /\ \A h \in LiveGroups : h \in Live /\ h \in Addr /\ groupIndexOf[h] \in Nat
  BY DEF LiveGroups, Live, GInv, IInv, TypeOK
<1>5. /\ members \in [Addr -> Seq(Addr)]
      /\ members'[g] = s /\ \A h \in Addr : h # g => members'[h] = members[h]
  BY <1>4 DEF GInv, GroupType
<1>6. GroupType'
  BY <1>4, <1>5 DEF GroupType
<1>7. \A h \in LiveGroups : h # g => groupIndexOf[h] # groupIndexOf[g]
  BY DEF GInv, IInv, GroupIndexExact
<1>8. MembershipExact'
  <2>1. SUFFICES ASSUME NEW h \in LiveGroups, NEW o \in Live
                 PROVE  groupIndexOf[h] \in groupBits'[o] <=> Contains(members'[h], o)
    BY <1>1 DEF MembershipExact, IsInGroup
  <2>2. CASE h = g
    BY <1>5, <2>2, ContainsIs
  <2>3. CASE h # g
    <3>1. groupIndexOf[h] \in groupBits[o] <=> Contains(members[h], o)
      BY DEF GInv, MembershipExact, IsInGroup
    <3>2. groupIndexOf[h] \in groupBits'[o] <=> groupIndexOf[h] \in groupBits[o]
      BY <1>4, <1>7, <2>3 DEF Live
    <3>3. QED BY <1>4, <1>5, <2>3, <3>1, <3>2
  <2>4. QED BY <2>2, <2>3
<1>9. MembersProper'
  <2>1. SUFFICES ASSUME NEW h \in LiveGroups
                 PROVE  /\ \A o \in ToSet(members'[h]) : o \in Live \ {h} /\ classOf[o] \in BeObject
                        /\ IsInjective(members'[h])
    BY <1>1 DEF MembersProper
  <2>2. CASE h = g
    BY <1>5, <2>2
  <2>3. CASE h # g
    BY <1>4, <1>5, <2>3 DEF GInv, MembersProper
  <2>4. QED BY <2>2, <2>3
<1>10. BitsOfLivingGroups'
  <2>1. SUFFICES ASSUME NEW o \in Live, NEW i \in groupBits'[o]
                 PROVE  \E h \in LiveGroups : groupIndexOf[h] = i
    BY <1>1 DEF BitsOfLivingGroups
  <2>2. CASE i = groupIndexOf[g]
    BY <2>2
  <2>3. CASE i # groupIndexOf[g]
    <3>1. o \in Addr /\ i \in Nat
      BY DEF Live
    <3>2. i \in groupBits[o]
      BY <2>3, <3>1
    <3>3. QED BY <3>2 DEF GInv, BitsOfLivingGroups
  <2>4. QED BY <2>2, <2>3
<1>11. QED BY <1>2, <1>3, <1>6, <1>8, <1>9, <1>10 DEF GInv

\* What the calls find: a group is an object, its list is a list of objects.
LEMMA GroupIs ==
  ASSUME GInv, NEW g \in LiveGroups
  PROVE  /\ g \in Addr /\ groupIndexOf[g] \in Nat
         /\ members[g] \in Seq(Addr) /\ IsInjective(members[g])
         /\ \A o \in ToSet(members[g]) : o \in Live \ {g} /\ classOf[o] \in BeObject
         /\ \A o \in Live : groupIndexOf[g] \in groupBits[o] <=> o \in ToSet(members[g])
<1>1. g \in Addr /\ groupIndexOf[g] \in Nat /\ members[g] \in Seq(Addr)
  BY DEF LiveGroups, Live, GInv, IInv, TypeOK, GroupType
<1>2. /\ IsInjective(members[g])
      /\ \A o \in ToSet(members[g]) : o \in Live \ {g} /\ classOf[o] \in BeObject
  BY DEF GInv, MembersProper
<1>3. \A o \in Live : groupIndexOf[g] \in groupBits[o] <=> Contains(members[g], o)
  BY DEF GInv, MembershipExact, IsInGroup
<1>4. QED BY <1>1, <1>2, <1>3, ContainsIs

LEMMA AddKeeps ==
  ASSUME GInv, NEW g \in LiveGroups, NEW o \in Live, AddObject(g, o)
  PROVE  GInv'
<1> DEFINE s == Append(members[g], o)
           gi == groupIndexOf[g]
<1>1. /\ Admissible(g, o) /\ gi \notin groupBits[o]
      /\ groupBits' = SetBits({o}, gi) /\ members' = [members EXCEPT ![g] = s]
      /\ UNCHANGED vars
  BY DEF AddObject, IsInGroup
<1>2. o \notin ToSet(members[g]) /\ o \in Addr /\ gi \in Nat
  BY <1>1, GroupIs DEF Live
<1>3. /\ Len(members[g]) \in Nat /\ s \in Seq(Addr) /\ Len(s) = Len(members[g]) + 1
      /\ \A i \in 1 .. Len(members[g]) : s[i] = members[g][i]
      /\ s[Len(members[g]) + 1] = o
      /\ DOMAIN members[g] = 1 .. Len(members[g])
  BY <1>2, GroupIs, AppendProperties, LenProperties
<1> HIDE DEF s
<1>4. DOMAIN s = 1 .. Len(members[g]) + 1
  BY <1>3, LenProperties
<1>5. IsInjective(s)
  <2>1. \A i \in 1 .. Len(members[g]) : members[g][i] # o
    BY <1>2, <1>3 DEF ToSet
  <2>2. \A i, j \in 1 .. Len(members[g]) : members[g][i] = members[g][j] => i = j
    BY <1>3, GroupIs DEF IsInjective
  <2>3. \A i \in 1 .. Len(members[g]) + 1 : i \in 1 .. Len(members[g]) \/ i = Len(members[g]) + 1
    BY <1>3
  <2>4. \A i, j \in 1 .. Len(members[g]) + 1 : s[i] = s[j] => i = j
    BY <1>3, <2>1, <2>2, <2>3
  <2>5. QED BY <1>4, <2>4 DEF IsInjective
<1>6. ToSet(s) = ToSet(members[g]) \cup {o}
  <2>1. ASSUME NEW x \in ToSet(s) PROVE x \in ToSet(members[g]) \cup {o}
    BY <1>3, <1>4, <2>1 DEF ToSet
  <2>2. ASSUME NEW x \in ToSet(members[g]) \cup {o} PROVE x \in ToSet(s)
    <3>1. CASE x = o
      <4>1. Len(members[g]) + 1 \in DOMAIN s
        BY <1>3, <1>4
      <4>2. QED BY <1>3, <3>1, <4>1 DEF ToSet
    <3>2. CASE x \in ToSet(members[g])
      <4>1. PICK i \in 1 .. Len(members[g]) : x = members[g][i]
        BY <1>3, <3>2 DEF ToSet
      <4>2. i \in DOMAIN s
        BY <1>3, <1>4
      <4>3. QED BY <1>3, <4>1, <4>2 DEF ToSet
    <3>3. QED BY <2>2, <3>1, <3>2
  <2>3. QED BY <2>1, <2>2
<1>7. \A x \in ToSet(s) : x \in Live \ {g} /\ classOf[x] \in BeObject
  BY <1>1, <1>6, GroupIs DEF Admissible
<1>8. groupBits \in [Addr -> SUBSET Nat]
  BY DEF GInv, GroupType
<1>9. /\ groupBits' \in [Addr -> SUBSET Nat]
      /\ \A x \in Addr, i \in Nat : i # gi => (i \in groupBits'[x] <=> i \in groupBits[x])
  BY <1>1, <1>2, <1>8 DEF SetBits
<1>10. \A x \in Live : gi \in groupBits'[x] <=> x \in ToSet(s)
  BY <1>1, <1>6, GroupIs DEF SetBits, Live
<1>11. QED BY <1>1, <1>3, <1>5, <1>7, <1>9, <1>10, EditKeeps

\* Both ways to remove an object take one position out.
LEMMA RemoveKeeps ==
  ASSUME GInv, NEW g \in LiveGroups, NEW pos \in 1 .. Len(members[g]), UNCHANGED vars,
         groupBits' = UnsetBits({members[g][pos]}, groupIndexOf[g]),
         members' = [members EXCEPT ![g] = RemoveAt(members[g], pos)]
  PROVE  GInv'
<1> DEFINE s == RemoveAt(members[g], pos)
           gi == groupIndexOf[g]
<1>1. /\ s \in Seq(Addr) /\ IsInjective(s)
      /\ ToSet(s) = ToSet(members[g]) \ {members[g][pos]}
  BY GroupIs, WithoutOne
<1>2. groupBits \in [Addr -> SUBSET Nat]
  BY DEF GInv, GroupType
<1>3. /\ groupBits' \in [Addr -> SUBSET Nat]
      /\ \A x \in Addr, i \in Nat : i # gi => (i \in groupBits'[x] <=> i \in groupBits[x])
  BY <1>2 DEF UnsetBits
<1>4. \A x \in Live : gi \in groupBits'[x] <=> x \in ToSet(s)
  BY <1>1, GroupIs DEF UnsetBits, Live
<1>5. \A x \in ToSet(s) : x \in Live \ {g} /\ classOf[x] \in BeObject
  BY <1>1, GroupIs
<1>6. QED BY <1>1, <1>3, <1>4, <1>5, EditKeeps

LEMMA ClearKeeps ==
  ASSUME GInv, NEW g \in LiveGroups, Clear(g)
  PROVE  GInv'
<1> DEFINE gi == groupIndexOf[g]
<1>1. /\ groupBits' = UnsetBits(ToSet(members[g]), gi)
      /\ members' = [members EXCEPT ![g] = <<>>] /\ UNCHANGED vars
  BY DEF Clear, ClearedBits
<1>2. <<>> \in Seq(Addr) /\ IsInjective(<<>>) /\ ToSet(<<>>) = {}
  BY DEF IsInjective, ToSet
<1>3. groupBits \in [Addr -> SUBSET Nat]
  BY DEF GInv, GroupType
<1>4. /\ groupBits' \in [Addr -> SUBSET Nat]
      /\ \A x \in Addr, i \in Nat : i # gi => (i \in groupBits'[x] <=> i \in groupBits[x])
  BY <1>1, <1>3 DEF UnsetBits
<1>5. \A x \in Live : gi \notin groupBits'[x]
  BY <1>1, GroupIs DEF UnsetBits, Live
<1>6. QED BY <1>1, <1>2, <1>4, <1>5, EditKeeps

LEMMA LoadKeeps ==
  ASSUME GInv, NEW g \in LiveGroups, NEW ptrs \in Pointers, Load(g, ptrs)
  PROVE  GInv'
<1> DEFINE gi == groupIndexOf[g]
           T == Taken(g, ptrs)
<1>0. PICK n \in 0 .. Len(ptrs) : \E order \in Bijection(1 .. n, T) :
        members' = [members EXCEPT ![g] = [k \in 1 .. n |-> ptrs[order[k]]]]
  BY DEF Load
<1>1. PICK order \in Bijection(1 .. n, T) :
        members' = [members EXCEPT ![g] = [k \in 1 .. n |-> ptrs[order[k]]]]
  BY <1>0
<1> DEFINE s == [k \in 1 .. n |-> ptrs[order[k]]]
<1>2. /\ groupBits' = [o \in Addr |-> IF \E i \in T : ptrs[i] = o
                                        THEN ClearedBits(g)[o] \cup {gi} ELSE ClearedBits(g)[o]]
      /\ UNCHANGED vars
  BY DEF Load
<1>3. PICK m \in Nat : ptrs \in [1 .. m -> Live \cup {NULL}]
  BY DEF Pointers
<1>4. n \in Nat
  OBVIOUS
<1>5. /\ order \in [1 .. n -> T]
      /\ \A k, l \in 1 .. n : order[k] = order[l] => k = l
      /\ \A i \in T : \E k \in 1 .. n : order[k] = i
  BY DEF Bijection, Injection, Surjection, IsInjective
<1>6. \A i \in T : i \in 1 .. m /\ ptrs[i] \in Live \ {g} /\ classOf[ptrs[i]] \in BeObject
  BY <1>3 DEF Taken, Admissible
<1>7. \A i, j \in T : ptrs[i] = ptrs[j] => i = j
  <2>1. SUFFICES ASSUME NEW i \in T, NEW j \in T, j < i PROVE ptrs[j] # ptrs[i]
    BY <1>6
  <2>2. j \in 1 .. i - 1
    BY <1>6, <2>1
  <2>3. QED BY <2>2 DEF Taken
<1> HIDE DEF T
<1>8. s \in Seq(Addr) /\ IsInjective(s) /\ DOMAIN s = 1 .. n
  <2>1. \A k \in 1 .. n : s[k] \in Addr
    BY <1>5, <1>6 DEF Live
  <2>2. s \in Seq(Addr)
    BY <1>4, <2>1
  <2>3. IsInjective(s)
    BY <1>5, <1>7 DEF IsInjective
  <2>4. QED BY <2>2, <2>3
<1>9. ToSet(s) = {ptrs[i] : i \in T}
  <2>1. ToSet(s) = {ptrs[order[k]] : k \in 1 .. n}
    BY DEF ToSet
  <2>2. QED BY <1>5, <2>1
<1>10. \A x \in ToSet(s) : x \in Live \ {g} /\ classOf[x] \in BeObject
  BY <1>6, <1>9
<1>11. groupBits \in [Addr -> SUBSET Nat] /\ gi \in Nat
  BY GroupIs DEF GInv, GroupType
<1>12. /\ ClearedBits(g) \in [Addr -> SUBSET Nat]
       /\ \A x \in Addr, i \in Nat : i # gi => (i \in ClearedBits(g)[x] <=> i \in groupBits[x])
       /\ \A x \in Live : gi \notin ClearedBits(g)[x]
  BY <1>11, GroupIs DEF ClearedBits, UnsetBits, Live
<1>13. /\ groupBits' \in [Addr -> SUBSET Nat]
       /\ \A x \in Addr, i \in Nat : i # gi => (i \in groupBits'[x] <=> i \in groupBits[x])
  BY <1>2, <1>11, <1>12
<1>14. \A x \in Live : gi \in groupBits'[x] <=> x \in ToSet(s)
  BY <1>2, <1>9, <1>12 DEF Live
<1> HIDE DEF s
<1>15. members' = [members EXCEPT ![g] = s]
  BY <1>1 DEF s
<1>16. QED BY <1>2, <1>8, <1>10, <1>13, <1>14, <1>15, EditKeeps

LEMMA EditsKeep ==
  ASSUME GInv, Edit
  PROVE  GInv'
<1>1. PICK g \in LiveGroups :
        \/ \E o \in Live : AddObject(g, o)
        \/ \E pos \in DOMAIN members[g] : RemoveObjectAt(g, pos)
        \/ \E o \in Live : RemoveObject(g, o)
        \/ Clear(g)
        \/ \E ptrs \in Pointers : Load(g, ptrs)
  BY DEF Edit
<1>2. CASE \E o \in Live : AddObject(g, o)
  BY <1>2, AddKeeps
<1>3. CASE \E pos \in DOMAIN members[g] : RemoveObjectAt(g, pos)
  <2>1. PICK pos \in DOMAIN members[g] : RemoveObjectAt(g, pos)
    BY <1>3
  <2>2. pos \in 1 .. Len(members[g])
    BY GroupIs, LenProperties
  <2>3. QED BY <2>1, <2>2, RemoveKeeps DEF RemoveObjectAt
<1>4. CASE \E o \in Live : RemoveObject(g, o)
  <2>1. PICK o \in Live : RemoveObject(g, o)
    BY <1>4
  <2>2. PICK pos \in 1 .. Len(members[g]) :
          members[g][pos] = o /\ RemoveFirst(members[g], o) = RemoveAt(members[g], pos)
    BY <2>1, GroupIs, WithoutFirst DEF RemoveObject
  <2>3. QED BY <2>1, <2>2, RemoveKeeps DEF RemoveObject
<1>5. CASE Clear(g)
  BY <1>5, ClearKeeps
<1>6. CASE \E ptrs \in Pointers : Load(g, ptrs)
  BY <1>6, LoadKeeps
<1>7. QED BY <1>1, <1>2, <1>3, <1>4, <1>5, <1>6

-----------------------------------------------------------------------------
(* New objects, and the end of all of them.                                 *)

\* A new object is in no group, and a new group has nobody: its index was free,
\* and only the indices of living groups are set in anyone.
LEMMA MakeKeeps ==
  ASSUME GInv, NEW cls \in Class, NEW a \in Addr, NEW gidx \in 0 .. MaxSlots,
         NewObject(cls, a, gidx)
  PROVE  GInv'
<1>1. /\ CreateObject(cls, a, gidx)
      /\ members' = [members EXCEPT ![a] = <<>>] /\ groupBits' = [groupBits EXCEPT ![a] = {}]
  BY DEF NewObject
<1>2. IInv'
  BY <1>1, CreateKeeps DEF GInv
<1>3. /\ classOf[a] = FREED /\ FirstUnset(gidx)
      /\ classOf' = [classOf EXCEPT ![a] = cls]
      /\ groupIndexOf' = IF cls \in GroupClass THEN [groupIndexOf EXCEPT ![a] = gidx] ELSE groupIndexOf
      /\ UNCHANGED <<pc, fault>>
  BY <1>1 DEF CreateObject, callVars
<1>4. Idle'
  BY <1>3 DEF GInv, Idle
<1>5. /\ classOf \in [Addr -> Class \cup {FREED}] /\ groupIndexOf \in [Addr -> Nat]
      /\ members \in [Addr -> Seq(Addr)] /\ groupBits \in [Addr -> SUBSET Nat]
      /\ FREED \notin Class /\ gidx \in Nat
  BY ConstantsAssumption DEF GInv, IInv, TypeOK, GroupType
<1>6. /\ Live' = Live \cup {a} /\ a \notin Live
      /\ LiveGroups' = IF cls \in GroupClass THEN LiveGroups \cup {a} ELSE LiveGroups
  BY <1>3, <1>5 DEF Live, LiveGroups
<1>7. GroupType'
  BY <1>1, <1>5 DEF GroupType
<1>8. \A o \in Live : o # a /\ o \in Addr /\ members'[o] = members[o] /\ groupBits'[o] = groupBits[o]
                      /\ classOf'[o] = classOf[o] /\ groupIndexOf'[o] = groupIndexOf[o]
  BY <1>1, <1>3, <1>5, <1>6 DEF Live
<1>9. members'[a] = <<>> /\ groupBits'[a] = {}
  BY <1>1, <1>5
<1>10. LiveGroups \subseteq Live /\ \A g \in LiveGroups : groupIndexOf[g] \in groupGlobalIndex
  BY DEF LiveGroups, GInv, IInv, GroupIndexExact
<1>11. cls \in GroupClass => groupIndexOf'[a] = gidx /\ gidx \notin groupGlobalIndex
  BY <1>3, <1>5 DEF FirstUnset
<1>12. MembershipExact'
  <2>1. SUFFICES ASSUME NEW g \in LiveGroups', NEW o \in Live'
                 PROVE  groupIndexOf'[g] \in groupBits'[o] <=> Contains(members'[g], o)
    BY DEF MembershipExact, IsInGroup
  <2>2. members'[g] \in Seq(Addr)
    BY <1>7 DEF GroupType, LiveGroups, Live
  <2>3. CASE g = a
    <3>1. ~ Contains(members'[g], o)
      BY <1>9, <2>2, <2>3, ContainsIs DEF ToSet
    <3>2. gidx \notin groupBits'[o]
      <4>1. CASE o = a
        BY <1>9, <4>1
      <4>2. CASE o \in Live
        BY <1>6, <1>8, <1>10, <1>11, <2>3, <4>2 DEF GInv, BitsOfLivingGroups
      <4>3. QED BY <1>6, <4>1, <4>2
    <3>3. QED BY <1>6, <1>10, <1>11, <2>3, <3>1, <3>2
  <2>4. CASE g \in LiveGroups
    <3>1. CASE o \in Live
      BY <1>8, <1>10, <2>4, <3>1 DEF GInv, MembershipExact, IsInGroup
    <3>2. CASE o = a
      <4>1. a \notin ToSet(members[g])
        BY <1>6, <2>4, GroupIs
      <4>2. members'[g] = members[g]
        BY <1>8, <1>10, <2>4
      <4>3. ~ Contains(members'[g], a)
        BY <2>2, <4>1, <4>2, ContainsIs
      <4>4. QED BY <1>9, <3>2, <4>3
    <3>3. QED BY <1>6, <3>1, <3>2
  <2>5. QED BY <1>6, <2>3, <2>4
<1>13. MembersProper'
  <2>1. SUFFICES ASSUME NEW g \in LiveGroups'
                 PROVE  /\ \A o \in ToSet(members'[g]) : o \in Live' \ {g} /\ classOf'[o] \in BeObject
                        /\ IsInjective(members'[g])
    BY DEF MembersProper
  <2>2. CASE g = a
    BY <1>9, <2>2 DEF ToSet, IsInjective
  <2>3. CASE g \in LiveGroups
    <3>1. members'[g] = members[g]
      BY <1>8, <1>10, <2>3
    <3>2. QED BY <1>6, <1>8, <2>3, <3>1, GroupIs
  <2>4. QED BY <1>6, <2>2, <2>3
<1>14. BitsOfLivingGroups'
  <2>1. SUFFICES ASSUME NEW o \in Live', NEW i \in groupBits'[o]
                 PROVE  \E g \in LiveGroups' : groupIndexOf'[g] = i
    BY DEF BitsOfLivingGroups
  <2>2. o \in Live /\ i \in groupBits[o]
    BY <1>6, <1>8, <1>9
  <2>3. PICK g \in LiveGroups : groupIndexOf[g] = i
    BY <2>2 DEF GInv, BitsOfLivingGroups
  <2>4. QED BY <1>6, <1>8, <1>10, <2>3
<1>15. QED BY <1>2, <1>4, <1>7, <1>12, <1>13, <1>14 DEF GInv

LEMMA DropKeeps ==
  ASSUME GInv, Drop
  PROVE  GInv'
<1>1. DestroyAllObjects /\ UNCHANGED <<members, groupBits>>
  BY DEF Drop, groupVars
<1>2. IInv'
  BY <1>1, DestroyAllKeeps DEF GInv
<1>3. slots' = <<>> /\ UNCHANGED <<pc, fault>>
  BY <1>1 DEF DestroyAllObjects, callVars
<1>4. Live' = {}
  <2>1. Offsets' = {}
    BY <1>3, EmptySeq DEF Offsets
  <2>2. NULL \notin Addr
    BY ConstantsAssumption
  <2>3. \A a \in Live' : GetObject(ident[a])' = a /\ a # NULL
    BY <1>2, <2>2 DEF IInv, OneSlotPerObject, Live
  <2>4. QED BY <2>1, <2>3 DEF GetObject
<1>5. LiveGroups' = {}
  BY <1>4 DEF LiveGroups
<1>6. Idle' /\ GroupType'
  BY <1>1, <1>3 DEF GInv, Idle, GroupType
<1>7. MembershipExact' /\ MembersProper' /\ BitsOfLivingGroups'
  BY <1>4, <1>5 DEF MembershipExact, MembersProper, BitsOfLivingGroups
<1>8. QED BY <1>2, <1>6, <1>7 DEF GInv

-----------------------------------------------------------------------------
(* Theorems.                                                                *)

LEMMA GroupsInit == Init /\ EmptyGroups => GInv
<1> SUFFICES ASSUME Init, EmptyGroups PROVE GInv
  OBVIOUS
<1>1. IInv
  BY InitInvariant
<1>2. Idle
  BY DEF Init, Idle
<1>3. Live = {} /\ LiveGroups = {}
  BY DEF Init, Live, LiveGroups
<1>4. GroupType
  BY EmptySeq DEF EmptyGroups, GroupType
<1>5. MembershipExact /\ MembersProper /\ BitsOfLivingGroups
  BY <1>3 DEF MembershipExact, MembersProper, BitsOfLivingGroups
<1>6. QED BY <1>1, <1>2, <1>4, <1>5 DEF GInv

LEMMA GroupsNext == GInv /\ [Make \/ Edit \/ Drop]_allVars => GInv'
<1> SUFFICES ASSUME GInv, [Make \/ Edit \/ Drop]_allVars PROVE GInv'
  OBVIOUS
<1>1. CASE Make
  BY <1>1, MakeKeeps DEF Make
<1>2. CASE Edit
  BY <1>2, EditsKeep
<1>3. CASE Drop
  BY <1>3, DropKeeps
<1>4. CASE UNCHANGED allVars
  <2>1. UNCHANGED vars /\ UNCHANGED <<members, groupBits, pc, fault, classOf, groupIndexOf>>
    BY <1>4 DEF allVars, groupVars, vars, heapVars, callVars
  <2>2. IInv'
    BY <2>1, StutterKeeps DEF GInv
  <2>3. QED BY <2>1, <2>2 DEF GInv, Idle, GroupType, MembershipExact, MembersProper,
          BitsOfLivingGroups, IsInGroup, LiveGroups, Live
<1>5. QED BY <1>1, <1>2, <1>3, <1>4

\* The invariant of groups and of the manager under them.
THEOREM GroupsInvariance == ClientSpec => []GInv
BY GroupsInit, GroupsNext, PTL DEF ClientSpec

\* For every heap: an object has the bit of a group exactly when the group lists
\* it (CKGroup.cpp:96, CKBeObject.cpp:36).
THEOREM Membership == ClientSpec => []MembershipExact
<1>1. GInv => MembershipExact
  BY DEF GInv
<1>2. QED BY GroupsInvariance, <1>1, PTL

\* For every heap: a group lists living objects, none twice and never itself.
THEOREM Members == ClientSpec => []MembersProper
<1>1. GInv => MembersProper
  BY DEF GInv
<1>2. QED BY GroupsInvariance, <1>1, PTL

\* For every heap: no bit outlives its group.
THEOREM Bits == ClientSpec => []BitsOfLivingGroups
<1>1. GInv => BitsOfLivingGroups
  BY DEF GInv
<1>2. QED BY GroupsInvariance, <1>1, PTL

-----------------------------------------------------------------------------
(* The class registry: the invariant.                                      *)

RegistryTypeOK ==
  /\ isValid \in SUBSET Cid
  /\ parentOf \in [Cid -> Cid]
  /\ listenTo \in [Cid -> SUBSET Cid]
  /\ level \in [Cid -> Nat]
  /\ parents \in [Cid -> SUBSET Cid]
  /\ children \in [Cid -> SUBSET Cid]
  /\ toBeNotify \in [Cid -> SUBSET Cid]
  /\ commonToBeNotify \in [Cid -> SUBSET Cid]
  /\ toNotify \in [Cid -> SUBSET Cid]
  /\ done \in SUBSET Cid
  /\ phase \in {"register", "parents", "children", "wishes", "notify", "inverse", "built"}
  /\ todo \in SUBSET isValid
  /\ stack \in Seq(isValid)

\* A parent is registered before its children.
Declared == \A c \in isValid : parentOf[c] \in isValid

\* Only the two recursive passes call; none of the valid classes is lost: it
\* is done, or the loop or a pending call will come to it.
LoopOK ==
  /\ phase \in {"register", "built"} => todo = {}
  /\ phase \notin Recursive => stack = <<>>
  /\ phase = "register" => done = {}
  /\ phase \in Recursive =>
       /\ done \subseteq isValid
       /\ \A c \in isValid : c \in done \cup todo \/ \E i \in 1 .. Len(stack) : stack[i] = c

Later(p) ==
  CASE p = "parents" -> {"children", "wishes", "notify", "inverse", "built"}
    [] p = "children" -> {"wishes", "notify", "inverse", "built"}
    [] p = "wishes" -> {"notify", "inverse", "built"}
    [] p = "notify" -> {"inverse", "built"}
    [] p = "inverse" -> {"built"}

\* The classes that a pass has handled.
Handled(p) ==
  IF phase = p THEN IF p \in Recursive THEN done ELSE isValid \ todo
  ELSE IF phase \in Later(p) THEN isValid ELSE {}

\* What a pass has entered into its table is final, and there is nothing else.
ParentsExact ==
  \A c \in Cid : parents[c] = IF c \in Handled("parents") THEN Ancestors(c) ELSE {}

ChildrenExact ==
  \A c \in Cid : children[c] = {d \in Handled("children") : c \in Ancestors(d)}

WishesExact ==
  \A c \in Cid : toBeNotify[c] = IF c \in Handled("wishes") THEN listenTo[c] \cap isValid ELSE {}

HeardExact ==
  \A c \in Cid : commonToBeNotify[c] = IF c \in Handled("notify") THEN HeardBy(c) ELSE {}

ListenersExact ==
  \A c \in Cid : toNotify[c] = IF c \in Handled("inverse") THEN {l \in isValid : c \in HeardBy(l)} ELSE {}

TablesExact ==
  /\ ParentsExact
  /\ ChildrenExact
  /\ WishesExact
  /\ HeardExact
  /\ ListenersExact

RegistryInv ==
  /\ RegistryTypeOK
  /\ Declared
  /\ LoopOK
  /\ TablesExact

Passes == {"parents", "children", "wishes", "notify", "inverse"}

-----------------------------------------------------------------------------
(* The class registry: the reference.                                       *)

LEMMA AncestorsClosed ==
  ASSUME RegistryTypeOK, NEW c \in Cid
  PROVE  /\ Ancestors(c) \in SUBSET Cid
         /\ c \in Ancestors(c)
         /\ ParentClosed(Ancestors(c))
<1>1. \A x \in Cid : parentOf[x] \in Cid
  BY DEF RegistryTypeOK
<1>2. Ancestors(c) \in SUBSET Cid /\ c \in Ancestors(c)
  BY DEF Ancestors
<1>3. ASSUME NEW x \in Ancestors(c)
      PROVE  parentOf[x] \in Ancestors(c)
  <2>1. x \in Cid /\ \A A \in SUBSET Cid : c \in A /\ ParentClosed(A) => x \in A
    BY <1>3 DEF Ancestors
  <2>2. \A A \in SUBSET Cid : c \in A /\ ParentClosed(A) => parentOf[x] \in A
    BY <2>1 DEF ParentClosed
  <2> QED
    BY <1>1, <2>1, <2>2 DEF Ancestors
<1> QED
  BY <1>2, <1>3 DEF ParentClosed

LEMMA AncestorsLeast ==
  ASSUME NEW c, NEW A \in SUBSET Cid, c \in A, ParentClosed(A)
  PROVE  Ancestors(c) \subseteq A
BY DEF Ancestors

LEMMA AncestorsOfRoot ==
  ASSUME RegistryTypeOK, NEW c \in Cid, parentOf[c] = c
  PROVE  Ancestors(c) = {c}
<1>1. ParentClosed({c})
  BY DEF ParentClosed
<1>2. Ancestors(c) \subseteq {c}
  BY <1>1, AncestorsLeast
<1> QED
  BY <1>2, AncestorsClosed

LEMMA AncestorsStep ==
  ASSUME RegistryTypeOK, NEW c \in Cid
  PROVE  Ancestors(c) = {c} \cup Ancestors(parentOf[c])
<1> DEFINE p == parentOf[c]
<1>1. p \in Cid
  BY DEF RegistryTypeOK
<1>2. p \in Ancestors(c)
  BY AncestorsClosed DEF ParentClosed
<1>3. Ancestors(p) \subseteq Ancestors(c)
  BY <1>2, AncestorsClosed, AncestorsLeast
<1>4. ParentClosed({c} \cup Ancestors(p)) /\ {c} \cup Ancestors(p) \in SUBSET Cid
  BY <1>1, AncestorsClosed DEF ParentClosed
<1>5. Ancestors(c) \subseteq {c} \cup Ancestors(p)
  BY <1>4, AncestorsLeast
<1> QED
  BY <1>3, <1>5, AncestorsClosed

LEMMA AncestorsValid ==
  ASSUME RegistryTypeOK, Declared, NEW c \in isValid
  PROVE  Ancestors(c) \subseteq isValid
<1>1. ParentClosed(isValid) /\ isValid \in SUBSET Cid
  BY DEF Declared, ParentClosed, RegistryTypeOK
<1> QED
  BY <1>1, AncestorsLeast

\* What a class hears of because of its own wishes.
OwnHeard(c) == UNION {Descendants(t) : t \in listenTo[c] \cap isValid}

LEMMA HeardOfRoot ==
  ASSUME RegistryTypeOK, NEW c \in Cid, parentOf[c] = c
  PROVE  HeardBy(c) = OwnHeard(c)
<1>1. UNION {listenTo[a] : a \in Ancestors(c)} = listenTo[c]
  BY AncestorsOfRoot
<1> QED
  BY <1>1 DEF HeardBy, OwnHeard

LEMMA HeardStep ==
  ASSUME RegistryTypeOK, NEW c \in Cid
  PROVE  HeardBy(c) = OwnHeard(c) \cup HeardBy(parentOf[c])
<1>1. UNION {listenTo[a] : a \in Ancestors(c)} =
        listenTo[c] \cup UNION {listenTo[a] : a \in Ancestors(parentOf[c])}
  BY AncestorsStep
<1> QED
  BY <1>1 DEF HeardBy, OwnHeard

\* The reference depends on the declarations only.
LEMMA SameReference ==
  ASSUME UNCHANGED declVars
  PROVE  /\ \A c : Ancestors(c)' = Ancestors(c)
         /\ \A c : HeardBy(c)' = HeardBy(c)
<1>1. \A c : Ancestors(c)' = Ancestors(c)
  BY DEF declVars, Ancestors, ParentClosed
<1>2. \A c : Descendants(c)' = Descendants(c)
  BY <1>1 DEF declVars, Descendants
<1>3. ASSUME NEW c
      PROVE  HeardBy(c)' = HeardBy(c)
  BY <1>1, <1>2 DEF declVars, HeardBy
<1> QED
  BY <1>1, <1>3

LEMMA ItemInTodo ==
  ASSUME RegistryTypeOK, todo # {}
  PROVE  Item \in todo
<1>1. todo \in SUBSET Nat
  BY RegistryAssumption DEF RegistryTypeOK
<1>2. \E c \in todo : \A d \in todo : c <= d
  BY <1>1, Least
<1> QED
  BY <1>2 DEF Item

LEMMA NextPasses ==
  /\ NextPass("parents") = "children"
  /\ NextPass("children") = "wishes"
  /\ NextPass("wishes") = "notify"
  /\ NextPass("notify") = "inverse"
  /\ NextPass("inverse") = "built"
BY DEF NextPass, PassOrder

-----------------------------------------------------------------------------
(* Steps that enter nothing into the tables.                                *)

SameTables == UNCHANGED <<parents, children, toBeNotify, commonToBeNotify, toNotify>>

LEMMA RegistryTablesKept ==
  ASSUME RegistryTypeOK, TablesExact, UNCHANGED declVars, SameTables,
         \A p \in Passes : Handled(p)' = Handled(p)
  PROVE  TablesExact'
<1> USE DEF Passes, SameTables
<1>1. ParentsExact'
  BY SameReference DEF TablesExact, ParentsExact
<1>2. ChildrenExact'
  BY SameReference DEF TablesExact, ChildrenExact
<1>3. WishesExact'
  BY DEF TablesExact, WishesExact, declVars
<1>4. HeardExact'
  BY SameReference DEF TablesExact, HeardExact
<1>5. ListenersExact'
  <2>1. /\ isValid' = isValid /\ toNotify' = toNotify
        /\ Handled("inverse")' = Handled("inverse") /\ \A c : HeardBy(c)' = HeardBy(c)
    BY SameReference DEF declVars
  <2> QED
    BY <2>1 DEF TablesExact, ListenersExact
<1> QED
  BY <1>1, <1>2, <1>3, <1>4, <1>5 DEF TablesExact

LEMMA InitInv ==
  RegistryInit => RegistryInv
<1> SUFFICES ASSUME RegistryInit
             PROVE  RegistryInv
  OBVIOUS
<1>1. RegistryTypeOK
  BY RegistryAssumption DEF RegistryInit, RegistryTypeOK, NoSets
<1>2. Declared /\ LoopOK
  BY DEF RegistryInit, Declared, LoopOK, Recursive
<1>3. \A p \in Passes : Handled(p) = {}
  BY DEF RegistryInit, Passes, Handled, Later
<1>4. TablesExact
  BY <1>3 DEF RegistryInit, NoSets, Passes, TablesExact, ParentsExact, ChildrenExact, WishesExact,
              HeardExact, ListenersExact
<1> QED
  BY <1>1, <1>2, <1>4 DEF RegistryInv

LEMMA RegisterInv ==
  ASSUME RegistryInv, NEW d \in Declaration, CKClassRegister(d)
  PROVE  RegistryInv'
<1> USE DEF RegistryInv
<1>1. d.cid \in Cid /\ d.parent \in Cid /\ d.listenTo \in SUBSET Cid
  BY RegistryAssumption
<1>2. phase = "register" /\ todo = {} /\ stack = <<>> /\ done = {}
  BY DEF CKClassRegister, LoopOK, Recursive
<1>3. RegistryTypeOK'
  BY <1>1, <1>2 DEF CKClassRegister, RegistryTypeOK, hierarchyVars, notifyVars, loopVars
<1>4. Declared'
  BY <1>1 DEF CKClassRegister, RegistryTypeOK, Declared
<1>5. LoopOK'
  BY <1>2 DEF CKClassRegister, LoopOK, loopVars, Recursive
<1>6. \A p \in Passes : Handled(p) = {} /\ Handled(p)' = {}
  BY <1>2 DEF CKClassRegister, Passes, Handled, Later, loopVars
<1>7. TablesExact'
  BY <1>6 DEF CKClassRegister, hierarchyVars, notifyVars, Passes, TablesExact, ParentsExact,
              ChildrenExact, WishesExact, HeardExact, ListenersExact
<1> QED
  BY <1>3, <1>4, <1>5, <1>7

LEMMA BeginPassInv ==
  ASSUME RegistryInv, NEW p,
         \/ phase = "register" /\ p = "parents"
         \/ phase \notin {"register", "built"} /\ p = NextPass(phase),
         todo = {}, stack = <<>>, BeginPass(p)
  PROVE  RegistryInv'
<1> USE DEF RegistryInv
<1>1. \/ phase = "register" /\ p = "parents"
      \/ phase = "parents" /\ p = "children"
      \/ phase = "children" /\ p = "wishes"
      \/ phase = "wishes" /\ p = "notify"
      \/ phase = "notify" /\ p = "inverse"
      \/ phase = "inverse" /\ p = "built"
  BY NextPasses DEF RegistryTypeOK
<1>2. ASSUME phase \in Recursive
      PROVE  done = isValid
  <2>1. 1 .. Len(stack) = {}
    OBVIOUS
  <2> QED
    BY <1>2, <2>1 DEF LoopOK
<1>3. RegistryTypeOK'
  BY <1>1 DEF BeginPass, RegistryTypeOK, declVars, hierarchyVars, notifyVars
<1>4. Declared'
  BY DEF BeginPass, Declared, declVars
<1>5. LoopOK'
  BY <1>1 DEF BeginPass, LoopOK, Recursive, declVars
<1>6. ASSUME NEW q \in Passes
      PROVE  Handled(q)' = Handled(q)
  <2>1. CASE q = "parents"
    BY <1>1, <1>2, <2>1 DEF BeginPass, Handled, Later, Recursive, declVars
  <2>2. CASE q = "children"
    BY <1>1, <1>2, <2>2 DEF BeginPass, Handled, Later, Recursive, declVars
  <2>3. CASE q = "wishes"
    BY <1>1, <1>2, <2>3 DEF BeginPass, Handled, Later, Recursive, declVars
  <2>4. CASE q = "notify"
    BY <1>1, <1>2, <2>4 DEF BeginPass, Handled, Later, Recursive, declVars
  <2>5. CASE q = "inverse"
    BY <1>1, <1>2, <2>5 DEF BeginPass, Handled, Later, Recursive, declVars
  <2> QED
    BY <2>1, <2>2, <2>3, <2>4, <2>5 DEF Passes
<1>7. TablesExact'
  BY <1>6, RegistryTablesKept DEF BeginPass, SameTables, declVars, hierarchyVars, notifyVars
<1> QED
  BY <1>3, <1>4, <1>5, <1>7

LEMMA Popped ==
  ASSUME NEW S, NEW s \in Seq(S), s # <<>>
  PROVE  /\ Len(s) \in Nat \ {0} /\ s[Len(s)] \in S
         /\ SubSeq(s, 1, Len(s) - 1) \in Seq(S)
         /\ Len(SubSeq(s, 1, Len(s) - 1)) = Len(s) - 1
         /\ \A i \in 1 .. Len(s) - 1 : SubSeq(s, 1, Len(s) - 1)[i] = s[i]
<1>1. Len(s) \in Nat \ {0}
  BY EmptySeq, LenProperties
<1>2. s[Len(s)] \in S
  BY <1>1, ElementOfSeq
<1>3. \A i \in 1 .. Len(s) : s[i] \in S
  BY ElementOfSeq
<1>4. 1 \in 1 .. Len(s) + 1 /\ Len(s) - 1 \in 0 .. Len(s)
  BY <1>1
<1> DEFINE t == SubSeq(s, 1, Len(s) - 1)
<1>5. /\ t \in Seq(S)
      /\ Len(t) = IF 1 <= Len(s) - 1 THEN Len(s) - 1 - 1 + 1 ELSE 0
      /\ \A i \in 1 .. Len(s) - 1 - 1 + 1 : t[i] = s[1 + i - 1]
  BY <1>4, SubSeqProperties
<1> HIDE DEF t
<1>6. Len(t) = Len(s) - 1
  <2>1. ASSUME NEW n \in Nat \ {0}
        PROVE  (IF 1 <= n - 1 THEN n - 1 - 1 + 1 ELSE 0) = n - 1
    OBVIOUS
  <2> QED
    BY <1>1, <1>5, <2>1
<1>7. ASSUME NEW i \in 1 .. Len(s) - 1
      PROVE  t[i] = s[i]
  <2>1. i \in 1 .. Len(s) - 1 - 1 + 1 /\ 1 + i - 1 = i
    BY <1>1
  <2>2. t[i] = s[1 + i - 1]
    BY <1>5, <2>1
  <2> QED
    BY <2>1, <2>2
<1> QED
  BY <1>1, <1>2, <1>5, <1>6, <1>7 DEF t

\* A call returns when its class is done.
LEMMA ReturnCovers ==
  ASSUME RegistryInv, phase \in Recursive, stack # <<>>,
         stack' = SubSeq(stack, 1, Len(stack) - 1),
         NEW finished, done \subseteq finished, desc \in finished
  PROVE  /\ desc \in isValid
         /\ stack' \in Seq(isValid)
         /\ \A c \in isValid : c \in finished \cup todo \/ \E i \in 1 .. Len(stack') : stack'[i] = c
<1>1. stack \in Seq(isValid)
  BY DEF RegistryInv, RegistryTypeOK
<1>2. /\ desc \in isValid /\ Len(stack) \in Nat \ {0}
      /\ stack' \in Seq(isValid) /\ Len(stack') = Len(stack) - 1
      /\ \A i \in 1 .. Len(stack) - 1 : stack'[i] = stack[i]
  BY <1>1, Popped DEF desc
<1>3. ASSUME NEW c \in isValid, c \notin finished \cup todo
      PROVE  \E i \in 1 .. Len(stack') : stack'[i] = c
  <2>1. PICK i \in 1 .. Len(stack) : stack[i] = c
    BY <1>3 DEF RegistryInv, LoopOK
  <2>2. i # Len(stack)
    BY <1>3, <2>1 DEF desc
  <2>3. i \in 1 .. Len(stack')
    BY <1>2, <2>2
  <2> QED
    BY <1>2, <2>1, <2>3
<1> QED
  BY <1>2, <1>3

\* The stack and the loop of a recursive pass.
LEMMA CallInv ==
  ASSUME RegistryInv, CallItem \/ ReturnDone \/ CallParent
  PROVE  RegistryInv'
<1> USE DEF RegistryInv
<1>1. phase \in Recursive
  BY DEF CallItem, ReturnDone, CallParent
<1>2. UNCHANGED <<declVars, hierarchyVars, notifyVars, done, phase>>
  BY DEF CallItem, ReturnDone, CallParent
<1>3. UNCHANGED <<isValid, parentOf, done, phase>> /\ done \subseteq isValid
  BY <1>1, <1>2 DEF declVars, LoopOK
<1>4. /\ todo' \in SUBSET isValid /\ stack' \in Seq(isValid)
      /\ \A c \in isValid : c \in done \cup todo' \/ \E i \in 1 .. Len(stack') : stack'[i] = c
  <2>1. CASE CallItem
    <3>1. Item \in todo /\ todo \subseteq isValid
      BY <2>1, ItemInTodo DEF CallItem, RegistryTypeOK
    <3>2. stack' = <<Item>> /\ Len(stack') = 1 /\ stack'[1] = Item
      BY <2>1 DEF CallItem
    <3>3. stack' \in Seq(isValid)
      BY <3>1, <3>2
    <3>4. ASSUME NEW c \in isValid
          PROVE  c \in done \cup todo' \/ \E i \in 1 .. Len(stack') : stack'[i] = c
      <4>1. c \in done \cup todo
        BY <1>1, <2>1 DEF LoopOK, CallItem
      <4> QED
        BY <2>1, <3>2, <4>1 DEF CallItem
    <3> QED
      BY <2>1, <3>1, <3>3, <3>4 DEF CallItem
  <2>2. CASE ReturnDone
    BY <1>1, <2>2, ReturnCovers DEF ReturnDone, RegistryTypeOK
  <2>3. CASE CallParent
    <3>1. stack \in Seq(isValid) /\ stack # <<>> /\ Len(stack) \in Nat \ {0}
      BY <2>3, EmptySeq, LenProperties DEF CallParent, RegistryTypeOK
    <3>2. parentOf[desc] \in isValid
      BY <3>1, ElementOfSeq DEF desc, Declared
    <3>3. stack' \in Seq(isValid) /\ Len(stack') = Len(stack) + 1
          /\ \A i \in 1 .. Len(stack) : stack'[i] = stack[i]
      BY <2>3, <3>1, <3>2, AppendProperties DEF CallParent
    <3>4. \A c \in isValid : c \in done \cup todo \/ \E i \in 1 .. Len(stack) : stack[i] = c
      BY <1>1 DEF LoopOK
    <3> QED
      BY <2>3, <3>1, <3>3, <3>4 DEF CallParent, RegistryTypeOK
  <2> QED
    BY <2>1, <2>2, <2>3
<1>5. RegistryTypeOK'
  BY <1>2, <1>4 DEF RegistryTypeOK, declVars, hierarchyVars, notifyVars
<1>6. Declared'
  BY <1>3 DEF Declared
<1>7. LoopOK'
  BY <1>1, <1>3, <1>4 DEF LoopOK, Recursive
<1>8. \A p \in Passes : Handled(p)' = Handled(p)
  BY <1>1, <1>3 DEF Passes, Handled, Later, Recursive
<1>9. TablesExact'
  BY <1>2, <1>8, RegistryTablesKept DEF SameTables, hierarchyVars, notifyVars
<1> QED
  BY <1>5, <1>6, <1>7, <1>9

-----------------------------------------------------------------------------
(* Steps that enter something.                                              *)

\* What both recursive functions do besides.
LEMMA ComputeLoop ==
  ASSUME RegistryInv, phase \in Recursive, Compute
  PROVE  /\ desc \in isValid /\ isValid' = isValid /\ parentOf' = parentOf /\ phase' = phase
         /\ done' = done \cup {desc} /\ desc \notin done
         /\ parentOf[desc] \in Cid /\ (parentOf[desc] = desc \/ parentOf[desc] \in done)
         /\ todo' \in SUBSET isValid' /\ stack' \in Seq(isValid')
         /\ Declared' /\ LoopOK'
<1>1. /\ stack # <<>> /\ stack' = SubSeq(stack, 1, Len(stack) - 1)
      /\ done' = done \cup {desc} /\ desc \notin done
      /\ UNCHANGED <<isValid, parentOf, phase, todo>>
      /\ parentOf[desc] = desc \/ parentOf[desc] \in done
  BY DEF Compute, ParentFirst, declVars
<1>2. /\ desc \in isValid /\ stack' \in Seq(isValid)
      /\ \A c \in isValid : c \in done' \cup todo \/ \E i \in 1 .. Len(stack') : stack'[i] = c
  BY <1>1, ReturnCovers
<1>3. parentOf[desc] \in Cid /\ todo \in SUBSET isValid
  BY <1>2 DEF RegistryInv, RegistryTypeOK
<1>4. Declared'
  BY <1>1 DEF RegistryInv, Declared
<1>5. LoopOK'
  BY <1>1, <1>2 DEF RegistryInv, LoopOK, Recursive
<1> QED
  BY <1>1, <1>2, <1>3, <1>4, <1>5

LEMMA ParentsInv ==
  ASSUME RegistryInv, ComputeParentsTable
  PROVE  RegistryInv'
<1> USE DEF RegistryInv
<1>1. phase = "parents" /\ Compute /\ phase \in Recursive
  BY DEF ComputeParentsTable, Recursive
<1> DEFINE p == parentOf[desc]
<1>2. /\ desc \in isValid /\ isValid' = isValid /\ parentOf' = parentOf /\ phase' = phase
      /\ done' = done \cup {desc} /\ desc \notin done
      /\ p \in Cid /\ (p = desc \/ p \in done)
      /\ todo' \in SUBSET isValid' /\ stack' \in Seq(isValid')
      /\ Declared' /\ LoopOK'
  BY <1>1, ComputeLoop
<1>3. desc \in Cid /\ done' \in SUBSET Cid
  BY <1>2 DEF RegistryTypeOK
<1>4. parents' = [parents EXCEPT ![desc] = parents[p] \cup {desc}]
  BY DEF ComputeParentsTable
<1>5. parents' \in [Cid -> SUBSET Cid]
  BY <1>2, <1>3, <1>4 DEF RegistryTypeOK
<1>6. level' \in [Cid -> Nat]
  BY <1>2, <1>3 DEF ComputeParentsTable, RegistryTypeOK
<1>7. UNCHANGED <<declVars, children, notifyVars>>
  BY DEF ComputeParentsTable, Compute
<1>8. RegistryTypeOK'
  BY <1>2, <1>3, <1>5, <1>6, <1>7 DEF RegistryTypeOK, declVars, notifyVars
<1>9. parents'[desc] = Ancestors(desc)
  <2>1. parents'[desc] = parents[p] \cup {desc}
    BY <1>3, <1>4 DEF RegistryTypeOK
  <2>2. CASE p = desc
    <3>1. parents[desc] = {}
      BY <1>1, <1>2, <1>3 DEF TablesExact, ParentsExact, Handled
    <3> QED
      BY <1>3, <2>1, <2>2, <3>1, AncestorsOfRoot
  <2>3. CASE p \in done
    <3>1. parents[p] = Ancestors(p)
      BY <1>1, <1>2, <2>3 DEF TablesExact, ParentsExact, Handled
    <3> QED
      BY <1>3, <2>1, <3>1, AncestorsStep
  <2> QED
    BY <1>2, <2>2, <2>3
<1>10. \A c \in Cid \ {desc} : parents'[c] = parents[c]
  BY <1>4 DEF RegistryTypeOK
<1>11. Handled("parents")' = Handled("parents") \cup {desc}
  BY <1>1, <1>2 DEF Handled
<1>12. \A q \in Passes \ {"parents"} : Handled(q) = {} /\ Handled(q)' = {}
  BY <1>1, <1>2 DEF Passes, Handled, Later
<1>13. ParentsExact'
  BY <1>7, <1>9, <1>10, <1>11, SameReference DEF TablesExact, ParentsExact
<1>14. ChildrenExact' /\ WishesExact' /\ HeardExact' /\ ListenersExact'
  BY <1>7, <1>12 DEF notifyVars, Passes, TablesExact, ChildrenExact, WishesExact, HeardExact,
                     ListenersExact
<1> QED
  BY <1>2, <1>8, <1>13, <1>14 DEF TablesExact

LEMMA NotifyInv ==
  ASSUME RegistryInv, ComputeParentsNotifyTable
  PROVE  RegistryInv'
<1> USE DEF RegistryInv
<1>1. phase = "notify" /\ Compute /\ phase \in Recursive
  BY DEF ComputeParentsNotifyTable, Recursive
<1> DEFINE p == parentOf[desc]
<1>2. /\ desc \in isValid /\ isValid' = isValid /\ parentOf' = parentOf /\ phase' = phase
      /\ done' = done \cup {desc} /\ desc \notin done
      /\ p \in Cid /\ (p = desc \/ p \in done)
      /\ todo' \in SUBSET isValid' /\ stack' \in Seq(isValid')
      /\ Declared' /\ LoopOK'
  BY <1>1, ComputeLoop
<1>3. desc \in Cid /\ done' \in SUBSET Cid
  BY <1>2 DEF RegistryTypeOK
<1>4. commonToBeNotify' =
        [commonToBeNotify EXCEPT ![desc] = commonToBeNotify[desc] \cup ExpandedWishes(desc) \cup commonToBeNotify[p]]
  BY DEF ComputeParentsNotifyTable
<1>5. UNCHANGED <<declVars, hierarchyVars, toBeNotify, toNotify>>
  BY DEF ComputeParentsNotifyTable, Compute
<1>6. Handled("parents") = isValid /\ Handled("children") = isValid /\ Handled("wishes") = isValid
      /\ Handled("notify") = done /\ Handled("inverse") = {}
  BY <1>1 DEF Handled, Later, Recursive
<1>7. Handled("parents")' = isValid /\ Handled("children")' = isValid /\ Handled("wishes")' = isValid
      /\ Handled("notify")' = done \cup {desc} /\ Handled("inverse")' = {}
  BY <1>1, <1>2 DEF Handled, Later, Recursive
<1>8. ExpandedWishes(desc) = OwnHeard(desc)
  <2>1. toBeNotify[desc] = listenTo[desc] \cap isValid
    BY <1>2, <1>3, <1>6 DEF TablesExact, WishesExact
  <2>2. \A t \in Cid : children[t] = Descendants(t)
    BY <1>6 DEF TablesExact, ChildrenExact, Descendants
  <2>3. isValid \subseteq Cid
    BY DEF RegistryTypeOK
  <2>4. {children[t] : t \in toBeNotify[desc] \cap isValid} = {Descendants(t) : t \in listenTo[desc] \cap isValid}
    BY <2>1, <2>2, <2>3
  <2> QED
    BY <2>4 DEF ExpandedWishes, OwnHeard
<1>9. commonToBeNotify[desc] = {} /\ (p # desc => commonToBeNotify[p] = HeardBy(p))
  BY <1>2, <1>3, <1>6 DEF TablesExact, HeardExact
<1>10. commonToBeNotify'[desc] = HeardBy(desc)
  <2>1. commonToBeNotify'[desc] = ExpandedWishes(desc) \cup commonToBeNotify[p]
    BY <1>3, <1>4, <1>9 DEF RegistryTypeOK
  <2>2. CASE p = desc
    BY <1>3, <1>8, <1>9, <2>1, <2>2, HeardOfRoot
  <2>3. CASE p # desc
    BY <1>3, <1>8, <1>9, <2>1, <2>3, HeardStep
  <2> QED
    BY <2>2, <2>3
<1>11. \A c \in Cid \ {desc} : commonToBeNotify'[c] = commonToBeNotify[c]
  BY <1>4 DEF RegistryTypeOK
<1>12. commonToBeNotify' \in [Cid -> SUBSET Cid]
  <2>1. HeardBy(desc) \in SUBSET Cid
    BY DEF HeardBy, Descendants, RegistryTypeOK
  <2>2. DOMAIN commonToBeNotify' = Cid /\ commonToBeNotify' = [c \in Cid |-> commonToBeNotify'[c]]
    BY <1>4 DEF RegistryTypeOK
  <2>3. \A c \in Cid : commonToBeNotify'[c] \in SUBSET Cid
    BY <1>10, <1>11, <2>1 DEF RegistryTypeOK
  <2> QED
    BY <2>2, <2>3
<1>13. RegistryTypeOK'
  BY <1>2, <1>3, <1>5, <1>12 DEF RegistryTypeOK, declVars, hierarchyVars
<1>14. HeardExact'
  BY <1>5, <1>6, <1>7, <1>10, <1>11, SameReference DEF TablesExact, HeardExact
<1>15. ParentsExact' /\ ChildrenExact' /\ WishesExact' /\ ListenersExact'
  BY <1>5, <1>6, <1>7, SameReference DEF declVars, hierarchyVars, TablesExact, ParentsExact,
                     ChildrenExact, WishesExact, ListenersExact
<1> QED
  BY <1>2, <1>13, <1>14, <1>15 DEF TablesExact

\* What the other passes do besides.
LEMMA TurnLoop ==
  ASSUME RegistryInv, NEW p \in {"children", "wishes", "inverse"}, Turn(p)
  PROVE  /\ Item \in todo /\ todo' = todo \ {Item} /\ todo \subseteq isValid
         /\ phase = p /\ phase' = p /\ isValid' = isValid /\ done' = done /\ UNCHANGED declVars
         /\ stack' = <<>> /\ Declared' /\ LoopOK'
         /\ Handled(p) = isValid \ todo /\ Handled(p)' = Handled(p) \cup {Item}
         /\ \A q \in Passes \ {p} : Handled(q)' = Handled(q)
<1>1. /\ todo # {} /\ todo' = todo \ {Item} /\ phase = p /\ phase' = phase /\ done' = done
      /\ stack' = stack /\ UNCHANGED declVars /\ isValid' = isValid /\ parentOf' = parentOf
  BY DEF Turn, declVars
<1>2. Item \in todo /\ todo \subseteq isValid
  BY <1>1, ItemInTodo DEF RegistryInv, RegistryTypeOK
<1>3. stack' = <<>>
  BY <1>1 DEF RegistryInv, LoopOK, Recursive
<1>4. Declared'
  BY <1>1 DEF RegistryInv, Declared
<1>5. LoopOK'
  BY <1>1, <1>3 DEF LoopOK, Recursive
<1>6. Handled(p) = isValid \ todo /\ Handled(p)' = isValid \ (todo \ {Item})
  BY <1>1 DEF Handled, Recursive
<1>7. Handled(p)' = Handled(p) \cup {Item}
  BY <1>2, <1>6
<1>8. \A q \in Passes \ {p} : Handled(q)' = Handled(q)
  BY <1>1 DEF Passes, Handled
<1> QED
  BY <1>1, <1>2, <1>3, <1>4, <1>5, <1>6, <1>7, <1>8

LEMMA ChildrenInv ==
  ASSUME RegistryInv, RegisterAsChild
  PROVE  RegistryInv'
<1> USE DEF RegistryInv
<1>1. Turn("children") /\ UNCHANGED <<level, parents, notifyVars>>
  BY DEF RegisterAsChild
<1>2. /\ Item \in todo /\ todo' = todo \ {Item} /\ todo \subseteq isValid
      /\ phase = "children" /\ phase' = "children" /\ isValid' = isValid /\ done' = done
      /\ UNCHANGED declVars /\ stack' = <<>> /\ Declared' /\ LoopOK'
      /\ Handled("children") = isValid \ todo /\ Handled("children")' = Handled("children") \cup {Item}
      /\ \A q \in Passes \ {"children"} : Handled(q)' = Handled(q)
  BY <1>1, TurnLoop
<1>3. children' = [c \in Cid |-> IF c \in isValid /\ c \in parents[Item]
                                   THEN children[c] \cup {Item} ELSE children[c]]
  BY DEF RegisterAsChild
<1>4. Item \in isValid /\ Item \in Cid
  BY <1>2 DEF RegistryTypeOK
<1>5. children' \in [Cid -> SUBSET Cid]
  BY <1>3, <1>4 DEF RegistryTypeOK
<1>6. RegistryTypeOK'
  BY <1>1, <1>2, <1>5 DEF RegistryTypeOK, declVars, notifyVars
<1>7. parents[Item] = Ancestors(Item)
  BY <1>2, <1>4 DEF Handled, Later, TablesExact, ParentsExact
<1>8. Ancestors(Item) \subseteq isValid
  BY <1>4, AncestorsValid
<1>9. ChildrenExact'
  <2>1. ASSUME NEW c \in Cid
        PROVE  children'[c] = {d \in Handled("children") \cup {Item} : c \in Ancestors(d)}
    <3>1. children[c] = {d \in Handled("children") : c \in Ancestors(d)}
      BY DEF TablesExact, ChildrenExact
    <3> QED
      BY <1>3, <1>7, <1>8, <3>1
  <2> QED
    BY <1>2, <2>1, SameReference DEF ChildrenExact
<1>10. ParentsExact' /\ WishesExact' /\ HeardExact' /\ ListenersExact'
  BY <1>1, <1>2, SameReference DEF Passes, declVars, notifyVars, TablesExact, ParentsExact,
                                   WishesExact, HeardExact, ListenersExact
<1> QED
  BY <1>2, <1>6, <1>9, <1>10 DEF TablesExact

LEMMA WishesInv ==
  ASSUME RegistryInv, RegisterFct
  PROVE  RegistryInv'
<1> USE DEF RegistryInv
<1>1. Turn("wishes") /\ UNCHANGED <<hierarchyVars, commonToBeNotify, toNotify>>
  BY DEF RegisterFct
<1>2. /\ Item \in todo /\ todo' = todo \ {Item} /\ todo \subseteq isValid
      /\ phase = "wishes" /\ phase' = "wishes" /\ isValid' = isValid /\ done' = done
      /\ UNCHANGED declVars /\ stack' = <<>> /\ Declared' /\ LoopOK'
      /\ Handled("wishes") = isValid \ todo /\ Handled("wishes")' = Handled("wishes") \cup {Item}
      /\ \A q \in Passes \ {"wishes"} : Handled(q)' = Handled(q)
  BY <1>1, TurnLoop
<1>3. Item \in Cid
  BY <1>2 DEF RegistryTypeOK
<1>4. toBeNotify' = [toBeNotify EXCEPT ![Item] = toBeNotify[Item] \cup (listenTo[Item] \cap isValid)]
  BY DEF RegisterFct
<1>5. toBeNotify' \in [Cid -> SUBSET Cid]
  BY <1>3, <1>4 DEF RegistryTypeOK
<1>6. RegistryTypeOK'
  BY <1>1, <1>2, <1>5 DEF RegistryTypeOK, declVars, hierarchyVars
<1>7. toBeNotify[Item] = {}
  BY <1>2, <1>3 DEF TablesExact, WishesExact
<1>8. WishesExact'
  BY <1>2, <1>3, <1>4, <1>7 DEF TablesExact, WishesExact, RegistryTypeOK, declVars
<1>9. ParentsExact' /\ ChildrenExact' /\ HeardExact' /\ ListenersExact'
  BY <1>1, <1>2, SameReference DEF Passes, declVars, hierarchyVars, TablesExact, ParentsExact,
                                   ChildrenExact, HeardExact, ListenersExact
<1> QED
  BY <1>2, <1>6, <1>8, <1>9 DEF TablesExact

LEMMA InverseInv ==
  ASSUME RegistryInv, AskTheGuests
  PROVE  RegistryInv'
<1> USE DEF RegistryInv
<1>1. Turn("inverse") /\ UNCHANGED <<hierarchyVars, toBeNotify, commonToBeNotify>>
  BY DEF AskTheGuests
<1>2. /\ Item \in todo /\ todo' = todo \ {Item} /\ todo \subseteq isValid
      /\ phase = "inverse" /\ phase' = "inverse" /\ isValid' = isValid /\ done' = done
      /\ UNCHANGED declVars /\ stack' = <<>> /\ Declared' /\ LoopOK'
      /\ Handled("inverse") = isValid \ todo /\ Handled("inverse")' = Handled("inverse") \cup {Item}
      /\ \A q \in Passes \ {"inverse"} : Handled(q)' = Handled(q)
  BY <1>1, TurnLoop
<1>3. Item \in Cid /\ isValid \subseteq Cid
  BY <1>2 DEF RegistryTypeOK
<1>4. toNotify' = [toNotify EXCEPT
                     ![Item] = toNotify[Item] \cup {c \in isValid : Item \in commonToBeNotify[c]}]
  BY DEF AskTheGuests
<1>5. toNotify' \in [Cid -> SUBSET Cid]
  BY <1>3, <1>4 DEF RegistryTypeOK
<1>6. RegistryTypeOK'
  BY <1>1, <1>2, <1>5 DEF RegistryTypeOK, declVars, hierarchyVars
<1>7. toNotify[Item] = {}
  BY <1>2, <1>3 DEF TablesExact, ListenersExact
<1>8. \A l \in isValid : commonToBeNotify[l] = HeardBy(l)
  BY <1>2, <1>3 DEF Handled, Later, TablesExact, HeardExact
<1>9. toNotify'[Item] = {l \in isValid : Item \in HeardBy(l)}
  BY <1>3, <1>4, <1>7, <1>8 DEF RegistryTypeOK
<1>10. \A c \in Cid \ {Item} : toNotify'[c] = toNotify[c]
  BY <1>4 DEF RegistryTypeOK
<1>11. ListenersExact'
  <2>1. ASSUME NEW c \in Cid
        PROVE  toNotify'[c] = IF c \in Handled("inverse") \cup {Item}
                                THEN {l \in isValid : c \in HeardBy(l)} ELSE {}
    BY <1>9, <1>10 DEF TablesExact, ListenersExact
  <2> QED
    BY <1>2, <2>1, SameReference DEF ListenersExact
<1>12. ParentsExact' /\ ChildrenExact' /\ WishesExact' /\ HeardExact'
  BY <1>1, <1>2, SameReference DEF Passes, declVars, hierarchyVars, TablesExact, ParentsExact,
                                   ChildrenExact, WishesExact, HeardExact
<1> QED
  BY <1>2, <1>6, <1>11, <1>12 DEF TablesExact

LEMMA ShutdownInv ==
  ASSUME RegistryInv, CKShutdown
  PROVE  RegistryInv'
<1> USE DEF RegistryInv
<1>1. todo' = {} /\ stack' = <<>> /\ phase' = "register" /\ isValid' = {} /\ done' = {}
  BY DEF CKShutdown, LoopOK, Recursive
<1>2. RegistryTypeOK'
  BY <1>1, RegistryAssumption DEF CKShutdown, RegistryTypeOK, NoSets
<1>3. Declared' /\ LoopOK'
  BY <1>1 DEF Declared, LoopOK, Recursive
<1>4. \A p \in Passes : Handled(p)' = {}
  BY <1>1 DEF Passes, Handled, Later
<1>5. TablesExact'
  BY <1>4 DEF CKShutdown, NoSets, Passes, TablesExact, ParentsExact, ChildrenExact, WishesExact,
              HeardExact, ListenersExact
<1> QED
  BY <1>2, <1>3, <1>5

LEMMA StutterInv ==
  ASSUME RegistryInv, UNCHANGED registryVars
  PROVE  RegistryInv'
<1> USE DEF RegistryInv
<1>1. UNCHANGED <<isValid, parentOf, listenTo, level, parents, children, toBeNotify,
                  commonToBeNotify, toNotify, done, phase, todo, stack>>
  BY DEF registryVars, declVars, hierarchyVars, notifyVars, loopVars
<1>2. RegistryTypeOK'
  BY <1>1 DEF RegistryTypeOK
<1>3. Declared' /\ LoopOK'
  BY <1>1 DEF Declared, LoopOK
<1>4. \A p \in Passes : Handled(p)' = Handled(p)
  BY <1>1 DEF Handled
<1>5. TablesExact'
  BY <1>1, <1>4, RegistryTablesKept DEF SameTables, declVars
<1> QED
  BY <1>2, <1>3, <1>5

-----------------------------------------------------------------------------
(* The theorems.                                                            *)

\* Every pass leaves in its table exactly what the declarations say of the
\* classes it has handled, whatever order the recursion visits them in.
THEOREM RegistryInvariant ==
  RegistrySpec => []RegistryInv
<1>1. ASSUME RegistryInv, [RegistryNext]_registryVars
      PROVE  RegistryInv'
  <2>1. CASE \E d \in Declaration : CKClassRegister(d)
    BY <1>1, <2>1, RegisterInv
  <2>2. CASE CKBuildClassHierarchyTable
    <3>1. phase = "register" /\ BeginPass("parents")
      BY <2>2 DEF CKBuildClassHierarchyTable
    <3>2. todo = {} /\ stack = <<>>
      BY <1>1, <3>1 DEF RegistryInv, LoopOK, Recursive
    <3> QED
      BY <1>1, <3>1, <3>2, BeginPassInv
  <2>3. CASE EndPass
    BY <1>1, <2>3, BeginPassInv DEF EndPass
  <2>4. CASE CallItem \/ ReturnDone \/ CallParent
    BY <1>1, <2>4, CallInv
  <2>5. CASE ComputeParentsTable
    BY <1>1, <2>5, ParentsInv
  <2>6. CASE ComputeParentsNotifyTable
    BY <1>1, <2>6, NotifyInv
  <2>7. CASE RegisterAsChild
    BY <1>1, <2>7, ChildrenInv
  <2>8. CASE RegisterFct
    BY <1>1, <2>8, WishesInv
  <2>9. CASE AskTheGuests
    BY <1>1, <2>9, InverseInv
  <2>10. CASE CKShutdown
    BY <1>1, <2>10, ShutdownInv
  <2>11. CASE UNCHANGED registryVars
    BY <1>1, <2>11, StutterInv
  <2> QED
    BY <1>1, <2>1, <2>2, <2>3, <2>4, <2>5, <2>6, <2>7, <2>8, <2>9, <2>10, <2>11 DEF RegistryNext, BuildStep
<1> QED
  BY InitInv, <1>1, PTL DEF RegistrySpec

\* CKIsChildClassOf and Children are the transitive closure of the declared
\* parents and its inverse, for every tree of classes.
THEOREM HierarchyAlwaysExact ==
  RegistrySpec => []HierarchyExact
<1>1. ASSUME RegistryInv
      PROVE  HierarchyExact
  <2> SUFFICES ASSUME Built, NEW c \in isValid, NEW d \in isValid
               PROVE  /\ CKIsChildClassOf(c, d) <=> d \in Ancestors(c)
                      /\ c \in children[d] <=> d \in Ancestors(c)
    BY DEF HierarchyExact
  <2>1. Handled("parents") = isValid /\ Handled("children") = isValid /\ c \in Cid /\ d \in Cid
    BY <1>1 DEF Built, Handled, Later, RegistryInv, RegistryTypeOK
  <2>2. parents[c] = Ancestors(c) /\ children[d] = {x \in isValid : d \in Ancestors(x)}
    BY <1>1, <2>1 DEF RegistryInv, TablesExact, ParentsExact, ChildrenExact
  <2> QED
    BY <2>2 DEF CKIsChildClassOf
<1> QED
  BY RegistryInvariant, <1>1, PTL

\* The deletion of an object is announced to the classes that asked for it,
\* themselves or through an ancestor, and to no other.
THEOREM NotifyAlwaysExact ==
  RegistrySpec => []NotifyExact
<1>1. ASSUME RegistryInv
      PROVE  NotifyExact
  <2> SUFFICES ASSUME Built, NEW l \in isValid, NEW c \in isValid
               PROVE  /\ l \in CKGetAllNotifyClassID({c}) <=> c \in HeardBy(l)
                      /\ CKIsNeedNotify(l, c) <=> c \in HeardBy(l)
    BY DEF NotifyExact
  <2>1. Handled("notify") = isValid /\ Handled("inverse") = isValid /\ c \in Cid /\ l \in Cid
    BY <1>1 DEF Built, Handled, Later, RegistryInv, RegistryTypeOK
  <2>2. commonToBeNotify[l] = HeardBy(l) /\ toNotify[c] = {x \in isValid : c \in HeardBy(x)}
    BY <1>1, <2>1 DEF RegistryInv, TablesExact, HeardExact, ListenersExact
  <2>3. CKGetAllNotifyClassID({c}) = toNotify[c]
    BY DEF CKGetAllNotifyClassID
  <2> QED
    BY <2>2, <2>3 DEF CKIsNeedNotify
<1> QED
  BY RegistryInvariant, <1>1, PTL
=============================================================================
