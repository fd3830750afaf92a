----------------------------- MODULE BMapProofs -----------------------------
(***************************************************************************)
(* Theorems about BMap for every heap, every set of classes and documents  *)
(* and every client.                                                       *)
(***************************************************************************)
EXTENDS BMap, SequenceTheorems, InductionLemmas

-----------------------------------------------------------------------------
(* The heap.                                                                *)

\* A new object at a free address leaves the others alone.
LEMMA NewAt ==
  ASSUME NEW heap, NEW a, a \notin DOMAIN heap, NEW v, NEW after, after = Allocated(heap, a, v)
  PROVE  /\ DOMAIN after = DOMAIN heap \cup {a}
         /\ after[a] = v
         /\ \A b \in DOMAIN heap : after[b] = heap[b]
BY DEF Allocated

\* What is deleted is gone, what is not stays as it is.
LEMMA DeleteAt ==
  ASSUME NEW heap, NEW S
  PROVE  /\ DOMAIN Restrict(heap, DOMAIN heap \ S) = DOMAIN heap \ S
         /\ \A b \in DOMAIN heap \ S : Restrict(heap, DOMAIN heap \ S)[b] = heap[b]
BY DEF Restrict

-----------------------------------------------------------------------------
(* The invariant.                                                           *)

ObjectFields == {"cls", "link", "mesh"}

FileFields == {"loader", "saved", "written", "objs", "lists"}

\* Null, or an object of a class in a list of objects.
Leads(objs, target, cls) == target = 0 \/ (target \in DOMAIN objs /\ objs[target].cls = cls)

\* The pointers of one object of a list.
ObjectSound(objs, o) ==
  /\ DOMAIN o = ObjectFields
  /\ o.link # 0 => Leads(objs, o.link, LinkClass[o.cls])
  /\ DOMAIN o.mesh = {"vertexs", "faces", "mtlSlots"}
  /\ \A k \in DOMAIN o.mesh.mtlSlots : Leads(objs, o.mesh.mtlSlots[k], "MATERIAL")

ObjectsSound(objs) ==
  /\ objs \in Seq(ToSet(objs))
  /\ \A id \in DOMAIN objs : ObjectSound(objs, objs[id])

FilesSound ==
  \A f \in DOMAIN files : DOMAIN files[f] = FileFields /\ ObjectsSound(files[f].objs)

BInv == HandlesExact /\ FilesSound

-----------------------------------------------------------------------------
(* Objects.                                                                 *)

\* A sequence is one of its own elements.
LEMMA OwnElements ==
  ASSUME NEW n \in Nat, NEW s, s = [i \in 1 .. n |-> s[i]]
  PROVE  s \in Seq(ToSet(s))
<1> DEFINE T == ToSet(s)
<1>1. DOMAIN s = 1 .. n
  OBVIOUS
<1>2. \A i \in 1 .. n : s[i] \in T
  BY <1>1 DEF ToSet
<1> HIDE DEF T
<1>3. [i \in 1 .. n |-> s[i]] \in Seq(T)
  BY <1>2
<1>4. QED BY <1>3 DEF T

\* An object may be given other pointers of the right classes: what leads to it
\* looks at its class only.
LEMMA ObjectChanged ==
  ASSUME NEW objs, ObjectsSound(objs), NEW id \in DOMAIN objs, NEW o,
         ObjectSound(objs, o), o.cls = objs[id].cls, NEW after, after = [objs EXCEPT ![id] = o]
  PROVE  ObjectsSound(after)
<1>1. objs \in Seq(ToSet(objs)) /\ \A i \in DOMAIN objs : ObjectSound(objs, objs[i])
  BY DEF ObjectsSound
<1>2. Len(objs) \in Nat /\ DOMAIN objs = 1 .. Len(objs)
  BY <1>1, LenProperties
<1>3. /\ DOMAIN after = 1 .. Len(objs) /\ after[id] = o
      /\ \A i \in DOMAIN objs : i # id => after[i] = objs[i]
  BY <1>2
<1>4. \A target, cls : Leads(objs, target, cls) => Leads(after, target, cls)
  BY <1>2, <1>3 DEF Leads
<1>5. \A i \in DOMAIN after : ObjectSound(objs, after[i])
  BY <1>1, <1>2, <1>3
<1>6. \A i \in DOMAIN after : ObjectSound(after, after[i])
  BY <1>4, <1>5 DEF ObjectSound
<1>7. after \in Seq(ToSet(after))
  <2>1. after = [i \in 1 .. Len(objs) |-> after[i]]
    BY <1>2
  <2>2. QED BY <1>2, <2>1, OwnElements
<1>8. QED BY <1>6, <1>7 DEF ObjectsSound

\* A new object points nowhere.
LEMMA NewObjectSound ==
  ASSUME NEW objs, NEW cls
  PROVE  ObjectSound(objs, Object(cls))
BY DEF ObjectSound, Object, EmptyMesh, ObjectFields

LEMMA ObjectAppended ==
  ASSUME NEW objs, ObjectsSound(objs), NEW cls, NEW after, after = Append(objs, Object(cls))
  PROVE  ObjectsSound(after)
<1> DEFINE S == ToSet(objs) \cup {Object(cls)}
<1>1. objs \in Seq(ToSet(objs)) /\ \A i \in DOMAIN objs : ObjectSound(objs, objs[i])
  BY DEF ObjectsSound
<1>2. objs \in Seq(S) /\ Object(cls) \in S
  BY <1>1, SeqMonotonic
<1> HIDE DEF S
<1>3. /\ Len(objs) \in Nat /\ DOMAIN objs = 1 .. Len(objs)
      /\ after \in Seq(S) /\ Len(after) = Len(objs) + 1
      /\ \A i \in 1 .. Len(objs) : after[i] = objs[i]
      /\ after[Len(objs) + 1] = Object(cls)
  BY <1>2, AppendProperties, LenProperties
<1>4. DOMAIN after = 1 .. Len(objs) + 1
  BY <1>3, LenProperties
<1>5. \A target, c : Leads(objs, target, c) => Leads(after, target, c)
  BY <1>3, <1>4 DEF Leads
<1>6. ASSUME NEW i \in DOMAIN after PROVE ObjectSound(after, after[i])
  <2>1. CASE i \in 1 .. Len(objs)
    <3>1. ObjectSound(objs, after[i])
      BY <1>1, <1>3, <2>1
    <3>2. QED BY <1>5, <3>1 DEF ObjectSound
  <2>2. CASE i = Len(objs) + 1
    BY <1>3, <2>2, NewObjectSound
  <2>3. QED BY <1>3, <1>4, <2>1, <2>2
<1>7. after \in Seq(ToSet(after))
  <2>1. after \in [1 .. Len(after) -> S] /\ Len(after) \in Nat
    BY <1>3, LenProperties
  <2>2. after = [i \in 1 .. Len(after) |-> after[i]]
    BY <2>1
  <2>3. QED BY <2>1, <2>2, OwnElements
<1>8. QED BY <1>6, <1>7 DEF ObjectsSound

LEMMA LoadedSound ==
  ASSUME NEW doc \in Documents, NEW objs, objs = [i \in DOMAIN doc |-> Object(doc[i])]
  PROVE  ObjectsSound(objs)
<1>1. Len(doc) \in Nat /\ DOMAIN doc = 1 .. Len(doc)
  BY BMapAssumption, LenProperties
<1>2. DOMAIN objs = 1 .. Len(doc) /\ \A i \in DOMAIN objs : objs[i] = Object(doc[i])
  BY <1>1
<1>3. objs \in Seq(ToSet(objs))
  <2>1. objs = [i \in 1 .. Len(doc) |-> objs[i]]
    BY <1>1
  <2>2. QED BY <1>1, <2>1, OwnElements
<1>4. QED BY <1>2, <1>3, NewObjectSound DEF ObjectsSound

-----------------------------------------------------------------------------
(* Documents.                                                               *)

\* One document gets other objects.
LEMMA FileChanged ==
  ASSUME FilesSound, NEW f \in DOMAIN files, DOMAIN files' = DOMAIN files,
         \A g \in DOMAIN files : g # f => files'[g] = files[g],
         DOMAIN files'[f] = FileFields, ObjectsSound(files'[f].objs)
  PROVE  FilesSound'
BY DEF FilesSound

\* A document comes into being.
LEMMA FileAdded ==
  ASSUME FilesSound, NEW f, f \notin DOMAIN files, NEW file,
         DOMAIN file = FileFields, ObjectsSound(file.objs), files' = Allocated(files, f, file)
  PROVE  FilesSound'
<1>1. /\ DOMAIN files' = DOMAIN files \cup {f} /\ files'[f] = file
      /\ \A g \in DOMAIN files : files'[g] = files[g]
  BY NewAt
<1>2. QED BY <1>1 DEF FilesSound

LEMMA FilesDeleted ==
  ASSUME FilesSound, NEW S, files' = Restrict(files, DOMAIN files \ S)
  PROVE  FilesSound'
<1>1. DOMAIN files' = DOMAIN files \ S /\ \A g \in DOMAIN files' : files'[g] = files[g]
  BY DeleteAt
<1>2. QED BY <1>1 DEF FilesSound

\* What may be assigned where a class is asked for.
LEMMA OrNullLeads ==
  ASSUME NEW f, NEW id, NEW cls
  PROVE  Leads(files[f].objs, OrNull(f, id, cls), cls)
BY DEF Leads, OrNull, CheckObject, Visible

\* One object of a document gets other pointers.
LEMMA ObjectEdited ==
  ASSUME BInv, NEW f \in DOMAIN files, NEW id \in DOMAIN files[f].objs, NEW o,
         ObjectSound(files[f].objs, o), o.cls = files[f].objs[id].cls,
         files' = [files EXCEPT ![f].objs[id] = o]
  PROVE  FilesSound' /\ DOMAIN files' = DOMAIN files
<1> DEFINE objs == files[f].objs
<1>1. DOMAIN files[f] = FileFields /\ ObjectsSound(objs)
  BY DEF BInv, FilesSound
<1>2. /\ DOMAIN files' = DOMAIN files
      /\ \A g \in DOMAIN files : g # f => files'[g] = files[g]
      /\ DOMAIN files'[f] = FileFields
      /\ files'[f].objs = [objs EXCEPT ![id] = o]
  BY <1>1 DEF FileFields
<1>3. ObjectsSound(files'[f].objs)
  BY <1>1, <1>2, ObjectChanged
<1>4. QED BY <1>2, <1>3, FileChanged DEF BInv

\* An object of an open document.
LEMMA ObjectIs ==
  ASSUME BInv, NEW f, CheckBMFile(f), NEW id \in Visible(f)
  PROVE  /\ f \in DOMAIN files /\ id \in DOMAIN files[f].objs
         /\ ObjectSound(files[f].objs, files[f].objs[id])
BY DEF CheckBMFile, Visible, BInv, HandlesExact, FilesSound, ObjectsSound

-----------------------------------------------------------------------------
(* The calls.                                                               *)

\* HandlesExact when no handle is given out or taken back.
LEMMA HandlesKept ==
  ASSUME HandlesExact, DOMAIN files' = DOMAIN files, DOMAIN transitions' = DOMAIN transitions,
         UNCHANGED <<inited, allFiles, allTrans>>
  PROVE  HandlesExact'
BY DEF HandlesExact

LEMMA SetLinkKeeps ==
  ASSUME BInv, NEW f, NEW id, NEW target, SetLink(f, id, target)
  PROVE  BInv'
<1> DEFINE old == files[f].objs[id]
           link == OrNull(f, target, LinkClass[old.cls])
           o == [old EXCEPT !.link = link]
<1>1. /\ f \in DOMAIN files /\ id \in DOMAIN files[f].objs /\ ObjectSound(files[f].objs, old)
      /\ files' = [files EXCEPT ![f].objs[id].link = link]
      /\ UNCHANGED <<transitions, inited, allFiles, allTrans, fault>>
  BY ObjectIs DEF SetLink
<1>2. files' = [files EXCEPT ![f].objs[id] = o]
  BY <1>1
<1>3. DOMAIN o = ObjectFields /\ o.cls = old.cls /\ o.mesh = old.mesh /\ o.link = link
  BY <1>1 DEF ObjectSound, ObjectFields
<1>4. ObjectSound(files[f].objs, o)
  BY <1>1, <1>3, OrNullLeads DEF ObjectSound
<1> HIDE DEF o
<1>5. FilesSound' /\ DOMAIN files' = DOMAIN files
  BY <1>1, <1>2, <1>3, <1>4, ObjectEdited
<1>6. QED BY <1>1, <1>5, HandlesKept DEF BInv

\* An object with another mesh, whose slots lead to materials.
LEMMA MeshEdited ==
  ASSUME BInv, NEW f \in DOMAIN files, NEW id \in DOMAIN files[f].objs,
         ObjectSound(files[f].objs, files[f].objs[id]), NEW mesh,
         DOMAIN mesh = {"vertexs", "faces", "mtlSlots"},
         \A k \in DOMAIN mesh.mtlSlots : Leads(files[f].objs, mesh.mtlSlots[k], "MATERIAL"),
         files' = [files EXCEPT ![f].objs[id].mesh = mesh]
  PROVE  FilesSound' /\ DOMAIN files' = DOMAIN files
<1> DEFINE old == files[f].objs[id]
           o == [old EXCEPT !.mesh = mesh]
<1>1. files' = [files EXCEPT ![f].objs[id] = o]
  OBVIOUS
<1>2. DOMAIN o = ObjectFields /\ o.cls = old.cls /\ o.link = old.link /\ o.mesh = mesh
  BY DEF ObjectSound, ObjectFields
<1>3. ObjectSound(files[f].objs, o)
  BY <1>2 DEF ObjectSound
<1> HIDE DEF o
<1>4. QED BY <1>1, <1>2, <1>3, ObjectEdited

LEMMA SlotCountKeeps ==
  ASSUME BInv, NEW f, NEW id, NEW n, BMMesh_SetMaterialSlotCount(f, id, n)
  PROVE  BInv'
<1> DEFINE old == files[f].objs[id].mesh
           mesh == [old EXCEPT !.mtlSlots = Resize(old.mtlSlots, n)]
<1>1. /\ f \in DOMAIN files /\ id \in DOMAIN files[f].objs
      /\ ObjectSound(files[f].objs, files[f].objs[id])
      /\ files' = [files EXCEPT ![f].objs[id].mesh.mtlSlots = Resize(old.mtlSlots, n)]
      /\ UNCHANGED <<transitions, inited, allFiles, allTrans, fault>>
  BY ObjectIs DEF BMMesh_SetMaterialSlotCount, CheckObject
<1>2. files' = [files EXCEPT ![f].objs[id].mesh = mesh]
  BY <1>1
<1>3. /\ DOMAIN mesh = {"vertexs", "faces", "mtlSlots"}
      /\ mesh.mtlSlots = Resize(old.mtlSlots, n)
  BY <1>1 DEF ObjectSound
<1>4. \A k \in DOMAIN mesh.mtlSlots : Leads(files[f].objs, mesh.mtlSlots[k], "MATERIAL")
  BY <1>1, <1>3 DEF ObjectSound, Resize, Leads
<1> HIDE DEF mesh
<1>5. FilesSound' /\ DOMAIN files' = DOMAIN files
  BY <1>1, <1>2, <1>3, <1>4, MeshEdited
<1>6. QED BY <1>1, <1>5, HandlesKept DEF BInv

LEMMA SlotKeeps ==
  ASSUME BInv, NEW f, NEW id, NEW k, NEW target, BMMesh_SetMaterialSlot(f, id, k, target)
  PROVE  BInv'
<1> DEFINE old == files[f].objs[id].mesh
           to == OrNull(f, target, "MATERIAL")
           slots == [old.mtlSlots EXCEPT ![k] = to]
           mesh == [old EXCEPT !.mtlSlots = slots]
<1>1. /\ f \in DOMAIN files /\ id \in DOMAIN files[f].objs
      /\ ObjectSound(files[f].objs, files[f].objs[id])
      /\ files' = [files EXCEPT ![f].objs[id].mesh.mtlSlots[k] = to]
      /\ UNCHANGED <<transitions, inited, allFiles, allTrans, fault>>
  BY ObjectIs DEF BMMesh_SetMaterialSlot, CheckObject
<1>2. files' = [files EXCEPT ![f].objs[id].mesh = mesh]
  BY <1>1
<1>3. DOMAIN mesh = {"vertexs", "faces", "mtlSlots"} /\ mesh.mtlSlots = slots
  BY <1>1 DEF ObjectSound
<1>4. \A j \in DOMAIN slots : slots[j] = IF j = k THEN to ELSE old.mtlSlots[j]
  OBVIOUS
<1>5. DOMAIN slots = DOMAIN old.mtlSlots
  OBVIOUS
<1>6. \A j \in DOMAIN mesh.mtlSlots : Leads(files[f].objs, mesh.mtlSlots[j], "MATERIAL")
  BY <1>1, <1>3, <1>4, <1>5, OrNullLeads DEF ObjectSound
<1> HIDE DEF mesh
<1>7. FilesSound' /\ DOMAIN files' = DOMAIN files
  BY <1>1, <1>2, <1>3, <1>6, MeshEdited
<1>8. QED BY <1>1, <1>7, HandlesKept DEF BInv

\* Parse gives the mesh the materials its slots stand for.
LEMMA ParseKeeps ==
  ASSUME BInv, NEW t, NEW f, NEW id, BMMeshTrans_Parse(t, f, id)
  PROVE  BInv'
<1> DEFINE d == transitions[t].data
           mesh == Applied(d, DoRealParse(d), Materials(f, d))
<1>1. /\ f \in DOMAIN files /\ id \in DOMAIN files[f].objs
      /\ ObjectSound(files[f].objs, files[f].objs[id])
  BY ObjectIs DEF BMMeshTrans_Parse, CanParse, CheckObject
<1>2. /\ files' = files \/ files' = [files EXCEPT ![f].objs[id].mesh = mesh]
      /\ transitions' = [transitions EXCEPT ![t] = Spent]
      /\ UNCHANGED <<inited, allFiles, allTrans, fault>>
  BY DEF BMMeshTrans_Parse
<1>3. /\ DOMAIN mesh = {"vertexs", "faces", "mtlSlots"}
      /\ mesh.mtlSlots = [k \in DOMAIN d.mtlSlots |-> Materials(f, d)[d.mtlSlots[k]]]
  BY DEF Applied
<1>4. \A k \in DOMAIN d.mtlSlots :
        Materials(f, d)[d.mtlSlots[k]] = OrNull(f, d.mtlSlots[k], "MATERIAL")
  BY DEF Materials, ToSet
<1>5. \A k \in DOMAIN mesh.mtlSlots : Leads(files[f].objs, mesh.mtlSlots[k], "MATERIAL")
  BY <1>3, <1>4, OrNullLeads
<1> HIDE DEF mesh
<1>6. FilesSound' /\ DOMAIN files' = DOMAIN files
  <2>1. CASE files' = files
    BY <2>1 DEF BInv, FilesSound
  <2>2. CASE files' = [files EXCEPT ![f].objs[id].mesh = mesh]
    BY <1>1, <1>3, <1>5, <2>2, MeshEdited
  <2>3. QED BY <1>2, <2>1, <2>2
<1>7. QED BY <1>2, <1>6, HandlesKept DEF BInv

LEMMA DisposeKeeps ==
  ASSUME BInv, BMDispose
  PROVE  BInv'
<1>1. /\ files' = Restrict(files, DOMAIN files \ allFiles)
      /\ transitions' = Restrict(transitions, DOMAIN transitions \ allTrans)
      /\ allFiles' = {} /\ allTrans' = {}
  BY DEF BMDispose
<1>2. FilesSound'
  BY <1>1, FilesDeleted DEF BInv
<1>3. DOMAIN files' = DOMAIN files \ allFiles
  BY <1>1, DeleteAt
<1>4. DOMAIN transitions' = DOMAIN transitions \ allTrans
  BY <1>1, DeleteAt
<1>5. allFiles = DOMAIN files /\ allTrans = DOMAIN transitions
  BY DEF BInv, HandlesExact
<1>6. DOMAIN files' = {} /\ DOMAIN transitions' = {}
  BY <1>3, <1>4, <1>5
<1>7. QED BY <1>1, <1>2, <1>6 DEF BInv, HandlesExact

LEMMA OpenKeeps ==
  ASSUME BInv, NEW f, NEW ok, Running, f \notin DOMAIN files, NEW file,
         DOMAIN file = FileFields, ObjectsSound(file.objs),
         files' = IF ok THEN Allocated(files, f, file) ELSE files,
         allFiles' = Registered(f, ok), UNCHANGED <<transitions, inited, allTrans>>
  PROVE  BInv'
<1>1. CASE ~ ok
  BY <1>1 DEF BInv, HandlesExact, FilesSound, Registered
<1>2. CASE ok
  <2>1. FilesSound'
    BY <1>2, FileAdded DEF BInv
  <2>2. DOMAIN files' = DOMAIN files \cup {f}
    BY <1>2, NewAt
  <2>3. QED BY <1>2, <2>1, <2>2 DEF BInv, HandlesExact, Registered, Running
<1>3. QED BY <1>1, <1>2

LEMMA LoadKeeps ==
  ASSUME BInv, NEW f, NEW doc \in Documents, NEW ok, BMFile_Load(f, doc, ok)
  PROVE  BInv'
<1> DEFINE file == [loader |-> TRUE, saved |-> FALSE, written |-> <<>>,
                    objs |-> [i \in DOMAIN doc |-> Object(doc[i])],
                    lists |-> [c \in OfferedClass |-> Listed(doc, c)]]
<1>1. DOMAIN file = FileFields /\ file.objs = [i \in DOMAIN doc |-> Object(doc[i])]
  BY DEF FileFields
<1>2. ObjectsSound(file.objs)
  BY <1>1, LoadedSound
<1>3. /\ Running /\ f \notin DOMAIN files
      /\ files' = IF ok THEN Allocated(files, f, file) ELSE files
      /\ allFiles' = Registered(f, ok) /\ UNCHANGED <<transitions, inited, allTrans>>
  BY DEF BMFile_Load
<1> HIDE DEF file
<1>4. QED BY <1>1, <1>2, <1>3, OpenKeeps

LEMMA CreateFileKeeps ==
  ASSUME BInv, NEW f, NEW ok, BMFile_Create(f, ok)
  PROVE  BInv'
<1> DEFINE file == [loader |-> FALSE, saved |-> FALSE, written |-> <<>>,
                    objs |-> <<>>, lists |-> EmptyLists]
<1>1. DOMAIN file = FileFields /\ file.objs = <<>>
  BY DEF FileFields
<1>2. ObjectsSound(file.objs)
  BY <1>1, EmptySeq DEF ObjectsSound
<1>3. /\ Running /\ f \notin DOMAIN files
      /\ files' = IF ok THEN Allocated(files, f, file) ELSE files
      /\ allFiles' = Registered(f, ok) /\ UNCHANGED <<transitions, inited, allTrans>>
  BY DEF BMFile_Create
<1> HIDE DEF file
<1>4. QED BY <1>1, <1>2, <1>3, OpenKeeps

LEMMA FreeKeeps ==
  ASSUME BInv, NEW f, BMFile_Free(f)
  PROVE  BInv'
<1>1. /\ files' = Restrict(files, DOMAIN files \ {f}) /\ allFiles' = allFiles \ {f}
      /\ UNCHANGED <<transitions, inited, allTrans>>
  BY DEF BMFile_Free
<1>2. FilesSound'
  BY <1>1, FilesDeleted DEF BInv
<1>3. DOMAIN files' = DOMAIN files \ {f}
  BY <1>1, DeleteAt
<1>4. QED BY <1>1, <1>2, <1>3 DEF BInv, HandlesExact

\* What the calls on documents do to the record of one of them.
LEMMA CreateObjectKeeps ==
  ASSUME BInv, NEW f, NEW cls, CreateObject(f, cls)
  PROVE  BInv'
<1> DEFINE objs == files[f].objs
           after == Append(objs, Object(cls))
<1>1. /\ f \in DOMAIN files
      /\ files' = [files EXCEPT ![f].objs = after, ![f].lists[cls] = Append(@, Len(objs) + 1)]
      /\ UNCHANGED <<transitions, inited, allFiles, allTrans>>
  BY DEF CreateObject, CheckBMFile, BInv, HandlesExact
<1>2. DOMAIN files[f] = FileFields /\ ObjectsSound(objs)
  BY <1>1 DEF BInv, FilesSound
<1>3. ObjectsSound(after)
  BY <1>2, ObjectAppended
<1> HIDE DEF after
<1>4. /\ DOMAIN files' = DOMAIN files
      /\ \A g \in DOMAIN files : g # f => files'[g] = files[g]
      /\ DOMAIN files'[f] = FileFields /\ files'[f].objs = after
  BY <1>1, <1>2 DEF FileFields
<1>5. FilesSound'
  BY <1>1, <1>3, <1>4, FileChanged DEF BInv
<1>6. QED BY <1>1, <1>4, <1>5, HandlesKept DEF BInv

LEMMA SaveKeeps ==
  ASSUME BInv, NEW f, BMFile_Save(f)
  PROVE  BInv'
<1>1. /\ f \in DOMAIN files
      /\ files' = [files EXCEPT ![f].saved = TRUE,
           ![f].written = FlattenSeq([k \in DOMAIN Offered |-> files[f].lists[Offered[k]]])]
      /\ UNCHANGED <<transitions, inited, allFiles, allTrans>>
  BY DEF BMFile_Save, CheckBMFile, BInv, HandlesExact
<1>2. DOMAIN files[f] = FileFields /\ ObjectsSound(files[f].objs)
  BY <1>1 DEF BInv, FilesSound
<1>3. /\ DOMAIN files' = DOMAIN files
      /\ \A g \in DOMAIN files : g # f => files'[g] = files[g]
      /\ DOMAIN files'[f] = FileFields /\ files'[f].objs = files[f].objs
  BY <1>1, <1>2 DEF FileFields
<1>4. FilesSound'
  BY <1>1, <1>2, <1>3, FileChanged DEF BInv
<1>5. QED BY <1>1, <1>3, <1>4, HandlesKept DEF BInv

LEMMA TransitionKeeps ==
  ASSUME BInv, NEW t, BMMeshTrans_New(t) \/ BMMeshTrans_Delete(t) \/ Prepare(t)
  PROVE  BInv'
<1>1. UNCHANGED <<files, inited, allFiles>>
  BY DEF BMMeshTrans_New, BMMeshTrans_Delete, Prepare
<1>2. FilesSound'
  BY <1>1 DEF BInv, FilesSound
<1>3. CASE BMMeshTrans_New(t)
  <2>1. DOMAIN transitions' = DOMAIN transitions \cup {t}
    BY <1>3, NewAt DEF BMMeshTrans_New
  <2>2. inited /\ allTrans' = allTrans \cup {t}
    BY <1>3 DEF BMMeshTrans_New, Running
  <2>3. QED BY <1>1, <1>2, <2>1, <2>2 DEF BInv, HandlesExact
<1>4. CASE BMMeshTrans_Delete(t)
  <2>1. DOMAIN transitions' = DOMAIN transitions \ {t}
    BY <1>4, DeleteAt DEF BMMeshTrans_Delete
  <2>2. allTrans' = allTrans \ {t}
    BY <1>4 DEF BMMeshTrans_Delete
  <2>3. QED BY <1>1, <1>2, <2>1, <2>2 DEF BInv, HandlesExact
<1>5. CASE Prepare(t)
  <2>1. DOMAIN transitions' = DOMAIN transitions
    BY <1>5 DEF Prepare, PrepareCount, WriteArray
  <2>2. allTrans' = allTrans
    BY <1>5 DEF Prepare
  <2>3. QED BY <1>1, <1>2, <2>1, <2>2 DEF BInv, HandlesExact
<1>6. QED BY <1>3, <1>4, <1>5

-----------------------------------------------------------------------------
(* Theorems.                                                                *)

LEMMA BInit == Init => BInv
BY DEF Init, BInv, HandlesExact, FilesSound

LEMMA BNext == BInv /\ [Next]_vars => BInv'
<1> SUFFICES ASSUME BInv, [Next]_vars PROVE BInv'
  OBVIOUS
<1>1. CASE BMInit
  BY <1>1 DEF BMInit, BInv, HandlesExact, FilesSound
<1>2. CASE BMDispose
  BY <1>2, DisposeKeeps
<1>3. ASSUME NEW f \in File, Documenting(f) PROVE BInv'
  BY <1>3, LoadKeeps, CreateFileKeeps, FreeKeeps, CreateObjectKeeps, SaveKeeps DEF Documenting
<1>4. ASSUME NEW f \in File, Editing(f) PROVE BInv'
  BY <1>4, SetLinkKeeps, SlotCountKeeps, SlotKeeps DEF Editing
<1>5. ASSUME NEW t \in Transition, BMMeshTrans_New(t) \/ BMMeshTrans_Delete(t) \/ Prepare(t)
      PROVE  BInv'
  BY <1>5, TransitionKeeps
<1>6. ASSUME NEW t \in Transition, NEW f \in File, Parsing(t, f) PROVE BInv'
  <2>1. PICK id \in Ids(f) : BMMeshTrans_Parse(t, f, id) \/ ParseOutside(t, f, id)
    BY <1>6 DEF Parsing
  <2>2. CASE ParseOutside(t, f, id)
    BY <2>2 DEF ParseOutside, BInv, HandlesExact, FilesSound
  <2>3. QED BY <2>1, <2>2, ParseKeeps
<1>7. CASE UNCHANGED vars
  BY <1>7 DEF vars, BInv, HandlesExact, FilesSound
<1>8. QED BY <1>1, <1>2, <1>3, <1>4, <1>5, <1>6, <1>7 DEF Next

\* The invariant of the handles and of the pointers between objects.
THEOREM BMapInvariance == Spec => []BInv
BY BInit, BNext, PTL DEF Spec

\* For every heap and every client: the handles BMap accepts are the objects it
\* has allocated and not deleted (BMExports.cpp:81-157).
THEOREM Handles == Spec => []HandlesExact
<1>1. BInv => HandlesExact
  BY DEF BInv
<1>2. QED BY BMapInvariance, <1>1, PTL

\* For all classes and documents: a pointer between objects is null or leads to
\* an object of the class the code casts it to.
THEOREM Links == Spec => []LinksTyped
<1>1. BInv => LinksTyped
  <2>1. SUFFICES ASSUME BInv, NEW f \in DOMAIN files, NEW id \in Ids(f)
        PROVE  LET o == files[f].objs[id]
                   is(target, cls) == target = 0 \/ files[f].objs[target].cls = cls
               IN /\ o.link # 0 => is(o.link, LinkClass[o.cls])
                  /\ \A k \in DOMAIN o.mesh.mtlSlots : is(o.mesh.mtlSlots[k], "MATERIAL")
    BY DEF LinksTyped
  <2>2. ObjectSound(files[f].objs, files[f].objs[id])
    BY <2>1 DEF BInv, FilesSound, ObjectsSound, Ids
  <2>3. QED BY <2>2 DEF ObjectSound, Leads
<1>2. QED BY BMapInvariance, <1>1, PTL

-----------------------------------------------------------------------------
(* Lists.                                                                   *)

\* A sequence that holds each element of a set once.
Enumerates(s, S) == s \in Seq(Nat) /\ ToSet(s) = S /\ IsInjective(s)

LEMMA EmptyList == Enumerates(<<>>, {})
BY EmptySeq DEF Enumerates, ToSet, IsInjective

LEMMA ListAppended ==
  ASSUME NEW s, NEW S, Enumerates(s, S), NEW e \in Nat, e \notin S
  PROVE  Enumerates(Append(s, e), S \cup {e})
<1> DEFINE t == Append(s, e)
<1>1. /\ s \in Seq(Nat) /\ Len(s) \in Nat /\ DOMAIN s = 1 .. Len(s)
      /\ S = {s[i] : i \in DOMAIN s} /\ \A i, j \in DOMAIN s : s[i] = s[j] => i = j
  BY LenProperties DEF Enumerates, ToSet, IsInjective
<1>2. /\ t \in Seq(Nat) /\ DOMAIN t = 1 .. Len(s) + 1 /\ t[Len(s) + 1] = e
      /\ \A i \in 1 .. Len(s) : t[i] = s[i]
  BY <1>1, AppendProperties, LenProperties
<1> HIDE DEF t
<1>3. \A i \in DOMAIN t : (i \in DOMAIN s /\ t[i] = s[i]) \/ (i = Len(s) + 1 /\ t[i] = e)
  BY <1>1, <1>2
<1>4. {t[i] : i \in DOMAIN t} = S \cup {e}
  <2>1. \A i \in DOMAIN t : t[i] \in S \cup {e}
    BY <1>1, <1>3
  <2>2. e \in {t[i] : i \in DOMAIN t}
    BY <1>1, <1>2
  <2>3. \A i \in DOMAIN s : i \in DOMAIN t /\ t[i] = s[i]
    BY <1>1, <1>2
  <2> QED
    BY <1>1, <2>1, <2>2, <2>3
<1>5. \A i, j \in DOMAIN t : t[i] = t[j] => i = j
  BY <1>1, <1>3
<1>6. Enumerates(t, S \cup {e})
  BY <1>2, <1>4, <1>5 DEF Enumerates, ToSet, IsInjective
<1> QED
  BY <1>6 DEF t

LEMMA ListsJoined ==
  ASSUME NEW s, NEW S, Enumerates(s, S), NEW t, NEW T, Enumerates(t, T), S \cap T = {}
  PROVE  Enumerates(s \o t, S \cup T)
<1> DEFINE u == s \o t
<1>1. /\ s \in Seq(Nat) /\ Len(s) \in Nat /\ DOMAIN s = 1 .. Len(s)
      /\ S = {s[i] : i \in DOMAIN s} /\ \A i, j \in DOMAIN s : s[i] = s[j] => i = j
  BY LenProperties DEF Enumerates, ToSet, IsInjective
<1>2. /\ t \in Seq(Nat) /\ Len(t) \in Nat /\ DOMAIN t = 1 .. Len(t)
      /\ T = {t[i] : i \in DOMAIN t} /\ \A i, j \in DOMAIN t : t[i] = t[j] => i = j
  BY LenProperties DEF Enumerates, ToSet, IsInjective
<1>3. /\ u \in Seq(Nat) /\ Len(u) = Len(s) + Len(t)
      /\ \A i \in 1 .. Len(s) + Len(t) : u[i] = IF i <= Len(s) THEN s[i] ELSE t[i - Len(s)]
  BY <1>1, <1>2, ConcatProperties
<1> HIDE DEF u
<1>4. DOMAIN u = 1 .. Len(s) + Len(t)
  BY <1>3, LenProperties
<1>5. \A i \in DOMAIN u :
        \/ i \in DOMAIN s /\ u[i] = s[i]
        \/ i - Len(s) \in DOMAIN t /\ u[i] = t[i - Len(s)] /\ i \in Nat
  BY <1>1, <1>2, <1>3, <1>4
<1>6. {u[i] : i \in DOMAIN u} = S \cup T
  <2>1. \A i \in DOMAIN u : u[i] \in S \cup T
    BY <1>1, <1>2, <1>5
  <2>2. \A i \in DOMAIN s : i \in DOMAIN u /\ u[i] = s[i]
    BY <1>1, <1>2, <1>3, <1>4
  <2>3. ASSUME NEW i \in DOMAIN t
        PROVE  Len(s) + i \in DOMAIN u /\ u[Len(s) + i] = t[i]
    <3>1. /\ Len(s) + i \in 1 .. Len(s) + Len(t) /\ ~ (Len(s) + i <= Len(s))
          /\ (Len(s) + i) - Len(s) = i
      BY <1>1, <1>2
    <3> QED
      BY <1>3, <1>4, <3>1
  <2>4. \A x \in S : x \in {u[i] : i \in DOMAIN u}
    BY <1>1, <2>2
  <2>5. \A x \in T : x \in {u[i] : i \in DOMAIN u}
    BY <1>2, <2>3
  <2> QED
    BY <2>1, <2>4, <2>5
<1>7. ASSUME NEW i \in DOMAIN u, NEW j \in DOMAIN u, u[i] = u[j]
      PROVE  i = j
  <2>1. CASE i \in DOMAIN s /\ u[i] = s[i]
    <3>1. u[j] \notin T
      BY <1>1, <1>7, <2>1
    <3>2. j \in DOMAIN s /\ u[j] = s[j]
      BY <1>2, <1>5, <3>1
    <3> QED
      BY <1>1, <1>7, <2>1, <3>2
  <2>2. CASE i - Len(s) \in DOMAIN t /\ u[i] = t[i - Len(s)] /\ i \in Nat
    <3>1. u[j] \notin S
      BY <1>2, <1>7, <2>2
    <3>2. j - Len(s) \in DOMAIN t /\ u[j] = t[j - Len(s)] /\ j \in Nat
      BY <1>1, <1>5, <3>1
    <3>3. i - Len(s) = j - Len(s)
      BY <1>2, <1>7, <2>2, <3>2
    <3> QED
      BY <1>1, <2>2, <3>2, <3>3
  <2> QED
    BY <1>5, <2>1, <2>2
<1>8. Enumerates(u, S \cup T)
  BY <1>3, <1>6, <1>7 DEF Enumerates, ToSet, IsInjective
<1> QED
  BY <1>8 DEF u

\* The list of a class has the positions of its objects.
LEMMA ListedIs ==
  ASSUME NEW T, NEW doc \in Seq(T), NEW c
  PROVE  Enumerates(Listed(doc, c), {i \in DOMAIN doc : doc[i] = c})
<1> DEFINE n == Len(doc)
           step == [i \in 1 .. n |-> [s \in Seq(Nat) |-> IF doc[i] = c THEN Append(s, i) ELSE s]]
           Walk(f) == [i \in 0 .. n |->
                         IF i = 0 THEN <<>> ELSE IF doc[i] = c THEN Append(f[i - 1], i) ELSE f[i - 1]]
           ids == CHOOSE f : f = Walk(f)
           Before(m) == {i \in 1 .. m : doc[i] = c}
<1>1. n \in Nat /\ DOMAIN doc = 1 .. n
  BY LenProperties
<1>2. <<>> \in Seq(Nat) /\ step \in [1 .. n -> [Seq(Nat) -> Seq(Nat)]]
  BY AppendProperties, EmptySeq
<1>3. \A i \in 1 .. n, s \in Seq(Nat) : step[i][s] = IF doc[i] = c THEN Append(s, i) ELSE s
  OBVIOUS
<1> HIDE DEF step, n
<1>4. ids = Walk(ids)
  <2>1. PICK f \in [0 .. n -> Seq(Nat)] : Recurs(f, <<>>, n, step)
    BY <1>1, <1>2, Recursion
  <2>2. ASSUME NEW i \in 0 .. n
        PROVE  f[i] = IF i = 0 THEN <<>> ELSE IF doc[i] = c THEN Append(f[i - 1], i) ELSE f[i - 1]
    <3>1. CASE i = 0
      BY <2>1, <3>1 DEF Recurs
    <3>2. CASE i # 0
      <4>1. i \in 1 .. n /\ i - 1 \in 0 .. n
        BY <1>1, <3>2
      <4>2. f[i - 1] \in Seq(Nat) /\ f[i] = step[i][f[i - 1]]
        BY <2>1, <4>1 DEF Recurs
      <4> QED
        BY <1>3, <3>2, <4>1, <4>2
    <3> QED
      BY <3>1, <3>2
  <2>3. f = Walk(f)
    BY <2>1, <2>2
  <2> HIDE DEF Walk
  <2> QED
    BY <2>3
<1>5. Listed(doc, c) = ids[n]
  BY DEF Listed, n
<1>6. /\ ids[0] = <<>>
      /\ \A i \in 1 .. n : ids[i] = IF doc[i] = c THEN Append(ids[i - 1], i) ELSE ids[i - 1]
  <2> HIDE DEF ids
  <2>1. \A i \in 0 .. n :
          ids[i] = IF i = 0 THEN <<>> ELSE IF doc[i] = c THEN Append(ids[i - 1], i) ELSE ids[i - 1]
    BY <1>4
  <2>2. 0 \in 0 .. n /\ \A i \in 1 .. n : i \in 0 .. n /\ i # 0
    BY <1>1
  <2> QED
    BY <2>1, <2>2
<1> HIDE DEF ids, Walk
<1> DEFINE M == {m \in Nat : m <= n => Enumerates(ids[m], Before(m))}
<1>7. 0 \in M
  <2>1. Before(0) = {}
    OBVIOUS
  <2> QED
    BY <1>6, <2>1, EmptyList
<1>8. ASSUME NEW m \in M
      PROVE  m + 1 \in M
  <2> SUFFICES ASSUME m + 1 <= n
               PROVE  Enumerates(ids[m + 1], Before(m + 1))
    OBVIOUS
  <2>1. Enumerates(ids[m], Before(m)) /\ m \in Nat
    BY <1>1
  <2>2. m + 1 \in 1 .. n /\ m + 1 - 1 = m
    BY <1>1
  <2>3. ids[m + 1] = IF doc[m + 1] = c THEN Append(ids[m], m + 1) ELSE ids[m]
    BY <1>6, <2>2
  <2>4. Before(m + 1) = IF doc[m + 1] = c THEN Before(m) \cup {m + 1} ELSE Before(m)
    <3>1. 1 .. m + 1 = (1 .. m) \cup {m + 1}
      OBVIOUS
    <3> QED
      BY <3>1
  <2>5. m + 1 \notin Before(m) /\ m + 1 \in Nat
    OBVIOUS
  <2> HIDE DEF Before
  <2> QED
    BY <2>1, <2>3, <2>4, <2>5, ListAppended
<1> HIDE DEF M
<1>9. M = Nat
  <2>1. M \in SUBSET Nat
    BY DEF M
  <2> QED
    BY <1>7, <1>8, <2>1, Induction
<1>10. n \in M /\ n <= n
  BY <1>1, <1>9
<1>11. Enumerates(ids[n], Before(n))
  BY <1>10 DEF M
<1> QED
  BY <1>1, <1>5, <1>11

\* Lists that have nothing in common make one list.
LEMMA FlattenIs ==
  ASSUME NEW n \in Nat, NEW lists, NEW sets, DOMAIN lists = 1 .. n, Len(lists) = n,
         lists = [k \in 1 .. n |-> lists[k]],
         \A k \in 1 .. n : Enumerates(lists[k], sets[k]),
         \A j, k \in 1 .. n : j # k => sets[j] \cap sets[k] = {}
  PROVE  Enumerates(FlattenSeq(lists), UNION {sets[k] : k \in 1 .. n})
<1> DEFINE Before(m) == UNION {sets[k] : k \in 1 .. m}
<1>1. lists \in [1 .. n -> Seq(Nat)]
  BY DEF Enumerates
<1>2. PICK flat \in [0 .. n -> Seq(Nat)] : Joins(flat, lists, n)
  BY <1>1, Flattening
<1> DEFINE M == {m \in Nat : m <= n => Enumerates(flat[m], Before(m))}
<1>3. 0 \in M
  <2>1. Before(0) = {}
    OBVIOUS
  <2> QED
    BY <1>2, <2>1, EmptyList DEF Joins
<1>4. ASSUME NEW m \in M
      PROVE  m + 1 \in M
  <2> SUFFICES ASSUME m + 1 <= n
               PROVE  Enumerates(flat[m + 1], Before(m + 1))
    OBVIOUS
  <2>1. m \in Nat /\ m + 1 \in 1 .. n /\ m + 1 - 1 = m /\ Enumerates(flat[m], Before(m))
    OBVIOUS
  <2>2. flat[m + 1] = flat[m] \o lists[m + 1]
    <3>1. m < n
      BY <2>1
    <3> QED
      BY <1>2, <2>1, <3>1 DEF Joins
  <2>3. Enumerates(lists[m + 1], sets[m + 1])
    BY <2>1
  <2>4. Before(m + 1) = Before(m) \cup sets[m + 1]
    <3>1. 1 .. m + 1 = (1 .. m) \cup {m + 1}
      BY <2>1
    <3> QED
      BY <3>1
  <2>5. Before(m) \cap sets[m + 1] = {}
    <3>1. \A k \in 1 .. m : k \in 1 .. n /\ k # m + 1
      BY <2>1
    <3> QED
      BY <2>1, <3>1
  <2> HIDE DEF Before
  <2> QED
    BY <2>1, <2>2, <2>3, <2>4, <2>5, ListsJoined
<1> HIDE DEF M
<1>5. M = Nat
  <2>1. M \in SUBSET Nat
    BY DEF M
  <2> QED
    BY <1>3, <1>4, <2>1, Induction
<1>6. n \in M
  BY <1>5
<1> QED
  BY <1>2, <1>6 DEF M, Joins

-----------------------------------------------------------------------------
(* The lists of a document.                                                 *)

OfClass(file, c) == {id \in DOMAIN file.objs : file.objs[id].cls = c}

AllLists(file) == FlattenSeq([k \in DOMAIN Offered |-> file.lists[Offered[k]]])

\* Each list has the objects of its class.  A document that is made has no
\* others, and none after it was saved.
Sorted(file) ==
  /\ DOMAIN file.lists = OfferedClass
  /\ \A c \in OfferedClass : Enumerates(file.lists[c], OfClass(file, c))
  /\ ~ file.loader => \A id \in DOMAIN file.objs : file.objs[id].cls \in OfferedClass
  /\ file.saved => ~ file.loader /\ file.written = AllLists(file)

FilesSorted == \A f \in DOMAIN files : Sorted(files[f])

LEMMA AllListsIs ==
  ASSUME NEW file, Sorted(file)
  PROVE  Enumerates(AllLists(file), {id \in DOMAIN file.objs : file.objs[id].cls \in OfferedClass})
<1> DEFINE n == Len(Offered)
           lists == [k \in DOMAIN Offered |-> file.lists[Offered[k]]]
           sets == [k \in 1 .. n |-> OfClass(file, Offered[k])]
<1>1. n \in Nat /\ DOMAIN Offered = 1 .. n
  BY BMapAssumption, LenProperties
<1>2. /\ \A k \in 1 .. n : Offered[k] \in OfferedClass
      /\ \A j, k \in 1 .. n : Offered[j] = Offered[k] => j = k
      /\ OfferedClass = {Offered[k] : k \in 1 .. n}
  BY <1>1, BMapAssumption DEF IsInjective, OfferedClass, ToSet
<1>3. /\ DOMAIN lists = 1 .. n /\ lists = [k \in 1 .. n |-> lists[k]]
      /\ \A k \in 1 .. n : lists[k] = file.lists[Offered[k]]
  BY <1>1
<1>4. Len(lists) = n
  <2> HIDE DEF lists, n
  <2> QED
    BY <1>1, <1>3
<1>5. \A k \in 1 .. n : Enumerates(lists[k], sets[k])
  <2> HIDE DEF lists
  <2> QED
    BY <1>2, <1>3 DEF Sorted
<1>6. \A j, k \in 1 .. n : j # k => sets[j] \cap sets[k] = {}
  BY <1>2 DEF OfClass
<1>7. UNION {sets[k] : k \in 1 .. n} = {id \in DOMAIN file.objs : file.objs[id].cls \in OfferedClass}
  BY <1>2 DEF OfClass
<1> HIDE DEF lists, sets, n
<1>8. Enumerates(FlattenSeq(lists), UNION {sets[k] : k \in 1 .. n})
  BY <1>1, <1>3, <1>4, <1>5, <1>6, FlattenIs
<1> QED
  BY <1>7, <1>8 DEF AllLists, lists

\* Changes to the pointers of objects leave their classes and the lists alone.
LEMMA SortedKept ==
  ASSUME NEW file, Sorted(file), NEW after, DOMAIN after.objs = DOMAIN file.objs,
         \A id \in DOMAIN file.objs : after.objs[id].cls = file.objs[id].cls,
         after.lists = file.lists, after.loader = file.loader, after.saved = file.saved,
         after.written = file.written
  PROVE  Sorted(after)
<1>1. \A c : OfClass(after, c) = OfClass(file, c)
  BY DEF OfClass
<1>2. AllLists(after) = AllLists(file)
  BY DEF AllLists
<1> QED
  BY <1>1, <1>2 DEF Sorted

\* One object of a document gets other pointers.
LEMMA EditKeepsSorted ==
  ASSUME BInv, FilesSorted, NEW f \in DOMAIN files, NEW id \in DOMAIN files[f].objs, NEW o,
         o.cls = files[f].objs[id].cls, files' = [files EXCEPT ![f].objs[id] = o]
  PROVE  FilesSorted'
<1> DEFINE file == files[f]
<1>1. DOMAIN file = FileFields
  BY DEF BInv, FilesSound
<1>2. /\ DOMAIN files' = DOMAIN files /\ \A g \in DOMAIN files : g # f => files'[g] = files[g]
      /\ files'[f] = [file EXCEPT !.objs[id] = o]
  OBVIOUS
<1> HIDE DEF file
<1>3. /\ files'[f].objs = [file.objs EXCEPT ![id] = o]
      /\ files'[f].lists = file.lists /\ files'[f].loader = file.loader
      /\ files'[f].saved = file.saved /\ files'[f].written = file.written
  BY <1>1, <1>2 DEF FileFields
<1>4. /\ DOMAIN files'[f].objs = DOMAIN file.objs
      /\ \A k \in DOMAIN file.objs : files'[f].objs[k].cls = file.objs[k].cls
  BY <1>3 DEF file
<1>5. Sorted(files'[f])
  BY <1>3, <1>4, SortedKept DEF FilesSorted, file
<1>6. \A g \in DOMAIN files' : Sorted(files'[g])
  BY <1>2, <1>5 DEF FilesSorted
<1> QED
  BY <1>6 DEF FilesSorted, Sorted, OfClass, AllLists, Enumerates

LEMMA SortedOpen ==
  ASSUME FilesSorted, NEW f \in File, NEW ok \in BOOLEAN, f \notin DOMAIN files, NEW file, Sorted(file),
         files' = IF ok THEN Allocated(files, f, file) ELSE files
  PROVE  \A g \in DOMAIN files' : Sorted(files'[g])
<1>1. CASE ok
  <2>1. /\ DOMAIN files' = DOMAIN files \cup {f} /\ files'[f] = file
        /\ \A g \in DOMAIN files : files'[g] = files[g]
    <3>1. files' = Allocated(files, f, file)
      BY <1>1
    <3> QED
      BY <3>1 DEF Allocated
  <2> QED
    BY <2>1 DEF FilesSorted
<1>2. CASE ~ ok
  BY <1>2 DEF FilesSorted
<1> QED
  BY <1>1, <1>2

LEMMA SortedPrime ==
  ASSUME \A g \in DOMAIN files' : Sorted(files'[g])
  PROVE  FilesSorted'
BY DEF FilesSorted, Sorted, OfClass, AllLists, Enumerates

LEMMA LoadSorts ==
  ASSUME FilesSorted, NEW f \in File, NEW doc \in Documents, NEW ok \in BOOLEAN, BMFile_Load(f, doc, ok)
  PROVE  FilesSorted'
<1> DEFINE objs == [i \in DOMAIN doc |-> Object(doc[i])]
           lists == [c \in OfferedClass |-> Listed(doc, c)]
           file == [loader |-> TRUE, saved |-> FALSE, written |-> <<>>, objs |-> objs, lists |-> lists]
<1>1. f \notin DOMAIN files /\ files' = IF ok THEN Allocated(files, f, file) ELSE files
  BY DEF BMFile_Load
<1>2. doc \in Seq(OfferedClass \cup Hidden)
  BY BMapAssumption
<1>3. DOMAIN objs = DOMAIN doc /\ \A i \in DOMAIN doc : objs[i].cls = doc[i]
  BY DEF Object
<1>4. DOMAIN lists = OfferedClass /\ \A c \in OfferedClass : lists[c] = Listed(doc, c)
  OBVIOUS
<1> HIDE DEF objs, lists
<1>5. file.objs = objs /\ file.lists = lists /\ file.loader /\ ~ file.saved
  OBVIOUS
<1> HIDE DEF file
<1>6. \A c : OfClass(file, c) = {i \in DOMAIN doc : doc[i] = c}
  BY <1>3, <1>5 DEF OfClass
<1>7. Sorted(file)
  BY <1>2, <1>4, <1>5, <1>6, ListedIs DEF Sorted
<1> QED
  BY <1>1, <1>7, SortedOpen, SortedPrime

LEMMA CreateFileSorts ==
  ASSUME FilesSorted, NEW f \in File, NEW ok \in BOOLEAN, BMFile_Create(f, ok)
  PROVE  FilesSorted'
<1> DEFINE file == [loader |-> FALSE, saved |-> FALSE, written |-> <<>>,
                    objs |-> <<>>, lists |-> EmptyLists]
<1>1. f \notin DOMAIN files /\ files' = IF ok THEN Allocated(files, f, file) ELSE files
  BY DEF BMFile_Create
<1>2. file.objs = <<>> /\ file.lists = EmptyLists /\ ~ file.saved
  OBVIOUS
<1> HIDE DEF file
<1>3. \A c : OfClass(file, c) = {}
  BY <1>2 DEF OfClass
<1>4. DOMAIN file.objs = {} /\ DOMAIN file.lists = OfferedClass
      /\ \A c \in OfferedClass : file.lists[c] = <<>>
  BY <1>2 DEF EmptyLists
<1>5. \A c \in OfferedClass : Enumerates(file.lists[c], OfClass(file, c))
  BY <1>3, <1>4, EmptyList
<1>6. Sorted(file)
  BY <1>2, <1>4, <1>5 DEF Sorted
<1> QED
  BY <1>1, <1>6, SortedOpen, SortedPrime

LEMMA CreateObjectSorts ==
  ASSUME BInv, FilesSorted, NEW f \in File, NEW cls \in OfferedClass, CreateObject(f, cls)
  PROVE  FilesSorted'
<1> DEFINE file == files[f]
           n == Len(file.objs)
           after == files'[f]
<1>1. /\ f \in DOMAIN files /\ ~ file.loader /\ ~ file.saved
      /\ files' = [files EXCEPT ![f].objs = Append(file.objs, Object(cls)),
                                ![f].lists[cls] = Append(@, n + 1)]
  BY DEF CreateObject, CheckBMFile, CanExecSaverVisitor, BInv, HandlesExact
<1>2. DOMAIN file = FileFields /\ ObjectsSound(file.objs) /\ Sorted(file)
  BY <1>1 DEF BInv, FilesSound, FilesSorted
<1>3. /\ DOMAIN files' = DOMAIN files /\ \A g \in DOMAIN files : g # f => files'[g] = files[g]
      /\ after = [file EXCEPT !.objs = Append(file.objs, Object(cls)),
                              !.lists[cls] = Append(@, n + 1)]
  BY <1>1
<1>4. n \in Nat /\ DOMAIN file.objs = 1 .. n /\ file.objs \in Seq(ToSet(file.objs))
  BY <1>2, LenProperties DEF ObjectsSound
<1> HIDE DEF file, n, after
<1>5. /\ after.objs = Append(file.objs, Object(cls)) /\ after.loader = file.loader
      /\ after.saved = file.saved
      /\ after.lists = [file.lists EXCEPT ![cls] = Append(@, n + 1)]
  BY <1>2, <1>3 DEF FileFields
<1>6. /\ DOMAIN after.objs = 1 .. n + 1
      /\ \A i \in 1 .. n : after.objs[i] = file.objs[i]
      /\ after.objs[n + 1].cls = cls
  <2> DEFINE S == ToSet(file.objs) \cup {Object(cls)}
  <2>1. file.objs \in Seq(S) /\ Object(cls) \in S
    BY <1>4, SeqMonotonic
  <2> HIDE DEF S
  <2>2. /\ Append(file.objs, Object(cls)) \in Seq(S)
        /\ Len(Append(file.objs, Object(cls))) = n + 1
        /\ \A i \in 1 .. n : Append(file.objs, Object(cls))[i] = file.objs[i]
        /\ Append(file.objs, Object(cls))[n + 1] = Object(cls)
    BY <2>1, AppendProperties DEF n
  <2>3. Object(cls).cls = cls
    BY DEF Object
  <2>4. DOMAIN Append(file.objs, Object(cls)) = 1 .. n + 1
    BY <2>2, LenProperties
  <2> QED
    BY <1>5, <2>2, <2>3, <2>4
<1>7. /\ n + 1 \notin DOMAIN file.objs /\ n + 1 \in Nat
      /\ DOMAIN after.objs = DOMAIN file.objs \cup {n + 1}
  BY <1>4, <1>6
<1>8. /\ OfClass(after, cls) = OfClass(file, cls) \cup {n + 1}
      /\ \A c : c # cls => OfClass(after, c) = OfClass(file, c)
  BY <1>4, <1>6, <1>7 DEF OfClass
<1>9. /\ DOMAIN after.lists = OfferedClass
      /\ after.lists[cls] = Append(file.lists[cls], n + 1)
      /\ \A c \in OfferedClass : c # cls => after.lists[c] = file.lists[c]
  BY <1>2, <1>5 DEF Sorted
<1>10. Enumerates(after.lists[cls], OfClass(after, cls))
  <2>1. Enumerates(file.lists[cls], OfClass(file, cls)) /\ n + 1 \notin OfClass(file, cls)
    BY <1>2, <1>7 DEF Sorted, OfClass
  <2> QED
    BY <1>7, <1>8, <1>9, <2>1, ListAppended
<1>11. \A c \in OfferedClass : Enumerates(after.lists[c], OfClass(after, c))
  BY <1>2, <1>8, <1>9, <1>10 DEF Sorted
<1>12. \A i \in DOMAIN after.objs : after.objs[i].cls \in OfferedClass
  <2>1. \A i \in DOMAIN file.objs : file.objs[i].cls \in OfferedClass
    BY <1>1, <1>2 DEF Sorted, file
  <2> QED
    BY <1>4, <1>6, <1>7, <2>1
<1>13. ~ after.saved /\ ~ after.loader
  BY <1>1, <1>5 DEF file
<1>14. Sorted(after)
  BY <1>9, <1>11, <1>12, <1>13 DEF Sorted
<1>15. \A g \in DOMAIN files' : Sorted(files'[g])
  BY <1>3, <1>14 DEF FilesSorted, after
<1> QED
  BY <1>15, SortedPrime

LEMMA SaveSorts ==
  ASSUME BInv, FilesSorted, NEW f \in File, BMFile_Save(f)
  PROVE  FilesSorted'
<1> DEFINE file == files[f]
           after == files'[f]
<1>1. /\ f \in DOMAIN files /\ ~ file.loader
      /\ files' = [files EXCEPT ![f].saved = TRUE, ![f].written = AllLists(file)]
  BY DEF BMFile_Save, CheckBMFile, BInv, HandlesExact, AllLists
<1>2. DOMAIN file = FileFields /\ Sorted(file)
  BY <1>1 DEF BInv, FilesSound, FilesSorted
<1>3. /\ DOMAIN files' = DOMAIN files /\ \A g \in DOMAIN files : g # f => files'[g] = files[g]
      /\ after = [file EXCEPT !.saved = TRUE, !.written = AllLists(file)]
  BY <1>1
<1> HIDE DEF file, after
<1>4. /\ after.objs = file.objs /\ after.loader = file.loader /\ after.lists = file.lists
      /\ after.written = AllLists(file)
  BY <1>2, <1>3 DEF FileFields
<1>5. AllLists(after) = AllLists(file) /\ \A c : OfClass(after, c) = OfClass(file, c)
  BY <1>4 DEF AllLists, OfClass
<1>6. Sorted(after)
  BY <1>1, <1>2, <1>4, <1>5 DEF Sorted, file
<1>7. \A g \in DOMAIN files' : Sorted(files'[g])
  BY <1>3, <1>6 DEF FilesSorted, after
<1> QED
  BY <1>7, SortedPrime

LEMMA ReleaseSorts ==
  ASSUME FilesSorted, NEW S, files' = Restrict(files, DOMAIN files \ S)
  PROVE  FilesSorted'
<1>1. DOMAIN files' = DOMAIN files \ S /\ \A g \in DOMAIN files' : files'[g] = files[g]
  BY DeleteAt
<1> QED
  BY <1>1, SortedPrime DEF FilesSorted

LEMMA LinkSorts ==
  ASSUME BInv, FilesSorted, NEW f, NEW id, NEW target, SetLink(f, id, target)
  PROVE  FilesSorted'
<1> DEFINE old == files[f].objs[id]
           link == OrNull(f, target, LinkClass[old.cls])
           o == [old EXCEPT !.link = link]
<1>1. /\ f \in DOMAIN files /\ id \in DOMAIN files[f].objs /\ ObjectSound(files[f].objs, old)
      /\ files' = [files EXCEPT ![f].objs[id].link = link]
  BY ObjectIs DEF SetLink
<1>2. files' = [files EXCEPT ![f].objs[id] = o]
  BY <1>1
<1>3. o.cls = old.cls
  BY <1>1 DEF ObjectSound, ObjectFields
<1> HIDE DEF o
<1> QED
  BY <1>1, <1>2, <1>3, EditKeepsSorted

LEMMA MeshSorts ==
  ASSUME BInv, FilesSorted, NEW f \in DOMAIN files, NEW id \in DOMAIN files[f].objs, NEW mesh,
         ObjectSound(files[f].objs, files[f].objs[id]),
         files' = [files EXCEPT ![f].objs[id].mesh = mesh]
  PROVE  FilesSorted'
<1> DEFINE old == files[f].objs[id]
           o == [old EXCEPT !.mesh = mesh]
<1>1. files' = [files EXCEPT ![f].objs[id] = o]
  OBVIOUS
<1>2. o.cls = old.cls
  BY DEF ObjectSound, ObjectFields
<1> HIDE DEF o
<1> QED
  BY <1>1, <1>2, EditKeepsSorted

LEMMA SlotsSort ==
  ASSUME BInv, FilesSorted, NEW f, NEW id,
         \/ \E n : BMMesh_SetMaterialSlotCount(f, id, n)
         \/ \E k, target : BMMesh_SetMaterialSlot(f, id, k, target)
  PROVE  FilesSorted'
<1>1. /\ f \in DOMAIN files /\ id \in DOMAIN files[f].objs
      /\ ObjectSound(files[f].objs, files[f].objs[id])
  BY ObjectIs DEF BMMesh_SetMaterialSlotCount, BMMesh_SetMaterialSlot, CheckObject
<1> DEFINE old == files[f].objs[id].mesh
<1>2. \E mesh : files' = [files EXCEPT ![f].objs[id].mesh = mesh]
  <2>1. ASSUME NEW n, BMMesh_SetMaterialSlotCount(f, id, n)
        PROVE  files' = [files EXCEPT ![f].objs[id].mesh =
                           [old EXCEPT !.mtlSlots = Resize(old.mtlSlots, n)]]
    BY <2>1 DEF BMMesh_SetMaterialSlotCount
  <2>2. ASSUME NEW k, NEW target, BMMesh_SetMaterialSlot(f, id, k, target)
        PROVE  files' = [files EXCEPT ![f].objs[id].mesh =
                           [old EXCEPT !.mtlSlots =
                              [old.mtlSlots EXCEPT ![k] = OrNull(f, target, "MATERIAL")]]]
    BY <2>2 DEF BMMesh_SetMaterialSlot
  <2> QED
    BY <2>1, <2>2
<1> QED
  BY <1>1, <1>2, MeshSorts

LEMMA ParseSorts ==
  ASSUME BInv, FilesSorted, NEW t, NEW f, NEW id, BMMeshTrans_Parse(t, f, id)
  PROVE  FilesSorted'
<1> DEFINE d == transitions[t].data
           mesh == Applied(d, DoRealParse(d), Materials(f, d))
<1>1. /\ f \in DOMAIN files /\ id \in DOMAIN files[f].objs
      /\ ObjectSound(files[f].objs, files[f].objs[id])
  BY ObjectIs DEF BMMeshTrans_Parse, CanParse, CheckObject
<1>2. files' = files \/ files' = [files EXCEPT ![f].objs[id].mesh = mesh]
  BY DEF BMMeshTrans_Parse
<1> HIDE DEF mesh
<1> QED
  BY <1>1, <1>2, MeshSorts, SortedPrime DEF FilesSorted

LEMMA SortedInvariance == Spec => []FilesSorted
<1>1. Init => FilesSorted
  BY DEF Init, FilesSorted
<1>2. ASSUME BInv, FilesSorted, [Next]_vars
      PROVE  FilesSorted'
  <2>1. CASE UNCHANGED files
    BY <1>2, <2>1, SortedPrime DEF FilesSorted
  <2>2. CASE BMDispose
    BY <1>2, <2>2, ReleaseSorts DEF BMDispose
  <2>3. ASSUME NEW f \in File, Documenting(f)
        PROVE  FilesSorted'
    <3>1. CASE BMFile_Free(f)
      BY <1>2, <3>1, ReleaseSorts DEF BMFile_Free
    <3> QED
      BY <1>2, <2>3, <3>1, LoadSorts, CreateFileSorts, CreateObjectSorts, SaveSorts DEF Documenting
  <2>4. ASSUME NEW f \in File, Editing(f)
        PROVE  FilesSorted'
    BY <1>2, <2>4, LinkSorts, SlotsSort DEF Editing
  <2>5. ASSUME NEW t \in Transition, NEW f \in File, Parsing(t, f)
        PROVE  FilesSorted'
    <3>1. PICK id \in Ids(f) : BMMeshTrans_Parse(t, f, id) \/ ParseOutside(t, f, id)
      BY <2>5 DEF Parsing
    <3>2. ParseOutside(t, f, id) => UNCHANGED files
      BY DEF ParseOutside
    <3> QED
      BY <1>2, <2>1, <3>1, <3>2, ParseSorts
  <2>6. BMInit \/ (\E t \in Transition : BMMeshTrans_New(t) \/ BMMeshTrans_Delete(t) \/ Prepare(t))
          \/ UNCHANGED vars => UNCHANGED files
    BY DEF BMInit, BMMeshTrans_New, BMMeshTrans_Delete, Prepare, vars
  <2> QED
    BY <1>2, <2>1, <2>2, <2>3, <2>4, <2>5, <2>6 DEF Next
<1> QED
  BY BMapInvariance, <1>1, <1>2, PTL DEF Spec

\* For all classes and documents: what a document accepts is what its lists
\* hold, each identifier once and under its class (BMap.cpp, GetObjectPtr and
\* CommonCreateObject).
THEOREM Listing == Spec => []VisibleListed
<1>1. ASSUME FilesSorted
      PROVE  VisibleListed
  <2> SUFFICES ASSUME NEW f \in DOMAIN files
               PROVE  /\ ToSet(AllLists(files[f])) = Visible(f) /\ IsInjective(AllLists(files[f]))
                      /\ \A c \in OfferedClass : \A id \in ToSet(files[f].lists[c]) :
                           files[f].objs[id].cls = c
    BY DEF VisibleListed, AllLists
  <2>1. Sorted(files[f])
    BY <1>1 DEF FilesSorted
  <2>2. Enumerates(AllLists(files[f]), Visible(f))
    BY <2>1, AllListsIs DEF Visible
  <2>3. \A c \in OfferedClass : ToSet(files[f].lists[c]) = OfClass(files[f], c)
    BY <2>1 DEF Sorted, Enumerates
  <2> QED
    BY <2>2, <2>3 DEF Enumerates, OfClass
<1> QED
  BY SortedInvariance, <1>1, PTL

\* For every client: what a saved document has handed to the writer is all its
\* objects, each once, also after later calls (BMap.cpp, BMFile::Save and
\* CanExecSaverVisitor).
THEOREM Completeness == Spec => []SavedComplete
<1>1. ASSUME FilesSorted
      PROVE  SavedComplete
  <2> SUFFICES ASSUME NEW f \in DOMAIN files, files[f].saved
               PROVE  ToSet(files[f].written) = Ids(f) /\ IsInjective(files[f].written)
    BY DEF SavedComplete
  <2>1. /\ Sorted(files[f]) /\ files[f].written = AllLists(files[f])
        /\ \A id \in Ids(f) : files[f].objs[id].cls \in OfferedClass
    BY <1>1 DEF FilesSorted, Sorted, Ids
  <2>2. Enumerates(files[f].written, Ids(f))
    BY <2>1, AllListsIs DEF Ids
  <2> QED
    BY <2>2 DEF Enumerates
<1> QED
  BY SortedInvariance, <1>1, PTL
=============================================================================
