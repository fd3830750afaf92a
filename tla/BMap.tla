-------------------------------- MODULE BMap --------------------------------
(***************************************************************************)
(* The interface of BMap to other languages (Ballance/BMap/BMap/           *)
(* BMExports.cpp, BMap.cpp): documents and mesh transitions are handed out *)
(* as addresses, which are valid as long as they are in the two sets of    *)
(* the library; the objects of a document are handed out as identifiers.   *)
(*                                                                         *)
(* A document is either loaded or made for saving.  It keeps a list of     *)
(* identifiers for each class it offers, beside the table of its context.  *)
(* BMap destroys no single object, so an object is found at the position   *)
(* its identifier has in `objs`.  A call that is refused changes nothing   *)
(* and has no action.  What DeepLoad makes of data it refuses is           *)
(* FileSession's subject: the documents here have none.                    *)
(***************************************************************************)
EXTENDS MeshTransition

CONSTANTS
  File,        \* addresses of BMFile objects
  Offered,     \* the classes BMap has a list for, in the order Save visits them
  Hidden,      \* other classes in documents
  LinkClass,   \* the class an object of a class keeps a pointer to, or NONE
  Documents,   \* documents to load, as the classes of their objects in order
  MaxObjects,  \* bound: objects of a document that is made for saving
  MaxMtlSlots, \* bound: slots BMMesh_SetMaterialSlotCount makes
  NONE

OfferedClass == ToSet(Offered)

ASSUME BMapAssumption ==
  /\ Offered \in Seq(OfferedClass) /\ IsInjective(Offered)
  /\ OfferedClass \cap Hidden = {}
  /\ Documents \subseteq Seq(OfferedClass \cup Hidden)
  /\ LinkClass \in [OfferedClass -> OfferedClass \cup {NONE}]
  /\ MaxWord \in Nat /\ MaxObjects \in Nat /\ MaxMtlSlots \in Nat

VARIABLES
  inited,    \* g_IsInited
  files,     \* the BMFile objects on the heap, by address
  allFiles,  \* g_AllBMFiles
  allTrans,  \* g_AllBMMeshTrans
  fault      \* "none", or the bad access that ended the program

vars == <<transitions, inited, files, allFiles, allTrans, fault>>

Running == inited /\ fault = "none"

CheckBMFile(f) == Running /\ f \in allFiles

CheckBMMeshTrans(t) == Running /\ t \in allTrans

-----------------------------------------------------------------------------
(* Objects of a document. *)

Object(cls) == [cls |-> cls, link |-> 0, mesh |-> EmptyMesh]

\* Faulty variant: other classes are not sorted out.
AllVisible(f) == DOMAIN files[f].objs

\* BMFile::GetObjectPtr, as the identifiers for which it is not null.
Visible(f) == {id \in DOMAIN files[f].objs : files[f].objs[id].cls \in OfferedClass}

\* Faulty variant: the class of the object is not compared.
CheckAnyObject(f, id, cls) == id \in Visible(f)

\* CheckGenericObject: the classes a call asks for have no descendants among
\* those offered, but for the entities, which SetLink takes one by one.
CheckObject(f, id, cls) == id \in Visible(f) /\ files[f].objs[id].cls = cls

\* An identifier where null may be assigned: 0 stands for the null pointer.
OrNull(f, id, cls) == IF CheckObject(f, id, cls) THEN id ELSE 0

-----------------------------------------------------------------------------
(* Start-up and disposal. *)

BMInit ==
  /\ ~ inited /\ fault = "none"
  /\ inited' = TRUE
  /\ UNCHANGED <<transitions, files, allFiles, allTrans, fault>>

BMDispose ==
  /\ Running
  /\ files' = Restrict(files, DOMAIN files \ allFiles)
  /\ transitions' = Restrict(transitions, DOMAIN transitions \ allTrans)
  /\ allFiles' = {} /\ allTrans' = {}
  /\ inited' = FALSE
  /\ UNCHANGED fault

-----------------------------------------------------------------------------
(* Documents. *)

EmptyLists == [c \in OfferedClass |-> <<>>]

\* Faulty variant: the handle is registered before the document is loaded.
RegisteredFirst(f, ok) == allFiles \cup {f}

Registered(f, ok) == IF ok THEN allFiles \cup {f} ELSE allFiles

\* The identifiers of a class in the order of the document.
Listed(doc, c) ==
  LET ids[i \in 0 .. Len(doc)] ==
        IF i = 0 THEN <<>> ELSE IF doc[i] = c THEN Append(ids[i - 1], i) ELSE ids[i - 1]
  IN ids[Len(doc)]

\* The object is deleted again when it cannot be set up or loaded.
BMFile_Load(f, doc, ok) ==
  /\ Running
  /\ f \notin DOMAIN files
  /\ files' = IF ok
       THEN Allocated(files, f,
               [loader |-> TRUE, saved |-> FALSE, written |-> <<>>,
                objs |-> [i \in DOMAIN doc |-> Object(doc[i])],
                lists |-> [c \in OfferedClass |-> Listed(doc, c)]])
       ELSE files
  /\ allFiles' = Registered(f, ok)
  /\ UNCHANGED <<transitions, inited, allTrans, fault>>

BMFile_Create(f, ok) ==
  /\ Running
  /\ f \notin DOMAIN files
  /\ files' = IF ok
       THEN Allocated(files, f,
               [loader |-> FALSE, saved |-> FALSE, written |-> <<>>,
                objs |-> <<>>, lists |-> EmptyLists])
       ELSE files
  /\ allFiles' = Registered(f, ok)
  /\ UNCHANGED <<transitions, inited, allTrans, fault>>

BMFile_Free(f) ==
  /\ CheckBMFile(f)
  /\ files' = Restrict(files, DOMAIN files \ {f})
  /\ allFiles' = allFiles \ {f}
  /\ UNCHANGED <<transitions, inited, allTrans, fault>>

\* Faulty variant: only the kind of the document is looked at.
AnySaver(f) == ~ files[f].loader

CanExecSaverVisitor(f) == ~ files[f].loader /\ ~ files[f].saved

\* CommonCreateObject, called by BMFile_CreateGroup and its like.
CreateObject(f, cls) ==
  /\ CheckBMFile(f)
  /\ CanExecSaverVisitor(f)
  /\ Len(files[f].objs) < MaxObjects
  /\ files' = [files EXCEPT
       ![f].objs = Append(@, Object(cls)),
       ![f].lists[cls] = Append(@, Len(files[f].objs) + 1)]
  /\ UNCHANGED <<transitions, inited, allFiles, allTrans, fault>>

\* What Save hands to the writer, list by list.  It is marked saved whether
\* or not the writer succeeds.  `written` is a history variable.
BMFile_Save(f) ==
  /\ CheckBMFile(f)
  /\ ~ files[f].loader /\ ~ files[f].saved
  /\ files' = [files EXCEPT
       ![f].saved = TRUE,
       ![f].written = FlattenSeq([k \in DOMAIN Offered |-> files[f].lists[Offered[k]]])]
  /\ UNCHANGED <<transitions, inited, allFiles, allTrans, fault>>

\* BM3dEntity_SetCurrentMesh, BMMaterial_SetTexture.
SetLink(f, id, target) ==
  /\ CheckBMFile(f)
  /\ id \in Visible(f)
  /\ LinkClass[files[f].objs[id].cls] # NONE
  /\ files' = [files EXCEPT
       ![f].objs[id].link = OrNull(f, target, LinkClass[files[f].objs[id].cls])]
  /\ UNCHANGED <<transitions, inited, allFiles, allTrans, fault>>

BMMesh_SetMaterialSlotCount(f, id, n) ==
  /\ CheckBMFile(f)
  /\ CheckObject(f, id, "MESH")
  /\ files' = [files EXCEPT ![f].objs[id].mesh.mtlSlots = Resize(@, n)]
  /\ UNCHANGED <<transitions, inited, allFiles, allTrans, fault>>

BMMesh_SetMaterialSlot(f, id, k, target) ==
  /\ CheckBMFile(f)
  /\ CheckObject(f, id, "MESH")
  /\ k \in DOMAIN files[f].objs[id].mesh.mtlSlots
  /\ files' = [files EXCEPT ![f].objs[id].mesh.mtlSlots[k] = OrNull(f, target, "MATERIAL")]
  /\ UNCHANGED <<transitions, inited, allFiles, allTrans, fault>>

-----------------------------------------------------------------------------
(* Transitions. *)

BMMeshTrans_New(t) ==
  /\ Running
  /\ t \notin DOMAIN transitions
  /\ transitions' = Allocated(transitions, t, NewTransition)
  /\ allTrans' = allTrans \cup {t}
  /\ UNCHANGED <<inited, files, allFiles, fault>>

BMMeshTrans_Delete(t) ==
  /\ CheckBMMeshTrans(t)
  /\ transitions' = Restrict(transitions, DOMAIN transitions \ {t})
  /\ allTrans' = allTrans \ {t}
  /\ UNCHANGED <<inited, files, allFiles, fault>>

Prepare(t) ==
  /\ CheckBMMeshTrans(t)
  /\ \/ \E what \in Prepared : \E n \in Sizes[what] : PrepareCount(t, what, n)
     \/ \E a \in Arrays : \E values \in Contents[a] : WriteArray(t, a, values)
  /\ UNCHANGED <<inited, files, allFiles, allTrans, fault>>

\* The checks of BMMeshTrans_Parse and Parse before m_IsParsed is set.
CanParse(t, f, id) ==
  /\ CheckBMMeshTrans(t) /\ CheckBMFile(f)
  /\ Usable(t)
  /\ transitions[t].ok = Prepared
  /\ CheckObject(f, id, "MESH")

\* What each identifier in the slots of a transition stands for in a document.
Materials(f, d) == [id \in ToSet(d.mtlSlots) |-> OrNull(f, id, "MATERIAL")]

BMMeshTrans_Parse(t, f, id) ==
  /\ CanParse(t, f, id)
  /\ LET d == transitions[t].data
         proc == DoRealParse(d)
     IN /\ IndicesInside(d)
        /\ files' = IF Overflows(d, proc) THEN files
                    ELSE [files EXCEPT ![f].objs[id].mesh =
                            Applied(d, proc, Materials(f, d))]
  /\ transitions' = [transitions EXCEPT ![t] = Spent]
  /\ UNCHANGED <<inited, allFiles, allTrans, fault>>

\* An index the client wrote leads out of its array.
ParseOutside(t, f, id) ==
  /\ CanParse(t, f, id)
  /\ ~ IndicesInside(transitions[t].data)
  /\ fault' = "out_of_range"
  /\ UNCHANGED <<transitions, inited, files, allFiles, allTrans>>

-----------------------------------------------------------------------------
Init ==
  /\ transitions = <<>> /\ files = <<>>
  /\ allFiles = {} /\ allTrans = {}
  /\ inited = FALSE
  /\ fault = "none"

Ids(f) == DOMAIN files[f].objs

Documenting(f) ==
  \/ \E doc \in Documents, ok \in BOOLEAN : BMFile_Load(f, doc, ok)
  \/ \E ok \in BOOLEAN : BMFile_Create(f, ok)
  \/ BMFile_Free(f)
  \/ \E cls \in OfferedClass : CreateObject(f, cls)
  \/ BMFile_Save(f)

\* The calls on the objects of a document; a caller may pass 0.
Editing(f) ==
  /\ CheckBMFile(f)
  /\ \E id \in Ids(f) :
       \/ \E target \in Ids(f) \cup {0} : SetLink(f, id, target)
       \/ \E n \in 0 .. MaxMtlSlots : BMMesh_SetMaterialSlotCount(f, id, n)
       \/ \E k \in 1 .. MaxMtlSlots, target \in Ids(f) \cup {0} :
            BMMesh_SetMaterialSlot(f, id, k, target)

Parsing(t, f) ==
  /\ CheckBMFile(f)
  /\ \E id \in Ids(f) : BMMeshTrans_Parse(t, f, id) \/ ParseOutside(t, f, id)

Next ==
  \/ BMInit
  \/ BMDispose
  \/ \E f \in File : Documenting(f) \/ Editing(f)
  \/ \E t \in Transition : BMMeshTrans_New(t) \/ BMMeshTrans_Delete(t) \/ Prepare(t)
  \/ \E t \in Transition, f \in File : Parsing(t, f)

Spec == Init /\ [][Next]_vars

-----------------------------------------------------------------------------
(* Properties. *)

\* The handles the library accepts are exactly the objects it has allocated:
\* through failed loads, through disposal with documents and transitions still
\* open and through a second start-up, none is leaked, none accepted after its
\* release, and none is left when the classes are shut down.
HandlesExact ==
  /\ allFiles = DOMAIN files /\ allTrans = DOMAIN transitions
  /\ ~ inited => allFiles = {} /\ allTrans = {}

\* The identifiers a document accepts are those in its lists, each of them
\* once and in the list of its class ("we must make sure it provided ID also
\* is existed in out stored list"), though calls look only at the context.
VisibleListed ==
  \A f \in DOMAIN files :
    LET all == FlattenSeq([k \in DOMAIN Offered |-> files[f].lists[Offered[k]]])
    IN /\ ToSet(all) = Visible(f) /\ IsInjective(all)
       /\ \A c \in OfferedClass : \A id \in ToSet(files[f].lists[c]) :
            files[f].objs[id].cls = c

\* A saved document is complete and stays so: what was handed to the writer is
\* every object the document has, also later on.
SavedComplete ==
  \A f \in DOMAIN files :
    files[f].saved => ToSet(files[f].written) = Ids(f) /\ IsInjective(files[f].written)

\* Every pointer of an object is null or leads to an object of the class it
\* must have: the code casts it without another look.
LinksTyped ==
  \A f \in DOMAIN files : \A id \in Ids(f) :
    LET o == files[f].objs[id]
        is(target, cls) == target = 0 \/ files[f].objs[target].cls = cls
    IN /\ o.link # 0 => is(o.link, LinkClass[o.cls])
       /\ \A k \in DOMAIN o.mesh.mtlSlots : is(o.mesh.mtlSlots[k], "MATERIAL")

\* Parse writes a mesh that shows what the client described, corner by corner,
\* when it fits, and leaves every mesh as it was when it does not.
ParseFaithful ==
  [][\A t \in DOMAIN transitions \cap DOMAIN transitions' :
       (transitions'[t] = Spent /\ ~ transitions[t].parsed) =>
         LET d == transitions[t].data
         IN IF Fits(d)
              THEN \E f \in DOMAIN files : \E id \in Ids(f) :
                     /\ Carries(files'[f].objs[id].mesh, d, Materials(f, d))
                     /\ files' = [files EXCEPT ![f].objs[id].mesh = files'[f].objs[id].mesh]
              ELSE files' = files]_vars
=============================================================================
