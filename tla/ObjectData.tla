----------------------------- MODULE ObjectData -----------------------------
(***************************************************************************)
(* A small scene from its making to its return from a document: objects    *)
(* are set up by any calls of their classes, some are destroyed, all are   *)
(* saved, and another context loads them (the Save, Load and visitor       *)
(* members of LibCmo/CK2/ObjImpls, with the parts of CKObjectManager,      *)
(* CKPathManager and CKContext they use).  The four modules of data say    *)
(* what a call does to an object; here are the calls, their effects on     *)
(* other objects and on the disk, and what must come back.                 *)
(*                                                                         *)
(* An object keeps its identifier, in this context, in the document and in *)
(* the one that loads it: how they are translated is FileSession's matter, *)
(* as the buffers are StateChunk's.                                        *)
(***************************************************************************)
EXTENDS MaterialData, MeshData, TextureData

CONSTANTS
  Scene,     \* the scenes to begin with: sequences of objects
  Values,    \* for a settable member the values a client gives it
  Arrays,    \* for an array of a mesh and its length what a client writes
  Image,     \* the images a client draws
  Name,      \* the file names a client uses
  Disk,      \* the disk in the beginning
  MaxCalls,  \* bound: calls before the scene is saved
  MaxSize,   \* bound: slots of a texture, vertices, faces and lines of a mesh
  FREED,     \* what is left of a destroyed object
  NONE

ASSUME ObjectDataAssumption ==
  MaxCalls \in Nat /\ MaxSize \in Nat /\ "class" \notin DOMAIN FREED

VARIABLES
  objs,      \* the objects of the context by identifier
  global,    \* the options CKContext keeps for all images
  extra,     \* m_ExtraPathes of the path manager
  disk,      \* the files, by directory
  calls,     \* number of calls so far
  lost,      \* history: the classes of the destroyed objects
  doc,       \* the saved document, or NONE
  foreign,   \* what was done to the document elsewhere
  copy,      \* the objects another context has loaded, or NONE
  fault      \* "none", or the bad access or exception that ended the program

vars == <<objs, global, extra, disk, calls, lost, doc, foreign, copy, fault>>

Living == {id \in DOMAIN objs : objs[id] # FREED}

ClassAt == [id \in Living |-> objs[id].class]

Lights == {"LIGHT", "TARGETLIGHT"}
Cameras == {"CAMERA", "TARGETCAMERA"}
Entities == {"3DENTITY"} \cup Lights \cup Cameras
Aiming == {"TARGETLIGHT", "TARGETCAMERA"}

Of(classes) == {id \in Living : objs[id].class \in classes}

-----------------------------------------------------------------------------
(* The objects there can be in the beginning. *)

Classes == Entities \cup {"MATERIAL", "MESH", "TEXTURE"}

NewOf(class) ==
  CASE class = "3DENTITY" -> NewEntity(class)
    [] class = "LIGHT" -> NewLight(class)
    [] class = "CAMERA" -> NewCamera(class)
    [] class = "TARGETLIGHT" -> NewTargetLight(class)
    [] class = "TARGETCAMERA" -> NewTargetCamera(class)
    [] class = "MATERIAL" -> NewMaterial
    [] class = "MESH" -> NewMesh
    [] class = "TEXTURE" -> NewTexture

\* What a pointer to an object of these classes may be.
At(os, classes) == {0} \cup {t \in DOMAIN os : os[t] = FREED \/ os[t].class \in classes}

\* An object has the members of its class, and its pointers lead to what they
\* are for.
Proper(os, o) ==
  /\ o.class \in Classes /\ DOMAIN o = DOMAIN NewOf(o.class)
  /\ o.class \in Entities => o.mesh \in At(os, {"MESH"})
  /\ o.class \in Aiming => o.target \in At(os, Entities)
  /\ o.class = "MATERIAL" => o.textures \in [1 .. 4 -> At(os, {"TEXTURE"})]
  /\ o.class = "MESH" => o.slots \in Seq(At(os, {"MATERIAL"}))

\* Who is marked as a target of a class is aimed at by one of that class.
AimedAt(os) ==
  \A t \in DOMAIN os, class \in Aiming :
    os[t] # FREED /\ os[t].class \in Entities /\ class \in os[t].entityFlags =>
      \E id \in DOMAIN os : os[id] # FREED /\ os[id].class = class /\ os[id].target = t

\* The values of a member that a setter takes as they are: the enumerations of
\* a material fit the digits of the words they share, a side of the picture of
\* a camera and the format of a texture are unsigned.
ValueType(m) ==
  CASE m = "matrix" -> [1 .. 4 -> [1 .. 4 -> Int]]
    [] m \in Colours -> [1 .. 4 -> 0 .. 510]
    [] m = "type" -> LightTypes
    [] m \in {"width", "height", "videoFormat"} -> Nat
    [] m \in SamplingFields \cup RasterFields -> 0 .. 15
    [] m \in {"alphaRef", "alphaFunc", "zFunc"} -> 0 .. 255

TypedMembers ==
  Colours \cup SamplingFields \cup RasterFields
    \cup {"matrix", "type", "width", "height", "videoFormat", "alphaRef", "alphaFunc", "zFunc"}

IsList(s) == Len(s) \in Nat /\ s = [i \in 1 .. Len(s) |-> s[i]]

Vector == [1 .. 3 -> Int]

\* What the arrays of a mesh hold: whatever a client writes, but a vector is
\* one, and a face names three vertices, which may not be there.
ArrayOf(a, s) ==
  /\ IsList(s)
  /\ a \in {"positions", "normals"} => \A i \in DOMAIN s : s[i] \in Vector
  /\ a = "faces" => \A i \in DOMAIN s : s[i] \in [1 .. 3 -> Nat]

\* The arrays of the vertices are of one length, and so are those of the faces.
MeshWellMade(o) ==
  /\ \A a \in VertexArrays : ArrayOf(a, o[a]) /\ Len(o[a]) = Len(o.positions)
  /\ \A a \in FaceArrays : ArrayOf(a, o[a]) /\ Len(o[a]) = Len(o.faces)
  /\ ArrayOf("lines", o.lines)

\* A valid image has rows of one length.
IsImage(image) ==
  /\ Height(image) \in Nat \ {0} /\ Width(image) \in Nat \ {0}
  /\ image = [r \in 1 .. Height(image) |-> [c \in 1 .. Width(image) |->
                <<image[r][c][1], image[r][c][2]>>]]

IsName(name) == name = [dir |-> name.dir, base |-> name.base] /\ name.base # ""

SlotWellMade(s) ==
  /\ s = [image |-> s.image, name |-> s.name]
  /\ s.image = NoImage \/ IsImage(s.image)
  /\ s.name = NoName \/ IsName(s.name)

TextureWellMade(o) ==
  /\ IsList(o.slots) /\ \A i \in DOMAIN o.slots : SlotWellMade(o.slots[i])
  /\ IsList(o.mipmaps) /\ o.current \in Nat /\ o.useMipmap \in BOOLEAN

WellMade(o) ==
  /\ o.class # "MESH" => \A m \in DOMAIN o \cap TypedMembers : o[m] \in ValueType(m)
  /\ o.class \in Entities => o.potentials \in Seq(Nat \ {0})
  /\ o.class = "MATERIAL" => o.enabled \subseteq Switches
  /\ o.class = "MESH" => MeshWellMade(o)
  /\ o.class = "TEXTURE" => TextureWellMade(o)

\* A file of a directory: the image that is in it, if it has one.
FilesOf(files) == \A b \in DOMAIN files : files[b] = NoImage \/ IsImage(files[b])

\* A scene is what calls can make of new objects: nothing is destroyed yet.  A
\* client leaves the marks of the targets to SetTarget.
ASSUME SceneAssumption ==
  /\ \A os \in Scene :
       /\ Len(os) \in Nat /\ os = [id \in 1 .. Len(os) |-> os[id]]
       /\ \A id \in DOMAIN os : os[id] # FREED /\ Proper(os, os[id])
       /\ AimedAt(os)
  /\ "entityFlags" \in DOMAIN Values => \A v \in Values["entityFlags"] : v \cap Aiming = {}

\* The members of the objects, and what a client passes, are of their types.
ASSUME ValueAssumption ==
  /\ \A os \in Scene : \A id \in DOMAIN os : WellMade(os[id])
  /\ \A m \in TypedMembers : \A v \in Values[m] : v \in ValueType(m)
  /\ \A a \in VertexArrays \cup FaceArrays \cup {"lines"} :
       \A content \in Arrays[a] : ArrayOf(a, content)

ASSUME FileAssumption ==
  /\ \A image \in Image : IsImage(image)
  /\ \A name \in Name : IsName(name)
  /\ TempFolder \in DOMAIN Disk
  /\ \A d \in DOMAIN Disk : FilesOf(Disk[d])

-----------------------------------------------------------------------------
(* Calls. *)

Editing == fault = "none" /\ doc = NONE /\ calls < MaxCalls

Changed(id, o) ==
  /\ objs' = [objs EXCEPT ![id] = o]
  /\ calls' = calls + 1
  /\ UNCHANGED <<global, extra, disk, lost, doc, foreign, copy, fault>>

\* The members that a setter only assigns to.
PlainFields(class) ==
  CASE class \in Lights -> EntityFields \cup LightFields
    [] class \in Cameras -> EntityFields \cup CameraFields
    [] class = "3DENTITY" -> EntityFields
    [] class = "MATERIAL" -> MaterialFields
    [] class = "TEXTURE" -> TextureFields
    [] OTHER -> {}

SetField(id) ==
  \E f \in PlainFields(objs[id].class) \cap DOMAIN Values : \E v \in Values[f] :
    Changed(id, [objs[id] EXCEPT ![f] = v])

ShowOf(o, option) ==
  CASE o.class \in Entities -> ShowEntity(o, option)
    [] o.class = "MESH" -> ShowMesh(o, option)
    [] OTHER -> ShowObject(o, option)

Show(id) ==
  \E option \in {"SHOW", "HIDE", "HIERARCHICALHIDE"} : Changed(id, ShowOf(objs[id], option))

EntityCall(id) ==
  \E m \in Of({"MESH"}) :
    \/ Changed(id, AddPotentialMesh(objs[id], m))
    \/ Changed(id, RemovePotentialMesh(objs[id], m))
    \/ \E null \in BOOLEAN : Changed(id, SetCurrentMesh(objs[id], IF null THEN 0 ELSE m))

LightCall(id) ==
  \E flag \in {"ACTIVE", "SPECULAR"}, on \in BOOLEAN :
    Changed(id, SwitchLight(objs[id], flag, on))

MaterialCall(id) ==
  \/ \E flag \in Switches, on \in BOOLEAN : Changed(id, SwitchMaterial(objs[id], flag, on))
  \/ \E t \in Of({"TEXTURE"}) \cup {0}, idx \in 1 .. 5 : Changed(id, SetTexture(objs[id], t, idx))

MeshSizing(id) ==
  \E n \in 0 .. MaxSize :
    \/ Changed(id, SetVertexCount(objs[id], n))
    \/ Changed(id, SetFaceCount(objs[id], n))
    \/ Changed(id, SetLineCount(objs[id], n))
    \/ Changed(id, SetMaterialSlotCount(objs[id], n))

MeshWriting(id) ==
  LET o == objs[id]
  IN \/ \E a \in VertexArrays \cup FaceArrays \cup {"lines"} :
          \E content \in Arrays[a] :
            Len(content) = Len(o[a]) /\ Changed(id, [o EXCEPT ![a] = content])
     \/ \E m \in Of({"MATERIAL"}) \cup {0} :
          \E i \in DOMAIN o.slots : Changed(id, [o EXCEPT !.slots[i] = m])

MeshFlagging(id) ==
  \/ \E flags \in Values.meshFlags : Changed(id, SetMeshFlags(objs[id], flags))
  \/ \E mode \in {"LIT", "PRELIT"} : Changed(id, SetLitMode(objs[id], mode))
  \/ \E axes \in SUBSET {"WRAPU", "WRAPV"} : Changed(id, SetWrapMode(objs[id], axes))

SlotCall(id) ==
  \E i \in DOMAIN objs[id].slots :
    \/ \E s \in {1, 2} : Changed(id, CreateImage(objs[id], i, s, s))
    \/ \E image \in Image : Changed(id, DrawImage(objs[id], i, image))
    \/ Changed(id, ReleaseImage(objs[id], i))
    \/ \E n \in Name : Changed(id, SetSlotFileName(objs[id], i, n))
    \/ \E n \in Name : Changed(id, LoadImage(objs[id], i, n, disk, extra))
    \/ Changed(id, SetCurrentSlot(objs[id], i - 1))

MipmapCall(id) ==
  \/ \E use \in BOOLEAN : Changed(id, UseMipmap(objs[id], use))
  \/ \E n \in 0 .. MaxSize : Changed(id, SetMipmapLevel(objs[id], n))
  \/ objs[id].useMipmap /\ \E i \in DOMAIN objs[id].mipmaps, image \in Image :
       Changed(id, [objs[id] EXCEPT !.mipmaps[i] = image])

TextureCall(id) ==
  \/ \E n \in 0 .. MaxSize : Changed(id, SetSlotCount(objs[id], n))
  \/ SlotCall(id)
  \/ MipmapCall(id)

SaveImageFile(id) ==
  /\ \E i \in DOMAIN objs[id].slots, n \in Name :
       n.dir # "" /\ disk' = SaveImage(objs[id], i, n, disk)
  /\ calls' = calls + 1
  /\ UNCHANGED <<objs, global, extra, lost, doc, foreign, copy, fault>>

\* CKContext::SetGlobalImagesSaveOptions, which does not take USEGLOBAL, and
\* SetGlobalImagesSaveFormat.
SetGlobalImages(options, ext) ==
  /\ options # "USEGLOBAL"
  /\ global' = [options |-> options, ext |-> ext]
  /\ calls' = calls + 1
  /\ UNCHANGED <<objs, extra, disk, lost, doc, foreign, copy, fault>>

-----------------------------------------------------------------------------
(* Targets. *)

MarkOf(class) == IF class = "TARGETCAMERA" THEN "TARGETCAMERA" ELSE "TARGETLIGHT"

\* Faulty variant: the former target keeps its mark.
OnlyNewTarget(os, id, t) ==
  [k \in DOMAIN os |->
     IF k = t THEN [os[k] EXCEPT !.entityFlags = (@ \ {"FRAME"}) \cup {MarkOf(os[id].class)}]
     ELSE IF k = id THEN [os[k] EXCEPT !.target = t] ELSE os[k]]

Unmarked(o, marks) == [o EXCEPT !.entityFlags = (@ \ marks) \cup {"FRAME"}]

\* The former target gives its mark up, also when another camera aims at it.
SetTarget(os, id, t) ==
  LET mark == MarkOf(os[id].class)
      old == os[id].target
      after == [k \in DOMAIN os |->
        IF k # old \/ os[k] = FREED THEN os[k] ELSE Unmarked(os[k], {mark})]
      marked == [k \in DOMAIN os |->
        IF k # t THEN after[k]
        ELSE [after[k] EXCEPT !.entityFlags = (@ \cup {mark}) \ {"FRAME"}]]
  IN IF t = id THEN os ELSE [marked EXCEPT ![id].target = t]

TargetCall(id) ==
  /\ \E t \in Of(Entities) \cup {0} : objs' = SetTarget(objs, id, t)
  /\ calls' = calls + 1
  /\ UNCHANGED <<global, extra, disk, lost, doc, foreign, copy, fault>>

-----------------------------------------------------------------------------
(* Destruction, once: what the class lists are worth after it is the         *)
(* subject of ObjectManager.                                                 *)

\* The classes a class asked to be told about, as CKStartUp registers them.
Wishes(class) ==
  CASE class \in Aiming -> Entities \cup {"MESH"}
    [] class \in Entities \ Aiming -> {"MESH"}
    [] class = "MATERIAL" -> {"TEXTURE"}
    [] class = "MESH" -> {"MATERIAL"}
    [] OTHER -> {}

ClassesOf(del) == {objs[id].class : id \in del}

\* The objects that are told; the list of a class that loses objects holds
\* just these.
Told(del) ==
  {id \in Living : /\ Wishes(objs[id].class) \cap ClassesOf(del) # {}
                   /\ objs[id].class \in ClassesOf(del) => id \in del}

NotIn(id, del) == IF id \in del THEN 0 ELSE id

\* Faulty variant: the current mesh is kept.
PotentialsOnly(o, del) ==
  IF o.class \in Entities THEN [o EXCEPT !.potentials = Only(@, del)]
  ELSE IF o.class = "MATERIAL" THEN [o EXCEPT !.textures = [i \in 1 .. 4 |-> NotIn(@[i], del)]]
  ELSE [o EXCEPT !.slots = [i \in DOMAIN @ |-> NotIn(@[i], del)]]

\* CheckPreDeletion.  The filter of the potential meshes is the one that keeps
\* the wrong entries.
CheckPreDeletion(o, del) ==
  IF o.class \in Entities
    THEN [o EXCEPT !.mesh = NotIn(@, del),
                   !.potentials = Only(@, del)]
  ELSE IF o.class = "MATERIAL" THEN [o EXCEPT !.textures = [i \in 1 .. 4 |-> NotIn(@[i], del)]]
  ELSE [o EXCEPT !.slots = [i \in DOMAIN @ |-> NotIn(@[i], del)]]

CheckPostDeletion(o, del) ==
  IF o.class \in Aiming THEN [o EXCEPT !.target = NotIn(@, del)] ELSE o

\* PreDelete, object after object: each that aims gives its own target up, so
\* that their order makes no difference.
PreDelete(os, del) ==
  LET aiming == {id \in del : os[id].class \in Aiming}
      marks(k) == {MarkOf(os[id].class) : id \in {i \in aiming : os[i].target = k}}
      released(k) == IF marks(k) = {} THEN os[k] ELSE Unmarked(os[k], marks(k))
  IN [k \in DOMAIN os |-> IF k \in aiming THEN [released(k) EXCEPT !.target = 0] ELSE released(k)]

\* An entity that is told looks at its current mesh, which may be null.
NullMesh(del) == \E id \in Told(del) : objs[id].class \in Entities /\ objs[id].mesh = 0

Destroy(del) ==
  /\ ~ NullMesh(del)
  /\ objs' = [id \in DOMAIN objs |->
       IF id \in del THEN FREED
       ELSE IF id \in Told(del)
         THEN CheckPostDeletion(CheckPreDeletion(PreDelete(objs, del)[id], del), del)
         ELSE PreDelete(objs, del)[id]]
  /\ lost' = ClassesOf(del)
  /\ calls' = MaxCalls
  /\ UNCHANGED <<global, extra, disk, doc, foreign, copy, fault>>

DestroyFaults(del) ==
  /\ NullMesh(del)
  /\ fault' = "null_mesh"
  /\ UNCHANGED <<objs, global, extra, disk, calls, lost, doc, foreign, copy>>

-----------------------------------------------------------------------------
(* Saving. *)

AfterSave(o) ==
  CASE o.class \in Entities -> Regulated(o) [] o.class = "MESH" -> AfterSaveMesh(o) [] OTHER -> o

SaveOf(o, options) ==
  CASE o.class = "3DENTITY" -> SaveEntity(o)
    [] o.class = "LIGHT" -> SaveLight(o)
    [] o.class = "CAMERA" -> SaveCamera(o)
    [] o.class = "TARGETLIGHT" -> SaveTargetLight(o, Living)
    [] o.class = "TARGETCAMERA" -> SaveTargetCamera(o, Living)
    [] o.class = "MATERIAL" -> SaveMaterial(o)
    [] o.class = "MESH" -> SaveMesh(o)
    [] o.class = "TEXTURE" -> SaveTexture(o, options)

\* The files that go into the document, one after another.
IncludedFiles(os, options) ==
  FlattenSeq([id \in DOMAIN os |->
    IF os[id] = FREED \/ os[id].class # "TEXTURE" THEN <<>> ELSE SavedFiles(os[id], options)])

\* A file is read when the document is written; one that is missing is written
\* without a body.
Included(os, options, d) ==
  LET names == IncludedFiles(os, options)
      body(n) == IF n.dir # "" /\ IsFile(n, d) THEN d[n.dir][n.base] ELSE NoImage
  IN [k \in DOMAIN names |-> [base |-> names[k].base, image |-> body(names[k])]]

\* The objects an object points to, other than the one it aims at.
Pointers(o) ==
  (CASE o.class \in Entities -> {o.mesh} \cup ToSet(o.potentials)
     [] o.class = "MATERIAL" -> ToSet(o.textures)
     [] o.class = "MESH" -> ToSet(o.slots)
     [] OTHER -> {}) \ {0}

\* An object that was destroyed is asked for its identifier.
Dangling == \E id \in Living : ~ Pointers(objs[id]) \subseteq Living

\* A face names a vertex that is not there, and the normals are looked at.
FaceOutside == \E id \in Of({"MESH"}) : ~ FacesInside(objs[id]) /\ objs[id].positions # <<>>

Save ==
  /\ fault = "none" /\ doc = NONE
  /\ ~ Dangling /\ ~ FaceOutside
  /\ doc' = [chunks |-> [id \in DOMAIN objs |->
                           IF objs[id] = FREED THEN FREED ELSE SaveOf(objs[id], global)],
             files |-> Included(objs, global, disk)]
  /\ objs' = [id \in DOMAIN objs |-> IF objs[id] = FREED THEN FREED ELSE AfterSave(objs[id])]
  /\ UNCHANGED <<global, extra, disk, calls, lost, foreign, copy, fault>>

\* The faces are looked at now, or by the reader of what is written.
SaveFaults ==
  /\ fault = "none" /\ doc = NONE
  /\ Dangling \/ FaceOutside
  /\ fault' = IF Dangling THEN "dangling" ELSE "face_outside"
  /\ UNCHANGED <<objs, global, extra, disk, calls, lost, doc, foreign, copy>>

-----------------------------------------------------------------------------
(* What other programs do to a document that this one can load. *)

Saved == fault = "none" /\ doc # NONE /\ copy = NONE /\ foreign = "none"

Rewritten(what, id, section, s) ==
  /\ doc' = [doc EXCEPT !.chunks[id] = Entry(section, s) ++ @]
  /\ foreign' = what
  /\ UNCHANGED <<objs, global, extra, disk, calls, lost, copy, fault>>

\* Virtools writes the identifiers of a place and of a parent before the z-order.
WithHierarchy(id) ==
  \E marks \in SUBSET {"PLACEVALID", "PARENTVALID"} :
    LET s == doc.chunks[id]["3DENTITYNDATA"]
    IN Rewritten("hierarchy", id, "3DENTITYNDATA",
         <<s[1] \cup marks>> \o SubSeq(s, 2, 6)
           \o [k \in 1 .. Cardinality(marks) |-> 77] \o SubSeq(s, 7, Len(s)))

\* A pointer leads to an object of another class, or to none.
WithOtherLinks(id) ==
  \E other \in Living \cup {0} :
    LET c == doc.chunks[id]
    IN \/ Has(c, "MESHS") /\ Rewritten("links", id, "MESHS", <<other, c["MESHS"][2]>>)
       \/ Has(c, "MATDATA") /\ Rewritten("links", id, "MATDATA", [c["MATDATA"] EXCEPT ![6] = other])
       \/ Has(c, "MATDATA2") /\ Rewritten("links", id, "MATDATA2", [c["MATDATA2"] EXCEPT ![1] = other])
       \/ Has(c, "MESHMATERIALS") /\ Rewritten("links", id, "MESHMATERIALS", <<other>>)

\* An effect with a parameter, and a light of a type nobody knows.
WithOtherData(id) ==
  LET c == doc.chunks[id]
  IN \/ Has(c, "MATDATA") /\ Rewritten("data", id, "MATDATA5", <<77, 2>>)
     \/ Has(c, "LIGHTDATA") /\ Rewritten("data", id, "LIGHTDATA", [c["LIGHTDATA"] EXCEPT ![1] = <<@[1], "UNKNOWN">>])

\* Only where the search for a file can show: there is a texture.
Searching == Saved /\ Of({"TEXTURE"}) # {}

\* The included file of another document is unpacked into the temp folder.
OtherDocument(base) ==
  /\ Searching
  /\ \E image \in Image : disk' = [disk EXCEPT ![TempFolder] = Entry(base, image) ++ @]
  /\ foreign' = "temp"
  /\ UNCHANGED <<objs, global, extra, calls, lost, doc, copy, fault>>

\* CKPathManager::AddPath and ClearPath of the context that loads.
AddPath(dir) ==
  /\ Searching /\ dir \in DOMAIN disk
  /\ extra' = Append(extra, dir) /\ Len(extra) < 2
  /\ UNCHANGED <<objs, global, disk, calls, lost, doc, foreign, copy, fault>>

ClearPath ==
  /\ Searching /\ extra # <<>>
  /\ extra' = <<>>
  /\ UNCHANGED <<objs, global, disk, calls, lost, doc, foreign, copy, fault>>

-----------------------------------------------------------------------------
(* Loading. *)

\* Every class throws a chunk of an old version away; these are of this one.
LoadOf(class, chunk, d, paths) ==
  LET o == NewOf(class)
  IN CASE class = "3DENTITY" -> LoadEntity(o, chunk, ClassAt)
       [] class = "LIGHT" -> LoadLight(o, chunk, ClassAt)
       [] class = "CAMERA" -> LoadCamera(o, chunk, ClassAt)
       [] class = "TARGETLIGHT" -> LoadTargetLight(o, chunk, ClassAt)
       [] class = "TARGETCAMERA" -> LoadTargetCamera(o, chunk, ClassAt)
       [] class = "MATERIAL" -> LoadMaterial(o, chunk, ClassAt)
       [] class = "MESH" -> LoadMesh(o, chunk, ClassAt)
       [] class = "TEXTURE" -> LoadTexture(o, chunk, d, paths)

\* The included files are unpacked first, by the last part of their names, and
\* those without a body too.
Unpacked(files, d) ==
  FoldLeft(LAMBDA acc, f : [acc EXCEPT ![TempFolder] = Entry(f.base, f.image) ++ @], d, files)

Reloaded(chunks, d) ==
  [id \in DOMAIN chunks |->
     IF id \in Living THEN LoadOf(objs[id].class, chunks[id], d, extra) ELSE FREED]

Refused == \E id \in Living : LevelRefused(doc.chunks[id])

Load ==
  /\ fault = "none" /\ doc # NONE /\ copy = NONE
  /\ ~ Refused
  /\ disk' = Unpacked(doc.files, disk)
  /\ copy' = Reloaded(doc.chunks, disk')
  /\ UNCHANGED <<objs, global, extra, calls, lost, doc, foreign, fault>>

LoadThrows ==
  /\ fault = "none" /\ doc # NONE /\ copy = NONE
  /\ Refused
  /\ fault' = "level_refused"
  /\ UNCHANGED <<objs, global, extra, disk, calls, lost, doc, foreign, copy>>

-----------------------------------------------------------------------------
Init ==
  /\ objs \in Scene
  /\ global = [options |-> "RAWDATA", ext |-> "bmp"]
  /\ extra = <<>> /\ disk = Disk
  /\ calls = 0 /\ lost = {}
  /\ doc = NONE /\ foreign = "none" /\ copy = NONE
  /\ fault = "none"

Call(id) ==
  \/ SetField(id)
  \/ Show(id)
  \/ objs[id].class \in Entities /\ EntityCall(id)
  \/ objs[id].class \in Lights /\ LightCall(id)
  \/ objs[id].class \in Aiming /\ TargetCall(id)
  \/ objs[id].class = "MATERIAL" /\ MaterialCall(id)
  \/ objs[id].class = "MESH" /\ (MeshSizing(id) \/ MeshWriting(id) \/ MeshFlagging(id))
  \/ objs[id].class = "TEXTURE" /\ (TextureCall(id) \/ SaveImageFile(id))

Elsewhere ==
  \/ Saved /\ \E id \in Living :
       \/ objs[id].class \in Entities /\ WithHierarchy(id)
       \/ WithOtherLinks(id)
       \/ WithOtherData(id)
  \/ \E n \in Name : OtherDocument(n.base) \/ AddPath(n.dir)
  \/ ClearPath

Next ==
  \/ Editing /\ \E id \in Living : Call(id)
  \/ Editing /\ \E options \in Values.saveOptions, ext \in Values.saveExt : SetGlobalImages(options, ext)
  \/ Editing /\ lost = {} /\ \E del \in SUBSET Living : del # {} /\ (Destroy(del) \/ DestroyFaults(del))
  \/ Save
  \/ SaveFaults
  \/ Elsewhere
  \/ Load
  \/ LoadThrows

Spec == Init /\ [][Next]_vars

-----------------------------------------------------------------------------
(* Properties. *)

Loaded == copy # NONE

Marks == {"VISIBLE", "HIERARCHICALHIDE"}

Near(a, b) == Absolute(a - b) <= 1

NearColour(c, o, n) == \A i \in 1 .. n : Near(c[i], o[i])

\* Both marks of a mesh (SetFlags shows a hidden one) come back as hidden.
MarksKept(c, o) ==
  c.flags \cap Marks =
    IF Marks \subseteq o.flags THEN {"HIERARCHICALHIDE"} ELSE o.flags \cap Marks

\* Position, order, visibility and meshes of an entity.
SpaceKept(c, o) ==
  /\ \A i \in 1 .. 4 : c.matrix[i] = Append(Spatial(o.matrix[i]), Identity[i][4])
  /\ c.zorder = o.zorder \/ (o.zorder = 0 /\ "RENDERFIRST" \in o.moveable /\ c.zorder = 10000)
  /\ c.entityFlags = o.entityFlags \ VolatileEntity
  /\ c.moveable \cap Marks = c.flags \cap Marks
  /\ "INDIRECTMATRIX" \in c.moveable <=> Mirrored(c.matrix)
  /\ c.moveable \ (Marks \cup {"INDIRECTMATRIX"})
       = o.moveable \ (Marks \cup {"INDIRECTMATRIX"} \cup VolatileMoveable)
  /\ c.mesh = o.mesh
  /\ ToSet(c.potentials) = ToSet(o.potentials) \cup ({o.mesh} \ {0})

LightKept(c, o) ==
  /\ NearColour(c.diffuse, o.diffuse, 3) /\ c.diffuse[4] = 510
  /\ \A f \in {"type", "attenuation0", "attenuation1", "attenuation2", "range", "lightFlags",
              "power"} : c[f] = o[f]
  /\ o.type = "SPOT" =>
       c.innerCone = o.innerCone /\ c.outerCone = o.outerCone /\ c.falloff = o.falloff

\* The two sides of the picture share a word.
CameraKept(c, o) ==
  /\ \A f \in {"project", "fov", "zoom", "front", "back"} : c[f] = o[f]
  /\ \A f \in {"width", "height"} : o[f] < Word => c[f] = o[f]

\* An entity, a light or a camera comes back from its document as it was: its
\* place, its flags but for those of a session, its z-order, its meshes, its
\* light, its projection, its target, and is visible as it was; also when the
\* document carries a hierarchy that the library skips (CK3dEntity::Load and
\* the classes derived from it).
EntitiesKept ==
  Loaded /\ foreign \in {"none", "hierarchy", "temp"} =>
    \A id \in Of(Entities) :
      LET o == objs[id] c == copy[id]
      IN /\ MarksKept(c, o) /\ SpaceKept(c, o)
         /\ o.class \in Lights => LightKept(c, o)
         /\ o.class \in Cameras => CameraKept(c, o)
         /\ o.class \in Aiming => c.target = (IF o.target \in Living THEN o.target ELSE 0)

\* A material comes back as it was, its colours within one step; extra
\* textures only when it has an effect (CKMaterial::Save writes them then).
MaterialsKept ==
  Loaded /\ foreign \in {"none", "hierarchy", "temp"} =>
    \A id \in Of({"MATERIAL"}) :
      LET o == objs[id] c == copy[id]
      IN /\ MarksKept(c, o)
         /\ \A f \in Colours : NearColour(c[f], o[f], 4)
         /\ \A f \in MaterialFields \ Colours : c[f] = o[f]
         /\ c.enabled = o.enabled
         /\ c.textures = IF o.effect # 0 THEN o.textures ELSE <<o.textures[1], 0, 0, 0>>

\* In the mean no further from the original than the step the writer allows.
NormalsNear(c, o) ==
  LET drift == FoldLeft(LAMBDA sum, v : Plus(sum, AbsoluteVector(Minus(o.normals[v], c.normals[v]))),
                        Zero, [v \in DOMAIN o.normals |-> v])
  IN DotProduct(drift, drift) <= Len(o.normals) * Len(o.normals)

\* A mesh comes back with all its arrays, except what its flags call generated,
\* and with normals that differ by rounding, though most of them are not
\* written (CKMesh::GenerateSaveFlags and the two halves of CKMesh::Load).
MeshesKept ==
  Loaded /\ foreign \in {"none", "hierarchy", "temp"} =>
    \A id \in Of({"MESH"}) :
      LET o == objs[id] c == copy[id]
      IN /\ MarksKept(c, o)
         /\ c.meshFlags = o.meshFlags \ VolatileMesh
         /\ c.slots = SavedSlots(o)
         /\ \A a \in {"faces", "faceSlots", "lines", "colors", "specular"} : c[a] = o[a]
         /\ Len(c.positions) = Len(o.positions) /\ Len(c.normals) = Len(o.normals)
         /\ "PROCEDURALPOS" \notin o.meshFlags => c.positions = o.positions
         /\ "PROCEDURALUV" \notin o.meshFlags => c.uvs = o.uvs
         /\ o.meshFlags \cap {"PROCEDURALPOS", "NORMAL_CHANGED"} = {} => NormalsNear(c, o)

Picture(image) == [r \in DOMAIN image |-> [c \in DOMAIN image[r] |-> image[r][c][1]]]

SizeOf(image) == <<Width(image), Height(image)>>

\* All slots hold images of one size, which is what Virtools writes.
Uniform(o) == \A i \in DOMAIN o.slots :
  o.slots[i].image # NoImage /\ SizeOf(o.slots[i].image) = SizeOf(o.slots[1].image)

WrittenExt(o) == IF o.saveOptions = "USEGLOBAL" THEN global.ext ELSE o.saveExt

\* An image in the document itself: exact as raw data; in a format of files the
\* colours are, and the alpha values when the format is known to have none.
ImagesInside(c, o) ==
  LET wanted == OptionOf(o, global)
  IN CASE EffectiveOption(o, wanted) = "RAWDATA" ->
            \A i \in DOMAIN o.slots \ FileSlots(o, wanted) :
              o.slots[i].image # NoImage => c.slots[i].image = o.slots[i].image
       [] wanted = "IMAGEFORMAT" /\ Uniform(o) /\ HasHandler(WrittenExt(o)) ->
            \A i \in DOMAIN o.slots :
              /\ Picture(c.slots[i].image) = Picture(o.slots[i].image)
              /\ ~ CanSaveAlpha(WrittenExt(o)) => c.slots[i].image = o.slots[i].image
       [] OTHER -> TRUE

\* A texture comes back with its slots, the images that are in the document,
\* its current slot if there is one, its mipmap setting, colour key, format of
\* the card and save options (CKTexture::Save and Load, whose main section is
\* told apart by its length, and CKBitmapData).
ImagesKept ==
  Loaded /\ foreign \in {"none", "hierarchy", "temp"} =>
    \A id \in Of({"TEXTURE"}) :
      LET o == objs[id] c == copy[id]
      IN /\ MarksKept(c, o)
         /\ Len(c.slots) = Len(o.slots)
         /\ ImagesInside(c, o)
         /\ \A f \in BitmapFields \cup {"useMipmap"} : c[f] = o[f]
         /\ c.current = (IF o.current < Len(o.slots) THEN o.current ELSE 0)
         /\ c.videoFormat = (IF o.videoFormat \in 1 .. LastFormat THEN o.videoFormat ELSE ARGB1555)

\* The files of the document that have the name of a slot.
IncludedAt(id, i) ==
  {k \in DOMAIN doc.files : doc.files[k].base = objs[id].slots[i].name.base}

\* An image whose file went into the document comes from that file, wherever
\* else files of that name are; two of one name share a file in the temp
\* folder (CKFileReader unpacks, CKPathManager::ResolveFileName finds).
FilesFound ==
  Loaded =>
    \A id \in Of({"TEXTURE"}) : \A i \in DOMAIN objs[id].slots :
      LET o == objs[id]
      IN /\ EffectiveOption(o, OptionOf(o, global)) = "INCLUDEORIGINALFILE"
         /\ Cardinality(IncludedAt(id, i)) = 1
         /\ HasHandler(ExtOf[o.slots[i].name.base])
         => copy[id].slots[i].image = doc.files[CHOOSE k \in IncludedAt(id, i) : TRUE].image

\* Whatever class the objects of a document have, a current mesh is a mesh, a
\* texture of a material a texture and a material of a mesh a material: the
\* pointers the classes cast without a check later.
LinkedClasses ==
  Loaded => \A id \in Living :
    LET c == copy[id]
        classes(ids) == {ClassAt[t] : t \in ids \ {0}}
    IN CASE c.class \in Entities -> classes({c.mesh}) \subseteq {"MESH"}
         [] c.class = "MATERIAL" -> classes(ToSet(c.textures)) \subseteq {"TEXTURE"}
         [] c.class = "MESH" -> classes(ToSet(c.slots)) \subseteq {"MATERIAL"}
         [] OTHER -> TRUE

\* After a destruction nothing points to or aims at an object that is gone,
\* but from a class that lost objects itself (ObjectManager shows that such
\* classes are not told), and but for the potential meshes of an entity.
LinksAlive ==
  \A id \in Living : objs[id].class \notin lost =>
    LET o == objs[id]
    IN /\ (IF o.class \in Entities THEN {o.mesh} \ {0} ELSE Pointers(o)) \subseteq Living
       /\ o.class \in Aiming => o.target \in Living \cup {0}

\* An entity that is marked as a target is one: some camera or light aims at
\* it.  (The other way round fails when two of them share a target.)
TargetsMarked ==
  \A t \in Of(Entities) : \A class \in Aiming :
    MarkOf(class) \in objs[t].entityFlags =>
      \E id \in Of({class}) : objs[id].target = t

\* Images go into the document in the format of a file, which are only those
\* that came out of one: an image from a file is not yet of the size and
\* without the alpha values that this format leaves it with.
Settled(c) ==
  c.class = "TEXTURE" /\ OptionOf(c, global) = "IMAGEFORMAT" =>
    \A i \in DOMAIN c.slots : c.slots[i].name.dir = ""

\* Saving what was loaded and loading that gives the same object: nothing
\* drifts with the number of times a document is opened.  (Only the flag of
\* the z-order is set when the document is saved, and a name that led to a file
\* stands without its directory when the image is in the document.)
SaveStable ==
  Loaded => \A id \in Living :
    LET c == copy[id]
        again == LoadOf(c.class, SaveOf(c, global), disk, extra)
        essence(o) ==
          CASE o.class \in Entities -> [o EXCEPT !.entityFlags = @ \ {"ZORDERVALID"}]
            [] o.class = "TEXTURE" ->
                 [o EXCEPT !.slots = [i \in DOMAIN @ |-> [@[i] EXCEPT !.name = GetFileName(@)]]]
            [] OTHER -> o
    IN Settled(c) => essence(again) = essence(c)
=============================================================================
