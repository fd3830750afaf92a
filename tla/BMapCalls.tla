------------------------------ MODULE BMapCalls ------------------------------
(***************************************************************************)
(* The calls of BMap on the objects of a document                          *)
(* (Ballance/BMap/BMap/BMExports.cpp, from BMTexture to BMCamera), on top *)
(* of the scene of ObjectData: every call takes an identifier from outside *)
(* and a class it casts the object to.  Handles, lists and identifiers are *)
(* BMap's subject.  A call that is refused has no action, and neither has  *)
(* a call that only reads; the sets of members are those with a reading    *)
(* and a writing call each.                                                *)
(***************************************************************************)
EXTENDS ObjectData

\* The classes BMap has a list for; a 3DOBJECT is a 3DENTITY of the scene.
OfferedHere == {"3DENTITY", "MESH", "MATERIAL", "TEXTURE", "TARGETLIGHT", "TARGETCAMERA"}

Parent(class) ==
  CASE class \in Aiming -> IF class = "TARGETLIGHT" THEN "LIGHT" ELSE "CAMERA"
    [] class \in {"LIGHT", "CAMERA"} -> "3DENTITY"
    [] OTHER -> "OBJECT"

CKIsChildClassOf(class, asked) ==
  asked \in {class, Parent(class), Parent(Parent(class)), Parent(Parent(Parent(class)))}

\* Faulty variant: an object is cast to the class of the call unseen.
CheckAnyObject(id, asked) == id \in Of(OfferedHere)

CheckGenericObject(id, asked) ==
  id \in Of(OfferedHere) /\ CKIsChildClassOf(objs[id].class, asked)

\* What a cast leads to when the object has no such member is memory of
\* something else: the object gets a member it should not have.
Written(o, member, value) ==
  [m \in DOMAIN o \cup {member} |-> IF m = member THEN value ELSE o[m]]

Assigned(id, asked, members) ==
  /\ CheckGenericObject(id, asked)
  /\ \E m \in members \cap DOMAIN Values : \E v \in Values[m] :
       Changed(id, Written(objs[id], m, v))

OrNull(id, asked) == IF CheckGenericObject(id, asked) THEN id ELSE 0

-----------------------------------------------------------------------------
(* Textures. *)

BMTextureMembers == {"saveOptions", "videoFormat"}

\* The texture gets its slot even when there is no such image.
BMTexture_LoadImage(id, name) ==
  /\ CheckGenericObject(id, "TEXTURE")
  /\ LET o == objs[id]
         slotted == IF o.slots = <<>> THEN SetSlotCount(o, 1) ELSE o
     IN Changed(id, LoadImage(slotted, 1, name, disk, extra))

BMTexture_SaveImage(id, name) ==
  /\ CheckGenericObject(id, "TEXTURE")
  /\ objs[id].slots # <<>> /\ name.dir # ""
  /\ disk' = SaveImage(objs[id], 1, name, disk)
  /\ calls' = calls + 1
  /\ UNCHANGED <<objs, global, extra, lost, doc, foreign, copy, fault>>

-----------------------------------------------------------------------------
(* Materials. *)

BMMaterialSurface == Colours \cup {"specularPower"}

BMMaterial_SetTexture(id, texture) ==
  /\ CheckGenericObject(id, "MATERIAL")
  /\ Changed(id, SetTexture(objs[id], OrNull(texture, "TEXTURE"), 1))

BMMaterialBorder == {"borderColor"}

BMMaterialSampling == {"textureBlend", "textureMin", "textureMag", "address"}

BMMaterialRaster == {"sourceBlend", "destBlend", "fill", "shade"}

BMMaterialSwitch(id, flag, on) ==
  /\ CheckGenericObject(id, "MATERIAL")
  /\ Changed(id, SwitchMaterial(objs[id], flag, on))

BMMaterialCompare == {"alphaRef", "alphaFunc", "zFunc"}

-----------------------------------------------------------------------------
(* Meshes. *)

BMMesh_SetLitMode(id, mode) ==
  CheckGenericObject(id, "MESH") /\ Changed(id, SetLitMode(objs[id], mode))

\* BMMesh_SetVertexCount, BMMesh_SetFaceCount, BMMesh_SetMaterialSlotCount.
BMMeshCounts(id, n) ==
  /\ CheckGenericObject(id, "MESH")
  /\ \/ Changed(id, SetVertexCount(objs[id], n))
     \/ Changed(id, SetFaceCount(objs[id], n))
     \/ Changed(id, SetMaterialSlotCount(objs[id], n))

\* The arrays BMap hands out pointers to; colours and lines are not among them.
BMMeshArrays == {"positions", "normals", "uvs", "faces", "faceSlots"}

\* A client writes through such a pointer.
BMMeshWrite(id) ==
  /\ CheckGenericObject(id, "MESH")
  /\ \E a \in BMMeshArrays : \E content \in Arrays[a] :
       Len(content) = Len(objs[id][a]) /\ Changed(id, [objs[id] EXCEPT ![a] = content])

BMMesh_SetMaterialSlot(id, index, material) ==
  /\ CheckGenericObject(id, "MESH")
  /\ index \in DOMAIN objs[id].slots
  /\ Changed(id, [objs[id] EXCEPT !.slots[index] = OrNull(material, "MATERIAL")])

-----------------------------------------------------------------------------
(* Entities, lights and cameras. *)

BM3dEntityMembers == {"matrix"}

BM3dEntity_SetCurrentMesh(id, mesh) ==
  /\ CheckGenericObject(id, "3DENTITY")
  /\ Changed(id, SetCurrentMesh(objs[id], OrNull(mesh, "MESH")))

BM3dEntity_SetVisibility(id, visible) ==
  /\ CheckGenericObject(id, "3DENTITY")
  /\ Changed(id, ShowEntity(objs[id], IF visible THEN "SHOW" ELSE "HIDE"))

\* Hot spot, falloff and the shape of the falloff are the cones of the light.
BMLightMembers ==
  {"type", "diffuse", "attenuation0", "attenuation1", "attenuation2", "range", "innerCone",
   "outerCone", "falloff"}

BMCameraMembers == {"project", "zoom", "front", "back", "fov"}

BMCamera_SetAspectRatio(id, width, height) ==
  /\ CheckGenericObject(id, "CAMERA")
  /\ Changed(id, Written(Written(objs[id], "width", width), "height", height))

-----------------------------------------------------------------------------
Members(id) ==
  \/ Assigned(id, "TEXTURE", BMTextureMembers)
  \/ Assigned(id, "MATERIAL", BMMaterialSurface \cup BMMaterialBorder \cup BMMaterialSampling
                                \cup BMMaterialRaster \cup BMMaterialCompare)
  \/ Assigned(id, "3DENTITY", BM3dEntityMembers)
  \/ Assigned(id, "LIGHT", BMLightMembers)
  \/ Assigned(id, "CAMERA", BMCameraMembers)

\* A client may pass any identifier for another object.
Linking(id) ==
  \E other \in Living \cup {0} :
    \/ BMMaterial_SetTexture(id, other)
    \/ BM3dEntity_SetCurrentMesh(id, other)
    \/ \E index \in 1 .. MaxSize : BMMesh_SetMaterialSlot(id, index, other)

OtherCall(id) ==
  \/ \E name \in Name : BMTexture_LoadImage(id, name) \/ BMTexture_SaveImage(id, name)
  \/ \E flag \in Switches, on \in BOOLEAN : BMMaterialSwitch(id, flag, on)
  \/ \E mode \in {"LIT", "PRELIT"} : BMMesh_SetLitMode(id, mode)
  \/ \E n \in 0 .. MaxSize : BMMeshCounts(id, n)
  \/ BMMeshWrite(id)
  \/ \E visible \in BOOLEAN : BM3dEntity_SetVisibility(id, visible)
  \/ \E w \in Values.width, h \in Values.height : BMCamera_SetAspectRatio(id, w, h)

BMNext ==
  \/ Next
  \/ Editing /\ \E id \in Living : Members(id) \/ Linking(id) \/ OtherCall(id)

BMSpec == Init /\ [][BMNext]_vars

-----------------------------------------------------------------------------
(* Properties. *)

\* No cast goes wrong, whatever identifiers a client passes: a call writes only
\* members that the class of its object has, and every pointer it leaves leads
\* to an object of the class the other calls and Save take it for.
CastsSound ==
  \A id \in Living :
    LET o == objs[id]
        classes(ids) == {objs[t].class : t \in (ids \cap Living) \ {0}}
    IN /\ DOMAIN o = DOMAIN NewOf(o.class)
       /\ o.class \in Entities => classes({o.mesh}) \subseteq {"MESH"}
       /\ o.class = "MATERIAL" => classes(ToSet(o.textures)) \subseteq {"TEXTURE"}
       /\ o.class = "MESH" => classes(ToSet(o.slots)) \subseteq {"MATERIAL"}
=============================================================================
