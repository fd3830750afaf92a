-------------------------- MODULE ObjectDataProofs --------------------------
(***************************************************************************)
(* Theorems about ObjectData and BMapCalls for every scene.  Inv: the      *)
(* pointers between the objects lead to what they are for, before a        *)
(* destruction, after it, and after the scene has come back from a         *)
(* document.  DataInv: the members, the files and the chunks are what the  *)
(* source of the library makes them.                                       *)
(***************************************************************************)
EXTENDS BMapCalls, InductionLemmas

-----------------------------------------------------------------------------
(* Classes and members.                                                     *)

ObjectMembers == {"class", "flags"}

EntityMembers ==
  ObjectMembers \cup {"potentials", "mesh", "matrix", "zorder", "moveable", "entityFlags"}

LightMembers ==
  EntityMembers \cup {"type", "diffuse", "attenuation0", "attenuation1", "attenuation2", "range",
                      "innerCone", "outerCone", "falloff", "lightFlags", "power"}

CameraMembers ==
  EntityMembers \cup {"project", "fov", "zoom", "width", "height", "front", "back"}

MaterialMembers == ObjectMembers \cup MaterialFields \cup {"textures", "enabled"}

MeshMembers ==
  ObjectMembers \cup {"meshFlags", "positions", "normals", "uvs", "colors", "specular", "slots",
                      "faces", "faceSlots", "faceNormals", "lines"}

TextureMembers ==
  ObjectMembers \cup TextureFields \cup {"slots", "current", "useMipmap", "mipmaps"}

MembersOf(class) ==
  CASE class = "3DENTITY" -> EntityMembers
    [] class = "LIGHT" -> LightMembers
    [] class = "CAMERA" -> CameraMembers
    [] class = "TARGETLIGHT" -> LightMembers \cup {"target"}
    [] class = "TARGETCAMERA" -> CameraMembers \cup {"target"}
    [] class = "MATERIAL" -> MaterialMembers
    [] class = "MESH" -> MeshMembers
    [] class = "TEXTURE" -> TextureMembers

LEMMA DerivedIs ==
  ASSUME NEW base, NEW members, NEW o, o = Derived(base, members)
  PROVE  /\ DOMAIN o = DOMAIN base \cup DOMAIN members
         /\ \A m \in DOMAIN base : o[m] = base[m]
         /\ \A m \in DOMAIN members \ DOMAIN base : o[m] = members[m]
BY DEF Derived

LEMMA EntityIs ==
  ASSUME NEW class, NEW o, o = NewEntity(class)
  PROVE  DOMAIN o = EntityMembers /\ o.class = class /\ o.mesh = 0
<1> DEFINE base == NewObject(class)
           more == [potentials |-> <<>>, mesh |-> 0, matrix |-> Identity, zorder |-> 0,
                    moveable |-> {"PICKABLE", "VISIBLE", "RENDERCHANNELS", "INVERSEWORLDMATVALID"},
                    entityFlags |-> {}]
<1>1. DOMAIN base = ObjectMembers /\ base.class = class
  BY DEF NewObject, ObjectMembers
<1>2. /\ DOMAIN more = {"potentials", "mesh", "matrix", "zorder", "moveable", "entityFlags"}
      /\ more.mesh = 0
  OBVIOUS
<1>3. o = Derived(base, more)
  BY DEF NewEntity
<1> HIDE DEF base, more
<1>4. "class" \in DOMAIN base /\ "mesh" \in DOMAIN more \ DOMAIN base
  BY <1>1, <1>2 DEF ObjectMembers
<1>5. DOMAIN o = DOMAIN base \cup DOMAIN more /\ o.class = base.class /\ o.mesh = more.mesh
  <2>1. /\ DOMAIN o = DOMAIN base \cup DOMAIN more
        /\ \A m \in DOMAIN base : o[m] = base[m]
        /\ \A m \in DOMAIN more \ DOMAIN base : o[m] = more[m]
    BY <1>3 DEF Derived
  <2> QED
    BY <1>4, <2>1
<1> QED
  BY <1>1, <1>2, <1>5 DEF EntityMembers

\* A class between: what DOMAIN more adds, and what stays.
LEMMA DerivedKeeps ==
  ASSUME NEW base, NEW more, NEW o, o = Derived(base, more),
         "class" \in DOMAIN base, "mesh" \in DOMAIN base
  PROVE  /\ DOMAIN o = DOMAIN base \cup DOMAIN more
         /\ o.class = base.class /\ o.mesh = base.mesh
BY DerivedIs

LEMMA LightIs ==
  ASSUME NEW class, NEW o, o = NewLight(class)
  PROVE  DOMAIN o = LightMembers /\ o.class = class /\ o.mesh = 0
<1> DEFINE base == NewEntity(class)
           more == [type |-> "POINT", diffuse |-> <<510, 510, 510, 510>>, attenuation0 |-> 1,
                    attenuation1 |-> 0, attenuation2 |-> 0, range |-> 5000, innerCone |-> 40,
                    outerCone |-> 45, falloff |-> 1, lightFlags |-> {"ACTIVE"}, power |-> 1]
<1>1. DOMAIN base = EntityMembers /\ base.class = class /\ base.mesh = 0
  BY EntityIs
<1>2. DOMAIN more = {"type", "diffuse", "attenuation0", "attenuation1", "attenuation2", "range",
                     "innerCone", "outerCone", "falloff", "lightFlags", "power"}
  OBVIOUS
<1>3. o = Derived(base, more)
  BY DEF NewLight
<1> HIDE DEF base, more
<1>4. "class" \in DOMAIN base /\ "mesh" \in DOMAIN base
  BY <1>1 DEF EntityMembers, ObjectMembers
<1> QED
  BY <1>1, <1>2, <1>3, <1>4, DerivedKeeps DEF LightMembers

LEMMA CameraIs ==
  ASSUME NEW class, NEW o, o = NewCamera(class)
  PROVE  DOMAIN o = CameraMembers /\ o.class = class /\ o.mesh = 0
<1> DEFINE base == NewEntity(class)
           more == [project |-> "PERSPECTIVE", fov |-> 5, zoom |-> 1, width |-> 4, height |-> 3,
                    front |-> 1, back |-> 4000]
<1>1. DOMAIN base = EntityMembers /\ base.class = class /\ base.mesh = 0
  BY EntityIs
<1>2. DOMAIN more = {"project", "fov", "zoom", "width", "height", "front", "back"}
  OBVIOUS
<1>3. o = Derived(base, more)
  BY DEF NewCamera
<1> HIDE DEF base, more
<1>4. "class" \in DOMAIN base /\ "mesh" \in DOMAIN base
  BY <1>1 DEF EntityMembers, ObjectMembers
<1> QED
  BY <1>1, <1>2, <1>3, <1>4, DerivedKeeps DEF CameraMembers

LEMMA TargetIs ==
  ASSUME NEW base, "class" \in DOMAIN base, "mesh" \in DOMAIN base, "target" \notin DOMAIN base,
         NEW o, o = Derived(base, [target |-> 0])
  PROVE  /\ DOMAIN o = DOMAIN base \cup {"target"}
         /\ o.class = base.class /\ o.mesh = base.mesh /\ o.target = 0
<1> DEFINE more == [target |-> 0]
<1>1. DOMAIN more = {"target"} /\ more.target = 0
  OBVIOUS
<1> HIDE DEF more
<1>2. o = Derived(base, more)
  BY DEF more
<1>3. "target" \in DOMAIN more \ DOMAIN base
  BY <1>1
<1>4. /\ DOMAIN o = DOMAIN base \cup DOMAIN more
      /\ \A m \in DOMAIN base : o[m] = base[m]
      /\ \A m \in DOMAIN more \ DOMAIN base : o[m] = more[m]
  BY <1>2 DEF Derived
<1> QED
  BY <1>1, <1>3, <1>4

\* The members of the other classes.
LEMMA MaterialIs ==
  DOMAIN NewMaterial = MaterialMembers /\ NewMaterial.class = "MATERIAL"
<1> DEFINE base == NewObject("MATERIAL")
           more == [diffuse |-> <<357, 357, 357, 510>>, ambient |-> <<153, 153, 153, 510>>,
                    specular |-> <<255, 255, 255, 510>>, emissive |-> <<0, 0, 0, 510>>,
                    specularPower |-> 0, textures |-> <<0, 0, 0, 0>>, borderColor |-> 0,
                    textureBlend |-> 4, textureMin |-> 2, textureMag |-> 2, sourceBlend |-> 2,
                    destBlend |-> 1, shade |-> 2, fill |-> 3, address |-> 1, alphaRef |-> 0,
                    alphaFunc |-> 8, zFunc |-> 4, enabled |-> {"ZWRITE", "PERSPECTIVE"},
                    effect |-> 0]
<1>1. DOMAIN base = ObjectMembers /\ base.class = "MATERIAL"
  BY DEF NewObject, ObjectMembers
<1>2. DOMAIN more = {"diffuse", "ambient", "specular", "emissive", "specularPower", "textures",
        "borderColor", "textureBlend", "textureMin", "textureMag", "sourceBlend", "destBlend",
        "shade", "fill", "address", "alphaRef", "alphaFunc", "zFunc", "enabled", "effect"}
  OBVIOUS
<1>3. NewMaterial = Derived(base, more)
  BY DEF NewMaterial
<1> HIDE DEF base, more
<1>4. "class" \in DOMAIN base
  BY <1>1 DEF ObjectMembers
<1>5. DOMAIN NewMaterial = DOMAIN base \cup DOMAIN more /\ NewMaterial.class = base.class
  BY <1>3, <1>4, DerivedIs
<1>6. DOMAIN more = MaterialFields \cup {"textures", "enabled"}
  BY <1>2 DEF MaterialFields, SurfaceFields, Colours, SamplingFields, RasterFields, CompareFields
<1> QED
  BY <1>1, <1>5, <1>6 DEF MaterialMembers

LEMMA MeshIs ==
  DOMAIN NewMesh = MeshMembers /\ NewMesh.class = "MESH"
<1> DEFINE base == NewObject("MESH")
           more == [meshFlags |-> {"VISIBLE", "RENDERCHANNELS"},
                    positions |-> <<>>, normals |-> <<>>, uvs |-> <<>>, colors |-> <<>>,
                    specular |-> <<>>, slots |-> <<>>, faces |-> <<>>, faceSlots |-> <<>>,
                    faceNormals |-> <<>>, lines |-> <<>>]
<1>1. DOMAIN base = ObjectMembers /\ base.class = "MESH"
  BY DEF NewObject, ObjectMembers
<1>2. DOMAIN more = {"meshFlags", "positions", "normals", "uvs", "colors", "specular", "slots",
                     "faces", "faceSlots", "faceNormals", "lines"}
  OBVIOUS
<1>3. NewMesh = Derived(base, more)
  BY DEF NewMesh
<1> HIDE DEF base, more
<1>4. "class" \in DOMAIN base
  BY <1>1 DEF ObjectMembers
<1>5. DOMAIN NewMesh = DOMAIN base \cup DOMAIN more /\ NewMesh.class = base.class
  BY <1>3, <1>4, DerivedIs
<1> QED
  BY <1>1, <1>2, <1>5 DEF MeshMembers

LEMMA TextureIs ==
  DOMAIN NewTexture = TextureMembers /\ NewTexture.class = "TEXTURE"
<1> DEFINE base == NewObject("TEXTURE")
           more == [slots |-> <<>>, current |-> 0, pick |-> 0, transparent |-> FALSE,
                    transColor |-> 0, cube |-> FALSE, saveExt |-> "bmp",
                    saveOptions |-> "USEGLOBAL", videoFormat |-> ARGB1555, useMipmap |-> FALSE,
                    mipmaps |-> <<>>]
<1>1. DOMAIN base = ObjectMembers /\ base.class = "TEXTURE"
  BY DEF NewObject, ObjectMembers
<1>2. DOMAIN more = {"slots", "current", "pick", "transparent", "transColor", "cube", "saveExt",
                     "saveOptions", "videoFormat", "useMipmap", "mipmaps"}
  OBVIOUS
<1>3. NewTexture = Derived(base, more)
  BY DEF NewTexture
<1> HIDE DEF base, more
<1>4. "class" \in DOMAIN base
  BY <1>1 DEF ObjectMembers
<1>5. DOMAIN NewTexture = DOMAIN base \cup DOMAIN more /\ NewTexture.class = base.class
  BY <1>3, <1>4, DerivedIs
<1>6. DOMAIN more = TextureFields \cup {"slots", "current", "useMipmap", "mipmaps"}
  BY <1>2 DEF TextureFields, BitmapFields
<1> QED
  BY <1>1, <1>5, <1>6 DEF TextureMembers

LEMMA NewTargetLightIs ==
  ASSUME NEW class, NEW o, o = NewTargetLight(class)
  PROVE  /\ DOMAIN o = LightMembers \cup {"target"}
         /\ o.class = class /\ o.mesh = 0 /\ o.target = 0
<1> DEFINE base == NewLight(class)
<1>1. DOMAIN base = LightMembers /\ base.class = class /\ base.mesh = 0
  BY LightIs
<1>2. o = Derived(base, [target |-> 0])
  BY DEF NewTargetLight
<1> HIDE DEF base
<1>3. "class" \in DOMAIN base /\ "mesh" \in DOMAIN base /\ "target" \notin DOMAIN base
  BY <1>1 DEF LightMembers, EntityMembers, ObjectMembers
<1> QED
  BY <1>1, <1>2, <1>3, TargetIs

LEMMA NewTargetCameraIs ==
  ASSUME NEW class, NEW o, o = NewTargetCamera(class)
  PROVE  /\ DOMAIN o = CameraMembers \cup {"target"}
         /\ o.class = class /\ o.mesh = 0 /\ o.target = 0
<1> DEFINE base == NewCamera(class)
<1>1. DOMAIN base = CameraMembers /\ base.class = class /\ base.mesh = 0
  BY CameraIs
<1>2. o = Derived(base, [target |-> 0])
  BY DEF NewTargetCamera
<1> HIDE DEF base
<1>3. "class" \in DOMAIN base /\ "mesh" \in DOMAIN base /\ "target" \notin DOMAIN base
  BY <1>1 DEF CameraMembers, EntityMembers, ObjectMembers
<1> QED
  BY <1>1, <1>2, <1>3, TargetIs

\* A new object has the members of its class, and no target and no mesh.
LEMMA NewIs ==
  ASSUME NEW class \in Classes
  PROVE  /\ DOMAIN NewOf(class) = MembersOf(class) /\ NewOf(class).class = class
         /\ class \in Entities => NewOf(class).mesh = 0
<1>1. CASE class = "3DENTITY"
  BY <1>1, EntityIs DEF NewOf, MembersOf
<1>2. CASE class = "LIGHT"
  BY <1>2, LightIs DEF NewOf, MembersOf
<1>3. CASE class = "CAMERA"
  BY <1>3, CameraIs DEF NewOf, MembersOf
<1>4. CASE class = "TARGETLIGHT"
  BY <1>4, NewTargetLightIs DEF NewOf, MembersOf
<1>5. CASE class = "TARGETCAMERA"
  BY <1>5, NewTargetCameraIs DEF NewOf, MembersOf
<1>6. CASE class = "MATERIAL"
  BY <1>6, MaterialIs DEF NewOf, MembersOf, Entities, Lights, Cameras
<1>7. CASE class = "MESH"
  BY <1>7, MeshIs DEF NewOf, MembersOf, Entities, Lights, Cameras
<1>8. CASE class = "TEXTURE"
  BY <1>8, TextureIs DEF NewOf, MembersOf, Entities, Lights, Cameras
<1> QED
  BY <1>1, <1>2, <1>3, <1>4, <1>5, <1>6, <1>7, <1>8 DEF Classes, Entities, Lights, Cameras

-----------------------------------------------------------------------------
(* One object in the place of another.                                      *)

Links == {"class", "mesh", "target", "textures", "slots"}

\* It differs in nothing but plain members; marks may be gone.
Alike(o, p) ==
  /\ DOMAIN p = DOMAIN o
  /\ \A m \in Links \cap DOMAIN o : p[m] = o[m]
  /\ "entityFlags" \in DOMAIN o => p.entityFlags \cap Aiming \subseteq o.entityFlags

\* Its pointers may differ, but for the target.
Fit(os, o, p) ==
  /\ p.class = o.class /\ Proper(os, p)
  /\ o.class \in Entities => p.entityFlags \cap Aiming \subseteq o.entityFlags
  /\ o.class \in Aiming => p.target = o.target

\* Nobody is created or destroyed.
Replaced(os, after) ==
  /\ DOMAIN after = DOMAIN os
  /\ \A id \in DOMAIN os : IF os[id] = FREED THEN after[id] = FREED ELSE Fit(os, os[id], after[id])

\* Which members there are.
LEMMA ProperMembers ==
  ASSUME NEW os, NEW o, Proper(os, o)
  PROVE  /\ DOMAIN o = MembersOf(o.class) /\ o.class \in Classes
         /\ "class" \in DOMAIN o /\ "flags" \in DOMAIN o
         /\ o.class \in Entities => EntityMembers \subseteq DOMAIN o
         /\ o.class \in Aiming => "target" \in DOMAIN o
         /\ o.class = "MATERIAL" => DOMAIN o = MaterialMembers
         /\ o.class = "MESH" => DOMAIN o = MeshMembers
         /\ o.class = "TEXTURE" => DOMAIN o = TextureMembers
<1>1. DOMAIN o = MembersOf(o.class) /\ o.class \in Classes
  BY NewIs DEF Proper
<1>2. CASE o.class = "3DENTITY"
  BY <1>1, <1>2 DEF MembersOf, EntityMembers, ObjectMembers, Aiming
<1>3. CASE o.class = "LIGHT"
  BY <1>1, <1>3 DEF MembersOf, LightMembers, EntityMembers, ObjectMembers, Aiming
<1>4. CASE o.class = "CAMERA"
  BY <1>1, <1>4 DEF MembersOf, CameraMembers, EntityMembers, ObjectMembers, Aiming
<1>5. CASE o.class = "TARGETLIGHT"
  BY <1>1, <1>5 DEF MembersOf, LightMembers, EntityMembers, ObjectMembers
<1>6. CASE o.class = "TARGETCAMERA"
  BY <1>1, <1>6 DEF MembersOf, CameraMembers, EntityMembers, ObjectMembers
<1>7. CASE o.class = "MATERIAL"
  BY <1>1, <1>7 DEF MembersOf, MaterialMembers, ObjectMembers, Aiming, Entities, Lights, Cameras
<1>8. CASE o.class = "MESH"
  BY <1>1, <1>8 DEF MembersOf, MeshMembers, ObjectMembers, Aiming, Entities, Lights, Cameras
<1>9. CASE o.class = "TEXTURE"
  BY <1>1, <1>9 DEF MembersOf, TextureMembers, ObjectMembers, Aiming, Entities, Lights, Cameras
<1> QED
  BY <1>1, <1>2, <1>3, <1>4, <1>5, <1>6, <1>7, <1>8, <1>9 DEF Classes, Entities, Lights, Cameras

LEMMA NotFreed ==
  ASSUME NEW os, NEW o, Proper(os, o)
  PROVE  o # FREED
BY ProperMembers, ObjectDataAssumption

\* The members with the pointers of each class.
LEMMA LinkMembers ==
  ASSUME NEW os, NEW o, Proper(os, o)
  PROVE  /\ o.class \in Entities => "mesh" \in DOMAIN o /\ "entityFlags" \in DOMAIN o
         /\ o.class = "MATERIAL" => "textures" \in DOMAIN o
         /\ o.class = "MESH" => "slots" \in DOMAIN o
BY ProperMembers DEF EntityMembers, MaterialMembers, MeshMembers

LEMMA AlikeFits ==
  ASSUME NEW os, NEW o, NEW p, Proper(os, o), Alike(o, p)
  PROVE  Fit(os, o, p)
<1>1. p.class = o.class
  BY ProperMembers DEF Alike, Links
<1>2. o.class \in Entities => p.mesh = o.mesh /\ p.entityFlags \cap Aiming \subseteq o.entityFlags
  BY LinkMembers DEF Alike, Links
<1>3. o.class \in Aiming => p.target = o.target
  BY ProperMembers DEF Alike, Links
<1>4. (o.class = "MATERIAL" => p.textures = o.textures) /\ (o.class = "MESH" => p.slots = o.slots)
  BY LinkMembers DEF Alike, Links
<1>5. DOMAIN p = DOMAIN o
  BY DEF Alike
<1> QED
  BY <1>1, <1>2, <1>3, <1>4, <1>5 DEF Fit, Proper

\* A texture points to nothing.
LEMMA TextureFits ==
  ASSUME NEW os, NEW o, NEW p, Proper(os, o), o.class = "TEXTURE",
         DOMAIN p = DOMAIN o, p.class = "TEXTURE"
  PROVE  Fit(os, o, p)
BY DEF Fit, Proper, Entities, Lights, Cameras, Aiming

\* What holds of a scene whose objects are replaced.
LEMMA ReplacedKeeps ==
  ASSUME NEW os, NEW after, \A id \in DOMAIN os : os[id] # FREED => Proper(os, os[id]),
         AimedAt(os), Replaced(os, after)
  PROVE  /\ \A id \in DOMAIN os : after[id] = FREED <=> os[id] = FREED
         /\ \A id \in DOMAIN os : os[id] # FREED => after[id].class = os[id].class
         /\ \A id \in DOMAIN after : after[id] # FREED => Proper(after, after[id])
         /\ AimedAt(after)
<1>1. DOMAIN after = DOMAIN os
  BY DEF Replaced
<1>2. \A id \in DOMAIN os : after[id] = FREED <=> os[id] = FREED
  BY NotFreed DEF Replaced, Fit
<1>3. \A id \in DOMAIN os : os[id] # FREED => Fit(os, os[id], after[id])
  BY DEF Replaced
<1>4. \A id \in DOMAIN os : os[id] # FREED => after[id].class = os[id].class
  BY <1>3 DEF Fit
<1>5. \A classes : At(after, classes) = At(os, classes)
  BY <1>1, <1>2, <1>4 DEF At
<1>6. ASSUME NEW id \in DOMAIN after, after[id] # FREED
      PROVE  Proper(after, after[id])
  BY <1>1, <1>2, <1>3, <1>5, <1>6 DEF Fit, Proper
<1>7. AimedAt(after)
  <2> SUFFICES ASSUME NEW t \in DOMAIN after, NEW class \in Aiming, after[t] # FREED,
                      after[t].class \in Entities, class \in after[t].entityFlags
               PROVE  \E id \in DOMAIN after :
                        after[id] # FREED /\ after[id].class = class /\ after[id].target = t
    BY DEF AimedAt
  <2>1. t \in DOMAIN os /\ os[t] # FREED /\ os[t].class \in Entities /\ class \in os[t].entityFlags
    BY <1>1, <1>2, <1>3, <1>4 DEF Fit
  <2>2. PICK id \in DOMAIN os : os[id] # FREED /\ os[id].class = class /\ os[id].target = t
    BY <2>1 DEF AimedAt
  <2>3. after[id] # FREED /\ after[id].class = class /\ after[id].target = t
    BY <1>2, <1>3, <2>2 DEF Fit
  <2> QED
    BY <1>1, <2>3
<1> QED
  BY <1>2, <1>4, <1>6, <1>7

-----------------------------------------------------------------------------
(* The calls on one object.                                                 *)

LEMMA PlainFits ==
  ASSUME NEW os, NEW o, Proper(os, o), NEW m, m \notin Links, NEW v,
         m = "entityFlags" => v \cap Aiming = {}
  PROVE  Fit(os, o, [o EXCEPT ![m] = v])
<1>1. Alike(o, [o EXCEPT ![m] = v])
  BY DEF Alike, Links
<1> QED
  BY <1>1, AlikeFits

LEMMA ShowFits ==
  ASSUME NEW os, NEW o, Proper(os, o), NEW option
  PROVE  Fit(os, o, ShowOf(o, option))
<1>1. Alike(o, ShowObject(o, option))
  BY DEF Alike, Links, ShowObject
<1>2. Alike(o, ShowEntity(o, option))
  BY DEF Alike, Links, ShowObject, ShowEntity
<1>3. Alike(o, ShowMesh(o, option))
  BY DEF Alike, Links, ShowObject, ShowMesh
<1>4. Alike(o, ShowOf(o, option))
  BY <1>1, <1>2, <1>3 DEF ShowOf
<1> QED
  BY <1>4, AlikeFits

LEMMA PotentialsFit ==
  ASSUME NEW os, NEW o, Proper(os, o), NEW id
  PROVE  Fit(os, o, AddPotentialMesh(o, id)) /\ Fit(os, o, RemovePotentialMesh(o, id))
<1>1. \A v : Fit(os, o, [o EXCEPT !.potentials = v])
  <2> SUFFICES ASSUME NEW v PROVE Fit(os, o, [o EXCEPT !.potentials = v])
    OBVIOUS
  <2>1. Alike(o, [o EXCEPT !.potentials = v])
    BY DEF Alike, Links
  <2> QED
    BY <2>1, AlikeFits
<1> QED
  BY <1>1 DEF AddPotentialMesh, RemovePotentialMesh

LEMMA MeshFits ==
  ASSUME NEW os, NEW o, Proper(os, o), o.class \in Entities, NEW m \in At(os, {"MESH"})
  PROVE  Fit(os, o, SetCurrentMesh(o, m))
<1> DEFINE p == SetCurrentMesh(o, m)
<1>1. DOMAIN p = DOMAIN o /\ p.mesh = m
  BY LinkMembers DEF SetCurrentMesh, AddPotentialMesh
<1>2. p.class = o.class /\ p.entityFlags = o.entityFlags
  BY LinkMembers, ProperMembers DEF SetCurrentMesh, AddPotentialMesh
<1>3. o.class \in Aiming => p.target = o.target
  BY ProperMembers DEF SetCurrentMesh, AddPotentialMesh
<1>4. o.class # "MATERIAL" /\ o.class # "MESH"
  BY DEF Entities, Lights, Cameras
<1> QED
  BY <1>1, <1>2, <1>3, <1>4 DEF Fit, Proper

LEMMA SwitchesFit ==
  ASSUME NEW os, NEW o, Proper(os, o), NEW flag, NEW on
  PROVE  Fit(os, o, SwitchLight(o, flag, on)) /\ Fit(os, o, SwitchMaterial(o, flag, on))
<1>1. Alike(o, SwitchLight(o, flag, on))
  BY DEF Alike, Links, SwitchLight
<1>2. Alike(o, SwitchMaterial(o, flag, on))
  BY DEF Alike, Links, SwitchMaterial
<1> QED
  BY <1>1, <1>2, AlikeFits

LEMMA TexturesFit ==
  ASSUME NEW os, NEW o, Proper(os, o), o.class = "MATERIAL", NEW t \in At(os, {"TEXTURE"}), NEW i
  PROVE  Fit(os, o, SetTexture(o, t, i))
<1> DEFINE p == SetTexture(o, t, i)
<1>1. /\ "textures" \in DOMAIN o /\ "class" \in DOMAIN o /\ o.textures \in [1 .. 4 -> At(os, {"TEXTURE"})]
      /\ o.class \notin Entities /\ o.class \notin Aiming
  BY LinkMembers, ProperMembers DEF Proper, Entities, Lights, Cameras, Aiming
<1>2. DOMAIN p = DOMAIN o /\ p.class = o.class /\ p.textures \in [1 .. 4 -> At(os, {"TEXTURE"})]
  BY <1>1 DEF SetTexture
<1> QED
  BY <1>1, <1>2 DEF Fit, Proper

LEMMA ResizedIs ==
  ASSUME NEW T, NEW s \in Seq(T), NEW n \in Nat, NEW default \in T
  PROVE  Resized(s, n, default) \in Seq(T)
<1>1. Len(s) \in Nat /\ \A i \in 1 .. Len(s) : s[i] \in T
  BY LenProperties
<1>2. \A i \in 1 .. n : (IF i <= Len(s) THEN s[i] ELSE default) \in T
  BY <1>1
<1>3. Resized(s, n, default) \in [1 .. n -> T]
  BY <1>2 DEF Resized
<1> QED
  BY <1>3, IsASeq

\* The materials of a mesh.
LEMMA SlotsFit ==
  ASSUME NEW os, NEW o, Proper(os, o), o.class = "MESH", NEW s \in Seq(At(os, {"MATERIAL"}))
  PROVE  Fit(os, o, [o EXCEPT !.slots = s])
<1> DEFINE p == [o EXCEPT !.slots = s]
<1>1. /\ "slots" \in DOMAIN o /\ "class" \in DOMAIN o
      /\ o.class \notin Entities /\ o.class \notin Aiming /\ o.class # "MATERIAL"
  BY LinkMembers, ProperMembers DEF Entities, Lights, Cameras, Aiming
<1>2. DOMAIN p = DOMAIN o /\ p.class = o.class /\ p.slots = s
  BY <1>1
<1> HIDE DEF p
<1>3. Fit(os, o, p)
  BY <1>1, <1>2 DEF Fit, Proper
<1> QED
  BY <1>3 DEF p

LEMMA SizingFits ==
  ASSUME NEW os, NEW o, Proper(os, o), o.class = "MESH", NEW n \in Nat
  PROVE  /\ Fit(os, o, SetVertexCount(o, n)) /\ Fit(os, o, SetFaceCount(o, n))
         /\ Fit(os, o, SetLineCount(o, n)) /\ Fit(os, o, SetMaterialSlotCount(o, n))
<1>1. /\ Alike(o, SetVertexCount(o, n)) /\ Alike(o, SetFaceCount(o, n))
      /\ Alike(o, SetLineCount(o, n))
  BY DEF Alike, Links, SetVertexCount, SetFaceCount, SetLineCount
<1>2. o.slots \in Seq(At(os, {"MATERIAL"})) /\ 0 \in At(os, {"MATERIAL"})
  BY DEF Proper, At
<1>3. Resized(o.slots, n, 0) \in Seq(At(os, {"MATERIAL"}))
  BY <1>2, ResizedIs
<1> QED
  BY <1>1, <1>3, AlikeFits, SlotsFit DEF SetMaterialSlotCount

LEMMA SlotFits ==
  ASSUME NEW os, NEW o, Proper(os, o), o.class = "MESH", NEW i \in DOMAIN o.slots,
         NEW m \in At(os, {"MATERIAL"})
  PROVE  Fit(os, o, [o EXCEPT !.slots[i] = m])
<1> DEFINE s == [o.slots EXCEPT ![i] = m]
<1>1. o.slots \in Seq(At(os, {"MATERIAL"})) /\ i \in 1 .. Len(o.slots)
  BY LenProperties DEF Proper
<1>2. s \in Seq(At(os, {"MATERIAL"}))
  BY <1>1, ExceptSeq
<1>3. [o EXCEPT !.slots[i] = m] = [o EXCEPT !.slots = s]
  OBVIOUS
<1> HIDE DEF s
<1> QED
  BY <1>2, <1>3, SlotsFit

LEMMA MeshFlagsFit ==
  ASSUME NEW os, NEW o, Proper(os, o), NEW x
  PROVE  /\ Fit(os, o, SetMeshFlags(o, x)) /\ Fit(os, o, SetLitMode(o, x))
         /\ Fit(os, o, SetWrapMode(o, x))
<1>1. Alike(o, SetMeshFlags(o, x)) /\ Alike(o, SetLitMode(o, x)) /\ Alike(o, SetWrapMode(o, x))
  BY DEF Alike, Links, SetMeshFlags, SetLitMode, SetWrapMode
<1> QED
  BY <1>1, AlikeFits

\* The calls of a texture.
TextureResult(o, p) ==
  \/ \E s : p = [o EXCEPT !.slots = s]
  \/ \E i, v : p = [o EXCEPT !.slots[i].image = v] \/ p = [o EXCEPT !.slots[i].name = v]
                 \/ p = [o EXCEPT !.slots[i] = v] \/ p = [o EXCEPT !.mipmaps[i] = v]
  \/ \E v, w : p = [o EXCEPT !.useMipmap = v, !.mipmaps = w]
  \/ \E v : p = [o EXCEPT !.current = v] \/ p = [o EXCEPT !.mipmaps = v] \/ p = o

LEMMA TextureResultFits ==
  ASSUME NEW os, NEW o, Proper(os, o), o.class = "TEXTURE", NEW p, TextureResult(o, p)
  PROVE  Fit(os, o, p)
<1>1. "class" \in DOMAIN o
  BY ProperMembers
<1>2. DOMAIN p = DOMAIN o /\ p.class = "TEXTURE"
  BY <1>1 DEF TextureResult
<1> QED
  BY <1>2, TextureFits

LEMMA TextureCallsFit ==
  ASSUME NEW os, NEW o, Proper(os, o), o.class = "TEXTURE", NEW i, NEW n, NEW v, NEW w, NEW x
  PROVE  /\ Fit(os, o, CreateImage(o, i, v, w)) /\ Fit(os, o, DrawImage(o, i, v))
         /\ Fit(os, o, ReleaseImage(o, i)) /\ Fit(os, o, SetSlotFileName(o, i, v))
         /\ Fit(os, o, LoadImage(o, i, v, w, x)) /\ Fit(os, o, SetCurrentSlot(o, n))
         /\ Fit(os, o, UseMipmap(o, v)) /\ Fit(os, o, SetMipmapLevel(o, n))
         /\ Fit(os, o, [o EXCEPT !.mipmaps[i] = v]) /\ Fit(os, o, SetSlotCount(o, n))
<1>1. /\ TextureResult(o, CreateImage(o, i, v, w)) /\ TextureResult(o, DrawImage(o, i, v))
      /\ TextureResult(o, ReleaseImage(o, i)) /\ TextureResult(o, SetSlotFileName(o, i, v))
  BY Zenon DEF TextureResult, CreateImage, DrawImage, ReleaseImage, SetSlotFileName
<1>2. TextureResult(o, LoadImage(o, i, v, w, x)) /\ TextureResult(o, SetCurrentSlot(o, n))
  BY Zenon DEF TextureResult, LoadImage, SetCurrentSlot
<1>3. TextureResult(o, UseMipmap(o, v)) /\ TextureResult(o, SetMipmapLevel(o, n))
  BY Zenon DEF TextureResult, UseMipmap, SetMipmapLevel
<1>4. TextureResult(o, [o EXCEPT !.mipmaps[i] = v]) /\ TextureResult(o, SetSlotCount(o, n))
  BY Zenon DEF TextureResult, SetSlotCount
<1> QED
  BY <1>1, <1>2, <1>3, <1>4, TextureResultFits

-----------------------------------------------------------------------------
(* The invariant.                                                           *)

\* The document has a chunk for every object, and a copy comes from a document.
DocumentThere ==
  /\ copy # NONE => doc # NONE
  /\ doc # NONE => DOMAIN doc = {"chunks", "files"} /\ DOMAIN doc.chunks = DOMAIN objs

\* Objects are destroyed once.
DestroyedOnce ==
  /\ lost = {} => Living = DOMAIN objs
  /\ lost # {} => calls = MaxCalls

SceneInv ==
  /\ 0 \notin DOMAIN objs
  /\ \A id \in Living : Proper(objs, objs[id])
  /\ AimedAt(objs)

Inv == SceneInv /\ DestroyedOnce /\ LinksAlive /\ DocumentThere /\ LinkedClasses

\* While nobody is destroyed, a pointer leads to an object.
LEMMA AllAlive ==
  ASSUME SceneInv, Living = DOMAIN objs
  PROVE  LinksAlive
<1> SUFFICES ASSUME NEW id \in Living, NEW o, o = objs[id]
             PROVE  /\ (IF o.class \in Entities THEN {o.mesh} \ {0} ELSE Pointers(o)) \subseteq Living
                    /\ o.class \in Aiming => o.target \in Living \cup {0}
  BY DEF LinksAlive
<1>1. \A classes : At(objs, classes) \subseteq Living \cup {0}
  BY DEF At
<1>2. Proper(objs, o)
  BY DEF SceneInv
<1>3. o.class \in Entities => o.mesh \in Living \cup {0}
  BY <1>1, <1>2 DEF Proper
<1>4. o.class \in Aiming => o.target \in Living \cup {0}
  BY <1>1, <1>2 DEF Proper
<1>5. ASSUME o.class \notin Entities
      PROVE  Pointers(o) \subseteq Living
  <2>1. CASE o.class = "MATERIAL"
    <3>1. o.textures \in [1 .. 4 -> Living \cup {0}]
      BY <1>1, <1>2, <2>1 DEF Proper
    <3>2. ToSet(o.textures) \subseteq Living \cup {0}
      BY <3>1 DEF ToSet
    <3> QED
      BY <1>5, <2>1, <3>2 DEF Pointers
  <2>2. CASE o.class = "MESH"
    <3>1. o.slots \in Seq(Living \cup {0})
      BY <1>1, <1>2, <2>2, SeqMonotonic DEF Proper
    <3>2. ToSet(o.slots) \subseteq Living \cup {0}
      BY <3>1, LenProperties DEF ToSet
    <3> QED
      BY <1>5, <2>2, <3>2 DEF Pointers
  <2>3. CASE o.class # "MATERIAL" /\ o.class # "MESH"
    BY <1>5, <2>3 DEF Pointers
  <2> QED
    BY <2>1, <2>2, <2>3
<1> QED
  BY <1>3, <1>4, <1>5

LEMMA AllAliveNext == SceneInv' /\ (Living = DOMAIN objs)' => LinksAlive'
<1>1. SceneInv /\ Living = DOMAIN objs => LinksAlive
  BY AllAlive
<1> QED
  BY <1>1, PTL

\* A call before a destruction leaves everything in order that leaves the scene
\* in order, with its objects.
LEMMA CallKeeps ==
  ASSUME Inv, Editing, DOMAIN objs' = DOMAIN objs, SceneInv',
         \A id \in DOMAIN objs : objs[id] # FREED => objs'[id] # FREED,
         UNCHANGED <<lost, doc, copy>>
  PROVE  Inv'
<1>1. calls # MaxCalls /\ doc = NONE
  BY ObjectDataAssumption DEF Editing
<1>2. lost = {} /\ Living = DOMAIN objs
  BY <1>1 DEF Inv, DestroyedOnce
<1>3. (Living = DOMAIN objs)'
  BY <1>2 DEF Living
<1>4. LinksAlive'
  BY <1>3, AllAliveNext
<1>5. DocumentThere' /\ LinkedClasses'
  BY <1>1 DEF Inv, DocumentThere, LinkedClasses, Loaded
<1>6. DestroyedOnce'
  BY <1>2, <1>3 DEF DestroyedOnce
<1> QED
  BY <1>4, <1>5, <1>6 DEF Inv

LEMMA FitKeeps ==
  ASSUME Inv, Editing, NEW id \in Living, NEW p, Fit(objs, objs[id], p), Changed(id, p)
  PROVE  Inv'
<1>1. objs' = [objs EXCEPT ![id] = p] /\ UNCHANGED <<lost, doc, copy>>
  BY DEF Changed
<1>2. id \in DOMAIN objs /\ objs[id] # FREED
  BY DEF Living
<1>3. \A k \in DOMAIN objs : objs[k] # FREED => Proper(objs, objs[k]) /\ Fit(objs, objs[k], objs[k])
  BY DEF Inv, SceneInv, Living, Fit
<1>4. DOMAIN objs' = DOMAIN objs /\ \A k \in DOMAIN objs : objs'[k] = IF k = id THEN p ELSE objs[k]
  BY <1>1
<1>5. Replaced(objs, objs')
  BY <1>2, <1>3, <1>4 DEF Replaced
<1>6. AimedAt(objs)
  BY DEF Inv, SceneInv
<1> DEFINE after == objs'
<1>7. Replaced(objs, after) /\ DOMAIN after = DOMAIN objs
  BY <1>4, <1>5
<1> HIDE DEF after
<1>8. /\ \A k \in DOMAIN objs : after[k] = FREED <=> objs[k] = FREED
      /\ \A k \in DOMAIN after : after[k] # FREED => Proper(after, after[k])
      /\ AimedAt(after)
  BY <1>3, <1>6, <1>7, ReplacedKeeps
<1>9. SceneInv'
  BY <1>4, <1>8 DEF Inv, SceneInv, Living, after
<1> QED
  BY <1>1, <1>4, <1>8, <1>9, CallKeeps DEF after

-----------------------------------------------------------------------------
(* The calls of the classes.                                                *)

\* What an identifier of the living may be used for.
LEMMA OfAt ==
  ASSUME NEW classes, NEW id \in Of(classes) \cup {0}
  PROVE  id \in At(objs, classes)
BY DEF Of, At, Living

LEMMA FieldKeeps ==
  ASSUME Inv, Editing, NEW id \in Living, SetField(id)
  PROVE  Inv'
<1> DEFINE o == objs[id]
<1>1. PICK f \in PlainFields(o.class) \cap DOMAIN Values : \E v \in Values[f] :
        Changed(id, [o EXCEPT ![f] = v])
  BY DEF SetField
<1>2. PICK v \in Values[f] : Changed(id, [o EXCEPT ![f] = v])
  BY <1>1
<1>3. f \notin Links
  <2>1. /\ f \in EntityFields \cup LightFields \cup CameraFields \cup MaterialFields \cup TextureFields
    BY <1>1 DEF PlainFields
  <2>2. EntityFields \cap Links = {} /\ LightFields \cap Links = {} /\ CameraFields \cap Links = {}
    BY DEF EntityFields, LightFields, CameraFields, Links
  <2>3. MaterialFields \cap Links = {}
    BY DEF MaterialFields, SurfaceFields, Colours, SamplingFields, RasterFields, CompareFields, Links
  <2>4. TextureFields \cap Links = {}
    BY DEF TextureFields, BitmapFields, Links
  <2> QED
    BY <2>1, <2>2, <2>3, <2>4
<1>4. f = "entityFlags" => v \cap Aiming = {}
  BY <1>1, SceneAssumption
<1>5. Proper(objs, o)
  BY DEF Inv, SceneInv
<1> DEFINE p == [o EXCEPT ![f] = v]
<1>6. Fit(objs, o, p)
  BY <1>3, <1>4, <1>5, PlainFits
<1> HIDE DEF p
<1>7. Changed(id, p)
  BY <1>2 DEF p
<1> QED
  BY <1>6, <1>7, FitKeeps

LEMMA ShowKeeps ==
  ASSUME Inv, Editing, NEW id \in Living, Show(id)
  PROVE  Inv'
<1>1. PICK option : Changed(id, ShowOf(objs[id], option))
  BY DEF Show
<1>2. Fit(objs, objs[id], ShowOf(objs[id], option))
  BY ShowFits DEF Inv, SceneInv
<1> QED
  BY <1>1, <1>2, FitKeeps

LEMMA EntityKeeps ==
  ASSUME Inv, Editing, NEW id \in Living, objs[id].class \in Entities, EntityCall(id)
  PROVE  Inv'
<1> DEFINE o == objs[id]
<1>1. Proper(objs, o)
  BY DEF Inv, SceneInv
<1>2. PICK m \in Of({"MESH"}) :
        \/ Changed(id, AddPotentialMesh(o, m))
        \/ Changed(id, RemovePotentialMesh(o, m))
        \/ \E null \in BOOLEAN : Changed(id, SetCurrentMesh(o, IF null THEN 0 ELSE m))
  BY DEF EntityCall
<1>3. CASE Changed(id, AddPotentialMesh(o, m))
  BY <1>1, <1>3, PotentialsFit, FitKeeps
<1>4. CASE Changed(id, RemovePotentialMesh(o, m))
  BY <1>1, <1>4, PotentialsFit, FitKeeps
<1>5. ASSUME NEW null \in BOOLEAN, Changed(id, SetCurrentMesh(o, IF null THEN 0 ELSE m))
      PROVE  Inv'
  <2> DEFINE t == IF null THEN 0 ELSE m
  <2>1. t \in At(objs, {"MESH"})
    BY OfAt DEF At
  <2> HIDE DEF t
  <2>2. Fit(objs, o, SetCurrentMesh(o, t))
    BY <1>1, <2>1, MeshFits
  <2>3. Changed(id, SetCurrentMesh(o, t))
    BY <1>5 DEF t
  <2> QED
    BY <2>2, <2>3, FitKeeps
<1> QED
  BY <1>2, <1>3, <1>4, <1>5

LEMMA LightKeeps ==
  ASSUME Inv, Editing, NEW id \in Living, LightCall(id)
  PROVE  Inv'
<1>1. PICK flag, on : Changed(id, SwitchLight(objs[id], flag, on))
  BY DEF LightCall
<1>2. Fit(objs, objs[id], SwitchLight(objs[id], flag, on))
  BY SwitchesFit DEF Inv, SceneInv
<1> QED
  BY <1>1, <1>2, FitKeeps

LEMMA MaterialKeeps ==
  ASSUME Inv, Editing, NEW id \in Living, objs[id].class = "MATERIAL", MaterialCall(id)
  PROVE  Inv'
<1>1. Proper(objs, objs[id])
  BY DEF Inv, SceneInv
<1>2. ASSUME NEW flag, NEW on, Changed(id, SwitchMaterial(objs[id], flag, on))
      PROVE  Inv'
  BY <1>1, <1>2, SwitchesFit, FitKeeps
<1>3. ASSUME NEW t \in Of({"TEXTURE"}) \cup {0}, NEW i, Changed(id, SetTexture(objs[id], t, i))
      PROVE  Inv'
  <2>1. t \in At(objs, {"TEXTURE"})
    BY OfAt
  <2>2. Fit(objs, objs[id], SetTexture(objs[id], t, i))
    BY <1>1, <2>1, TexturesFit
  <2> QED
    BY <1>3, <2>2, FitKeeps
<1> QED
  BY <1>2, <1>3 DEF MaterialCall

LEMMA MeshSizingKeeps ==
  ASSUME Inv, Editing, NEW id \in Living, objs[id].class = "MESH", MeshSizing(id)
  PROVE  Inv'
<1>1. PICK n \in 0 .. MaxSize :
        \/ Changed(id, SetVertexCount(objs[id], n)) \/ Changed(id, SetFaceCount(objs[id], n))
        \/ Changed(id, SetLineCount(objs[id], n)) \/ Changed(id, SetMaterialSlotCount(objs[id], n))
  BY DEF MeshSizing
<1>2. n \in Nat /\ Proper(objs, objs[id])
  BY ObjectDataAssumption DEF Inv, SceneInv
<1>3. /\ Fit(objs, objs[id], SetVertexCount(objs[id], n)) /\ Fit(objs, objs[id], SetFaceCount(objs[id], n))
      /\ Fit(objs, objs[id], SetLineCount(objs[id], n))
      /\ Fit(objs, objs[id], SetMaterialSlotCount(objs[id], n))
  BY <1>2, SizingFits
<1> QED
  BY <1>1, <1>3, FitKeeps

\* Whole arrays, none of which holds pointers.
LEMMA ArrayKeeps ==
  ASSUME Inv, Editing, NEW id \in Living, NEW a \in VertexArrays \cup FaceArrays \cup {"lines"},
         NEW content, Changed(id, [objs[id] EXCEPT ![a] = content])
  PROVE  Inv'
<1>1. a \notin Links /\ a # "entityFlags"
  BY DEF VertexArrays, FaceArrays, Links
<1> DEFINE p == [objs[id] EXCEPT ![a] = content]
<1>2. Fit(objs, objs[id], p)
  BY <1>1, PlainFits DEF Inv, SceneInv
<1> HIDE DEF p
<1>3. Changed(id, p)
  BY DEF p
<1> QED
  BY <1>2, <1>3, FitKeeps

LEMMA SlotKeeps ==
  ASSUME Inv, Editing, NEW id \in Living, objs[id].class = "MESH",
         NEW m \in Of({"MATERIAL"}) \cup {0}, NEW i \in DOMAIN objs[id].slots,
         Changed(id, [objs[id] EXCEPT !.slots[i] = m])
  PROVE  Inv'
<1> DEFINE p == [objs[id] EXCEPT !.slots[i] = m]
<1>1. m \in At(objs, {"MATERIAL"}) /\ Proper(objs, objs[id])
  BY OfAt DEF Inv, SceneInv
<1>2. Fit(objs, objs[id], p)
  BY <1>1, SlotFits
<1> HIDE DEF p
<1>3. Changed(id, p)
  BY DEF p
<1> QED
  BY <1>2, <1>3, FitKeeps

LEMMA MeshWritingKeeps ==
  ASSUME Inv, Editing, NEW id \in Living, objs[id].class = "MESH", MeshWriting(id)
  PROVE  Inv'
BY ArrayKeeps, SlotKeeps DEF MeshWriting

LEMMA MeshFlaggingKeeps ==
  ASSUME Inv, Editing, NEW id \in Living, MeshFlagging(id)
  PROVE  Inv'
<1>1. PICK x : \/ Changed(id, SetMeshFlags(objs[id], x)) \/ Changed(id, SetLitMode(objs[id], x))
               \/ Changed(id, SetWrapMode(objs[id], x))
  BY DEF MeshFlagging
<1>2. /\ Fit(objs, objs[id], SetMeshFlags(objs[id], x)) /\ Fit(objs, objs[id], SetLitMode(objs[id], x))
      /\ Fit(objs, objs[id], SetWrapMode(objs[id], x))
  BY MeshFlagsFit DEF Inv, SceneInv
<1> QED
  BY <1>1, <1>2, FitKeeps

LEMMA TextureKeeps ==
  ASSUME Inv, Editing, NEW id \in Living, objs[id].class = "TEXTURE", TextureCall(id)
  PROVE  Inv'
<1> DEFINE o == objs[id]
<1>1. Proper(objs, o)
  BY DEF Inv, SceneInv
<1>2. \A i, n, v, w, x :
        /\ Fit(objs, o, CreateImage(o, i, v, w)) /\ Fit(objs, o, DrawImage(o, i, v))
        /\ Fit(objs, o, ReleaseImage(o, i)) /\ Fit(objs, o, SetSlotFileName(o, i, v))
        /\ Fit(objs, o, LoadImage(o, i, v, w, x)) /\ Fit(objs, o, SetCurrentSlot(o, n))
        /\ Fit(objs, o, UseMipmap(o, v)) /\ Fit(objs, o, SetMipmapLevel(o, n))
        /\ Fit(objs, o, [o EXCEPT !.mipmaps[i] = v]) /\ Fit(objs, o, SetSlotCount(o, n))
  BY <1>1, TextureCallsFit
<1> HIDE DEF o
<1>3. PICK p : Fit(objs, o, p) /\ Changed(id, p)
  <2>1. CASE \E n \in 0 .. MaxSize : Changed(id, SetSlotCount(o, n))
    BY <1>2, <2>1
  <2>2. CASE SlotCall(id)
    BY <1>2, <2>2, Zenon DEF SlotCall, o
  <2>3. CASE MipmapCall(id)
    BY <1>2, <2>3, Zenon DEF MipmapCall, o
  <2> QED
    BY <2>1, <2>2, <2>3 DEF TextureCall, o
<1> QED
  BY <1>3, FitKeeps DEF o

-----------------------------------------------------------------------------
(* Targets.                                                                 *)

\* Objects in the place of others: the same but for marks and targets.
Moved(os, after) ==
  /\ DOMAIN after = DOMAIN os
  /\ \A k \in DOMAIN os :
       IF os[k] = FREED THEN after[k] = FREED
       ELSE /\ DOMAIN after[k] = DOMAIN os[k]
            /\ \A m \in (Links \ {"target"}) \cap DOMAIN os[k] : after[k][m] = os[k][m]

LEMMA MovedKeeps ==
  ASSUME NEW os, NEW after, \A k \in DOMAIN os : os[k] # FREED => Proper(os, os[k]),
         Moved(os, after),
         \A k \in DOMAIN os : os[k] # FREED /\ os[k].class \in Aiming =>
           after[k].target \in At(os, Entities)
  PROVE  /\ \A k \in DOMAIN os : after[k] = FREED <=> os[k] = FREED
         /\ \A k \in DOMAIN os : os[k] # FREED => after[k].class = os[k].class
         /\ \A k \in DOMAIN after : after[k] # FREED => Proper(after, after[k])
<1>1. DOMAIN after = DOMAIN os
  BY DEF Moved
<1>2. ASSUME NEW k \in DOMAIN os, os[k] # FREED
      PROVE  /\ DOMAIN after[k] = DOMAIN os[k] /\ after[k].class = os[k].class
             /\ os[k].class \in Entities => after[k].mesh = os[k].mesh
             /\ os[k].class = "MATERIAL" => after[k].textures = os[k].textures
             /\ os[k].class = "MESH" => after[k].slots = os[k].slots
  <2>1. Proper(os, os[k])
    BY <1>2
  <2>2. "class" \in DOMAIN os[k]
    BY <2>1, ProperMembers
  <2>3. /\ os[k].class \in Entities => "mesh" \in DOMAIN os[k]
        /\ os[k].class = "MATERIAL" => "textures" \in DOMAIN os[k]
        /\ os[k].class = "MESH" => "slots" \in DOMAIN os[k]
    BY <2>1, LinkMembers
  <2> QED
    BY <1>2, <2>2, <2>3 DEF Moved, Links
<1>3. \A k \in DOMAIN os : after[k] = FREED <=> os[k] = FREED
  <2> SUFFICES ASSUME NEW k \in DOMAIN os
               PROVE  after[k] = FREED <=> os[k] = FREED
    OBVIOUS
  <2>1. CASE os[k] = FREED
    BY <2>1 DEF Moved
  <2>2. CASE os[k] # FREED
    <3>1. "class" \in DOMAIN after[k]
      BY <1>2, <2>2, ProperMembers
    <3> QED
      BY <2>2, <3>1, ObjectDataAssumption
  <2> QED
    BY <2>1, <2>2
<1>4. \A classes : At(after, classes) = At(os, classes)
  BY <1>1, <1>2, <1>3 DEF At
<1>5. ASSUME NEW k \in DOMAIN after, after[k] # FREED
      PROVE  Proper(after, after[k])
  <2>1. k \in DOMAIN os /\ os[k] # FREED /\ Proper(os, os[k])
    BY <1>1, <1>3, <1>5
  <2>2. os[k].class \in Aiming => after[k].target \in At(os, Entities)
    BY <2>1
  <2> QED
    BY <1>2, <1>4, <2>1, <2>2 DEF Proper
<1> QED
  BY <1>2, <1>3, <1>5

LEMMA AimingMembers ==
  ASSUME NEW os, NEW o, Proper(os, o), o.class \in Aiming
  PROVE  /\ o.class \in Entities /\ "target" \in DOMAIN o /\ "entityFlags" \in DOMAIN o
         /\ MarkOf(o.class) = o.class
<1>1. o.class \in Entities
  BY DEF Aiming, Entities, Lights, Cameras
<1> QED
  BY <1>1, ProperMembers, LinkMembers DEF MarkOf, Aiming

LEMMA SetTargetKeeps ==
  ASSUME NEW os, 0 \notin DOMAIN os, \A k \in DOMAIN os : os[k] # FREED => Proper(os, os[k]),
         AimedAt(os), NEW id \in DOMAIN os, os[id] # FREED, os[id].class \in Aiming,
         NEW t, t = 0 \/ (t \in DOMAIN os /\ os[t] # FREED /\ os[t].class \in Entities),
         NEW after, after = SetTarget(os, id, t)
  PROVE  /\ DOMAIN after = DOMAIN os
         /\ \A k \in DOMAIN os : after[k] = FREED <=> os[k] = FREED
         /\ \A k \in DOMAIN after : after[k] # FREED => Proper(after, after[k])
         /\ AimedAt(after)
<1>1. CASE t = id
  BY <1>1 DEF SetTarget
<1>2. CASE t # id
  <2> DEFINE mark == os[id].class
             old == os[id].target
             A(k) == IF k # old \/ os[k] = FREED THEN os[k] ELSE Unmarked(os[k], {mark})
             B(k) == IF k # t THEN A(k)
                     ELSE [A(k) EXCEPT !.entityFlags = (@ \cup {mark}) \ {"FRAME"}]
  <2>1. MarkOf(mark) = mark
    BY AimingMembers
  <2>2. /\ DOMAIN after = DOMAIN os
        /\ \A k \in DOMAIN os : after[k] = IF k = id THEN [B(k) EXCEPT !.target = t] ELSE B(k)
    <3> DEFINE first == [k \in DOMAIN os |->
                 IF k # old \/ os[k] = FREED THEN os[k] ELSE Unmarked(os[k], {mark})]
               second == [k \in DOMAIN os |->
                 IF k # t THEN first[k]
                 ELSE [first[k] EXCEPT !.entityFlags = (@ \cup {mark}) \ {"FRAME"}]]
    <3>1. after = [second EXCEPT ![id].target = t]
      BY <1>2, <2>1 DEF SetTarget
    <3>2. \A k \in DOMAIN os : first[k] = A(k)
      OBVIOUS
    <3>3. DOMAIN second = DOMAIN os
      OBVIOUS
    <3> HIDE DEF first, A
    <3>4. \A k \in DOMAIN os : second[k] = B(k)
      BY <3>2
    <3> HIDE DEF second, B
    <3> QED
      BY <3>1, <3>3, <3>4
  <2>3. ASSUME NEW k \in DOMAIN os, os[k] # FREED
        PROVE  /\ DOMAIN B(k) = DOMAIN os[k]
               /\ \A m \in DOMAIN os[k] \ {"entityFlags"} : B(k)[m] = os[k][m]
               /\ "entityFlags" \in DOMAIN os[k] =>
                    \A x \in Aiming : x \in B(k).entityFlags =>
                      \/ k = t /\ x = mark
                      \/ x \in os[k].entityFlags /\ ~ (k = old /\ x = mark)
    <3>1. /\ DOMAIN A(k) = DOMAIN os[k]
          /\ \A m \in DOMAIN os[k] \ {"entityFlags"} : A(k)[m] = os[k][m]
          /\ "entityFlags" \in DOMAIN os[k] =>
               \A x \in Aiming : x \in A(k).entityFlags => x \in os[k].entityFlags /\ ~ (k = old /\ x = mark)
      <4>1. CASE k # old
        BY <4>1
      <4>2. CASE k = old
        <5>1. A(k) = Unmarked(os[k], {mark})
          BY <2>3, <4>2
        <5>2. "FRAME" \notin Aiming
          BY DEF Aiming
        <5> HIDE DEF A
        <5> QED
          BY <4>2, <5>1, <5>2 DEF Unmarked
      <4> QED
        BY <4>1, <4>2
    <3> HIDE DEF A
    <3> QED
      BY <3>1
  <2>4. \A k \in DOMAIN os : os[k] = FREED => B(k) = FREED
    OBVIOUS
  <2> HIDE DEF B, A
  <2>5. ASSUME NEW k \in DOMAIN os, os[k] # FREED
        PROVE  /\ DOMAIN after[k] = DOMAIN os[k]
               /\ \A m \in DOMAIN os[k] \ {"entityFlags", "target"} : after[k][m] = os[k][m]
               /\ "target" \in DOMAIN os[k] => after[k].target = IF k = id THEN t ELSE os[k].target
               /\ "entityFlags" \in DOMAIN os[k] =>
                    \A x \in Aiming : x \in after[k].entityFlags =>
                      \/ k = t /\ x = mark
                      \/ x \in os[k].entityFlags /\ ~ (k = old /\ x = mark)
    BY <2>2, <2>3, <2>5
  <2>6. Moved(os, after)
    BY <2>2, <2>4, <2>5 DEF Moved, Links
  <2>7. ASSUME NEW k \in DOMAIN os, os[k] # FREED, os[k].class \in Aiming
        PROVE  /\ after[k].target = IF k = id THEN t ELSE os[k].target
               /\ after[k].target \in At(os, Entities)
    BY <2>5, <2>7, AimingMembers DEF At, Proper
  <2>8. /\ \A k \in DOMAIN os : after[k] = FREED <=> os[k] = FREED
        /\ \A k \in DOMAIN os : os[k] # FREED => after[k].class = os[k].class
        /\ \A k \in DOMAIN after : after[k] # FREED => Proper(after, after[k])
    BY <2>6, <2>7, MovedKeeps
  <2>9. AimedAt(after)
    <3> SUFFICES ASSUME NEW k \in DOMAIN os, NEW x \in Aiming, after[k] # FREED,
                        after[k].class \in Entities, x \in after[k].entityFlags
                 PROVE  \E j \in DOMAIN os :
                          after[j] # FREED /\ after[j].class = x /\ after[j].target = k
      BY <2>2 DEF AimedAt
    <3>1. os[k] # FREED /\ os[k].class \in Entities
      BY <2>8
    <3>2. "entityFlags" \in DOMAIN os[k]
      BY <3>1, LinkMembers
    <3>3. CASE k = t /\ x = mark
      BY <2>7, <2>8, <3>3
    <3>4. CASE x \in os[k].entityFlags /\ ~ (k = old /\ x = mark)
      <4>1. PICK j \in DOMAIN os : os[j] # FREED /\ os[j].class = x /\ os[j].target = k
        BY <3>1, <3>4 DEF AimedAt
      <4>2. j # id
        BY <3>4, <4>1
      <4> QED
        BY <2>7, <2>8, <4>1, <4>2
    <3> QED
      BY <2>5, <3>1, <3>2, <3>3, <3>4
  <2> QED
    BY <2>2, <2>8, <2>9
<1> QED
  BY <1>1, <1>2

LEMMA TargetKeeps ==
  ASSUME Inv, Editing, NEW id \in Living, objs[id].class \in Aiming, TargetCall(id)
  PROVE  Inv'
<1>1. PICK t \in Of(Entities) \cup {0} : objs' = SetTarget(objs, id, t)
  BY DEF TargetCall
<1>2. UNCHANGED <<lost, doc, copy>>
  BY DEF TargetCall
<1>3. t = 0 \/ (t \in DOMAIN objs /\ objs[t] # FREED /\ objs[t].class \in Entities)
  BY DEF Of, Living
<1>4. /\ 0 \notin DOMAIN objs /\ AimedAt(objs) /\ id \in DOMAIN objs /\ objs[id] # FREED
      /\ \A k \in DOMAIN objs : objs[k] # FREED => Proper(objs, objs[k])
  BY DEF Inv, SceneInv, Living
<1> DEFINE after == objs'
<1>5. after = SetTarget(objs, id, t)
  BY <1>1
<1> HIDE DEF after
<1>6. /\ DOMAIN after = DOMAIN objs
      /\ \A k \in DOMAIN objs : after[k] = FREED <=> objs[k] = FREED
      /\ \A k \in DOMAIN after : after[k] # FREED => Proper(after, after[k])
      /\ AimedAt(after)
  BY <1>3, <1>4, <1>5, SetTargetKeeps
<1>7. SceneInv'
  BY <1>4, <1>6 DEF SceneInv, Living, after
<1> QED
  BY <1>2, <1>6, <1>7, CallKeeps DEF after

-----------------------------------------------------------------------------
(* Steps that leave the objects alone.                                      *)

LEMMA FrameKeeps ==
  ASSUME Inv, UNCHANGED <<objs, lost, copy>>, lost # {} => calls' = calls, DocumentThere'
  PROVE  Inv'
<1>1. SceneInv'
  BY DEF Inv, SceneInv, Living
<1>2. DestroyedOnce'
  BY DEF Inv, DestroyedOnce, Living
<1>3. LinksAlive'
  BY DEF Inv, LinksAlive, Living
<1>4. LinkedClasses'
  <2>1. Living' = Living
    BY DEF Living
  <2>2. ClassAt' = ClassAt
    BY <2>1 DEF ClassAt
  <2> QED
    BY <2>1, <2>2 DEF Inv, LinkedClasses, Loaded
<1> QED
  BY <1>1, <1>2, <1>3, <1>4 DEF Inv

LEMMA SameDocument ==
  ASSUME Inv, UNCHANGED <<objs, doc, copy>>
  PROVE  DocumentThere'
BY DEF Inv, DocumentThere

\* A call that only writes to the disk or to the options of the context.
LEMMA OutsideKeeps ==
  ASSUME Inv, Editing, UNCHANGED <<objs, lost, doc, copy>>
  PROVE  Inv'
<1>1. lost = {}
  BY ObjectDataAssumption DEF Inv, DestroyedOnce, Editing
<1> QED
  BY <1>1, FrameKeeps, SameDocument

LEMMA ElsewhereKeeps ==
  ASSUME Inv, Elsewhere
  PROVE  Inv'
<1>1. ASSUME NEW what, NEW id, NEW section, NEW s, Saved, Rewritten(what, id, section, s)
      PROVE  Inv'
  <2>1. UNCHANGED <<objs, lost, calls, copy>> /\ copy = NONE /\ doc # NONE
    BY <1>1 DEF Saved, Rewritten
  <2>2. DOMAIN doc = {"chunks", "files"} /\ DOMAIN doc.chunks = DOMAIN objs
    BY <2>1 DEF Inv, DocumentThere
  <2>3. DOMAIN doc' = DOMAIN doc /\ DOMAIN doc'.chunks = DOMAIN doc.chunks
    BY <1>1, <2>2 DEF Rewritten
  <2>4. DocumentThere'
    BY <2>1, <2>2, <2>3 DEF DocumentThere
  <2> QED
    BY <2>1, <2>4, FrameKeeps
<1>2. CASE Saved /\ \E id \in Living :
             \/ objs[id].class \in Entities /\ WithHierarchy(id)
             \/ WithOtherLinks(id)
             \/ WithOtherData(id)
  <2>1. PICK what, id, section, s : Rewritten(what, id, section, s)
    BY <1>2 DEF WithHierarchy, WithOtherLinks, WithOtherData
  <2> QED
    BY <1>1, <1>2, <2>1
<1>3. CASE \/ \E n \in Name : OtherDocument(n.base) \/ AddPath(n.dir)
           \/ ClearPath
  <2>1. UNCHANGED <<objs, lost, calls, doc, copy>>
    BY <1>3 DEF OtherDocument, AddPath, ClearPath
  <2> QED
    BY <2>1, FrameKeeps, SameDocument
<1> QED
  BY <1>2, <1>3 DEF Elsewhere

LEMMA FaultKeeps ==
  ASSUME Inv, SaveFaults \/ LoadThrows \/ \E del : DestroyFaults(del)
  PROVE  Inv'
<1>1. UNCHANGED <<objs, lost, calls, doc, copy>>
  BY DEF SaveFaults, LoadThrows, DestroyFaults
<1> QED
  BY <1>1, FrameKeeps, SameDocument

\* Every call of an object, by its class.
LEMMA CallsKeep ==
  ASSUME Inv, Editing, NEW id \in Living, Call(id)
  PROVE  Inv'
<1>1. CASE SetField(id)
  BY <1>1, FieldKeeps
<1>2. CASE Show(id)
  BY <1>2, ShowKeeps
<1>3. CASE objs[id].class \in Entities /\ EntityCall(id)
  BY <1>3, EntityKeeps
<1>4. CASE objs[id].class \in Lights /\ LightCall(id)
  BY <1>4, LightKeeps
<1>5. CASE objs[id].class \in Aiming /\ TargetCall(id)
  BY <1>5, TargetKeeps
<1>6. CASE objs[id].class = "MATERIAL" /\ MaterialCall(id)
  BY <1>6, MaterialKeeps
<1>7. CASE objs[id].class = "MESH" /\ (MeshSizing(id) \/ MeshWriting(id) \/ MeshFlagging(id))
  BY <1>7, MeshSizingKeeps, MeshWritingKeeps, MeshFlaggingKeeps
<1>8. CASE objs[id].class = "TEXTURE" /\ TextureCall(id)
  BY <1>8, TextureKeeps
<1>9. CASE objs[id].class = "TEXTURE" /\ SaveImageFile(id)
  BY <1>9, OutsideKeeps DEF SaveImageFile
<1> QED
  BY <1>1, <1>2, <1>3, <1>4, <1>5, <1>6, <1>7, <1>8, <1>9 DEF Call

-----------------------------------------------------------------------------
(* The calls of BMap.                                                       *)

\* What the check of an identifier says about its object.
LEMMA CheckedIs ==
  ASSUME NEW id, NEW asked, CheckGenericObject(id, asked)
  PROVE  /\ id \in Living
         /\ asked \in {"TEXTURE", "MATERIAL", "MESH"} => objs[id].class = asked
         /\ asked = "3DENTITY" => objs[id].class \in Entities
         /\ asked = "LIGHT" => objs[id].class \in Lights
         /\ asked = "CAMERA" => objs[id].class \in Cameras
<1>1. id \in Living /\ objs[id].class \in OfferedHere
  BY DEF CheckGenericObject, Of
<1>2. CKIsChildClassOf(objs[id].class, asked)
  BY DEF CheckGenericObject
<1>3. /\ Parent("3DENTITY") = "OBJECT" /\ Parent("MESH") = "OBJECT" /\ Parent("MATERIAL") = "OBJECT"
      /\ Parent("TEXTURE") = "OBJECT" /\ Parent("OBJECT") = "OBJECT"
      /\ Parent("TARGETLIGHT") = "LIGHT" /\ Parent("TARGETCAMERA") = "CAMERA"
      /\ Parent("LIGHT") = "3DENTITY" /\ Parent("CAMERA") = "3DENTITY"
  BY DEF Parent, Aiming
<1> QED
  BY <1>1, <1>2, <1>3 DEF CKIsChildClassOf, OfferedHere, Entities, Lights, Cameras

LEMMA WrittenFits ==
  ASSUME NEW os, NEW o, Proper(os, o), NEW m \in DOMAIN o, m \notin Links, m # "entityFlags", NEW v
  PROVE  Fit(os, o, Written(o, m, v))
<1>1. Alike(o, Written(o, m, v))
  BY DEF Alike, Written, Links
<1> QED
  BY <1>1, AlikeFits

\* The members BMap writes to, with the class they are of.
Settable(class, m) ==
  /\ m \notin Links /\ m # "entityFlags"
  /\ \A os, o : Proper(os, o) /\ o.class = class => m \in DOMAIN o

LEMMA SettableTexture ==
  ASSUME NEW m \in BMTextureMembers
  PROVE  Settable("TEXTURE", m)
<1>1. m \notin Links /\ m # "entityFlags"
  BY DEF BMTextureMembers, Links
<1>2. m \in TextureMembers
  BY DEF BMTextureMembers, TextureMembers, TextureFields, BitmapFields
<1> QED
  BY <1>1, <1>2, ProperMembers DEF Settable

LEMMA SettableMaterial ==
  ASSUME NEW m \in BMMaterialSurface \cup BMMaterialBorder \cup BMMaterialSampling
                    \cup BMMaterialRaster \cup BMMaterialCompare
  PROVE  Settable("MATERIAL", m)
<1>1. m \in MaterialFields
  BY DEF BMMaterialSurface, BMMaterialBorder, BMMaterialSampling, BMMaterialRaster,
         BMMaterialCompare, MaterialFields, SurfaceFields, SamplingFields, RasterFields, CompareFields
<1>2. m \notin Links /\ m # "entityFlags"
  BY <1>1 DEF MaterialFields, SurfaceFields, Colours, SamplingFields, RasterFields, CompareFields, Links
<1> QED
  BY <1>1, <1>2, ProperMembers DEF Settable, MaterialMembers

LEMMA SettableEntity ==
  ASSUME NEW class \in Entities
  PROVE  /\ \A m \in BM3dEntityMembers : Settable(class, m)
         /\ class \in Lights => \A m \in BMLightMembers : Settable(class, m)
         /\ class \in Cameras => \A m \in BMCameraMembers \cup {"width", "height"} : Settable(class, m)
<1>1. \A m \in BM3dEntityMembers \cup BMLightMembers \cup BMCameraMembers \cup {"width", "height"} :
        m \notin Links /\ m # "entityFlags"
  BY DEF BM3dEntityMembers, BMLightMembers, BMCameraMembers, Links
<1>2. BM3dEntityMembers \subseteq EntityMembers
  BY DEF BM3dEntityMembers, EntityMembers
<1>3. BMLightMembers \subseteq LightMembers
  BY DEF BMLightMembers, LightMembers
<1>4. BMCameraMembers \cup {"width", "height"} \subseteq CameraMembers
  BY DEF BMCameraMembers, CameraMembers
<1>5. \A os, o : Proper(os, o) /\ o.class = class =>
        /\ EntityMembers \subseteq DOMAIN o
        /\ class \in Lights => LightMembers \subseteq DOMAIN o
        /\ class \in Cameras => CameraMembers \subseteq DOMAIN o
  BY ProperMembers DEF MembersOf, Lights, Cameras
<1> QED
  BY <1>1, <1>2, <1>3, <1>4, <1>5 DEF Settable

LEMMA AssignedKeeps ==
  ASSUME Inv, Editing, NEW id \in Living, Members(id)
  PROVE  Inv'
<1>1. Proper(objs, objs[id])
  BY DEF Inv, SceneInv
<1>2. ASSUME NEW asked, NEW members, Assigned(id, asked, members),
             \A m \in members : Settable(objs[id].class, m)
      PROVE  Inv'
  <2>1. PICK m \in members : \E v : Changed(id, Written(objs[id], m, v))
    BY <1>2 DEF Assigned
  <2>2. PICK v : Changed(id, Written(objs[id], m, v))
    BY <2>1
  <2>3. Fit(objs, objs[id], Written(objs[id], m, v))
    BY <1>1, <1>2, WrittenFits DEF Settable
  <2> QED
    BY <2>2, <2>3, FitKeeps
<1>3. CASE Assigned(id, "TEXTURE", BMTextureMembers)
  <2>1. objs[id].class = "TEXTURE"
    BY <1>3, CheckedIs DEF Assigned
  <2> QED
    BY <1>2, <1>3, <2>1, SettableTexture
<1>4. CASE Assigned(id, "MATERIAL", BMMaterialSurface \cup BMMaterialBorder \cup BMMaterialSampling
                                      \cup BMMaterialRaster \cup BMMaterialCompare)
  <2>1. objs[id].class = "MATERIAL"
    BY <1>4, CheckedIs DEF Assigned
  <2> QED
    BY <1>2, <1>4, <2>1, SettableMaterial
<1>5. CASE Assigned(id, "3DENTITY", BM3dEntityMembers)
  <2>1. objs[id].class \in Entities
    BY <1>5, CheckedIs DEF Assigned
  <2> QED
    BY <1>2, <1>5, <2>1, SettableEntity
<1>6. CASE Assigned(id, "LIGHT", BMLightMembers)
  <2>1. objs[id].class \in Lights /\ objs[id].class \in Entities
    BY <1>6, CheckedIs DEF Assigned, Entities
  <2> QED
    BY <1>2, <1>6, <2>1, SettableEntity
<1>7. CASE Assigned(id, "CAMERA", BMCameraMembers)
  <2>1. objs[id].class \in Cameras /\ objs[id].class \in Entities
    BY <1>7, CheckedIs DEF Assigned, Entities
  <2> QED
    BY <1>2, <1>7, <2>1, SettableEntity
<1> QED
  BY <1>3, <1>4, <1>5, <1>6, <1>7 DEF Members

\* An identifier of an object of another class is taken for null.
LEMMA OrNullAt ==
  ASSUME NEW id, NEW asked \in {"TEXTURE", "MATERIAL", "MESH"}
  PROVE  OrNull(id, asked) \in At(objs, {asked})
BY CheckedIs DEF OrNull, At, Living

LEMMA LinkingKeeps ==
  ASSUME Inv, Editing, NEW id \in Living, Linking(id)
  PROVE  Inv'
<1>1. Proper(objs, objs[id])
  BY DEF Inv, SceneInv
<1>2. ASSUME NEW other, BMMaterial_SetTexture(id, other)
      PROVE  Inv'
  <2> DEFINE t == OrNull(other, "TEXTURE")
  <2>1. t \in At(objs, {"TEXTURE"}) /\ objs[id].class = "MATERIAL"
    BY <1>2, OrNullAt, CheckedIs DEF BMMaterial_SetTexture
  <2>2. Changed(id, SetTexture(objs[id], t, 1))
    BY <1>2 DEF BMMaterial_SetTexture
  <2> HIDE DEF t
  <2>3. Fit(objs, objs[id], SetTexture(objs[id], t, 1))
    BY <1>1, <2>1, TexturesFit
  <2> QED
    BY <2>2, <2>3, FitKeeps
<1>3. ASSUME NEW other, BM3dEntity_SetCurrentMesh(id, other)
      PROVE  Inv'
  <2> DEFINE m == OrNull(other, "MESH")
  <2>1. m \in At(objs, {"MESH"}) /\ objs[id].class \in Entities
    BY <1>3, OrNullAt, CheckedIs DEF BM3dEntity_SetCurrentMesh
  <2>2. Changed(id, SetCurrentMesh(objs[id], m))
    BY <1>3 DEF BM3dEntity_SetCurrentMesh
  <2> HIDE DEF m
  <2>3. Fit(objs, objs[id], SetCurrentMesh(objs[id], m))
    BY <1>1, <2>1, MeshFits
  <2> QED
    BY <2>2, <2>3, FitKeeps
<1>4. ASSUME NEW other, NEW index, BMMesh_SetMaterialSlot(id, index, other)
      PROVE  Inv'
  <2> DEFINE m == OrNull(other, "MATERIAL")
             p == [objs[id] EXCEPT !.slots[index] = m]
  <2>1. m \in At(objs, {"MATERIAL"}) /\ objs[id].class = "MESH"
    BY <1>4, OrNullAt, CheckedIs DEF BMMesh_SetMaterialSlot
  <2>2. Changed(id, p) /\ index \in DOMAIN objs[id].slots
    BY <1>4 DEF BMMesh_SetMaterialSlot
  <2> HIDE DEF m
  <2>3. Fit(objs, objs[id], p)
    BY <1>1, <2>1, <2>2, SlotFits
  <2> HIDE DEF p
  <2> QED
    BY <2>2, <2>3, FitKeeps
<1> QED
  BY <1>2, <1>3, <1>4 DEF Linking

LEMMA OtherKeeps ==
  ASSUME Inv, Editing, NEW id \in Living, OtherCall(id)
  PROVE  Inv'
<1>1. Proper(objs, objs[id])
  BY DEF Inv, SceneInv
<1>2. ASSUME NEW name, BMTexture_LoadImage(id, name)
      PROVE  Inv'
  <2> DEFINE o == objs[id]
             s == IF o.slots = <<>> THEN SetSlotCount(o, 1) ELSE o
             p == LoadImage(s, 1, name, disk, extra)
  <2>1. o.class = "TEXTURE" /\ Changed(id, p)
    BY <1>2, CheckedIs DEF BMTexture_LoadImage
  <2>2. "class" \in DOMAIN o
    BY <1>1, ProperMembers
  <2>3. DOMAIN s = DOMAIN o /\ s.class = o.class
    BY <2>2 DEF SetSlotCount
  <2> HIDE DEF s
  <2>4. DOMAIN p = DOMAIN o /\ p.class = o.class
    BY <2>2, <2>3 DEF LoadImage
  <2> HIDE DEF p
  <2>5. Fit(objs, o, p)
    BY <1>1, <2>1, <2>4, TextureFits
  <2> QED
    BY <2>1, <2>5, FitKeeps
<1>3. ASSUME NEW name, BMTexture_SaveImage(id, name)
      PROVE  Inv'
  BY <1>3, OutsideKeeps DEF BMTexture_SaveImage
<1>4. ASSUME NEW flag, NEW on, BMMaterialSwitch(id, flag, on)
      PROVE  Inv'
  BY <1>1, <1>4, SwitchesFit, FitKeeps DEF BMMaterialSwitch
<1>5. ASSUME NEW mode, BMMesh_SetLitMode(id, mode)
      PROVE  Inv'
  BY <1>1, <1>5, MeshFlagsFit, FitKeeps DEF BMMesh_SetLitMode
<1>6. ASSUME NEW n \in 0 .. MaxSize, BMMeshCounts(id, n)
      PROVE  Inv'
  <2>1. objs[id].class = "MESH" /\ n \in Nat
    BY <1>6, CheckedIs, ObjectDataAssumption DEF BMMeshCounts
  <2>2. /\ Fit(objs, objs[id], SetVertexCount(objs[id], n))
        /\ Fit(objs, objs[id], SetFaceCount(objs[id], n))
        /\ Fit(objs, objs[id], SetMaterialSlotCount(objs[id], n))
    BY <1>1, <2>1, SizingFits
  <2> QED
    BY <1>6, <2>2, FitKeeps DEF BMMeshCounts
<1>7. CASE BMMeshWrite(id)
  BY <1>7, ArrayKeeps DEF BMMeshWrite, BMMeshArrays, VertexArrays, FaceArrays
<1>8. ASSUME NEW visible, BM3dEntity_SetVisibility(id, visible)
      PROVE  Inv'
  <2> DEFINE option == IF visible THEN "SHOW" ELSE "HIDE"
  <2>1. objs[id].class \in Entities /\ Changed(id, ShowEntity(objs[id], option))
    BY <1>8, CheckedIs DEF BM3dEntity_SetVisibility
  <2> HIDE DEF option
  <2>2. ShowOf(objs[id], option) = ShowEntity(objs[id], option)
    BY <2>1 DEF ShowOf, Entities, Lights, Cameras
  <2>3. Fit(objs, objs[id], ShowEntity(objs[id], option))
    BY <1>1, <2>2, ShowFits
  <2> QED
    BY <2>1, <2>3, FitKeeps
<1>9. ASSUME NEW w, NEW h, BMCamera_SetAspectRatio(id, w, h)
      PROVE  Inv'
  <2> DEFINE o == objs[id]
             p == Written(Written(o, "width", w), "height", h)
  <2>1. o.class \in Cameras /\ o.class \in Entities /\ Changed(id, p)
    BY <1>9, CheckedIs DEF BMCamera_SetAspectRatio, Entities
  <2>2. "width" \in DOMAIN o /\ "height" \in DOMAIN o
    BY <1>1, <2>1, SettableEntity DEF Settable
  <2>3. Alike(o, p)
    BY <2>2 DEF Alike, Written, Links
  <2> HIDE DEF p
  <2> QED
    BY <1>1, <2>1, <2>3, AlikeFits, FitKeeps
<1> QED
  BY <1>2, <1>3, <1>4, <1>5, <1>6, <1>7, <1>8, <1>9 DEF OtherCall

-----------------------------------------------------------------------------
(* Destruction.                                                             *)

\* The objects an object leads to.
Leads(o) ==
  (IF o.class \in Entities THEN {o.mesh} \ {0} ELSE Pointers(o))
    \cup (IF o.class \in Aiming THEN {o.target} \ {0} ELSE {})

LEMMA WishesIs ==
  ASSUME NEW class
  PROVE  /\ class \in Aiming => Wishes(class) = Entities \cup {"MESH"}
         /\ class \in Entities => "MESH" \in Wishes(class)
         /\ class = "MATERIAL" => Wishes(class) = {"TEXTURE"}
         /\ class = "MESH" => Wishes(class) = {"MATERIAL"}
<1>1. CASE class \in Aiming
  BY <1>1 DEF Wishes, Aiming
<1>2. CASE class \in Entities \ Aiming
  BY <1>2 DEF Wishes, Entities, Lights, Cameras
<1>3. CASE class \notin Entities /\ class \notin Aiming
  BY <1>3 DEF Wishes
<1> QED
  BY <1>1, <1>2, <1>3 DEF Aiming, Entities, Lights, Cameras

LEMMA LeadsTo ==
  ASSUME NEW os, NEW o, Proper(os, o), NEW t \in Leads(o)
  PROVE  t \in DOMAIN os /\ (os[t] = FREED \/ os[t].class \in Wishes(o.class))
<1>1. ASSUME o.class \in Entities, t = o.mesh
      PROVE  t \in At(os, {"MESH"}) /\ "MESH" \in Wishes(o.class)
  BY <1>1, WishesIs DEF Proper
<1>2. ASSUME o.class \in Aiming, t = o.target
      PROVE  t \in At(os, Entities) /\ Entities \subseteq Wishes(o.class)
  BY <1>2, WishesIs DEF Proper
<1>3. ASSUME o.class = "MATERIAL", t \in Pointers(o)
      PROVE  t \in At(os, {"TEXTURE"}) /\ Wishes(o.class) = {"TEXTURE"}
  <2>1. o.textures \in [1 .. 4 -> At(os, {"TEXTURE"})]
    BY <1>3 DEF Proper
  <2>2. Pointers(o) = ToSet(o.textures) \ {0} /\ Wishes(o.class) = {"TEXTURE"}
    BY <1>3, WishesIs DEF Pointers, Entities, Lights, Cameras
  <2> QED
    BY <1>3, <2>1, <2>2 DEF ToSet
<1>4. ASSUME o.class = "MESH", t \in Pointers(o)
      PROVE  t \in At(os, {"MATERIAL"}) /\ Wishes(o.class) = {"MATERIAL"}
  <2>1. o.slots \in Seq(At(os, {"MATERIAL"}))
    BY <1>4 DEF Proper
  <2>2. \A i \in DOMAIN o.slots : o.slots[i] \in At(os, {"MATERIAL"})
    BY <2>1, LenProperties
  <2>3. Pointers(o) = ToSet(o.slots) \ {0} /\ Wishes(o.class) = {"MATERIAL"}
    BY <1>4, WishesIs DEF Pointers, Entities, Lights, Cameras
  <2> QED
    BY <1>4, <2>2, <2>3 DEF ToSet
<1>5. t # 0
  BY DEF Leads, Pointers
<1>6. \/ o.class \in Entities /\ t = o.mesh
      \/ o.class \in Aiming /\ t = o.target
      \/ o.class \in {"MATERIAL", "MESH"} /\ t \in Pointers(o)
  <2>1. o.class \notin Entities \cup {"MATERIAL", "MESH"} => Pointers(o) = {}
    BY DEF Pointers
  <2> QED
    BY <2>1 DEF Leads
<1>7. PICK classes : t \in At(os, classes) /\ classes \subseteq Wishes(o.class)
  <2>1. CASE o.class \in Entities /\ t = o.mesh
    BY <1>1, <2>1
  <2>2. CASE o.class \in Aiming /\ t = o.target
    BY <1>2, <2>2
  <2>3. CASE o.class = "MATERIAL" /\ t \in Pointers(o)
    BY <1>3, <2>3
  <2>4. CASE o.class = "MESH" /\ t \in Pointers(o)
    BY <1>4, <2>4
  <2> QED
    BY <1>6, <2>1, <2>2, <2>3, <2>4
<1> QED
  BY <1>5, <1>7 DEF At

LEMMA LinksAliveIs ==
  LinksAlive <=> \A id \in Living : objs[id].class \notin lost => Leads(objs[id]) \subseteq Living
BY DEF LinksAlive, Leads

LEMMA LinksAliveNext ==
  (\A id \in Living : objs[id].class \notin lost => Leads(objs[id]) \subseteq Living)' => LinksAlive'
BY LinksAliveIs, PTL

\* What an object that is told of a destruction leads to afterwards.
LEMMA ToldIs ==
  ASSUME NEW os, NEW o, Proper(os, o), NEW del, NEW p,
         p = CheckPostDeletion(CheckPreDeletion(o, del), del),
         o.class \in Entities \cup {"MATERIAL", "MESH"}
  PROVE  /\ DOMAIN p = DOMAIN o /\ p.class = o.class
         /\ o.class \in Entities => p.mesh = NotIn(o.mesh, del) /\ p.entityFlags = o.entityFlags
         /\ o.class \in Aiming => p.target = NotIn(o.target, del)
         /\ o.class = "MATERIAL" => p.textures = [i \in 1 .. 4 |-> NotIn(o.textures[i], del)]
         /\ o.class = "MESH" => p.slots = [i \in DOMAIN o.slots |-> NotIn(o.slots[i], del)]
<1> DEFINE q == CheckPreDeletion(o, del)
<1>1. p = CheckPostDeletion(q, del)
  OBVIOUS
<1>2. "class" \in DOMAIN o /\ (o.class \in Aiming => "target" \in DOMAIN o)
  BY ProperMembers
<1>3. CASE o.class \in Entities
  <2>1. "mesh" \in DOMAIN o /\ "entityFlags" \in DOMAIN o /\ o.class # "MATERIAL" /\ o.class # "MESH"
    BY <1>3, LinkMembers DEF Entities, Lights, Cameras
  <2> DEFINE kept == Only(o.potentials, del)
  <2>2. q = [o EXCEPT !.mesh = NotIn(@, del), !.potentials = kept]
    BY <1>3 DEF CheckPreDeletion
  <2> HIDE DEF q, kept
  <2>3. DOMAIN q = DOMAIN o /\ q.class = o.class /\ q.mesh = NotIn(o.mesh, del)
        /\ q.entityFlags = o.entityFlags /\ (o.class \in Aiming => q.target = o.target)
    BY <1>2, <2>1, <2>2
  <2>4. CASE o.class \in Aiming
    <3>1. p = [q EXCEPT !.target = NotIn(@, del)]
      BY <1>1, <2>3, <2>4 DEF CheckPostDeletion
    <3> QED
      BY <1>2, <2>1, <2>3, <2>4, <3>1
  <2>5. CASE o.class \notin Aiming
    <3>1. p = q
      BY <1>1, <2>3, <2>5 DEF CheckPostDeletion
    <3> QED
      BY <2>1, <2>3, <2>5, <3>1
  <2> QED
    BY <2>4, <2>5
<1>4. CASE o.class = "MATERIAL"
  <2>1. "textures" \in DOMAIN o /\ o.class \notin Entities /\ o.class \notin Aiming
    BY <1>4, LinkMembers DEF Entities, Lights, Cameras, Aiming
  <2>2. q = [o EXCEPT !.textures = [i \in 1 .. 4 |-> NotIn(o.textures[i], del)]]
    BY <1>4, <2>1 DEF CheckPreDeletion
  <2> HIDE DEF q
  <2>3. DOMAIN q = DOMAIN o /\ q.class = o.class
        /\ q.textures = [i \in 1 .. 4 |-> NotIn(o.textures[i], del)]
    BY <1>2, <2>1, <2>2
  <2>4. p = q
    BY <1>1, <2>1, <2>3 DEF CheckPostDeletion
  <2> QED
    BY <1>4, <2>1, <2>3, <2>4
<1>5. CASE o.class = "MESH"
  <2>1. "slots" \in DOMAIN o /\ o.class \notin Entities /\ o.class \notin Aiming
    BY <1>5, LinkMembers DEF Entities, Lights, Cameras, Aiming
  <2>2. q = [o EXCEPT !.slots = [i \in DOMAIN o.slots |-> NotIn(o.slots[i], del)]]
    BY <1>5, <2>1 DEF CheckPreDeletion
  <2> HIDE DEF q
  <2>3. DOMAIN q = DOMAIN o /\ q.class = o.class
        /\ q.slots = [i \in DOMAIN o.slots |-> NotIn(o.slots[i], del)]
    BY <1>2, <2>1, <2>2
  <2>4. p = q
    BY <1>1, <2>1, <2>3 DEF CheckPostDeletion
  <2> QED
    BY <1>5, <2>1, <2>3, <2>4
<1> QED
  BY <1>3, <1>4, <1>5

\* It is as proper as before and leads to nothing that goes.
LEMMA ToldClear ==
  ASSUME NEW os, NEW o, Proper(os, o), NEW del, 0 \notin del, NEW p,
         p = CheckPostDeletion(CheckPreDeletion(o, del), del),
         o.class \in Entities \cup {"MATERIAL", "MESH"}
  PROVE  /\ Proper(os, p) /\ Leads(p) \cap del = {} /\ p.class = o.class
         /\ o.class \in Entities => p.entityFlags = o.entityFlags
         /\ o.class \in Aiming => p.target = NotIn(o.target, del)
<1>1. /\ DOMAIN p = DOMAIN o /\ p.class = o.class
      /\ o.class \in Entities => p.mesh = NotIn(o.mesh, del) /\ p.entityFlags = o.entityFlags
      /\ o.class \in Aiming => p.target = NotIn(o.target, del)
      /\ o.class = "MATERIAL" => p.textures = [i \in 1 .. 4 |-> NotIn(o.textures[i], del)]
      /\ o.class = "MESH" => p.slots = [i \in DOMAIN o.slots |-> NotIn(o.slots[i], del)]
  BY ToldIs
<1>2. \A classes : \A t \in At(os, classes) :
        NotIn(t, del) \in At(os, classes) /\ NotIn(t, del) \notin del
  BY DEF At, NotIn
<1>3. o.class \in Entities => p.mesh \in At(os, {"MESH"}) /\ p.mesh \notin del
  BY <1>1, <1>2 DEF Proper
<1>4. o.class \in Aiming => p.target \in At(os, Entities) /\ p.target \notin del
  BY <1>1, <1>2 DEF Proper
<1>5. ASSUME o.class = "MATERIAL"
      PROVE  p.textures \in [1 .. 4 -> At(os, {"TEXTURE"})] /\ ToSet(p.textures) \cap del = {}
  <2>1. \A i \in 1 .. 4 : o.textures[i] \in At(os, {"TEXTURE"})
    BY <1>5 DEF Proper
  <2>2. p.textures = [i \in 1 .. 4 |-> NotIn(o.textures[i], del)]
    BY <1>1, <1>5
  <2> QED
    BY <1>2, <2>1, <2>2 DEF ToSet
<1>6. ASSUME o.class = "MESH"
      PROVE  p.slots \in Seq(At(os, {"MATERIAL"})) /\ ToSet(p.slots) \cap del = {}
  <2>1. o.slots \in Seq(At(os, {"MATERIAL"}))
    BY <1>6 DEF Proper
  <2>2. DOMAIN o.slots = 1 .. Len(o.slots) /\ Len(o.slots) \in Nat
        /\ \A i \in 1 .. Len(o.slots) : o.slots[i] \in At(os, {"MATERIAL"})
    BY <2>1, LenProperties
  <2>3. p.slots = [i \in 1 .. Len(o.slots) |-> NotIn(o.slots[i], del)]
    BY <1>1, <1>6, <2>2
  <2>4. p.slots \in [1 .. Len(o.slots) -> At(os, {"MATERIAL"})]
    BY <1>2, <2>2, <2>3
  <2>5. p.slots \in Seq(At(os, {"MATERIAL"}))
    BY <2>2, <2>4, IsASeq
  <2>6. ToSet(p.slots) \cap del = {}
    BY <1>2, <2>2, <2>3 DEF ToSet
  <2> QED
    BY <2>5, <2>6
<1>7. Proper(os, p)
  BY <1>1, <1>3, <1>4, <1>5, <1>6 DEF Proper
<1>8. ASSUME p.class \notin Entities
      PROVE  Pointers(p) \cap del = {}
  BY <1>1, <1>5, <1>6, <1>8 DEF Pointers
<1> QED
  BY <1>1, <1>3, <1>4, <1>7, <1>8 DEF Leads

\* The marks that go with the objects that aim at somebody.
Released(os, del, k) ==
  {MarkOf(os[id].class) : id \in {i \in {j \in del : os[j].class \in Aiming} : os[i].target = k}}

\* Somebody who stays has lost nothing but these.
LEMMA PreDeleteIs ==
  ASSUME NEW os, NEW del, NEW k \in DOMAIN os \ del, Proper(os, os[k]),
         NEW p, p = PreDelete(os, del)[k]
  PROVE  /\ Alike(os[k], p)
         /\ os[k].class \in Entities => p.entityFlags \cap Released(os, del, k) \cap Aiming = {}
<1> DEFINE marks == Released(os, del, k)
<1>1. p = IF marks = {} THEN os[k] ELSE Unmarked(os[k], marks)
  BY DEF PreDelete, Released
<1>2. "FRAME" \notin Aiming
  BY DEF Aiming
<1> HIDE DEF marks
<1>3. CASE marks = {}
  BY <1>1, <1>3 DEF Alike, marks
<1>4. CASE marks # {}
  <2>1. p = [os[k] EXCEPT !.entityFlags = (os[k].entityFlags \ marks) \cup {"FRAME"}]
    BY <1>1, <1>4 DEF Unmarked
  <2>2. /\ DOMAIN p = DOMAIN os[k]
        /\ \A m \in DOMAIN os[k] \ {"entityFlags"} : p[m] = os[k][m]
        /\ "entityFlags" \in DOMAIN os[k] =>
             p.entityFlags = (os[k].entityFlags \ marks) \cup {"FRAME"}
    BY <2>1
  <2>3. Alike(os[k], p)
    BY <1>2, <2>2 DEF Alike, Links
  <2>4. os[k].class \in Entities => "entityFlags" \in DOMAIN os[k]
    BY LinkMembers
  <2> QED
    BY <1>2, <2>2, <2>3, <2>4 DEF marks
<1> QED
  BY <1>3, <1>4

DestroyedScene(os, del, told) ==
  [id \in DOMAIN os |->
     IF id \in del THEN FREED
     ELSE IF id \in told
       THEN CheckPostDeletion(CheckPreDeletion(PreDelete(os, del)[id], del), del)
       ELSE PreDelete(os, del)[id]]

\* Those who stay have kept their class, are as proper as before, lead to
\* nothing that goes if they were told, and still aim at those who stay.
Spared(os, del, told, k, p) ==
  /\ Proper(os, p) /\ p.class = os[k].class
  /\ k \in told => Leads(p) \cap del = {}
  /\ os[k].class \in Aiming => p.target = os[k].target \/ os[k].target \in del
  /\ os[k].class \in Entities =>
       p.entityFlags \cap Aiming \subseteq os[k].entityFlags \ Released(os, del, k)

LEMMA SparedIs ==
  ASSUME NEW os, NEW del, 0 \notin del, NEW told, NEW k \in DOMAIN os \ del, Proper(os, os[k]),
         k \in told => os[k].class \in Entities \cup {"MATERIAL", "MESH"},
         NEW after, after = DestroyedScene(os, del, told)
  PROVE  Spared(os, del, told, k, after[k])
<1> DEFINE o == PreDelete(os, del)[k]
           p == CheckPostDeletion(CheckPreDeletion(o, del), del)
<1>1. after[k] = IF k \in told THEN p ELSE o
  BY DEF DestroyedScene
<1>2. Alike(os[k], o) /\ (os[k].class \in Entities => o.entityFlags \cap Released(os, del, k) \cap Aiming = {})
  BY PreDeleteIs
<1> HIDE DEF o
<1>3. Fit(os, os[k], o)
  BY <1>2, AlikeFits
<1>4. /\ Proper(os, o) /\ o.class = os[k].class
      /\ os[k].class \in Aiming => o.target = os[k].target
      /\ os[k].class \in Entities =>
           o.entityFlags \cap Aiming \subseteq os[k].entityFlags \ Released(os, del, k)
  BY <1>2, <1>3 DEF Fit
<1>5. CASE k \notin told
  BY <1>1, <1>4, <1>5 DEF Spared
<1>6. CASE k \in told
  <2>1. o.class \in Entities \cup {"MATERIAL", "MESH"}
    BY <1>4, <1>6
  <2>2. p = CheckPostDeletion(CheckPreDeletion(o, del), del)
    OBVIOUS
  <2> HIDE DEF p
  <2>3. /\ Proper(os, p) /\ Leads(p) \cap del = {} /\ p.class = o.class
        /\ o.class \in Entities => p.entityFlags = o.entityFlags
        /\ o.class \in Aiming => p.target = NotIn(o.target, del)
    BY <1>4, <2>1, <2>2, ToldClear
  <2>4. p.class = os[k].class
    BY <1>4, <2>3
  <2>5. os[k].class \in Aiming => p.target = os[k].target \/ os[k].target \in del
    BY <1>4, <2>3 DEF NotIn
  <2>6. os[k].class \in Entities =>
          p.entityFlags \cap Aiming \subseteq os[k].entityFlags \ Released(os, del, k)
    BY <1>4, <2>3
  <2> QED
    BY <1>1, <1>6, <2>3, <2>4, <2>5, <2>6 DEF Spared
<1> QED
  BY <1>5, <1>6

\* The scene afterwards: those who stay keep their marks only from others who
\* stay.
LEMMA DestroyedIs ==
  ASSUME NEW os, \A k \in DOMAIN os : os[k] # FREED /\ Proper(os, os[k]), AimedAt(os),
         NEW del \in SUBSET DOMAIN os, NEW told, NEW after, DOMAIN after = DOMAIN os,
         \A k \in del : after[k] = FREED,
         \A k \in DOMAIN os \ del : Spared(os, del, told, k, after[k])
  PROVE  /\ \A k \in DOMAIN os : after[k] = FREED <=> k \in del
         /\ \A k \in DOMAIN os \ del : Proper(after, after[k])
         /\ AimedAt(after)
<1>1. \A k \in DOMAIN os : after[k] = FREED <=> k \in del
  BY NotFreed DEF Spared
<1>2. \A classes : At(os, classes) \subseteq At(after, classes)
  BY <1>1 DEF At, Spared
<1>3. ASSUME NEW k \in DOMAIN os \ del
      PROVE  Proper(after, after[k])
  <2> DEFINE o == after[k]
  <2>1. Proper(os, o)
    BY <1>3 DEF Spared
  <2> HIDE DEF o
  <2>2. o.class = "MATERIAL" => o.textures \in [1 .. 4 -> At(after, {"TEXTURE"})]
    <3> SUFFICES ASSUME o.class = "MATERIAL"
                 PROVE  o.textures \in [1 .. 4 -> At(after, {"TEXTURE"})]
      OBVIOUS
    <3>1. o.textures \in [1 .. 4 -> At(os, {"TEXTURE"})]
      BY <2>1 DEF Proper
    <3>2. At(os, {"TEXTURE"}) \subseteq At(after, {"TEXTURE"})
      BY <1>2
    <3> QED
      BY <3>1, <3>2
  <2>3. o.class = "MESH" => o.slots \in Seq(At(after, {"MATERIAL"}))
    BY <1>2, <2>1, SeqMonotonic DEF Proper
  <2>4. o.class \in Entities => o.mesh \in At(after, {"MESH"})
    BY <1>2, <2>1 DEF Proper
  <2>5. o.class \in Aiming => o.target \in At(after, Entities)
    BY <1>2, <2>1 DEF Proper
  <2>6. Proper(after, o)
    BY <2>1, <2>2, <2>3, <2>4, <2>5 DEF Proper
  <2> QED
    BY <2>6 DEF o
<1>4. AimedAt(after)
  <2> SUFFICES ASSUME NEW t \in DOMAIN os, NEW x \in Aiming, after[t] # FREED,
                      after[t].class \in Entities, x \in after[t].entityFlags
               PROVE  \E id \in DOMAIN os :
                        after[id] # FREED /\ after[id].class = x /\ after[id].target = t
    BY DEF AimedAt
  <2>1. t \notin del /\ os[t].class \in Entities
    BY <1>1 DEF Spared
  <2>2. x \in os[t].entityFlags /\ x \notin Released(os, del, t)
    BY <2>1 DEF Spared
  <2>3. PICK id \in DOMAIN os : os[id] # FREED /\ os[id].class = x /\ os[id].target = t
    BY <2>1, <2>2 DEF AimedAt
  <2>4. MarkOf(x) = x
    BY DEF MarkOf, Aiming
  <2>5. id \notin del
    BY <2>2, <2>3, <2>4 DEF Released
  <2>6. after[id].class = x /\ after[id].target = t
    BY <2>1, <2>3, <2>5 DEF Spared
  <2> QED
    BY <1>1, <2>5, <2>6
<1> QED
  BY <1>1, <1>3, <1>4

LEMMA DestroyKeeps ==
  ASSUME Inv, Editing, lost = {}, NEW del \in SUBSET Living, del # {}, Destroy(del)
  PROVE  Inv'
<1> DEFINE after == objs'
           told == Told(del)
<1>1. Living = DOMAIN objs /\ 0 \notin DOMAIN objs /\ AimedAt(objs) /\ del \in SUBSET DOMAIN objs
      /\ doc = NONE /\ copy = NONE
  BY DEF Inv, DestroyedOnce, SceneInv, Editing, DocumentThere
<1>2. \A k \in DOMAIN objs : objs[k] # FREED /\ Proper(objs, objs[k])
  BY <1>1 DEF Inv, SceneInv, Living
<1>3. /\ after = DestroyedScene(objs, del, told)
      /\ lost' = ClassesOf(del) /\ calls' = MaxCalls /\ UNCHANGED <<doc, copy>>
  BY DEF Destroy, DestroyedScene
<1>4. ASSUME NEW k \in told
      PROVE  objs[k].class \in Entities \cup {"MATERIAL", "MESH"}
  <2>1. Wishes(objs[k].class) # {}
    BY DEF Told
  <2> QED
    BY <2>1 DEF Wishes, Aiming, Entities, Lights, Cameras
<1>5. DOMAIN after = DOMAIN objs /\ \A k \in del : after[k] = FREED
  BY <1>1, <1>3 DEF DestroyedScene
<1>6. ASSUME NEW k \in DOMAIN objs, k \notin told, objs[k].class \notin ClassesOf(del)
      PROVE  Wishes(objs[k].class) \cap ClassesOf(del) = {}
  BY <1>1, <1>6 DEF Told
<1> HIDE DEF after, told
<1>7. \A k \in DOMAIN objs \ del : Spared(objs, del, told, k, after[k])
  BY <1>1, <1>2, <1>3, <1>4, SparedIs
<1>8. /\ \A k \in DOMAIN objs : after[k] = FREED <=> k \in del
      /\ \A k \in DOMAIN objs \ del : Proper(after, after[k])
      /\ AimedAt(after)
  BY <1>1, <1>2, <1>5, <1>7, DestroyedIs
<1>9. Living' = DOMAIN objs \ del
  BY <1>1, <1>5, <1>8 DEF Living, after
<1>10. SceneInv'
  BY <1>1, <1>5, <1>8, <1>9 DEF SceneInv, after
<1>11. ASSUME NEW k \in DOMAIN objs \ del, objs[k].class \notin ClassesOf(del), NEW t \in Leads(after[k])
       PROVE  t \in DOMAIN objs \ del
  <2>1. Proper(objs, after[k]) /\ after[k].class = objs[k].class
    BY <1>7 DEF Spared
  <2>2. t \in DOMAIN objs /\ objs[t].class \in Wishes(objs[k].class)
    BY <1>2, <2>1, <1>11, LeadsTo
  <2>3. CASE k \in told
    BY <1>7, <1>11, <2>2, <2>3 DEF Spared
  <2>4. CASE k \notin told
    BY <1>6, <1>11, <2>2, <2>4 DEF ClassesOf
  <2> QED
    BY <2>3, <2>4
<1>12. \A k \in DOMAIN objs \ del : after[k].class = objs[k].class
  BY <1>7 DEF Spared
<1>13. (\A id \in Living : objs[id].class \notin lost => Leads(objs[id]) \subseteq Living)'
  BY <1>3, <1>9, <1>11, <1>12 DEF after
<1>14. LinksAlive'
  BY <1>13, LinksAliveNext
<1>15. DestroyedOnce'
  BY <1>3 DEF DestroyedOnce, ClassesOf
<1>16. DocumentThere' /\ LinkedClasses'
  BY <1>1, <1>3 DEF DocumentThere, LinkedClasses, Loaded
<1> QED
  BY <1>10, <1>14, <1>15, <1>16 DEF Inv

-----------------------------------------------------------------------------
(* Saving.                                                                  *)

\* Saving changes flags of an entity and the normals of the faces of a mesh.
LEMMA AfterSaveIs ==
  ASSUME NEW o
  PROVE  Alike(o, AfterSave(o))
<1>1. Alike(o, o)
  BY DEF Alike
<1>2. Alike(o, Regulated(o))
  BY DEF Alike, Links, Regulated, Aiming
<1>3. Alike(o, BuildFaceNormals(o))
  BY DEF Alike, Links, BuildFaceNormals
<1>4. Alike(o, AfterSaveMesh(o))
  BY <1>1, <1>3 DEF AfterSaveMesh
<1> QED
  BY <1>1, <1>2, <1>4 DEF AfterSave

\* What differs in nothing but plain members leads to the same objects.
LEMMA AlikeLeads ==
  ASSUME NEW os, NEW o, NEW p, Proper(os, o), Alike(o, p)
  PROVE  Leads(p) \cap DOMAIN os = Leads(o) \cap DOMAIN os
<1>1. p.class = o.class
  BY ProperMembers DEF Alike, Links
<1>2. o.class \in Entities => p.mesh = o.mesh
  BY LinkMembers DEF Alike, Links
<1>3. o.class \in Aiming => p.target = o.target
  BY ProperMembers DEF Alike, Links
<1>4. (o.class = "MATERIAL" => p.textures = o.textures) /\ (o.class = "MESH" => p.slots = o.slots)
  BY LinkMembers DEF Alike, Links
<1>5. o.class \notin Entities => Pointers(p) = Pointers(o)
  BY <1>1, <1>4 DEF Pointers
<1> QED
  BY <1>1, <1>2, <1>3, <1>5 DEF Leads

LEMMA SaveKeeps ==
  ASSUME Inv, Save
  PROVE  Inv'
<1> DEFINE after == objs'
<1>1. /\ doc = NONE /\ copy = NONE /\ UNCHANGED <<lost, calls, copy>>
      /\ DOMAIN doc' = {"chunks", "files"} /\ DOMAIN doc'.chunks = DOMAIN objs
  BY DEF Save, Inv, DocumentThere
<1>2. /\ DOMAIN after = DOMAIN objs
      /\ \A k \in DOMAIN objs : after[k] = IF objs[k] = FREED THEN FREED ELSE AfterSave(objs[k])
  BY DEF Save
<1>3. /\ 0 \notin DOMAIN objs /\ AimedAt(objs)
      /\ \A k \in DOMAIN objs : objs[k] # FREED => Proper(objs, objs[k])
  BY DEF Inv, SceneInv, Living
<1> HIDE DEF after
<1>4. \A k \in DOMAIN objs : objs[k] # FREED => Alike(objs[k], after[k])
  BY <1>2, AfterSaveIs
<1>5. Replaced(objs, after)
  BY <1>2, <1>3, <1>4, AlikeFits DEF Replaced
<1>6. /\ \A k \in DOMAIN objs : after[k] = FREED <=> objs[k] = FREED
      /\ \A k \in DOMAIN objs : objs[k] # FREED => after[k].class = objs[k].class
      /\ \A k \in DOMAIN after : after[k] # FREED => Proper(after, after[k])
      /\ AimedAt(after)
  BY <1>3, <1>5, ReplacedKeeps
<1>7. Living' = Living
  BY <1>2, <1>6 DEF Living, after
<1>8. SceneInv'
  BY <1>2, <1>3, <1>6, <1>7 DEF SceneInv, Living, after
<1>9. ASSUME NEW k \in Living, after[k].class \notin lost
      PROVE  Leads(after[k]) \subseteq Living
  <2>1. k \in DOMAIN objs /\ objs[k] # FREED /\ objs[k].class \notin lost
    BY <1>6, <1>9 DEF Living
  <2>2. Leads(objs[k]) \subseteq Living
    BY <2>1, LinksAliveIs DEF Inv
  <2>3. Leads(after[k]) \cap DOMAIN objs = Leads(objs[k]) \cap DOMAIN objs
    BY <1>3, <1>4, <2>1, AlikeLeads
  <2>4. Leads(after[k]) \subseteq DOMAIN objs
    BY <1>2, <1>6, <2>1, LeadsTo
  <2> QED
    BY <2>2, <2>3, <2>4
<1>10. (\A id \in Living : objs[id].class \notin lost => Leads(objs[id]) \subseteq Living)'
  BY <1>1, <1>7, <1>9 DEF after
<1>11. LinksAlive'
  BY <1>10, LinksAliveNext
<1>12. DestroyedOnce'
  BY <1>1, <1>2, <1>7 DEF Inv, DestroyedOnce, after
<1>13. DocumentThere'
  BY <1>1, <1>2 DEF DocumentThere, after
<1>14. LinkedClasses'
  BY <1>1 DEF LinkedClasses, Loaded
<1> QED
  BY <1>8, <1>11, <1>12, <1>13, <1>14 DEF Inv

-----------------------------------------------------------------------------
(* Loading.                                                                 *)

\* The members `ms` are kept.
Keeps(o, p, ms) ==
  DOMAIN p = DOMAIN o /\ \A m \in ms \cap DOMAIN o : p[m] = o[m]

LinksRead == {"class", "mesh", "textures", "slots"}

LEMMA KeepsTwice ==
  ASSUME NEW o, NEW p, NEW q, NEW ms, Keeps(o, p, ms), Keeps(p, q, ms)
  PROVE  Keeps(o, q, ms)
BY DEF Keeps

LEMMA LoadObjectKeeps ==
  ASSUME NEW o, NEW chunk
  PROVE  Keeps(o, LoadObject(o, chunk), LinksRead)
BY DEF Keeps, LinksRead, LoadObject

\* An entity that is read has a mesh for its mesh, or the one it had.
MeshRead(o, p, At0) ==
  DOMAIN p = DOMAIN o /\ p.class = o.class /\ (p.mesh = o.mesh \/ At0[p.mesh] = "MESH")

LEMMA LoadEntityIs ==
  ASSUME NEW o, "class" \in DOMAIN o, "mesh" \in DOMAIN o, NEW chunk, NEW At0
  PROVE  MeshRead(o, LoadEntity(o, chunk, At0), At0)
<1> DEFINE seen == LoadObject(o, chunk)
           s == chunk["MESHS"]
           meshed == IF Has(chunk, "MESHS") THEN LoadMeshes(seen, s, At0) ELSE seen
           t == chunk["3DENTITYNDATA"]
<1>1. Keeps(o, seen, LinksRead)
  BY LoadObjectKeeps
<1>2. DOMAIN seen = DOMAIN o /\ seen.class = o.class /\ seen.mesh = o.mesh
  BY <1>1 DEF Keeps, LinksRead
<1>3. LoadEntity(o, chunk, At0) = IF Has(chunk, "3DENTITYNDATA") THEN LoadEntityData(meshed, t) ELSE meshed
  BY DEF LoadEntity
<1> HIDE DEF seen
<1>4. MeshRead(o, LoadMeshes(seen, s, At0), At0)
  <2> DEFINE mesh == IF s[1] # 0 /\ At0[s[1]] = "MESH" THEN s[1] ELSE seen.mesh
             others == FoldLeft(LAMBDA list, id : IF id = 0 THEN list ELSE AddIfNotHere(list, id),
                                <<>>, s[2])
             q == [seen EXCEPT !.potentials = others]
  <2>1. LoadMeshes(seen, s, At0) = SetCurrentMesh(q, mesh)
    BY DEF LoadMeshes
  <2>2. mesh = o.mesh \/ At0[mesh] = "MESH"
    BY <1>2
  <2> HIDE DEF mesh, others
  <2>3. DOMAIN q = DOMAIN o /\ q.class = o.class
    BY <1>2
  <2> HIDE DEF q
  <2>4. /\ DOMAIN SetCurrentMesh(q, mesh) = DOMAIN q /\ SetCurrentMesh(q, mesh).class = q.class
        /\ SetCurrentMesh(q, mesh).mesh = mesh
    BY <2>3 DEF SetCurrentMesh, AddPotentialMesh
  <2> QED
    BY <2>1, <2>2, <2>3, <2>4 DEF MeshRead
<1>5. MeshRead(o, meshed, At0)
  BY <1>2, <1>4 DEF MeshRead
<1> HIDE DEF meshed
<1>6. Keeps(meshed, LoadEntityData(meshed, t), LinksRead)
  BY DEF Keeps, LinksRead, LoadEntityData
<1>7. MeshRead(o, LoadEntityData(meshed, t), At0)
  BY <1>5, <1>6 DEF MeshRead, Keeps, LinksRead
<1> QED
  BY <1>3, <1>5, <1>7

LEMMA MeshReadOn ==
  ASSUME NEW o, "class" \in DOMAIN o, "mesh" \in DOMAIN o, NEW p, NEW q, NEW At0,
         MeshRead(o, p, At0), Keeps(p, q, LinksRead)
  PROVE  MeshRead(o, q, At0)
BY DEF MeshRead, Keeps, LinksRead

LEMMA LoadLightIs ==
  ASSUME NEW o, "class" \in DOMAIN o, "mesh" \in DOMAIN o, NEW chunk, NEW At0
  PROVE  /\ MeshRead(o, LoadLight(o, chunk, At0), At0)
         /\ MeshRead(o, LoadTargetLight(o, chunk, At0), At0)
<1> DEFINE entity == LoadEntity(o, chunk, At0)
           s == chunk["LIGHTDATA"]
           basic == [entity EXCEPT
             !.lightFlags = s[1][1], !.type = s[1][2], !.diffuse = FromARGB(s[2]),
             !.attenuation0 = s[3], !.attenuation1 = s[4], !.attenuation2 = s[5], !.range = s[6]]
           coned == IF s[1][2] # "SPOT" THEN basic
                    ELSE [basic EXCEPT !.outerCone = s[7], !.innerCone = s[8], !.falloff = s[9]]
           lit == IF Has(chunk, "LIGHTDATA") THEN coned ELSE entity
           done == [lit EXCEPT
             !.power = IF Has(chunk, "LIGHTDATA2") THEN chunk["LIGHTDATA2"][1] ELSE 1,
             !.type = IF @ \in LightTypes THEN @ ELSE "POINT"]
<1>1. MeshRead(o, entity, At0)
  BY LoadEntityIs
<1>2. LoadLight(o, chunk, At0) = done
  BY DEF LoadLight
<1> HIDE DEF entity
<1>3. Keeps(entity, basic, LinksRead)
  BY DEF Keeps, LinksRead
<1> HIDE DEF basic
<1>4. Keeps(basic, coned, LinksRead)
  BY DEF Keeps, LinksRead
<1>5. Keeps(entity, coned, LinksRead) /\ Keeps(entity, entity, LinksRead)
  BY <1>3, <1>4, KeepsTwice DEF Keeps
<1> HIDE DEF coned
<1>6. Keeps(entity, lit, LinksRead)
  BY <1>5
<1> HIDE DEF lit
<1>7. Keeps(lit, done, LinksRead)
  BY DEF Keeps, LinksRead
<1> HIDE DEF done
<1>8. MeshRead(o, done, At0)
  BY <1>1, <1>6, <1>7, KeepsTwice, MeshReadOn
<1>9. Keeps(done, LoadTargetLight(o, chunk, At0), LinksRead)
  BY <1>2 DEF Keeps, LinksRead, LoadTargetLight
<1> QED
  BY <1>2, <1>8, <1>9, MeshReadOn

LEMMA LoadCameraIs ==
  ASSUME NEW o, "class" \in DOMAIN o, "mesh" \in DOMAIN o, NEW chunk, NEW At0
  PROVE  /\ MeshRead(o, LoadCamera(o, chunk, At0), At0)
         /\ MeshRead(o, LoadTargetCamera(o, chunk, At0), At0)
<1> DEFINE entity == LoadEntity(o, chunk, At0)
           done == LoadCamera(o, chunk, At0)
<1>1. MeshRead(o, entity, At0)
  BY LoadEntityIs
<1> HIDE DEF entity
<1>2. Keeps(entity, done, LinksRead)
  BY DEF Keeps, LinksRead, LoadCamera, entity
<1> HIDE DEF done
<1>3. MeshRead(o, done, At0)
  BY <1>1, <1>2, MeshReadOn
<1>4. Keeps(done, LoadTargetCamera(o, chunk, At0), LinksRead)
  BY DEF Keeps, LinksRead, LoadTargetCamera, done
<1> QED
  BY <1>3, <1>4, MeshReadOn DEF done

\* The textures of a material that is read are textures.
TexturesRead(o, p, At0) ==
  /\ DOMAIN p = DOMAIN o /\ p.class = o.class
  /\ DOMAIN p.textures = 1 .. 4
  /\ \A i \in 1 .. 4 : p.textures[i] = 0 \/ At0[p.textures[i]] = "TEXTURE"

LEMMA TexturesReadOn ==
  ASSUME NEW o, "class" \in DOMAIN o, "textures" \in DOMAIN o, NEW p, NEW q, NEW At0,
         TexturesRead(o, p, At0), Keeps(p, q, LinksRead)
  PROVE  TexturesRead(o, q, At0)
<1>1. q.textures = p.textures /\ q.class = p.class /\ DOMAIN q = DOMAIN p
  BY DEF TexturesRead, Keeps, LinksRead
<1> QED
  BY <1>1 DEF TexturesRead

LEMMA LoadMainIs ==
  ASSUME NEW o, "class" \in DOMAIN o, "textures" \in DOMAIN o, NEW b, NEW s, NEW At0,
         TexturesRead(o, b, At0)
  PROVE  TexturesRead(o, LoadMainData(b, s, At0), At0)
<1> DEFINE first == TextureAt(s[6], At0)
           basic == [b EXCEPT
             !.diffuse = FromARGB(s[1]), !.ambient = FromARGB(s[2]), !.specular = FromARGB(s[3]),
             !.emissive = FromARGB(s[4]), !.specularPower = s[5],
             !.textures[1] = first, !.borderColor = s[7]]
           nibbled == TakeNibbles(basic, s[8])
           done == TakeBytes(nibbled, s[9])
<1>1. LoadMainData(b, s, At0) = done
  BY DEF LoadMainData
<1>2. first = 0 \/ At0[first] = "TEXTURE"
  BY DEF TextureAt
<1> HIDE DEF first
<1>3. /\ DOMAIN basic = DOMAIN b /\ basic.class = b.class
      /\ basic.textures = [b.textures EXCEPT ![1] = first]
  BY DEF TexturesRead
<1> HIDE DEF basic
<1>4. TexturesRead(o, basic, At0)
  BY <1>2, <1>3 DEF TexturesRead
<1>5. Keeps(basic, nibbled, LinksRead)
  BY DEF Keeps, LinksRead, TakeNibbles
<1> HIDE DEF nibbled
<1>6. Keeps(nibbled, done, LinksRead)
  BY DEF Keeps, LinksRead, TakeBytes
<1> QED
  BY <1>1, <1>4, <1>5, <1>6, KeepsTwice, TexturesReadOn

LEMMA LoadMaterialIs ==
  ASSUME NEW o, "class" \in DOMAIN o, "textures" \in DOMAIN o, NEW chunk, NEW At0
  PROVE  TexturesRead(o, LoadMaterial(o, chunk, At0), At0)
<1> DEFINE seen == LoadObject(o, chunk)
           bare == [seen EXCEPT !.textures = <<0, 0, 0, 0>>]
           main == IF Has(chunk, "MATDATA") THEN LoadMainData(bare, chunk["MATDATA"], At0) ELSE bare
           more == [i \in 1 .. 4 |-> IF i = 1 THEN main.textures[1]
                                      ELSE TextureAt(chunk["MATDATA2"][i - 1], At0)]
           extended == [main EXCEPT !.textures = more]
           full == IF ~ Has(chunk, "MATDATA2") THEN main ELSE extended
           plain == IF Has(chunk, "MATDATA3") THEN [full EXCEPT !.effect = chunk["MATDATA3"][1]] ELSE full
           done == IF Has(chunk, "MATDATA5") THEN [plain EXCEPT !.effect = chunk["MATDATA5"][2]] ELSE plain
<1>1. LoadMaterial(o, chunk, At0) = done
  BY DEF LoadMaterial
<1>2. DOMAIN seen = DOMAIN o /\ seen.class = o.class
  BY LoadObjectKeeps DEF Keeps, LinksRead
<1> HIDE DEF seen
<1>3. TexturesRead(o, bare, At0)
  <2>1. DOMAIN bare = DOMAIN o /\ bare.class = o.class /\ bare.textures = <<0, 0, 0, 0>>
    BY <1>2
  <2> HIDE DEF bare
  <2> QED
    BY <2>1 DEF TexturesRead
<1> HIDE DEF bare
<1>4. TexturesRead(o, main, At0)
  BY <1>3, LoadMainIs
<1> HIDE DEF main
<1>5. DOMAIN more = 1 .. 4 /\ \A i \in 1 .. 4 : more[i] = 0 \/ At0[more[i]] = "TEXTURE"
  BY <1>4 DEF TexturesRead, TextureAt
<1> HIDE DEF more
<1>6. TexturesRead(o, extended, At0)
  <2>1. DOMAIN extended = DOMAIN o /\ extended.class = o.class /\ extended.textures = more
    BY <1>4 DEF TexturesRead
  <2> HIDE DEF extended
  <2> QED
    BY <1>5, <2>1 DEF TexturesRead
<1>7. TexturesRead(o, full, At0)
  BY <1>4, <1>6
<1> HIDE DEF full
<1>8. Keeps(full, plain, LinksRead)
  BY DEF Keeps, LinksRead
<1> HIDE DEF plain
<1>9. Keeps(plain, done, LinksRead)
  BY DEF Keeps, LinksRead
<1> HIDE DEF done
<1> QED
  BY <1>1, <1>7, <1>8, <1>9, TexturesReadOn

\* The slots of a mesh that is read hold materials.
SlotsRead(o, p, At0) ==
  /\ DOMAIN p = DOMAIN o /\ p.class = o.class
  /\ \A i \in DOMAIN p.slots : p.slots[i] = 0 \/ At0[p.slots[i]] = "MATERIAL"

LEMMA SlotsReadOn ==
  ASSUME NEW o, "class" \in DOMAIN o, "slots" \in DOMAIN o, NEW p, NEW q, NEW At0,
         SlotsRead(o, p, At0), Keeps(p, q, LinksRead)
  PROVE  SlotsRead(o, q, At0)
<1>1. q.slots = p.slots /\ q.class = p.class /\ DOMAIN q = DOMAIN p
  BY DEF SlotsRead, Keeps, LinksRead
<1> QED
  BY <1>1 DEF SlotsRead

\* The counts of a mesh other than that of its slots.
LEMMA CountsKeep ==
  ASSUME NEW o, NEW n
  PROVE  /\ Keeps(o, SetVertexCount(o, n), LinksRead) /\ Keeps(o, SetFaceCount(o, n), LinksRead)
         /\ Keeps(o, SetLineCount(o, n), LinksRead)
BY DEF Keeps, LinksRead, SetVertexCount, SetFaceCount, SetLineCount

LEMMA LoadVerticesKeeps ==
  ASSUME NEW o, NEW s
  PROVE  Keeps(o, LoadVertices(o, s), LinksRead)
<1> DEFINE sized == SetVertexCount(o, s[1])
           done == [sized EXCEPT
             !.positions = IF "NoPos" \in s[2] THEN @ ELSE s[3],
             !.colors = Spread(s[4], s[1]), !.specular = Spread(s[5], s[1]),
             !.normals = IF "NoNormal" \in s[2] THEN @ ELSE s[6],
             !.uvs = Spread(s[7], s[1])]
<1>1. Keeps(o, sized, LinksRead)
  BY CountsKeep
<1>2. LoadVertices(o, s) = IF s[1] = 0 THEN sized ELSE done
  BY DEF LoadVertices
<1> HIDE DEF sized
<1>3. Keeps(sized, done, LinksRead)
  BY DEF Keeps, LinksRead
<1> HIDE DEF done
<1> QED
  BY <1>1, <1>2, <1>3, KeepsTwice

LEMMA CleanIs ==
  ASSUME NEW o, "class" \in DOMAIN o, "slots" \in DOMAIN o, NEW At0
  PROVE  SlotsRead(o, CleanMesh(o), At0)
<1> DEFINE a == SetVertexCount(o, 0)
           b == SetMaterialSlotCount(a, 0)
           c == SetFaceCount(b, 0)
           d == SetLineCount(c, 0)
<1>1. CleanMesh(o) = d
  BY DEF CleanMesh
<1>2. Keeps(o, a, LinksRead)
  BY CountsKeep
<1>3. DOMAIN a = DOMAIN o /\ a.class = o.class
  BY <1>2 DEF Keeps, LinksRead
<1> HIDE DEF a
<1>4. DOMAIN b = DOMAIN o /\ b.class = o.class /\ DOMAIN b.slots = 1 .. 0
  BY <1>3 DEF SetMaterialSlotCount, Resized
<1> HIDE DEF b
<1>5. SlotsRead(o, b, At0)
  BY <1>4 DEF SlotsRead
<1>6. Keeps(b, c, LinksRead)
  BY CountsKeep
<1> HIDE DEF c
<1>7. Keeps(c, d, LinksRead)
  BY CountsKeep
<1> QED
  BY <1>1, <1>5, <1>6, <1>7, KeepsTwice, SlotsReadOn

LEMMA LoadArraysIs ==
  ASSUME NEW o, "class" \in DOMAIN o, "slots" \in DOMAIN o, NEW chunk, NEW At0
  PROVE  SlotsRead(o, LoadArrays(o, chunk, At0), At0)
<1> DEFINE seen == LoadObject(o, chunk)
           clean == CleanMesh(seen)
           marked == [clean EXCEPT !.meshFlags = chunk["MESHFLAGS"][1] \ VolatileMesh]
           flagged == IF ~ Has(chunk, "MESHFLAGS") THEN clean ELSE marked
           materials == [i \in DOMAIN chunk["MESHMATERIALS"] |-> MaterialAt(chunk["MESHMATERIALS"][i], At0)]
           given == [flagged EXCEPT !.slots = materials]
           slotted == IF ~ Has(chunk, "MESHMATERIALS") THEN flagged ELSE given
           filled == IF Has(chunk, "MESHVERTICES") THEN LoadVertices(slotted, chunk["MESHVERTICES"]) ELSE slotted
           counted == SetFaceCount(filled, Len(chunk["MESHFACES"][1]))
           faced == IF ~ Has(chunk, "MESHFACES") THEN filled
                    ELSE [counted EXCEPT !.faces = chunk["MESHFACES"][1], !.faceSlots = chunk["MESHFACES"][2]]
           lined == SetLineCount(faced, Len(chunk["MESHLINES"]))
           done == IF Has(chunk, "MESHLINES") THEN [lined EXCEPT !.lines = chunk["MESHLINES"]] ELSE faced
<1>1. LoadArrays(o, chunk, At0) = done
  BY DEF LoadArrays
<1>2. DOMAIN seen = DOMAIN o /\ seen.class = o.class
  BY LoadObjectKeeps DEF Keeps, LinksRead
<1> HIDE DEF seen
<1>3. SlotsRead(o, clean, At0)
  <2>1. SlotsRead(seen, clean, At0)
    BY <1>2, CleanIs
  <2> QED
    BY <1>2, <2>1 DEF SlotsRead
<1> HIDE DEF clean
<1>4. Keeps(clean, flagged, LinksRead)
  BY DEF Keeps, LinksRead
<1> HIDE DEF flagged
<1>5. SlotsRead(o, flagged, At0)
  BY <1>3, <1>4, SlotsReadOn
<1>6. \A i \in DOMAIN materials : materials[i] = 0 \/ At0[materials[i]] = "MATERIAL"
  BY DEF MaterialAt
<1> HIDE DEF materials
<1>7. SlotsRead(o, given, At0)
  <2>1. DOMAIN given = DOMAIN o /\ given.class = o.class /\ given.slots = materials
    BY <1>5 DEF SlotsRead
  <2> HIDE DEF given
  <2> QED
    BY <1>6, <2>1 DEF SlotsRead
<1> HIDE DEF given
<1>8. SlotsRead(o, slotted, At0)
  BY <1>5, <1>7
<1> HIDE DEF slotted
<1>9. Keeps(slotted, filled, LinksRead)
  BY LoadVerticesKeeps DEF Keeps
<1> HIDE DEF filled
<1>10. Keeps(filled, counted, LinksRead)
  BY CountsKeep
<1> HIDE DEF counted
<1>11. Keeps(filled, faced, LinksRead)
  BY <1>10 DEF Keeps, LinksRead
<1> HIDE DEF faced
<1>12. Keeps(faced, lined, LinksRead)
  BY CountsKeep
<1> HIDE DEF lined
<1>13. Keeps(faced, done, LinksRead)
  BY <1>12 DEF Keeps, LinksRead
<1> HIDE DEF done
<1> QED
  BY <1>1, <1>8, <1>9, <1>11, <1>13, SlotsReadOn

LEMMA LoadMeshIs ==
  ASSUME NEW o, "class" \in DOMAIN o, "slots" \in DOMAIN o, NEW chunk, NEW At0
  PROVE  SlotsRead(o, LoadMesh(o, chunk, At0), At0)
<1> DEFINE read == LoadArrays(o, chunk, At0)
<1>1. SlotsRead(o, read, At0)
  BY LoadArraysIs
<1>2. LoadMesh(o, chunk, At0) = BuildNormals(read) \/ LoadMesh(o, chunk, At0) = BuildFaceNormals(read)
  BY DEF LoadMesh
<1> HIDE DEF read
<1> DEFINE faced == BuildFaceNormals(read)
           normals == NormalizedAll(Gathered(faced, faced.normals))
<1>3. Keeps(read, faced, LinksRead)
  BY DEF Keeps, LinksRead, BuildFaceNormals
<1>4. BuildNormals(read) = read \/ BuildNormals(read) = [faced EXCEPT !.normals = normals]
  BY DEF BuildNormals
<1> HIDE DEF normals, faced
<1>5. Keeps(faced, [faced EXCEPT !.normals = normals], LinksRead)
  BY DEF Keeps, LinksRead
<1> QED
  BY <1>1, <1>2, <1>3, <1>4, <1>5, KeepsTwice, SlotsReadOn DEF faced

\* A texture that is read is one.
LEMMA LoadTextureKeeps ==
  ASSUME NEW o, NEW chunk, NEW d, NEW paths
  PROVE  Keeps(o, LoadTexture(o, chunk, d, paths), {"class"})
<1> DEFINE seen == LoadObject(o, chunk)
           host == ReadFromChunk(seen, chunk, d, paths)
           s == chunk["OLDTEXONLY"]
           used == UseMipmap(host, s[1].mipmap)
           begun == [used EXCEPT !.transparent = s[1].transparent, !.cube = s[1].cube,
                                 !.saveOptions = s[1].options]
           loaded == ReadOptional(begun, Tail(s), s[1].video)
           props == IF Has(chunk, "OLDTEXONLY") THEN LoadProperties(host, s) ELSE host
           levels == IF Has(chunk, "USERMIPMAP") THEN SetMipmapLevel(props, Len(chunk["USERMIPMAP"]))
                     ELSE props
           done == LoadTexture(o, chunk, d, paths)
<1>1. Keeps(o, seen, {"class"})
  BY LoadObjectKeeps DEF Keeps, LinksRead
<1>2. done = [levels EXCEPT
                !.pick = IF Has(chunk, "PICKTHRESHOLD") THEN chunk["PICKTHRESHOLD"][1] ELSE @,
                !.saveExt = IF Has(chunk, "TEXSAVEFORMAT") THEN chunk["TEXSAVEFORMAT"][1] ELSE @,
                !.videoFormat = IF @ > LastFormat THEN ARGB1555 ELSE @]
  BY DEF LoadTexture
<1>3. LoadProperties(host, s) = loaded
  BY DEF LoadProperties
<1> HIDE DEF seen, done
<1>4. Keeps(seen, host, {"class"})
  BY DEF Keeps, ReadFromChunk
<1> HIDE DEF host
<1>5. Keeps(host, used, {"class"})
  BY DEF Keeps, UseMipmap
<1> HIDE DEF used
<1>6. Keeps(used, begun, {"class"})
  BY DEF Keeps
<1> HIDE DEF begun
<1>7. \A q, words, video : Keeps(q, ReadOptional(q, words, video), {"class"})
  <2>1. \A q, n : Keeps(q, SetCurrentSlot(q, n), {"class"})
    BY DEF Keeps, SetCurrentSlot
  <2>2. ASSUME NEW q, NEW v
        PROVE  /\ Keeps(q, q, {"class"}) /\ Keeps(q, [q EXCEPT !.transColor = v], {"class"})
               /\ Keeps(q, [q EXCEPT !.videoFormat = v], {"class"})
    BY DEF Keeps
  <2>3. ASSUME NEW q, NEW v, NEW w
        PROVE  Keeps(q, [q EXCEPT !.transColor = v, !.videoFormat = w], {"class"})
    BY DEF Keeps
  <2>4. ASSUME NEW q, NEW n, NEW v
        PROVE  /\ Keeps(q, [SetCurrentSlot(q, n) EXCEPT !.videoFormat = v], {"class"})
               /\ Keeps(q, SetCurrentSlot([q EXCEPT !.transColor = v], n), {"class"})
    <3> DEFINE p == SetCurrentSlot(q, n)
               r == [q EXCEPT !.transColor = v]
    <3>1. Keeps(q, p, {"class"}) /\ Keeps(r, SetCurrentSlot(r, n), {"class"})
      BY <2>1
    <3> HIDE DEF p
    <3>2. Keeps(q, [p EXCEPT !.videoFormat = v], {"class"})
      BY <3>1, <2>2, KeepsTwice
    <3>3. Keeps(q, SetCurrentSlot(r, n), {"class"})
      BY <3>1, <2>2, KeepsTwice
    <3> QED
      BY <3>2, <3>3 DEF p
  <2>5. ASSUME NEW q, NEW v, NEW n, NEW w
        PROVE  Keeps(q, [SetCurrentSlot([q EXCEPT !.transColor = v], n) EXCEPT !.videoFormat = w], {"class"})
    <3> DEFINE r == [q EXCEPT !.transColor = v]
               p == SetCurrentSlot(r, n)
    <3>1. Keeps(q, p, {"class"})
      BY <2>4
    <3> HIDE DEF p
    <3>2. Keeps(q, [p EXCEPT !.videoFormat = w], {"class"})
      BY <3>1, <2>2, KeepsTwice
    <3> QED
      BY <3>2 DEF p
  <2>6. \A q, words, video : Keeps(q, TwoWords(q, words, video), {"class"})
    BY <2>2, <2>3, <2>4 DEF TwoWords
  <2>7. \A q, word, video : Keeps(q, OneWord(q, word, video), {"class"})
    BY <2>1, <2>2 DEF OneWord
  <2> SUFFICES ASSUME NEW q, NEW words, NEW video
               PROVE  Keeps(q, ReadOptional(q, words, video), {"class"})
    OBVIOUS
  <2>8. CASE Len(words) = 3
    <3>1. ReadOptional(q, words, video) =
            [SetCurrentSlot([q EXCEPT !.transColor = words[1]], words[2]) EXCEPT !.videoFormat = words[3]]
      BY <2>8 DEF ReadOptional
    <3>2. Keeps(q, [SetCurrentSlot([q EXCEPT !.transColor = words[1]], words[2])
                      EXCEPT !.videoFormat = words[3]], {"class"})
      BY <2>5
    <3> QED
      BY <3>1, <3>2
  <2>9. CASE Len(words) = 2
    BY <2>6, <2>9 DEF ReadOptional
  <2>10. CASE Len(words) = 1
    BY <2>7, <2>10 DEF ReadOptional
  <2>11. CASE Len(words) \notin {1, 2, 3}
    BY <2>2, <2>11 DEF ReadOptional
  <2> QED
    BY <2>8, <2>9, <2>10, <2>11
<1>8. Keeps(begun, loaded, {"class"})
  BY <1>7
<1> HIDE DEF loaded
<1>9. Keeps(host, props, {"class"})
  <2>1. Keeps(host, host, {"class"})
    BY DEF Keeps
  <2>2. Keeps(host, begun, {"class"})
    BY <1>5, <1>6, KeepsTwice
  <2>3. Keeps(host, loaded, {"class"})
    BY <1>8, <2>2, KeepsTwice
  <2> QED
    BY <1>3, <2>1, <2>3
<1> HIDE DEF props
<1>10. Keeps(props, levels, {"class"})
  BY DEF Keeps, SetMipmapLevel
<1> HIDE DEF levels
<1>11. Keeps(levels, done, {"class"})
  BY <1>2 DEF Keeps
<1>12. Keeps(o, host, {"class"})
  BY <1>1, <1>4, KeepsTwice
<1>13. Keeps(o, props, {"class"})
  BY <1>9, <1>12, KeepsTwice
<1>14. Keeps(o, levels, {"class"})
  BY <1>10, <1>13, KeepsTwice
<1> QED
  BY <1>11, <1>14, KeepsTwice DEF done

\* What LinkedClasses asks of an object.
Linked(c) ==
  LET classes(ids) == {ClassAt[t] : t \in ids \ {0}}
  IN /\ c.class \in Entities => classes({c.mesh}) \subseteq {"MESH"}
     /\ c.class = "MATERIAL" => classes(ToSet(c.textures)) \subseteq {"TEXTURE"}
     /\ c.class = "MESH" => classes(ToSet(c.slots)) \subseteq {"MATERIAL"}

LEMMA LinkedIs ==
  ASSUME \A id \in Living : Linked(copy[id])
  PROVE  LinkedClasses
BY DEF LinkedClasses, Linked

LEMMA LinkedNext == (\A id \in Living : Linked(copy[id]))' => LinkedClasses'
BY LinkedIs, PTL

\* Whatever the chunk holds, an object that is read is linked.
LEMMA LoadLinks ==
  ASSUME NEW class \in Classes, NEW chunk, NEW d, NEW paths
  PROVE  Linked(LoadOf(class, chunk, d, paths))
<1> DEFINE o == NewOf(class)
           c == LoadOf(class, chunk, d, paths)
<1>1. /\ DOMAIN o = MembersOf(class) /\ o.class = class
      /\ class \in Entities => o.mesh = 0
  BY NewIs
<1>2. "class" \in DOMAIN o
  BY <1>1 DEF Classes, Entities, Lights, Cameras, MembersOf, EntityMembers, LightMembers,
              CameraMembers, MaterialMembers, MeshMembers, TextureMembers, ObjectMembers
<1>3. CASE class \in Entities
  <2>1. "mesh" \in DOMAIN o
    BY <1>1, <1>3 DEF Entities, Lights, Cameras, MembersOf, EntityMembers, LightMembers, CameraMembers
  <2>2. c \in {LoadEntity(o, chunk, ClassAt), LoadLight(o, chunk, ClassAt), LoadCamera(o, chunk, ClassAt),
               LoadTargetLight(o, chunk, ClassAt), LoadTargetCamera(o, chunk, ClassAt)}
    BY <1>3 DEF LoadOf, Entities, Lights, Cameras
  <2> HIDE DEF o, c
  <2>3. MeshRead(o, c, ClassAt)
    BY <1>2, <2>1, <2>2, LoadEntityIs, LoadLightIs, LoadCameraIs
  <2>4. c.class = class /\ (c.mesh = 0 \/ ClassAt[c.mesh] = "MESH")
    BY <1>1, <1>3, <2>3 DEF MeshRead
  <2>5. class # "MATERIAL" /\ class # "MESH"
    BY <1>3 DEF Entities, Lights, Cameras
  <2> QED
    BY <2>4, <2>5 DEF Linked, c
<1>4. CASE class = "MATERIAL"
  <2>1. "textures" \in DOMAIN o
    BY <1>1, <1>4 DEF MembersOf, MaterialMembers
  <2>2. c = LoadMaterial(o, chunk, ClassAt)
    BY <1>4 DEF LoadOf
  <2> HIDE DEF o, c
  <2>3. TexturesRead(o, c, ClassAt)
    BY <1>2, <2>1, <2>2, LoadMaterialIs
  <2>4. c.class = "MATERIAL"
    BY <1>1, <1>4, <2>3 DEF TexturesRead
  <2>5. \A t \in ToSet(c.textures) : t = 0 \/ ClassAt[t] = "TEXTURE"
    BY <2>3 DEF TexturesRead, ToSet
  <2> QED
    BY <2>4, <2>5 DEF Linked, Entities, Lights, Cameras, c
<1>5. CASE class = "MESH"
  <2>1. "slots" \in DOMAIN o
    BY <1>1, <1>5 DEF MembersOf, MeshMembers
  <2>2. c = LoadMesh(o, chunk, ClassAt)
    BY <1>5 DEF LoadOf
  <2> HIDE DEF o, c
  <2>3. SlotsRead(o, c, ClassAt)
    BY <1>2, <2>1, <2>2, LoadMeshIs
  <2>4. c.class = "MESH"
    BY <1>1, <1>5, <2>3 DEF SlotsRead
  <2>5. \A t \in ToSet(c.slots) : t = 0 \/ ClassAt[t] = "MATERIAL"
    BY <2>3 DEF SlotsRead, ToSet
  <2> QED
    BY <2>4, <2>5 DEF Linked, Entities, Lights, Cameras, c
<1>6. CASE class = "TEXTURE"
  <2>1. c = LoadTexture(o, chunk, d, paths)
    BY <1>6 DEF LoadOf
  <2> HIDE DEF o, c
  <2>2. c.class = "TEXTURE"
    BY <1>1, <1>2, <1>6, <2>1, LoadTextureKeeps DEF Keeps
  <2> QED
    BY <2>2 DEF Linked, Entities, Lights, Cameras, c
<1> QED
  BY <1>3, <1>4, <1>5, <1>6 DEF Classes

LEMMA LoadKeeps ==
  ASSUME Inv, Load
  PROVE  Inv'
<1>1. /\ UNCHANGED <<objs, lost, calls, doc>> /\ doc # NONE
      /\ copy' = Reloaded(doc.chunks, disk')
  BY DEF Load
<1>2. DOMAIN doc = {"chunks", "files"} /\ DOMAIN doc.chunks = DOMAIN objs
  BY <1>1 DEF Inv, DocumentThere
<1>3. ASSUME NEW id \in Living
      PROVE  Linked(copy'[id])
  <2>1. id \in DOMAIN objs /\ objs[id].class \in Classes
    BY DEF Inv, SceneInv, Proper, Living
  <2>2. copy'[id] = LoadOf(objs[id].class, doc.chunks[id], disk', extra)
    BY <1>1, <1>2, <2>1 DEF Reloaded
  <2> QED
    BY <2>1, <2>2, LoadLinks
<1>4. Living' = Living
  BY <1>1 DEF Living
<1>5. ClassAt' = ClassAt
  BY <1>1, <1>4 DEF ClassAt
<1>6. (\A id \in Living : Linked(copy[id]))'
  BY <1>3, <1>4, <1>5 DEF Linked
<1>7. LinkedClasses'
  BY <1>6, LinkedNext
<1>8. SceneInv'
  BY <1>1, <1>4 DEF Inv, SceneInv
<1>9. DestroyedOnce'
  BY <1>1, <1>4 DEF Inv, DestroyedOnce
<1>10. LinksAlive'
  BY <1>1, <1>4 DEF Inv, LinksAlive
<1>11. DocumentThere'
  BY <1>1, <1>2 DEF DocumentThere
<1> QED
  BY <1>7, <1>8, <1>9, <1>10, <1>11 DEF Inv

-----------------------------------------------------------------------------
(* The theorems about pointers.                                             *)

LEMMA InitInv ==
  ASSUME Init
  PROVE  Inv
<1>1. objs \in Scene /\ lost = {} /\ doc = NONE /\ copy = NONE
  BY DEF Init
<1>2. /\ Len(objs) \in Nat /\ objs = [id \in 1 .. Len(objs) |-> objs[id]]
      /\ \A id \in DOMAIN objs : objs[id] # FREED /\ Proper(objs, objs[id])
      /\ AimedAt(objs)
  BY <1>1, SceneAssumption
<1>3. 0 \notin DOMAIN objs
  <2>1. DOMAIN objs = 1 .. Len(objs)
    BY <1>2
  <2> QED
    BY <1>2, <2>1
<1>4. Living = DOMAIN objs
  BY <1>2 DEF Living
<1>5. SceneInv
  BY <1>2, <1>3, <1>4 DEF SceneInv
<1>6. LinksAlive
  BY <1>4, <1>5, AllAlive
<1>7. DestroyedOnce
  BY <1>1, <1>4 DEF DestroyedOnce
<1>8. DocumentThere /\ LinkedClasses
  BY <1>1 DEF DocumentThere, LinkedClasses, Loaded
<1> QED
  BY <1>5, <1>6, <1>7, <1>8 DEF Inv

LEMMA NextInv ==
  ASSUME Inv, [BMNext]_vars
  PROVE  Inv'
<1>1. CASE UNCHANGED vars
  BY <1>1, FrameKeeps, SameDocument DEF vars
<1>2. CASE Editing /\ \E id \in Living : Call(id)
  BY <1>2, CallsKeep
<1>3. CASE Editing /\ \E options \in Values.saveOptions, ext \in Values.saveExt :
             SetGlobalImages(options, ext)
  BY <1>3, OutsideKeeps DEF SetGlobalImages
<1>4. CASE Editing /\ lost = {} /\ \E del \in SUBSET Living :
             del # {} /\ (Destroy(del) \/ DestroyFaults(del))
  BY <1>4, DestroyKeeps, FaultKeeps
<1>5. CASE Save
  BY <1>5, SaveKeeps
<1>6. CASE SaveFaults \/ LoadThrows
  BY <1>6, FaultKeeps
<1>7. CASE Elsewhere
  BY <1>7, ElsewhereKeeps
<1>8. CASE Load
  BY <1>8, LoadKeeps
<1>9. CASE Editing /\ \E id \in Living : Members(id) \/ Linking(id) \/ OtherCall(id)
  BY <1>9, AssignedKeeps, LinkingKeeps, OtherKeeps
<1> QED
  BY <1>1, <1>2, <1>3, <1>4, <1>5, <1>6, <1>7, <1>8, <1>9 DEF BMNext, Next

\* Every object has the members of its class and points to what its class
\* points to, whatever calls are made; links lead to nobody who is gone; and
\* what is loaded is linked by class (CKObjectManager::DestroyObjects with the
\* Check functions of the classes, the calls of BMExports, the Load members).
THEOREM SceneInvariant == BMSpec => []Inv
<1>1. Init => Inv
  BY InitInv
<1>2. Inv /\ [BMNext]_vars => Inv'
  BY NextInv
<1> QED
  BY <1>1, <1>2, PTL DEF BMSpec

\* No call of BMap and no call of a class writes a member its object does not
\* have, or leaves a pointer to an object of another class than the one it is
\* cast to later (CheckGenericObject in BMExports).
THEOREM CastsAlwaysSound == BMSpec => []CastsSound
<1>1. SceneInv => CastsSound
  <2> SUFFICES ASSUME SceneInv, NEW id \in Living
               PROVE  LET o == objs[id]
                          classes(ids) == {objs[t].class : t \in (ids \cap Living) \ {0}}
                      IN /\ DOMAIN o = DOMAIN NewOf(o.class)
                         /\ o.class \in Entities => classes({o.mesh}) \subseteq {"MESH"}
                         /\ o.class = "MATERIAL" => classes(ToSet(o.textures)) \subseteq {"TEXTURE"}
                         /\ o.class = "MESH" => classes(ToSet(o.slots)) \subseteq {"MATERIAL"}
    BY DEF CastsSound
  <2> DEFINE o == objs[id]
  <2>1. Proper(objs, o)
    BY DEF SceneInv
  <2> HIDE DEF o
  <2>2. DOMAIN o = DOMAIN NewOf(o.class)
    BY <2>1 DEF Proper
  <2>3. \A classes : \A t \in At(objs, classes) : t \in Living /\ t # 0 => objs[t].class \in classes
    BY DEF At, Living
  <2>4. o.class \in Entities => (o.mesh \in Living /\ o.mesh # 0 => objs[o.mesh].class = "MESH")
    BY <2>1, <2>3 DEF Proper
  <2>5. o.class = "MATERIAL" =>
          \A t \in ToSet(o.textures) : t \in Living /\ t # 0 => objs[t].class = "TEXTURE"
    BY <2>1, <2>3 DEF Proper, ToSet
  <2>6. ASSUME o.class = "MESH"
        PROVE  \A t \in ToSet(o.slots) : t \in Living /\ t # 0 => objs[t].class = "MATERIAL"
    <3>1. \A i \in DOMAIN o.slots : o.slots[i] \in At(objs, {"MATERIAL"})
      BY <2>1, <2>6, LenProperties DEF Proper
    <3> QED
      BY <2>3, <3>1 DEF ToSet
  <2> QED
    BY <2>2, <2>4, <2>5, <2>6 DEF o
<1> QED
  BY <1>1, SceneInvariant, PTL DEF Inv

\* What is loaded is linked by class, whatever the document says (the checks
\* of the Load members).
THEOREM LinksAlwaysChecked == BMSpec => []LinkedClasses
<1>1. Inv => LinkedClasses
  BY DEF Inv
<1> QED
  BY <1>1, SceneInvariant, PTL

\* After a destruction nothing that was told of it leads to an object that is
\* gone (CheckPreDeletion and CheckPostDeletion).
THEOREM LinksStayAlive == BMSpec => []LinksAlive
<1>1. Inv => LinksAlive
  BY DEF Inv
<1> QED
  BY <1>1, SceneInvariant, PTL

\* Whoever is marked as a target is one (SetTarget and PreDelete of the
\* classes with a target).
THEOREM MarksAlwaysTrue == BMSpec => []TargetsMarked
<1>1. SceneInv => TargetsMarked
  <2> SUFFICES ASSUME SceneInv, NEW t \in Of(Entities), NEW class \in Aiming,
                      MarkOf(class) \in objs[t].entityFlags
               PROVE  \E id \in Of({class}) : objs[id].target = t
    BY DEF TargetsMarked
  <2>1. MarkOf(class) = class
    BY DEF MarkOf, Aiming
  <2>2. t \in DOMAIN objs /\ objs[t] # FREED /\ objs[t].class \in Entities
    BY DEF Of, Living
  <2>3. PICK id \in DOMAIN objs : objs[id] # FREED /\ objs[id].class = class /\ objs[id].target = t
    BY <2>1, <2>2 DEF SceneInv, AimedAt
  <2> QED
    BY <2>3 DEF Of, Living
<1> QED
  BY <1>1, SceneInvariant, PTL DEF Inv

\* What is taken from a sequence, one element after another.
LEMMA OnlyIs ==
  ASSUME NEW T, NEW s \in Seq(T), NEW S
  PROVE  \E f \in [0 .. Len(s) -> Seq(T)] :
           /\ f[0] = <<>> /\ f[Len(s)] = Only(s, S)
           /\ \A i \in 1 .. Len(s) : f[i] = IF s[i] \in S THEN Append(f[i - 1], s[i]) ELSE f[i - 1]
<1> DEFINE n == Len(s)
           L == Seq(T)
           next(t, x) == IF x \in S THEN Append(t, x) ELSE t
           step == [i \in 1 .. n |-> [t \in L |-> next(t, s[i])]]
           Walk(f) == [D \in SUBSET DOMAIN s |->
                         IF D = {} THEN <<>> ELSE next(f[D \ {Max(D)}], s[Max(D)])]
           iter == CHOOSE f : f = Walk(f)
<1>1. Only(s, S) = iter[DOMAIN s]
  BY DEF Only, FoldLeft, MapThenFoldSet
<1>2. n \in Nat /\ DOMAIN s = 1 .. n /\ \A i \in 1 .. n : s[i] \in T
  BY LenProperties
<1>3. <<>> \in L /\ step \in Steps(L, n)
  BY <1>2, EmptySeq, AppendProperties DEF Steps
<1>4. \A i \in 1 .. n, t \in L : step[i][t] = next(t, s[i])
  OBVIOUS
<1> HIDE DEF n, step, L, next
<1>5. Folds(L, <<>>, n, step)
  BY <1>2, <1>3, Folding
<1>6. PICK g \in [SUBSET (1 .. n) -> L] : FoldsLeft(g, <<>>, n, step)
  BY <1>5 DEF Folds
<1>7. ASSUME NEW D \in SUBSET (1 .. n), D # {}
      PROVE  g[D] = next(g[D \ {Max(D)}], s[Max(D)])
  <2>1. Max(D) \in D /\ g[D] = step[Max(D)][g[D \ {Max(D)}]]
    BY <1>6, <1>7 DEF FoldsLeft
  <2>2. D \ {Max(D)} \in SUBSET (1 .. n) /\ Max(D) \in 1 .. n
    BY <2>1
  <2> QED
    BY <1>4, <1>6, <2>1, <2>2
<1>8. g[{}] = <<>>
  BY <1>6 DEF FoldsLeft
<1>9. g = Walk(g)
  BY <1>2, <1>6, <1>7, <1>8
<1>10. iter = Walk(iter)
  BY <1>9
<1> HIDE DEF iter
<1>11. iter[{}] = <<>> /\ \A D \in SUBSET (1 .. n) :
         D # {} => iter[D] = next(iter[D \ {Max(D)}], s[Max(D)])
  BY <1>2, <1>10
<1>12. \A D \in SUBSET (1 .. n) : D # {} => Max(D) \in 1 .. n
  BY <1>2, MaxIs
<1>13. GoesBy(iter, L, <<>>, n, step)
  BY <1>4, <1>11, <1>12 DEF GoesBy
<1>14. PICK f \in [0 .. n -> L] : Recurs(f, <<>>, n, step) /\ f[n] = iter[1 .. n]
  BY <1>2, <1>3, <1>13, Folded
<1>15. f[0] = <<>> /\ f[n] = Only(s, S)
  BY <1>1, <1>2, <1>14 DEF Recurs
<1>16. ASSUME NEW i \in 1 .. n
       PROVE  f[i] = next(f[i - 1], s[i])
  <2>1. i - 1 \in 0 .. n
    BY <1>2
  <2>2. f[i] = step[i][f[i - 1]] /\ f[i - 1] \in L
    BY <1>14, <2>1 DEF Recurs
  <2> QED
    BY <1>4, <2>2
<1> QED
  BY <1>14, <1>15, <1>16 DEF n, next, L

LEMMA OnlyType ==
  ASSUME NEW T, NEW s \in Seq(T), NEW S
  PROVE  Only(s, S) \in Seq(T)
<1>1. PICK f \in [0 .. Len(s) -> Seq(T)] : f[Len(s)] = Only(s, S)
  BY OnlyIs
<1>2. Len(s) \in 0 .. Len(s)
  BY LenProperties
<1> QED
  BY <1>1, <1>2

-----------------------------------------------------------------------------
(* The values of the members.                                               *)

MeshArrays == VertexArrays \cup FaceArrays \cup {"lines"}

Listed == {"potentials", "enabled", "slots", "mipmaps", "current", "useMipmap"}

MadeMembers == {"class"} \cup TypedMembers \cup MeshArrays \cup Listed

LEMMA MadeMembersIs ==
  ASSUME NEW os, NEW o, Proper(os, o)
  PROVE  /\ o.class \in Classes /\ "class" \in DOMAIN o
         /\ o.class \in Entities => "potentials" \in DOMAIN o /\ o.class # "MESH"
         /\ o.class = "MATERIAL" => "enabled" \in DOMAIN o
         /\ o.class = "MESH" => MeshArrays \subseteq DOMAIN o /\ "slots" \in DOMAIN o
         /\ o.class = "TEXTURE" => {"slots", "mipmaps", "current", "useMipmap"} \subseteq DOMAIN o
<1>1. o.class \in Classes /\ "class" \in DOMAIN o
  BY ProperMembers
<1>2. o.class \in Entities => "potentials" \in DOMAIN o /\ o.class # "MESH"
  BY ProperMembers DEF EntityMembers, Entities, Lights, Cameras
<1>3. o.class = "MATERIAL" => "enabled" \in DOMAIN o
  BY ProperMembers DEF MaterialMembers
<1>4. o.class = "MESH" => MeshArrays \subseteq DOMAIN o /\ "slots" \in DOMAIN o
  BY ProperMembers DEF MeshMembers, MeshArrays, VertexArrays, FaceArrays
<1>5. o.class = "TEXTURE" => {"slots", "mipmaps", "current", "useMipmap"} \subseteq DOMAIN o
  BY ProperMembers DEF TextureMembers
<1> QED
  BY <1>1, <1>2, <1>3, <1>4, <1>5

\* Arrays that are as well made as before.
LEMMA ArraysMade ==
  ASSUME NEW os, NEW o, Proper(os, o), WellMade(o), o.class = "MESH",
         NEW p, Keeps(o, p, {"class"} \cup MeshArrays)
  PROVE  WellMade(p)
<1>1. MeshArrays \subseteq DOMAIN o /\ "class" \in DOMAIN o /\ MeshWellMade(o)
  BY MadeMembersIs DEF WellMade
<1>2. /\ p.class = "MESH" /\ \A a \in MeshArrays : p[a] = o[a]
  BY <1>1 DEF Keeps
<1>3. /\ \A a \in VertexArrays : p[a] = o[a]
      /\ \A a \in FaceArrays : p[a] = o[a]
      /\ p.lines = o.lines /\ p.positions = o.positions /\ p.faces = o.faces
  BY <1>2 DEF MeshArrays, VertexArrays, FaceArrays
<1>4. MeshWellMade(p)
  BY <1>1, <1>3 DEF MeshWellMade
<1> QED
  BY <1>2, <1>4 DEF WellMade, Entities, Lights, Cameras

\* An object of another class, with new values for some members.
LEMMA MembersMade ==
  ASSUME NEW os, NEW o, Proper(os, o), WellMade(o), o.class # "MESH",
         NEW p, Keeps(o, p, {"class"} \cup Listed),
         \A m \in DOMAIN o \cap TypedMembers : p[m] = o[m] \/ p[m] \in ValueType(m)
  PROVE  WellMade(p)
<1>1. "class" \in DOMAIN o /\ p.class = o.class /\ DOMAIN p = DOMAIN o
  BY MadeMembersIs DEF Keeps
<1>2. \A m \in DOMAIN p \cap TypedMembers : p[m] \in ValueType(m)
  BY <1>1 DEF WellMade
<1>3. ASSUME o.class \in Entities
      PROVE  p.potentials \in Seq(Nat \ {0})
  BY <1>3, MadeMembersIs DEF WellMade, Keeps, Listed
<1>4. ASSUME o.class = "MATERIAL"
      PROVE  p.enabled \subseteq Switches
  BY <1>4, MadeMembersIs DEF WellMade, Keeps, Listed
<1>5. ASSUME o.class = "TEXTURE"
      PROVE  TextureWellMade(p)
  <2>1. TextureWellMade(o)
    BY <1>5 DEF WellMade
  <2>2. /\ p.slots = o.slots /\ p.mipmaps = o.mipmaps /\ p.current = o.current
        /\ p.useMipmap = o.useMipmap
    BY <1>5, MadeMembersIs DEF Keeps, Listed
  <2> QED
    BY <2>1, <2>2 DEF TextureWellMade
<1> QED
  BY <1>1, <1>2, <1>3, <1>4, <1>5 DEF WellMade

LEMMA KeepsMade ==
  ASSUME NEW os, NEW o, Proper(os, o), WellMade(o), NEW p, Keeps(o, p, MadeMembers)
  PROVE  WellMade(p)
<1>1. CASE o.class = "MESH"
  <2>1. Keeps(o, p, {"class"} \cup MeshArrays)
    BY DEF Keeps, MadeMembers
  <2> QED
    BY <1>1, <2>1, ArraysMade
<1>2. CASE o.class # "MESH"
  <2>1. Keeps(o, p, {"class"} \cup Listed)
    BY DEF Keeps, MadeMembers
  <2>2. \A m \in DOMAIN o \cap TypedMembers : p[m] = o[m] \/ p[m] \in ValueType(m)
    BY DEF Keeps, MadeMembers
  <2> QED
    BY <1>2, <2>1, <2>2, MembersMade
<1> QED
  BY <1>1, <1>2

\* A member that a setter assigns to.
LEMMA MemberMade ==
  ASSUME NEW os, NEW o, Proper(os, o), WellMade(o), o.class # "MESH",
         NEW m, m \notin Listed, m # "class", NEW v, m \in TypedMembers => v \in ValueType(m),
         NEW p, DOMAIN p = DOMAIN o, \A k \in DOMAIN o : p[k] = IF k = m THEN v ELSE o[k]
  PROVE  WellMade(p)
<1>1. Keeps(o, p, {"class"} \cup Listed)
  BY DEF Keeps
<1>2. \A k \in DOMAIN o \cap TypedMembers : p[k] = o[k] \/ p[k] \in ValueType(k)
  OBVIOUS
<1> QED
  BY <1>1, <1>2, MembersMade

LEMMA PotentialsMade ==
  ASSUME NEW os, NEW o, Proper(os, o), WellMade(o), o.class \in Entities,
         NEW p, Keeps(o, p, {"class"} \cup TypedMembers), p.potentials \in Seq(Nat \ {0})
  PROVE  WellMade(p)
<1>1. p.class = o.class /\ DOMAIN p = DOMAIN o
  BY MadeMembersIs DEF Keeps
<1>2. \A m \in DOMAIN p \cap TypedMembers : p[m] \in ValueType(m)
  BY <1>1, MadeMembersIs DEF WellMade, Keeps
<1> QED
  BY <1>1, <1>2 DEF WellMade, Entities, Lights, Cameras

LEMMA EntityCallsMade ==
  ASSUME NEW os, NEW o, Proper(os, o), WellMade(o), o.class \in Entities,
         NEW m \in Nat
  PROVE  /\ m # 0 => WellMade(AddPotentialMesh(o, m)) /\ WellMade(RemovePotentialMesh(o, m))
         /\ WellMade(SetCurrentMesh(o, m))
<1> DEFINE L == Nat \ {0}
<1>1. o.potentials \in Seq(L) /\ "potentials" \in DOMAIN o
  BY MadeMembersIs DEF WellMade
<1>2. /\ "potentials" \notin {"class"} \cup TypedMembers
      /\ "mesh" \notin {"class"} \cup TypedMembers
  BY DEF TypedMembers, Colours, SamplingFields, RasterFields
<1> HIDE DEF L
<1>3. ASSUME NEW list \in Seq(L)
      PROVE  WellMade([o EXCEPT !.potentials = list])
  <2>1. Keeps(o, [o EXCEPT !.potentials = list], {"class"} \cup TypedMembers)
    BY <1>2 DEF Keeps
  <2>2. [o EXCEPT !.potentials = list].potentials = list
    BY <1>1
  <2> QED
    BY <2>1, <2>2, PotentialsMade DEF L
<1>4. ASSUME m # 0
      PROVE  AddIfNotHere(o.potentials, m) \in Seq(L)
  BY <1>1, <1>4, AppendProperties DEF AddIfNotHere, L
<1>5. ASSUME m # 0
      PROVE  WellMade(AddPotentialMesh(o, m)) /\ WellMade(RemovePotentialMesh(o, m))
  <2> DEFINE kept == Only(o.potentials, ToSet(o.potentials) \ {m})
  <2>1. kept \in Seq(L)
    BY <1>1, OnlyType
  <2>2. RemovePotentialMesh(o, m) = [o EXCEPT !.potentials = kept]
    BY DEF RemovePotentialMesh
  <2> HIDE DEF kept
  <2> QED
    BY <1>3, <1>4, <1>5, <2>1, <2>2 DEF AddPotentialMesh
<1>6. WellMade(SetCurrentMesh(o, m))
  <2> DEFINE q == [o EXCEPT !.mesh = m]
             list == IF m = 0 THEN o.potentials ELSE AddIfNotHere(o.potentials, m)
  <2>1. q.potentials = o.potentials /\ DOMAIN q = DOMAIN o /\ Keeps(o, q, {"class"} \cup TypedMembers)
    BY <1>1, <1>2 DEF Keeps
  <2>2. SetCurrentMesh(o, m) = IF m = 0 THEN q ELSE [q EXCEPT !.potentials = AddIfNotHere(@, m)]
    BY DEF SetCurrentMesh, AddPotentialMesh
  <2> HIDE DEF q
  <2>3. CASE m = 0
    BY <1>1, <2>1, <2>2, <2>3, PotentialsMade DEF L
  <2>4. CASE m # 0
    <3> DEFINE p == [q EXCEPT !.potentials = AddIfNotHere(@, m)]
    <3>1. p.potentials = AddIfNotHere(o.potentials, m)
      BY <1>1, <2>1
    <3>2. Keeps(o, p, {"class"} \cup TypedMembers)
      BY <1>2, <2>1 DEF Keeps
    <3> HIDE DEF p
    <3>3. WellMade(p)
      BY <1>4, <2>4, <3>1, <3>2, PotentialsMade DEF L
    <3> QED
      BY <2>2, <2>4, <3>3 DEF p
  <2> QED
    BY <2>3, <2>4
<1> QED
  BY <1>5, <1>6

LEMMA SwitchesMade ==
  ASSUME NEW os, NEW o, Proper(os, o), WellMade(o), NEW flag, NEW on
  PROVE  /\ o.class \in Lights => WellMade(SwitchLight(o, flag, on))
         /\ o.class = "MATERIAL" /\ flag \in Switches => WellMade(SwitchMaterial(o, flag, on))
<1>1. ASSUME o.class \in Lights
      PROVE  WellMade(SwitchLight(o, flag, on))
  <2>1. Keeps(o, SwitchLight(o, flag, on), MadeMembers)
    BY DEF Keeps, SwitchLight, MadeMembers, TypedMembers, MeshArrays, VertexArrays, FaceArrays,
           Listed, Colours, SamplingFields, RasterFields
  <2> QED
    BY <2>1, KeepsMade
<1>2. ASSUME o.class = "MATERIAL", flag \in Switches
      PROVE  WellMade(SwitchMaterial(o, flag, on))
  <2> DEFINE p == SwitchMaterial(o, flag, on)
  <2>1. "enabled" \in DOMAIN o /\ "class" \in DOMAIN o /\ o.enabled \subseteq Switches
    BY <1>2, MadeMembersIs DEF WellMade
  <2>2. "enabled" \notin TypedMembers
    BY DEF TypedMembers, Colours, SamplingFields, RasterFields
  <2>3. /\ DOMAIN p = DOMAIN o /\ p.class = o.class /\ p.enabled \subseteq Switches
        /\ \A m \in DOMAIN o : m # "enabled" => p[m] = o[m]
    BY <1>2, <2>1 DEF SwitchMaterial
  <2> HIDE DEF p
  <2>4. \A m \in DOMAIN p \cap TypedMembers : p[m] \in ValueType(m)
    BY <1>2, <2>2, <2>3 DEF WellMade
  <2>5. WellMade(p)
    BY <1>2, <2>3, <2>4 DEF WellMade, Entities, Lights, Cameras
  <2> QED
    BY <2>5 DEF p
<1> QED
  BY <1>1, <1>2

LEMMA ShowMade ==
  ASSUME NEW os, NEW o, Proper(os, o), WellMade(o), NEW option
  PROVE  WellMade(ShowOf(o, option))
<1>1. "flags" \notin MadeMembers /\ "moveable" \notin MadeMembers /\ "meshFlags" \notin MadeMembers
  BY DEF MadeMembers, TypedMembers, MeshArrays, VertexArrays, FaceArrays, Listed, Colours,
         SamplingFields, RasterFields
<1>2. /\ Keeps(o, ShowObject(o, option), MadeMembers)
      /\ Keeps(o, ShowEntity(o, option), MadeMembers)
      /\ Keeps(o, ShowMesh(o, option), MadeMembers)
  BY <1>1 DEF Keeps, ShowObject, ShowEntity, ShowMesh
<1>3. Keeps(o, ShowOf(o, option), MadeMembers)
  BY <1>2 DEF ShowOf
<1> QED
  BY <1>3, KeepsMade

-----------------------------------------------------------------------------
(* The arrays of a mesh.                                                    *)

\* An array of another length, of elements that are as they should be.
LEMMA ResizedMade ==
  ASSUME NEW a \in MeshArrays, NEW s, ArrayOf(a, s), NEW n \in Nat, NEW default,
         a \in {"positions", "normals"} => default \in Vector,
         a = "faces" => default \in [1 .. 3 -> Nat]
  PROVE  ArrayOf(a, Resized(s, n, default)) /\ Len(Resized(s, n, default)) = n
<1> DEFINE r == Resized(s, n, default)
<1>1. r = [i \in 1 .. n |-> IF i <= Len(s) THEN s[i] ELSE default]
  BY DEF Resized
<1>2. Len(s) \in Nat /\ DOMAIN s = 1 .. Len(s)
  BY DEF ArrayOf, IsList
<1> HIDE DEF r
<1>3. DOMAIN r = 1 .. n /\ Len(r) = n /\ r = [i \in 1 .. n |-> r[i]]
  BY <1>1
<1>4. \A i \in 1 .. n : (i \in DOMAIN s /\ r[i] = s[i]) \/ r[i] = default
  BY <1>1, <1>2
<1>5. IsList(r)
  BY <1>3 DEF IsList
<1>6. a \in {"positions", "normals"} => \A i \in DOMAIN r : r[i] \in Vector
  BY <1>3, <1>4 DEF ArrayOf
<1>7. a = "faces" => \A i \in DOMAIN r : r[i] \in [1 .. 3 -> Nat]
  BY <1>3, <1>4 DEF ArrayOf
<1> QED
  BY <1>3, <1>5, <1>6, <1>7 DEF ArrayOf, r

\* All arrays of one group get one length.
LEMMA GroupMade ==
  ASSUME NEW os, NEW o, Proper(os, o), WellMade(o), o.class = "MESH",
         NEW p, Keeps(o, p, {"class"}), NEW n,
         \/ /\ \A a \in VertexArrays : ArrayOf(a, p[a]) /\ Len(p[a]) = n
            /\ \A a \in FaceArrays \cup {"lines"} : p[a] = o[a]
         \/ /\ \A a \in FaceArrays : ArrayOf(a, p[a]) /\ Len(p[a]) = n
            /\ \A a \in VertexArrays \cup {"lines"} : p[a] = o[a]
         \/ /\ ArrayOf("lines", p.lines)
            /\ \A a \in VertexArrays \cup FaceArrays : p[a] = o[a]
  PROVE  WellMade(p)
<1>1. MeshWellMade(o) /\ p.class = "MESH"
  BY MadeMembersIs DEF WellMade, Keeps
<1>2. "positions" \in VertexArrays /\ "faces" \in FaceArrays
  BY DEF VertexArrays, FaceArrays
<1>3. MeshWellMade(p)
  BY <1>1, <1>2, Zenon DEF MeshWellMade
<1> QED
  BY <1>1, <1>3 DEF WellMade, Entities, Lights, Cameras

LEMMA SizingMade ==
  ASSUME NEW os, NEW o, Proper(os, o), WellMade(o), o.class = "MESH", NEW n \in Nat
  PROVE  /\ WellMade(SetVertexCount(o, n)) /\ WellMade(SetFaceCount(o, n))
         /\ WellMade(SetLineCount(o, n)) /\ WellMade(SetMaterialSlotCount(o, n))
<1>1. MeshArrays \subseteq DOMAIN o /\ MeshWellMade(o) /\ "class" \in DOMAIN o
  BY MadeMembersIs DEF WellMade
<1>2. \A a \in MeshArrays : ArrayOf(a, o[a])
  BY <1>1 DEF MeshWellMade, MeshArrays
<1>3. Zero \in Vector /\ <<0, 0, 0>> \in [1 .. 3 -> Nat]
  BY DEF Zero, Vector
<1>4. WellMade(SetVertexCount(o, n))
  <2> DEFINE p == SetVertexCount(o, n)
  <2>1. /\ DOMAIN p = DOMAIN o
        /\ p.positions = Resized(o.positions, n, Zero) /\ p.normals = Resized(o.normals, n, Zero)
        /\ p.uvs = Resized(o.uvs, n, 0) /\ p.colors = Resized(o.colors, n, White)
        /\ p.specular = Resized(o.specular, n, 0)
        /\ \A m \in DOMAIN o \ VertexArrays : p[m] = o[m]
    BY <1>1 DEF SetVertexCount, MeshArrays, VertexArrays
  <2> HIDE DEF p
  <2>2. \A a \in VertexArrays : ArrayOf(a, p[a]) /\ Len(p[a]) = n
    <3>1. /\ "positions" \in MeshArrays /\ "normals" \in MeshArrays /\ "uvs" \in MeshArrays
          /\ "colors" \in MeshArrays /\ "specular" \in MeshArrays
      BY DEF MeshArrays, VertexArrays
    <3>2. /\ ArrayOf("positions", p.positions) /\ Len(p.positions) = n
          /\ ArrayOf("normals", p.normals) /\ Len(p.normals) = n
      BY <1>2, <1>3, <2>1, <3>1, ResizedMade
    <3>3. /\ ArrayOf("uvs", p.uvs) /\ Len(p.uvs) = n
          /\ ArrayOf("colors", p.colors) /\ Len(p.colors) = n
          /\ ArrayOf("specular", p.specular) /\ Len(p.specular) = n
      BY <1>2, <2>1, <3>1, ResizedMade
    <3> QED
      BY <3>2, <3>3 DEF VertexArrays
  <2>3. \A a \in FaceArrays \cup {"lines"} : p[a] = o[a]
    BY <1>1, <2>1 DEF MeshArrays, VertexArrays, FaceArrays
  <2>4. Keeps(o, p, {"class"})
    BY <2>1 DEF Keeps, VertexArrays
  <2>5. WellMade(p)
    BY <2>2, <2>3, <2>4, GroupMade
  <2> QED
    BY <2>5 DEF p
<1>5. WellMade(SetFaceCount(o, n))
  <2> DEFINE p == SetFaceCount(o, n)
  <2>1. /\ DOMAIN p = DOMAIN o
        /\ p.faces = Resized(o.faces, n, <<0, 0, 0>>) /\ p.faceSlots = Resized(o.faceSlots, n, 0)
        /\ \A m \in DOMAIN o \ (FaceArrays \cup {"faceNormals"}) : p[m] = o[m]
    BY <1>1 DEF SetFaceCount, MeshArrays, FaceArrays
  <2> HIDE DEF p
  <2>2. \A a \in FaceArrays : ArrayOf(a, p[a]) /\ Len(p[a]) = n
    <3>1. "faces" \in MeshArrays /\ "faceSlots" \in MeshArrays
      BY DEF MeshArrays, FaceArrays
    <3>2. ArrayOf("faces", p.faces) /\ Len(p.faces) = n
      BY <1>2, <1>3, <2>1, <3>1, ResizedMade
    <3>3. ArrayOf("faceSlots", p.faceSlots) /\ Len(p.faceSlots) = n
      BY <1>2, <2>1, <3>1, ResizedMade
    <3> QED
      BY <3>2, <3>3 DEF FaceArrays
  <2>3. \A a \in VertexArrays \cup {"lines"} : p[a] = o[a]
    BY <1>1, <2>1 DEF MeshArrays, VertexArrays, FaceArrays
  <2>4. Keeps(o, p, {"class"})
    BY <2>1 DEF Keeps, FaceArrays
  <2>5. WellMade(p)
    BY <2>2, <2>3, <2>4, GroupMade
  <2> QED
    BY <2>5 DEF p
<1>6. WellMade(SetLineCount(o, n))
  <2> DEFINE p == SetLineCount(o, n)
  <2>1. /\ DOMAIN p = DOMAIN o /\ p.lines = Resized(o.lines, n, <<0, 0>>)
        /\ \A m \in DOMAIN o \ {"lines"} : p[m] = o[m]
    BY <1>1 DEF SetLineCount, MeshArrays
  <2> HIDE DEF p
  <2>2. ArrayOf("lines", p.lines)
    BY <1>2, <2>1, ResizedMade DEF MeshArrays
  <2>3. \A a \in VertexArrays \cup FaceArrays : p[a] = o[a]
    BY <1>1, <2>1 DEF MeshArrays, VertexArrays, FaceArrays
  <2>4. Keeps(o, p, {"class"})
    BY <2>1 DEF Keeps
  <2>5. WellMade(p)
    BY <2>2, <2>3, <2>4, GroupMade
  <2> QED
    BY <2>5 DEF p
<1>7. WellMade(SetMaterialSlotCount(o, n))
  <2>1. "slots" \notin {"class"} \cup MeshArrays
    BY DEF MeshArrays, VertexArrays, FaceArrays
  <2>2. Keeps(o, SetMaterialSlotCount(o, n), {"class"} \cup MeshArrays)
    BY <2>1 DEF Keeps, SetMaterialSlotCount
  <2> QED
    BY <2>2, ArraysMade
<1> QED
  BY <1>4, <1>5, <1>6, <1>7

\* A client writes a whole array, of the length it has.
LEMMA ArrayMade ==
  ASSUME NEW os, NEW o, Proper(os, o), WellMade(o), o.class = "MESH",
         NEW a \in MeshArrays, NEW content, ArrayOf(a, content), Len(content) = Len(o[a])
  PROVE  WellMade([o EXCEPT ![a] = content])
<1> DEFINE p == [o EXCEPT ![a] = content]
<1> SUFFICES WellMade(p)
  OBVIOUS
<1>1. MeshArrays \subseteq DOMAIN o /\ MeshWellMade(o) /\ "class" \in DOMAIN o
  BY MadeMembersIs DEF WellMade
<1>2. a # "class"
  BY DEF MeshArrays, VertexArrays, FaceArrays
<1>3. p[a] = content /\ \A m \in DOMAIN o \ {a} : p[m] = o[m]
  BY <1>1
<1>4. Keeps(o, p, {"class"})
  BY <1>2 DEF Keeps
<1> HIDE DEF p
<1>5. \A b \in MeshArrays : p[b] = IF b = a THEN content ELSE o[b]
  BY <1>1, <1>3
<1>6. CASE a \in VertexArrays
  <2>1. \A b \in FaceArrays \cup {"lines"} : p[b] = o[b]
    BY <1>5, <1>6 DEF MeshArrays, VertexArrays, FaceArrays
  <2>2. \A b \in VertexArrays : ArrayOf(b, p[b]) /\ Len(p[b]) = Len(o.positions)
    BY <1>1, <1>5, <1>6 DEF MeshWellMade, MeshArrays
  <2> QED
    BY <1>4, <2>1, <2>2, GroupMade
<1>7. CASE a \in FaceArrays
  <2>1. \A b \in VertexArrays \cup {"lines"} : p[b] = o[b]
    BY <1>5, <1>7 DEF MeshArrays, VertexArrays, FaceArrays
  <2>2. \A b \in FaceArrays : ArrayOf(b, p[b]) /\ Len(p[b]) = Len(o.faces)
    BY <1>1, <1>5, <1>7 DEF MeshWellMade, MeshArrays
  <2> QED
    BY <1>4, <2>1, <2>2, GroupMade
<1>8. CASE a = "lines"
  <2>1. \A b \in VertexArrays \cup FaceArrays : p[b] = o[b]
    BY <1>5, <1>8 DEF MeshArrays, VertexArrays, FaceArrays
  <2>2. ArrayOf("lines", p.lines)
    BY <1>5, <1>8
  <2> QED
    BY <1>4, <2>1, <2>2, GroupMade
<1> QED
  BY <1>6, <1>7, <1>8 DEF MeshArrays

LEMMA MeshFlagsMade ==
  ASSUME NEW os, NEW o, Proper(os, o), WellMade(o), o.class = "MESH", NEW x
  PROVE  /\ WellMade(SetMeshFlags(o, x)) /\ WellMade(SetLitMode(o, x))
         /\ WellMade(SetWrapMode(o, x)) /\ \A i : WellMade([o EXCEPT !.slots[i] = x])
<1>1. /\ "flags" \notin {"class"} \cup MeshArrays /\ "meshFlags" \notin {"class"} \cup MeshArrays
      /\ "slots" \notin {"class"} \cup MeshArrays
  BY DEF MeshArrays, VertexArrays, FaceArrays
<1>2. /\ Keeps(o, SetMeshFlags(o, x), {"class"} \cup MeshArrays)
      /\ Keeps(o, SetLitMode(o, x), {"class"} \cup MeshArrays)
      /\ Keeps(o, SetWrapMode(o, x), {"class"} \cup MeshArrays)
      /\ \A i : Keeps(o, [o EXCEPT !.slots[i] = x], {"class"} \cup MeshArrays)
  BY <1>1 DEF Keeps, SetMeshFlags, SetLitMode, SetWrapMode
<1> QED
  BY <1>2, ArraysMade

-----------------------------------------------------------------------------
(* Images.                                                                  *)

\* The sides of an image, its pixels, and what it takes to be one.
Sized(image, h, w) ==
  /\ h \in Nat \ {0} /\ w \in Nat \ {0}
  /\ DOMAIN image = 1 .. h /\ Height(image) = h /\ Width(image) = w
  /\ \A r \in 1 .. h : DOMAIN image[r] = 1 .. w

\* The image of two tables, of its colours and of its alpha values.
Pixels(h, w, a, b) == [r \in 1 .. h |-> [c \in 1 .. w |-> <<a[r][c], b[r][c]>>]]

LEMMA ImageIs ==
  ASSUME NEW h \in Nat \ {0}, NEW w \in Nat \ {0}, NEW a, NEW b, NEW image,
         image = Pixels(h, w, a, b)
  PROVE  /\ IsImage(image) /\ Sized(image, h, w) /\ image # NoImage
         /\ \A r \in 1 .. h, c \in 1 .. w : image[r][c][1] = a[r][c] /\ image[r][c][2] = b[r][c]
<1>1. DOMAIN image = 1 .. h /\ Len(image) = h /\ 1 \in 1 .. h
  BY DEF Pixels
<1>2. image # NoImage
  BY <1>1 DEF NoImage
<1>3. /\ \A r \in 1 .. h : DOMAIN image[r] = 1 .. w /\ Len(image[r]) = w
      /\ \A r \in 1 .. h, c \in 1 .. w : image[r][c] = <<a[r][c], b[r][c]>>
  BY DEF Pixels
<1>4. Height(image) = h /\ Width(image) = w
  BY <1>1, <1>2, <1>3 DEF Height, Width
<1>5. \A r \in 1 .. h, c \in 1 .. w : image[r][c][1] = a[r][c] /\ image[r][c][2] = b[r][c]
  BY <1>3
<1>6. image = [r \in 1 .. h |-> [c \in 1 .. w |-> <<image[r][c][1], image[r][c][2]>>]]
  BY <1>5 DEF Pixels
<1>7. IsImage(image)
  BY <1>4, <1>6 DEF IsImage
<1> QED
  BY <1>1, <1>2, <1>3, <1>4, <1>5, <1>7 DEF Sized

LEMMA ImageHas ==
  ASSUME NEW image, IsImage(image)
  PROVE  /\ Sized(image, Height(image), Width(image)) /\ image # NoImage
         /\ \A r \in DOMAIN image : \A c \in DOMAIN image[r] :
              image[r][c] = <<image[r][c][1], image[r][c][2]>>
<1> DEFINE h == Height(image)
           w == Width(image)
           a == [r \in 1 .. h |-> [c \in 1 .. w |-> image[r][c][1]]]
           b == [r \in 1 .. h |-> [c \in 1 .. w |-> image[r][c][2]]]
<1>1. /\ h \in Nat \ {0} /\ w \in Nat \ {0}
      /\ image = [r \in 1 .. h |-> [c \in 1 .. w |-> <<image[r][c][1], image[r][c][2]>>]]
  BY DEF IsImage
<1> HIDE DEF h, w
<1>2. image = Pixels(h, w, a, b)
  BY <1>1 DEF Pixels
<1> HIDE DEF a, b
<1>0. h \in Nat \ {0} /\ w \in Nat \ {0}
  BY <1>1
<1>3. /\ Sized(image, h, w) /\ image # NoImage
      /\ \A r \in 1 .. h, c \in 1 .. w : image[r][c][1] = a[r][c] /\ image[r][c][2] = b[r][c]
  BY ONLY <1>0, <1>2, ImageIs
<1>4. \A r \in 1 .. h : \A c \in 1 .. w : image[r][c] = <<image[r][c][1], image[r][c][2]>>
  BY <1>1
<1> QED
  BY <1>3, <1>4 DEF Sized, h, w

LEMMA SameImage ==
  ASSUME NEW p, NEW q, NEW h, NEW w, IsImage(p), IsImage(q), Sized(p, h, w), Sized(q, h, w),
         \A r \in 1 .. h, c \in 1 .. w : p[r][c][1] = q[r][c][1] /\ p[r][c][2] = q[r][c][2]
  PROVE  p = q
<1>1. /\ p = [r \in 1 .. h |-> [c \in 1 .. w |-> <<p[r][c][1], p[r][c][2]>>]]
      /\ q = [r \in 1 .. h |-> [c \in 1 .. w |-> <<q[r][c][1], q[r][c][2]>>]]
  BY DEF IsImage, Sized
<1>2. \A r \in 1 .. h : [c \in 1 .. w |-> <<p[r][c][1], p[r][c][2]>>]
                           = [c \in 1 .. w |-> <<q[r][c][1], q[r][c][2]>>]
  OBVIOUS
<1>3. [r \in 1 .. h |-> [c \in 1 .. w |-> <<p[r][c][1], p[r][c][2]>>]]
        = [r \in 1 .. h |-> [c \in 1 .. w |-> <<q[r][c][1], q[r][c][2]>>]]
  BY <1>2
<1> QED
  BY <1>1, <1>3

\* An image that is written to a file.
LEMMA OpaqueIs ==
  ASSUME NEW image, IsImage(image)
  PROVE  /\ IsImage(AllOpaque(image)) /\ Sized(AllOpaque(image), Height(image), Width(image))
         /\ AllOpaque(image) # NoImage
         /\ \A r \in DOMAIN image : \A c \in DOMAIN image[r] :
              /\ AllOpaque(image)[r][c][1] = image[r][c][1]
              /\ AllOpaque(image)[r][c][2] = OpaqueAlpha
<1> DEFINE h == Height(image)
           w == Width(image)
           a == [r \in 1 .. h |-> [c \in 1 .. w |-> image[r][c][1]]]
           b == [r \in 1 .. h |-> [c \in 1 .. w |-> OpaqueAlpha]]
           p == AllOpaque(image)
<1>1. Sized(image, h, w)
  BY ImageHas
<1> HIDE DEF h, w
<1>2. p = Pixels(h, w, a, b)
  BY <1>1 DEF AllOpaque, Sized, Pixels
<1>3. \A r \in 1 .. h, c \in 1 .. w : a[r][c] = image[r][c][1] /\ b[r][c] = OpaqueAlpha
  OBVIOUS
<1>4. h \in Nat \ {0} /\ w \in Nat \ {0}
  BY <1>1 DEF Sized
<1> HIDE DEF a, b, p
<1>5. /\ IsImage(p) /\ Sized(p, h, w) /\ p # NoImage
      /\ \A r \in 1 .. h, c \in 1 .. w : p[r][c][1] = a[r][c] /\ p[r][c][2] = b[r][c]
  BY <1>2, <1>4, ImageIs
<1> QED
  BY <1>1, <1>3, <1>5 DEF Sized, p, h, w

-----------------------------------------------------------------------------
(* Textures and their files.                                                *)

LEMMA TextureMade ==
  ASSUME NEW os, NEW o, Proper(os, o), WellMade(o), o.class = "TEXTURE",
         NEW p, Keeps(o, p, {"class"} \cup TypedMembers), TextureWellMade(p)
  PROVE  WellMade(p)
<1>1. p.class = o.class /\ DOMAIN p = DOMAIN o
  BY MadeMembersIs DEF Keeps
<1>2. \A m \in DOMAIN p \cap TypedMembers : p[m] \in ValueType(m)
  BY <1>1 DEF WellMade, Keeps
<1> QED
  BY <1>1, <1>2 DEF WellMade, Entities, Lights, Cameras

LEMMA TextureLists ==
  ASSUME NEW os, NEW o, Proper(os, o), WellMade(o), o.class = "TEXTURE"
  PROVE  /\ \A s : IsList(s) /\ (\A i \in DOMAIN s : SlotWellMade(s[i])) =>
                     WellMade([o EXCEPT !.slots = s])
         /\ \A s : IsList(s) => WellMade([o EXCEPT !.mipmaps = s])
         /\ \A use \in BOOLEAN : \A s : IsList(s) =>
              WellMade([o EXCEPT !.useMipmap = use, !.mipmaps = s])
         /\ \A n \in Nat : WellMade([o EXCEPT !.current = n])
<1>1. {"slots", "mipmaps", "current", "useMipmap"} \subseteq DOMAIN o /\ TextureWellMade(o)
  BY MadeMembersIs DEF WellMade
<1>2. {"slots", "mipmaps", "current", "useMipmap"} \cap ({"class"} \cup TypedMembers) = {}
  BY DEF TypedMembers, Colours, SamplingFields, RasterFields
<1>3. ASSUME NEW s, IsList(s), \A i \in DOMAIN s : SlotWellMade(s[i])
      PROVE  WellMade([o EXCEPT !.slots = s])
  <2> DEFINE p == [o EXCEPT !.slots = s]
  <2>1. Keeps(o, p, {"class"} \cup TypedMembers)
    BY <1>2 DEF Keeps
  <2>2. p.slots = s /\ p.mipmaps = o.mipmaps /\ p.current = o.current /\ p.useMipmap = o.useMipmap
    BY <1>1
  <2> HIDE DEF p
  <2>3. TextureWellMade(p)
    BY <1>1, <1>3, <2>2 DEF TextureWellMade
  <2>4. WellMade(p)
    BY <2>1, <2>3, TextureMade
  <2> QED
    BY <2>4 DEF p
<1>4. ASSUME NEW s, IsList(s)
      PROVE  WellMade([o EXCEPT !.mipmaps = s])
  <2> DEFINE p == [o EXCEPT !.mipmaps = s]
  <2>1. Keeps(o, p, {"class"} \cup TypedMembers)
    BY <1>2 DEF Keeps
  <2>2. p.mipmaps = s /\ p.slots = o.slots /\ p.current = o.current /\ p.useMipmap = o.useMipmap
    BY <1>1
  <2> HIDE DEF p
  <2>3. TextureWellMade(p)
    BY <1>1, <1>4, <2>2 DEF TextureWellMade
  <2>4. WellMade(p)
    BY <2>1, <2>3, TextureMade
  <2> QED
    BY <2>4 DEF p
<1>5. ASSUME NEW use \in BOOLEAN, NEW s, IsList(s)
      PROVE  WellMade([o EXCEPT !.useMipmap = use, !.mipmaps = s])
  <2> DEFINE p == [o EXCEPT !.useMipmap = use, !.mipmaps = s]
  <2>1. Keeps(o, p, {"class"} \cup TypedMembers)
    BY <1>2 DEF Keeps
  <2>2. p.mipmaps = s /\ p.slots = o.slots /\ p.current = o.current /\ p.useMipmap \in BOOLEAN
    BY <1>1, <1>5
  <2> HIDE DEF p
  <2>3. TextureWellMade(p)
    BY <1>1, <1>5, <2>2 DEF TextureWellMade
  <2>4. WellMade(p)
    BY <2>1, <2>3, TextureMade
  <2> QED
    BY <2>4 DEF p
<1>6. ASSUME NEW n \in Nat
      PROVE  WellMade([o EXCEPT !.current = n])
  <2> DEFINE p == [o EXCEPT !.current = n]
  <2>1. Keeps(o, p, {"class"} \cup TypedMembers)
    BY <1>2 DEF Keeps
  <2>2. p.mipmaps = o.mipmaps /\ p.slots = o.slots /\ p.current = n /\ p.useMipmap = o.useMipmap
    BY <1>1
  <2> HIDE DEF p
  <2>3. TextureWellMade(p)
    BY <1>1, <2>2 DEF TextureWellMade
  <2>4. WellMade(p)
    BY <2>1, <2>3, TextureMade
  <2> QED
    BY <2>4 DEF p
<1> QED
  BY <1>3, <1>4, <1>5, <1>6

\* A list of another length.
LEMMA LongerList ==
  ASSUME NEW n \in Nat, NEW s, IsList(s), NEW d,
         NEW t, t = Resized(s, n, d)
  PROVE  /\ IsList(t) /\ DOMAIN t = 1 .. n /\ Len(t) = n
         /\ \A i \in 1 .. n : (i \in DOMAIN s /\ t[i] = s[i]) \/ t[i] = d
<1>1. DOMAIN t = 1 .. n /\ Len(t) = n /\ t = [i \in 1 .. n |-> t[i]]
  BY DEF Resized
<1>2. Len(s) \in Nat /\ DOMAIN s = 1 .. Len(s)
  BY DEF IsList
<1>3. \A i \in 1 .. n : (i \in DOMAIN s /\ t[i] = s[i]) \/ t[i] = d
  BY <1>2 DEF Resized
<1> QED
  BY <1>1, <1>3 DEF IsList

\* One element of a list.
LEMMA ListExcept ==
  ASSUME NEW s, IsList(s), NEW i, NEW v
  PROVE  /\ IsList([s EXCEPT ![i] = v]) /\ DOMAIN [s EXCEPT ![i] = v] = DOMAIN s
         /\ \A k \in DOMAIN s : [s EXCEPT ![i] = v][k] = IF k = i THEN v ELSE s[k]
<1> DEFINE t == [s EXCEPT ![i] = v]
<1>1. DOMAIN t = DOMAIN s /\ \A k \in DOMAIN s : t[k] = IF k = i THEN v ELSE s[k]
  OBVIOUS
<1>2. Len(s) \in Nat /\ DOMAIN s = 1 .. Len(s)
  BY DEF IsList
<1>3. t = [k \in 1 .. Len(s) |-> t[k]]
  BY <1>2
<1> HIDE DEF t
<1>4. Len(t) = Len(s)
  BY <1>2, <1>3
<1>5. IsList(t)
  BY <1>2, <1>3, <1>4 DEF IsList
<1> QED
  BY <1>1, <1>5 DEF t

LEMMA SlotMade ==
  ASSUME NEW os, NEW o, Proper(os, o), WellMade(o), o.class = "TEXTURE",
         NEW i \in DOMAIN o.slots, NEW v, SlotWellMade(v)
  PROVE  WellMade([o EXCEPT !.slots[i] = v])
<1> DEFINE s == [o.slots EXCEPT ![i] = v]
<1>1. TextureWellMade(o)
  BY DEF WellMade
<1>2. IsList(o.slots) /\ \A k \in DOMAIN o.slots : SlotWellMade(o.slots[k])
  BY <1>1 DEF TextureWellMade
<1>3. [o EXCEPT !.slots[i] = v] = [o EXCEPT !.slots = s]
  OBVIOUS
<1>4. /\ IsList(s) /\ DOMAIN s = DOMAIN o.slots
      /\ \A k \in DOMAIN o.slots : s[k] = IF k = i THEN v ELSE o.slots[k]
  BY <1>2, ListExcept
<1> HIDE DEF s
<1>5. \A k \in DOMAIN s : SlotWellMade(s[k])
  BY <1>2, <1>4
<1> QED
  BY <1>3, <1>4, <1>5, TextureLists

LEMMA SlotPartsMade ==
  ASSUME NEW s, SlotWellMade(s)
  PROVE  /\ \A image : image = NoImage \/ IsImage(image) => SlotWellMade([s EXCEPT !.image = image])
         /\ \A name : name = NoName \/ IsName(name) => SlotWellMade([s EXCEPT !.name = name])
         /\ DOMAIN s = {"image", "name"}
<1>1. s = [image |-> s.image, name |-> s.name] /\ DOMAIN s = {"image", "name"}
  BY DEF SlotWellMade
<1>2. ASSUME NEW image, image = NoImage \/ IsImage(image)
      PROVE  SlotWellMade([s EXCEPT !.image = image])
  <2> DEFINE t == [s EXCEPT !.image = image]
  <2>1. t = [image |-> t.image, name |-> t.name] /\ t.image = image /\ t.name = s.name
    BY <1>1
  <2> HIDE DEF t
  <2>2. SlotWellMade(t)
    BY <1>2, <2>1 DEF SlotWellMade
  <2> QED
    BY <2>2 DEF t
<1>3. ASSUME NEW name, name = NoName \/ IsName(name)
      PROVE  SlotWellMade([s EXCEPT !.name = name])
  <2> DEFINE t == [s EXCEPT !.name = name]
  <2>1. t = [image |-> t.image, name |-> t.name] /\ t.image = s.image /\ t.name = name
    BY <1>1
  <2> HIDE DEF t
  <2>2. SlotWellMade(t)
    BY <1>3, <2>1 DEF SlotWellMade
  <2> QED
    BY <2>2 DEF t
<1> QED
  BY <1>1, <1>2, <1>3

FilesMade(d) == \A x \in DOMAIN d : FilesOf(d[x])

LEMMA NameIs ==
  ASSUME NEW m, m = [k \in {"dir", "base"} |-> m[k]]
  PROVE  m = [dir |-> m.dir, base |-> m.base]
OBVIOUS

\* What is read from a file is an image, with the name the file was found by.
LEMMA FromFileMade ==
  ASSUME NEW name, IsName(name), NEW d, FilesMade(d), NEW paths, NEW failed, SlotWellMade(failed)
  PROVE  SlotWellMade(SlotFromFile(ResolveFileName(name, d, paths), d, failed))
<1> DEFINE path == ResolveFileName(name, d, paths)
<1>1. path = NoName \/ IsName(path)
  <2>1. /\ name = [dir |-> name.dir, base |-> name.base] /\ name.base # ""
        /\ DOMAIN name = {"dir", "base"}
    BY DEF IsName
  <2>2. \A x : IsName([name EXCEPT !.dir = x])
    <3> SUFFICES ASSUME NEW x
                 PROVE  IsName([name EXCEPT !.dir = x])
      OBVIOUS
    <3> DEFINE m == [name EXCEPT !.dir = x]
    <3>1. m.base = name.base
      BY <2>1
    <3>3. m = [k \in {"dir", "base"} |-> m[k]]
      BY <2>1
    <3>4. m = [dir |-> m.dir, base |-> m.base]
      BY <3>3, NameIs
    <3> HIDE DEF m
    <3>2. IsName(m)
      BY <2>1, <3>1, <3>4 DEF IsName
    <3> QED
      BY <3>2 DEF m
  <2> QED
    BY <2>1, <2>2 DEF ResolveFileName
<1> HIDE DEF path
<1>2. CASE path = NoName \/ ~ Readable(path, d)
  BY <1>2 DEF SlotFromFile, path
<1>3. CASE ~ (path = NoName \/ ~ Readable(path, d))
  <2> DEFINE image == d[path.dir][path.base]
             s == [image |-> image, name |-> path]
  <2>1. /\ path.dir \in DOMAIN d /\ path.base \in DOMAIN d[path.dir]
        /\ d[path.dir][path.base] # NoImage
    BY <1>3 DEF Readable, IsFile
  <2>2. IsImage(image)
    BY <2>1 DEF FilesMade, FilesOf
  <2> HIDE DEF image
  <2>3. s.image = image /\ s.name = path /\ s = [image |-> s.image, name |-> s.name]
    OBVIOUS
  <2> HIDE DEF s
  <2>4. SlotWellMade(s)
    BY <1>1, <2>2, <2>3 DEF SlotWellMade
  <2> QED
    BY <1>3, <2>4 DEF SlotFromFile, path, s, image
<1> QED
  BY <1>2, <1>3

LEMMA SlotCallsMade ==
  ASSUME NEW os, NEW o, Proper(os, o), WellMade(o), o.class = "TEXTURE", NEW i \in DOMAIN o.slots
  PROVE  /\ \A w, h \in Nat \ {0} : WellMade(CreateImage(o, i, w, h))
         /\ \A image : IsImage(image) => WellMade(DrawImage(o, i, image))
         /\ WellMade(ReleaseImage(o, i))
         /\ \A name : IsName(name) => WellMade(SetSlotFileName(o, i, name))
         /\ \A name, d, paths : IsName(name) /\ FilesMade(d) => WellMade(LoadImage(o, i, name, d, paths))
         /\ WellMade(SetCurrentSlot(o, i - 1))
<1>1. TextureWellMade(o)
  BY DEF WellMade
<1>2. SlotWellMade(o.slots[i]) /\ IsList(o.slots)
  BY <1>1 DEF TextureWellMade
<1>3. ASSUME NEW image, image = NoImage \/ IsImage(image)
      PROVE  WellMade([o EXCEPT !.slots[i].image = image])
  <2> DEFINE v == [o.slots[i] EXCEPT !.image = image]
  <2>1. SlotWellMade(v)
    BY <1>2, <1>3, SlotPartsMade
  <2>2. [o EXCEPT !.slots[i].image = image] = [o EXCEPT !.slots[i] = v]
    OBVIOUS
  <2> HIDE DEF v
  <2> QED
    BY <2>1, <2>2, SlotMade
<1>4. ASSUME NEW w \in Nat \ {0}, NEW h \in Nat \ {0}
      PROVE  WellMade(CreateImage(o, i, w, h))
  <2> DEFINE image == [r \in 1 .. h |-> [c \in 1 .. w |-> <<GARBAGE, OpaqueAlpha>>]]
             a == [r \in 1 .. h |-> [c \in 1 .. w |-> GARBAGE]]
             b == [r \in 1 .. h |-> [c \in 1 .. w |-> OpaqueAlpha]]
  <2>1. image = Pixels(h, w, a, b)
    BY DEF Pixels
  <2> HIDE DEF image, a, b
  <2>2. IsImage(image)
    BY <2>1, ImageIs
  <2> QED
    BY <1>3, <2>2 DEF CreateImage, image
<1>5. ASSUME NEW image, IsImage(image)
      PROVE  WellMade(DrawImage(o, i, image))
  BY <1>3, <1>5 DEF DrawImage
<1>6. WellMade(ReleaseImage(o, i))
  BY <1>3 DEF ReleaseImage
<1>7. ASSUME NEW name, IsName(name)
      PROVE  WellMade(SetSlotFileName(o, i, name))
  <2> DEFINE v == [o.slots[i] EXCEPT !.name = name]
  <2>1. SlotWellMade(v)
    BY <1>2, <1>7, SlotPartsMade
  <2>2. SetSlotFileName(o, i, name) = [o EXCEPT !.slots[i] = v]
    BY DEF SetSlotFileName
  <2> HIDE DEF v
  <2> QED
    BY <2>1, <2>2, SlotMade
<1>8. ASSUME NEW name, NEW d, NEW paths, IsName(name), FilesMade(d)
      PROVE  WellMade(LoadImage(o, i, name, d, paths))
  <2> DEFINE v == SlotFromFile(ResolveFileName(name, d, paths), d, o.slots[i])
  <2>1. SlotWellMade(v)
    BY <1>2, <1>8, FromFileMade
  <2>2. LoadImage(o, i, name, d, paths) = [o EXCEPT !.slots[i] = v]
    BY DEF LoadImage
  <2> HIDE DEF v
  <2> QED
    BY <2>1, <2>2, SlotMade
<1>9. WellMade(SetCurrentSlot(o, i - 1))
  <2>1. i - 1 \in Nat
    <3>1. Len(o.slots) \in Nat /\ DOMAIN o.slots = 1 .. Len(o.slots)
      BY <1>2 DEF IsList
    <3> QED
      BY <3>1
  <2> QED
    BY <2>1, TextureLists DEF SetCurrentSlot
<1> QED
  BY <1>4, <1>5, <1>6, <1>7, <1>8, <1>9

LEMMA MipmapCallsMade ==
  ASSUME NEW os, NEW o, Proper(os, o), WellMade(o), o.class = "TEXTURE"
  PROVE  /\ \A use \in BOOLEAN : WellMade(UseMipmap(o, use))
         /\ \A n \in Nat : WellMade(SetMipmapLevel(o, n)) /\ WellMade(SetSlotCount(o, n))
         /\ \A i \in DOMAIN o.mipmaps : \A image : WellMade([o EXCEPT !.mipmaps[i] = image])
<1>1. TextureWellMade(o)
  BY DEF WellMade
<1>2. /\ IsList(o.mipmaps) /\ IsList(o.slots) /\ \A i \in DOMAIN o.slots : SlotWellMade(o.slots[i])
  BY <1>1 DEF TextureWellMade
<1>3. ASSUME NEW use \in BOOLEAN
      PROVE  WellMade(UseMipmap(o, use))
  <2> DEFINE s == IF use THEN o.mipmaps ELSE <<>>
  <2>1. IsList(<<>>)
    BY DEF IsList
  <2>2. IsList(s)
    BY <1>2, <2>1
  <2>3. UseMipmap(o, use) = [o EXCEPT !.useMipmap = use, !.mipmaps = s]
    BY DEF UseMipmap
  <2> HIDE DEF s
  <2>4. WellMade([o EXCEPT !.useMipmap = use, !.mipmaps = s])
    BY <2>2, TextureLists
  <2> QED
    BY <2>3, <2>4
<1>4. ASSUME NEW n \in Nat
      PROVE  WellMade(SetMipmapLevel(o, n))
  <2> DEFINE s == Resized(o.mipmaps, n, NoImage)
  <2>1. SetMipmapLevel(o, n) = [o EXCEPT !.mipmaps = s]
    BY DEF SetMipmapLevel, Resized
  <2>2. IsList(s)
    BY <1>2, LongerList
  <2> HIDE DEF s
  <2>3. WellMade([o EXCEPT !.mipmaps = s])
    BY <2>2, TextureLists
  <2> QED
    BY <2>1, <2>3
<1>5. ASSUME NEW n \in Nat
      PROVE  WellMade(SetSlotCount(o, n))
  <2> DEFINE s == Resized(o.slots, n, Slot)
  <2>1. IsList(s) /\ DOMAIN s = 1 .. n /\ \A k \in 1 .. n : (k \in DOMAIN o.slots /\ s[k] = o.slots[k]) \/ s[k] = Slot
    BY <1>2, LongerList
  <2>2. SetSlotCount(o, n) = [o EXCEPT !.slots = s]
    BY DEF SetSlotCount, Resized
  <2> HIDE DEF s
  <2>3. SlotWellMade(Slot)
    BY DEF SlotWellMade, Slot
  <2>4. IsList(s) /\ \A k \in DOMAIN s : SlotWellMade(s[k])
    BY <1>2, <2>1, <2>3
  <2>5. WellMade([o EXCEPT !.slots = s])
    BY <2>4, TextureLists
  <2> QED
    BY <2>2, <2>5
<1>6. ASSUME NEW i \in DOMAIN o.mipmaps, NEW image
      PROVE  WellMade([o EXCEPT !.mipmaps[i] = image])
  <2> DEFINE s == [o.mipmaps EXCEPT ![i] = image]
  <2>1. IsList(s)
    BY <1>2, ListExcept
  <2>2. [o EXCEPT !.mipmaps[i] = image] = [o EXCEPT !.mipmaps = s]
    OBVIOUS
  <2> HIDE DEF s
  <2> QED
    BY <2>1, <2>2, TextureLists
<1> QED
  BY <1>3, <1>4, <1>5, <1>6

\* Directories with a new entry in one of them.
LEMMA EntryMade ==
  ASSUME NEW d, FilesMade(d), NEW dir, NEW base, NEW image, image = NoImage \/ IsImage(image)
  PROVE  LET e == [d EXCEPT ![dir] = Entry(base, image) ++ @]
         IN FilesMade(e) /\ DOMAIN e = DOMAIN d
<1> DEFINE files == Entry(base, image) ++ d[dir]
           e == [d EXCEPT ![dir] = files]
<1>1. \A b \in DOMAIN files : files[b] = image \/ (b \in DOMAIN d[dir] /\ files[b] = d[dir][b])
  BY DEF ++, Derived, Entry
<1> HIDE DEF files
<1>2. /\ DOMAIN e = DOMAIN d
      /\ \A x \in DOMAIN d : e[x] = IF x = dir THEN files ELSE d[x]
  OBVIOUS
<1> HIDE DEF e
<1>3. ASSUME dir \in DOMAIN d
      PROVE  FilesOf(files)
  BY <1>1, <1>3 DEF FilesMade, FilesOf
<1>4. FilesMade(e)
  BY <1>2, <1>3 DEF FilesMade
<1> QED
  BY <1>2, <1>4 DEF e, files

LEMMA SaveImageMade ==
  ASSUME NEW os, NEW o, Proper(os, o), WellMade(o), o.class = "TEXTURE", NEW i \in DOMAIN o.slots,
         NEW name, NEW d, FilesMade(d)
  PROVE  FilesMade(SaveImage(o, i, name, d)) /\ DOMAIN SaveImage(o, i, name, d) = DOMAIN d
<1> DEFINE image == o.slots[i].image
           e == [d EXCEPT ![name.dir] = Entry(name.base, SaveMemory(image)) ++ @]
<1>1. TextureWellMade(o)
  BY DEF WellMade
<1>2. image = NoImage \/ IsImage(image)
  BY <1>1 DEF TextureWellMade, SlotWellMade
<1>3. SaveImage(o, i, name, d) = d
        \/ (image # NoImage /\ SaveImage(o, i, name, d) = e)
  BY DEF SaveImage
<1> HIDE DEF image
<1>4. ASSUME image # NoImage
      PROVE  FilesMade(e) /\ DOMAIN e = DOMAIN d
  BY <1>2, <1>4, OpaqueIs, EntryMade DEF SaveMemory
<1> QED
  BY <1>3, <1>4

\* Every object is well made, and so is every file.
ObjectsMade == \A id \in Living : WellMade(objs[id])

DiskMade == TempFolder \in DOMAIN disk /\ FilesMade(disk)

Numbered == \E n \in Nat : DOMAIN objs = 1 .. n

TypeInv == Numbered /\ ObjectsMade /\ DiskMade

LEMMA SomeMade ==
  ASSUME ObjectsMade, DOMAIN objs' = DOMAIN objs,
         \A id \in DOMAIN objs : objs'[id] # FREED =>
           objs[id] # FREED /\ (WellMade(objs[id]) => WellMade(objs'[id]))
  PROVE  ObjectsMade'
<1> SUFFICES ASSUME NEW id \in Living'
             PROVE  WellMade(objs'[id])
  BY DEF ObjectsMade, WellMade, TextureWellMade, MeshWellMade
<1>1. id \in DOMAIN objs /\ objs'[id] # FREED
  BY DEF Living
<1> QED
  BY <1>1 DEF ObjectsMade, Living

LEMMA CallMade ==
  ASSUME TypeInv, NEW id \in Living, NEW p, WellMade(p), Changed(id, p)
  PROVE  TypeInv'
<1>1. objs' = [objs EXCEPT ![id] = p] /\ disk' = disk /\ id \in DOMAIN objs
  BY DEF Changed, Living
<1>2. DOMAIN objs' = DOMAIN objs /\ \A k \in DOMAIN objs : objs'[k] = IF k = id THEN p ELSE objs[k]
  BY <1>1
<1>3. \A k \in DOMAIN objs : objs'[k] # FREED =>
        objs[k] # FREED /\ (WellMade(objs[k]) => WellMade(objs'[k]))
  BY <1>2 DEF Living
<1>4. ObjectsMade'
  BY <1>2, <1>3, SomeMade DEF TypeInv
<1>5. Numbered' /\ DiskMade'
  BY <1>1, <1>2 DEF TypeInv, Numbered, DiskMade
<1> QED
  BY <1>4, <1>5 DEF TypeInv

LEMMA TextureSetMade ==
  ASSUME NEW os, NEW o, Proper(os, o), WellMade(o), NEW t, NEW i
  PROVE  WellMade(SetTexture(o, t, i))
<1>1. "textures" \notin MadeMembers
  BY DEF MadeMembers, TypedMembers, MeshArrays, VertexArrays, FaceArrays, Listed, Colours,
         SamplingFields, RasterFields
<1>2. Keeps(o, SetTexture(o, t, i), MadeMembers)
  BY <1>1 DEF Keeps, SetTexture
<1> QED
  BY <1>2, KeepsMade

LEMMA ArrayTyped ==
  ASSUME Inv, TypeInv, NEW id \in Living, objs[id].class = "MESH",
         NEW a \in VertexArrays \cup FaceArrays \cup {"lines"}, NEW content \in Arrays[a],
         Len(content) = Len(objs[id][a]), Changed(id, [objs[id] EXCEPT ![a] = content])
  PROVE  TypeInv'
<1> DEFINE o == objs[id]
<1>1. Proper(objs, o) /\ WellMade(o) /\ o.class = "MESH"
  BY DEF Inv, SceneInv, TypeInv, ObjectsMade
<1>2. a \in MeshArrays /\ ArrayOf(a, content) /\ Len(content) = Len(o[a])
  BY ValueAssumption DEF MeshArrays
<1>3. Changed(id, [o EXCEPT ![a] = content])
  OBVIOUS
<1> HIDE DEF o
<1>4. WellMade([o EXCEPT ![a] = content])
  BY <1>1, <1>2, ArrayMade
<1> QED
  BY <1>3, <1>4, CallMade

LEMMA SlotTyped ==
  ASSUME Inv, TypeInv, NEW id \in Living, objs[id].class = "MESH", NEW i, NEW x,
         Changed(id, [objs[id] EXCEPT !.slots[i] = x])
  PROVE  TypeInv'
<1> DEFINE o == objs[id]
<1>1. Proper(objs, o) /\ WellMade(o) /\ o.class = "MESH"
  BY DEF Inv, SceneInv, TypeInv, ObjectsMade
<1>2. Changed(id, [o EXCEPT !.slots[i] = x])
  OBVIOUS
<1> HIDE DEF o
<1>3. WellMade([o EXCEPT !.slots[i] = x])
  BY <1>1, MeshFlagsMade
<1> QED
  BY <1>2, <1>3, CallMade

LEMMA FieldTyped ==
  ASSUME Inv, TypeInv, NEW id \in Living, SetField(id)
  PROVE  TypeInv'
<1> DEFINE o == objs[id]
<1>1. PICK f \in PlainFields(o.class) \cap DOMAIN Values : \E v \in Values[f] :
        Changed(id, [o EXCEPT ![f] = v])
  BY DEF SetField
<1>2. PICK v \in Values[f] : Changed(id, [o EXCEPT ![f] = v])
  BY <1>1
<1>3. f \notin Listed /\ f # "class"
  <2>1. /\ f \in EntityFields \cup LightFields \cup CameraFields \cup MaterialFields \cup TextureFields
    BY <1>1 DEF PlainFields
  <2>2. \A g \in EntityFields \cup LightFields \cup CameraFields : g \notin Listed /\ g # "class"
    BY DEF EntityFields, LightFields, CameraFields, Listed
  <2>3. \A g \in MaterialFields : g \notin Listed /\ g # "class"
    BY DEF MaterialFields, SurfaceFields, Colours, SamplingFields, RasterFields, CompareFields, Listed
  <2>4. \A g \in TextureFields : g \notin Listed /\ g # "class"
    BY DEF TextureFields, BitmapFields, Listed
  <2> QED
    BY <2>1, <2>2, <2>3, <2>4
<1>4. f \in TypedMembers => v \in ValueType(f)
  BY <1>1, ValueAssumption
<1>5. Proper(objs, o) /\ WellMade(o)
  BY DEF Inv, SceneInv, TypeInv, ObjectsMade
<1>6. o.class # "MESH"
  BY <1>1 DEF PlainFields, Lights, Cameras
<1> DEFINE p == [o EXCEPT ![f] = v]
<1>7. DOMAIN p = DOMAIN o /\ \A k \in DOMAIN o : p[k] = IF k = f THEN v ELSE o[k]
  OBVIOUS
<1>8. Changed(id, p)
  BY <1>2
<1> HIDE DEF p, o
<1>9. WellMade(p)
  BY <1>3, <1>4, <1>5, <1>6, <1>7, MemberMade
<1> QED
  BY <1>8, <1>9, CallMade

LEMMA EntityTyped ==
  ASSUME Inv, TypeInv, NEW id \in Living, objs[id].class \in Entities, EntityCall(id)
  PROVE  TypeInv'
<1> DEFINE o == objs[id]
<1>1. Proper(objs, o) /\ WellMade(o) /\ o.class \in Entities
  BY DEF Inv, SceneInv, TypeInv, ObjectsMade
<1>2. PICK m \in Of({"MESH"}) :
        \/ Changed(id, AddPotentialMesh(o, m))
        \/ Changed(id, RemovePotentialMesh(o, m))
        \/ \E null \in BOOLEAN : Changed(id, SetCurrentMesh(o, IF null THEN 0 ELSE m))
  BY DEF EntityCall
<1>3. m \in Nat /\ m # 0
  <2>1. m \in DOMAIN objs
    BY DEF Of, Living
  <2> QED
    BY <2>1 DEF TypeInv, Numbered
<1> HIDE DEF o
<1>4. WellMade(AddPotentialMesh(o, m)) /\ WellMade(RemovePotentialMesh(o, m))
  BY <1>1, <1>3, EntityCallsMade
<1>5. WellMade(SetCurrentMesh(o, m)) /\ WellMade(SetCurrentMesh(o, 0))
  BY <1>1, <1>3, EntityCallsMade
<1>6. PICK p : WellMade(p) /\ Changed(id, p)
  BY <1>2, <1>4, <1>5
<1> QED
  BY <1>6, CallMade

LEMMA MaterialTyped ==
  ASSUME Inv, TypeInv, NEW id \in Living, objs[id].class = "MATERIAL", MaterialCall(id)
  PROVE  TypeInv'
<1>1. Proper(objs, objs[id]) /\ WellMade(objs[id])
  BY DEF Inv, SceneInv, TypeInv, ObjectsMade
<1>2. ASSUME NEW flag \in Switches, NEW on, Changed(id, SwitchMaterial(objs[id], flag, on))
      PROVE  TypeInv'
  BY <1>1, <1>2, SwitchesMade, CallMade
<1>3. ASSUME NEW t, NEW i, Changed(id, SetTexture(objs[id], t, i))
      PROVE  TypeInv'
  BY <1>1, <1>3, TextureSetMade, CallMade
<1> QED
  BY <1>2, <1>3 DEF MaterialCall

LEMMA MeshTyped ==
  ASSUME Inv, TypeInv, NEW id \in Living, objs[id].class = "MESH",
         MeshSizing(id) \/ MeshWriting(id) \/ MeshFlagging(id)
  PROVE  TypeInv'
<1> DEFINE o == objs[id]
<1>1. Proper(objs, o) /\ WellMade(o) /\ o.class = "MESH"
  BY DEF Inv, SceneInv, TypeInv, ObjectsMade
<1>2. CASE MeshSizing(id)
  <2>1. PICK n \in 0 .. MaxSize :
          \/ Changed(id, SetVertexCount(o, n)) \/ Changed(id, SetFaceCount(o, n))
          \/ Changed(id, SetLineCount(o, n)) \/ Changed(id, SetMaterialSlotCount(o, n))
    BY <1>2 DEF MeshSizing
  <2>2. n \in Nat
    BY ObjectDataAssumption
  <2> HIDE DEF o
  <2>3. /\ WellMade(SetVertexCount(o, n)) /\ WellMade(SetFaceCount(o, n))
        /\ WellMade(SetLineCount(o, n)) /\ WellMade(SetMaterialSlotCount(o, n))
    BY <1>1, <2>2, SizingMade
  <2> QED
    BY <2>1, <2>3, CallMade
<1>3. CASE MeshWriting(id)
  BY <1>3, ArrayTyped, SlotTyped DEF MeshWriting
<1>4. CASE MeshFlagging(id)
  <2>1. PICK x : \/ Changed(id, SetMeshFlags(o, x)) \/ Changed(id, SetLitMode(o, x))
                 \/ Changed(id, SetWrapMode(o, x))
    BY <1>4 DEF MeshFlagging
  <2> HIDE DEF o
  <2>2. /\ WellMade(SetMeshFlags(o, x)) /\ WellMade(SetLitMode(o, x))
        /\ WellMade(SetWrapMode(o, x))
    BY <1>1, MeshFlagsMade
  <2> QED
    BY <2>1, <2>2, CallMade
<1> QED
  BY <1>2, <1>3, <1>4

LEMMA TextureTyped ==
  ASSUME Inv, TypeInv, NEW id \in Living, objs[id].class = "TEXTURE", TextureCall(id)
  PROVE  TypeInv'
<1> DEFINE o == objs[id]
<1>1. Proper(objs, o) /\ WellMade(o) /\ o.class = "TEXTURE"
  BY DEF Inv, SceneInv, TypeInv, ObjectsMade
<1>2. /\ \A image \in Image : IsImage(image)
      /\ \A name \in Name : IsName(name)
  BY FileAssumption
<1>3. FilesMade(disk)
  BY DEF TypeInv, DiskMade
<1>4. 1 \in Nat \ {0} /\ 2 \in Nat \ {0}
  OBVIOUS
<1>5. CASE \E n \in 0 .. MaxSize : Changed(id, SetSlotCount(o, n))
  <2>1. PICK n \in 0 .. MaxSize : Changed(id, SetSlotCount(o, n))
    BY <1>5
  <2>2. n \in Nat
    BY ObjectDataAssumption
  <2> HIDE DEF o
  <2>3. WellMade(SetSlotCount(o, n))
    BY <1>1, <2>2, MipmapCallsMade
  <2> QED
    BY <2>1, <2>3, CallMade
<1>6. CASE SlotCall(id)
  <2>1. PICK i \in DOMAIN o.slots :
          \/ \E s \in {1, 2} : Changed(id, CreateImage(o, i, s, s))
          \/ \E image \in Image : Changed(id, DrawImage(o, i, image))
          \/ Changed(id, ReleaseImage(o, i))
          \/ \E n \in Name : Changed(id, SetSlotFileName(o, i, n))
          \/ \E n \in Name : Changed(id, LoadImage(o, i, n, disk, extra))
          \/ Changed(id, SetCurrentSlot(o, i - 1))
    BY <1>6 DEF SlotCall
  <2> HIDE DEF o
  <2>2. /\ \A w, h \in Nat \ {0} : WellMade(CreateImage(o, i, w, h))
        /\ \A image : IsImage(image) => WellMade(DrawImage(o, i, image))
        /\ WellMade(ReleaseImage(o, i))
        /\ \A name : IsName(name) => WellMade(SetSlotFileName(o, i, name))
        /\ \A name, d, paths : IsName(name) /\ FilesMade(d) => WellMade(LoadImage(o, i, name, d, paths))
        /\ WellMade(SetCurrentSlot(o, i - 1))
    BY <1>1, SlotCallsMade
  <2>3. PICK p : WellMade(p) /\ Changed(id, p)
    <3>1. \A s \in {1, 2} : WellMade(CreateImage(o, i, s, s))
      BY <1>4, <2>2
    <3>2. \A image \in Image : WellMade(DrawImage(o, i, image))
      BY <1>2, <2>2
    <3>3. \A n \in Name : WellMade(SetSlotFileName(o, i, n))
      BY <1>2, <2>2
    <3>4. \A n \in Name : WellMade(LoadImage(o, i, n, disk, extra))
      BY <1>2, <1>3, <2>2
    <3> QED
      BY <2>1, <2>2, <3>1, <3>2, <3>3, <3>4
  <2> QED
    BY <2>3, CallMade
<1>7. CASE MipmapCall(id)
  <2>1. \/ \E use \in BOOLEAN : Changed(id, UseMipmap(o, use))
        \/ \E n \in 0 .. MaxSize : Changed(id, SetMipmapLevel(o, n))
        \/ \E i \in DOMAIN o.mipmaps, image \in Image :
             Changed(id, [o EXCEPT !.mipmaps[i] = image])
    BY <1>7 DEF MipmapCall
  <2> HIDE DEF o
  <2>2. /\ \A use \in BOOLEAN : WellMade(UseMipmap(o, use))
        /\ \A n \in Nat : WellMade(SetMipmapLevel(o, n))
        /\ \A i \in DOMAIN o.mipmaps : \A image : WellMade([o EXCEPT !.mipmaps[i] = image])
    BY <1>1, MipmapCallsMade
  <2>3. \A n \in 0 .. MaxSize : n \in Nat
    BY ObjectDataAssumption
  <2>4. PICK p : WellMade(p) /\ Changed(id, p)
    BY <2>1, <2>2, <2>3
  <2> QED
    BY <2>4, CallMade
<1> QED
  BY <1>5, <1>6, <1>7 DEF TextureCall

LEMMA ShowTyped ==
  ASSUME Inv, TypeInv, NEW id \in Living, Show(id)
  PROVE  TypeInv'
<1>1. PICK option : Changed(id, ShowOf(objs[id], option))
  BY DEF Show
<1>2. WellMade(ShowOf(objs[id], option))
  BY ShowMade DEF Inv, SceneInv, TypeInv, ObjectsMade
<1> QED
  BY <1>1, <1>2, CallMade

LEMMA LightTyped ==
  ASSUME Inv, TypeInv, NEW id \in Living, objs[id].class \in Lights, LightCall(id)
  PROVE  TypeInv'
<1>1. PICK flag, on : Changed(id, SwitchLight(objs[id], flag, on))
  BY DEF LightCall
<1>2. WellMade(SwitchLight(objs[id], flag, on))
  BY SwitchesMade DEF Inv, SceneInv, TypeInv, ObjectsMade
<1> QED
  BY <1>1, <1>2, CallMade

\* Objects that keep what is well made.
LEMMA KeptMade ==
  ASSUME Inv, TypeInv, UNCHANGED disk, DOMAIN objs' = DOMAIN objs,
         \A k \in DOMAIN objs :
           IF objs[k] = FREED THEN objs'[k] = FREED ELSE Keeps(objs[k], objs'[k], MadeMembers)
  PROVE  TypeInv'
<1>1. ASSUME NEW k \in DOMAIN objs, objs'[k] # FREED
      PROVE  objs[k] # FREED /\ (WellMade(objs[k]) => WellMade(objs'[k]))
  <2>1. objs[k] # FREED /\ Keeps(objs[k], objs'[k], MadeMembers)
    BY <1>1
  <2>2. Proper(objs, objs[k])
    BY <2>1 DEF Inv, SceneInv, Living
  <2> QED
    BY <2>1, <2>2, KeepsMade
<1>2. ObjectsMade'
  BY <1>1, SomeMade DEF TypeInv
<1>3. Numbered' /\ DiskMade'
  BY DEF TypeInv, Numbered, DiskMade
<1> QED
  BY <1>2, <1>3 DEF TypeInv

LEMMA MarksApart == "entityFlags" \notin MadeMembers /\ "target" \notin MadeMembers
BY DEF MadeMembers, TypedMembers, MeshArrays, VertexArrays, FaceArrays, Listed, Colours,
       SamplingFields, RasterFields

LEMMA TargetTyped ==
  ASSUME Inv, TypeInv, NEW id \in Living, objs[id].class \in Aiming, TargetCall(id)
  PROVE  TypeInv'
<1>1. PICK t \in Of(Entities) \cup {0} : objs' = SetTarget(objs, id, t)
  BY DEF TargetCall
<1>2. UNCHANGED disk
  BY DEF TargetCall
<1>3. CASE t = id
  <2>1. objs' = objs
    BY <1>1, <1>3 DEF SetTarget
  <2> QED
    BY <1>2, <2>1, KeptMade DEF Keeps
<1>4. CASE t # id
  <2> DEFINE mark == MarkOf(objs[id].class)
             old == objs[id].target
             after == [k \in DOMAIN objs |->
               IF k # old \/ objs[k] = FREED THEN objs[k] ELSE Unmarked(objs[k], {mark})]
             marked == [k \in DOMAIN objs |->
               IF k # t THEN after[k]
               ELSE [after[k] EXCEPT !.entityFlags = (@ \cup {mark}) \ {"FRAME"}]]
  <2>1. objs' = [marked EXCEPT ![id].target = t]
    BY <1>1, <1>4 DEF SetTarget
  <2>2. DOMAIN objs' = DOMAIN objs
    BY <2>1
  <2>3. id \in DOMAIN objs /\ objs[id] # FREED /\ (t \in DOMAIN objs => objs[t] # FREED)
    BY DEF Of, Living, Inv, SceneInv
  <2> HIDE DEF mark, old
  <2>4. \A k \in DOMAIN objs : IF objs[k] = FREED THEN after[k] = FREED ELSE Keeps(objs[k], after[k], MadeMembers)
    BY MarksApart DEF Unmarked, Keeps
  <2> HIDE DEF after
  <2>5. \A k \in DOMAIN objs : IF objs[k] = FREED THEN marked[k] = FREED ELSE Keeps(objs[k], marked[k], MadeMembers)
    BY <2>3, <2>4, MarksApart DEF Keeps
  <2>6. DOMAIN marked = DOMAIN objs
    OBVIOUS
  <2> HIDE DEF marked
  <2>7. \A k \in DOMAIN objs : objs'[k] = IF k = id THEN [marked[k] EXCEPT !.target = t] ELSE marked[k]
    BY <2>1, <2>6
  <2>8. \A k \in DOMAIN objs : IF objs[k] = FREED THEN objs'[k] = FREED ELSE Keeps(objs[k], objs'[k], MadeMembers)
    BY <2>3, <2>5, <2>7, MarksApart DEF Keeps
  <2> QED
    BY <1>2, <2>2, <2>8, KeptMade
<1> QED
  BY <1>3, <1>4

\* A call that leaves the objects alone.
LEMMA AroundTyped ==
  ASSUME TypeInv, UNCHANGED objs, DiskMade'
  PROVE  TypeInv'
BY DEF TypeInv, Numbered, ObjectsMade, Living

LEMMA SameDisk ==
  ASSUME TypeInv, UNCHANGED disk
  PROVE  DiskMade'
BY DEF TypeInv, DiskMade

LEMMA ImageFileTyped ==
  ASSUME Inv, TypeInv, NEW id \in Living, objs[id].class = "TEXTURE", NEW i \in DOMAIN objs[id].slots,
         NEW name, disk' = SaveImage(objs[id], i, name, disk), UNCHANGED objs
  PROVE  TypeInv'
<1>1. Proper(objs, objs[id]) /\ WellMade(objs[id]) /\ FilesMade(disk) /\ TempFolder \in DOMAIN disk
  BY DEF Inv, SceneInv, TypeInv, ObjectsMade, DiskMade
<1>2. FilesMade(disk') /\ DOMAIN disk' = DOMAIN disk
  BY <1>1, SaveImageMade
<1>3. DiskMade'
  BY <1>1, <1>2 DEF DiskMade
<1> QED
  BY <1>3, AroundTyped

\* Saving changes no member that is checked.
LEMMA AfterSaveKeepsMade ==
  ASSUME NEW o
  PROVE  Keeps(o, AfterSave(o), MadeMembers)
<1>1. "faceNormals" \notin MadeMembers
  BY DEF MadeMembers, TypedMembers, MeshArrays, VertexArrays, FaceArrays, Listed, Colours,
         SamplingFields, RasterFields
<1>2. Keeps(o, o, MadeMembers) /\ Keeps(o, Regulated(o), MadeMembers)
  BY MarksApart DEF Keeps, Regulated
<1>3. Keeps(o, BuildFaceNormals(o), MadeMembers)
  BY <1>1 DEF Keeps, BuildFaceNormals
<1> QED
  BY <1>2, <1>3 DEF AfterSave, AfterSaveMesh

LEMMA SaveTyped ==
  ASSUME Inv, TypeInv, Save
  PROVE  TypeInv'
<1>1. /\ DOMAIN objs' = DOMAIN objs /\ UNCHANGED disk
      /\ \A k \in DOMAIN objs : objs'[k] = IF objs[k] = FREED THEN FREED ELSE AfterSave(objs[k])
  BY DEF Save
<1>2. \A k \in DOMAIN objs :
        IF objs[k] = FREED THEN objs'[k] = FREED ELSE Keeps(objs[k], objs'[k], MadeMembers)
  BY <1>1, AfterSaveKeepsMade
<1> QED
  BY <1>1, <1>2, KeptMade

\* An object that loses its potential meshes or links.
LEMMA ToldMade ==
  ASSUME NEW os, NEW o, Proper(os, o), WellMade(o), NEW del,
         o.class \in Entities \cup {"MATERIAL", "MESH"}
  PROVE  WellMade(CheckPostDeletion(CheckPreDeletion(o, del), del))
<1> DEFINE q == CheckPreDeletion(o, del)
<1>1. "class" \in DOMAIN o
  BY ProperMembers
<1>2. "mesh" \notin MadeMembers /\ "textures" \notin MadeMembers
  BY DEF MadeMembers, TypedMembers, MeshArrays, VertexArrays, FaceArrays, Listed, Colours,
         SamplingFields, RasterFields
<1>3. "mesh" \notin {"class"} \cup TypedMembers /\ "potentials" \notin {"class"} \cup TypedMembers
  BY <1>2 DEF TypedMembers, Colours, SamplingFields, RasterFields
<1> DEFINE r == CheckPostDeletion(q, del)
<1>4. CASE o.class \in Entities
  <2> DEFINE kept == Only(o.potentials, del)
  <2>1. q = [o EXCEPT !.mesh = NotIn(@, del), !.potentials = kept]
    BY <1>4 DEF CheckPreDeletion
  <2>2. o.potentials \in Seq(Nat \ {0}) /\ "potentials" \in DOMAIN o
    BY <1>4, MadeMembersIs DEF WellMade
  <2>3. kept \in Seq(Nat \ {0})
    BY <2>2, OnlyType
  <2> HIDE DEF kept, q
  <2>4. Keeps(o, q, {"class"} \cup TypedMembers) /\ q.potentials = kept
    BY <1>3, <2>1, <2>2 DEF Keeps
  <2>5. q.class = o.class
    BY <1>1, <2>4 DEF Keeps
  <2>6. Keeps(q, r, {"class", "potentials"} \cup TypedMembers)
    BY MarksApart DEF CheckPostDeletion, Keeps, MadeMembers, Listed
  <2>7. Keeps(o, r, {"class"} \cup TypedMembers) /\ r.potentials = kept
    BY <2>2, <2>4, <2>6 DEF Keeps
  <2> HIDE DEF r
  <2>8. WellMade(r)
    BY <1>4, <2>3, <2>7, PotentialsMade
  <2> QED
    BY <2>8 DEF r, q
<1>5. CASE o.class = "MESH"
  <2> DEFINE s == [i \in DOMAIN o.slots |-> NotIn(o.slots[i], del)]
  <2>1. q = [o EXCEPT !.slots = s]
    BY <1>5 DEF CheckPreDeletion, Entities, Lights, Cameras
  <2> HIDE DEF s, q
  <2>2. q.class = o.class /\ o.class \notin Aiming
    BY <1>1, <1>5, <2>1 DEF Aiming
  <2>3. r = q
    BY <2>2 DEF CheckPostDeletion
  <2>4. Keeps(o, q, {"class"} \cup MeshArrays)
    BY <2>1 DEF Keeps, MeshArrays, VertexArrays, FaceArrays
  <2>5. WellMade(q)
    BY <1>5, <2>4, ArraysMade
  <2> QED
    BY <2>3, <2>5 DEF q
<1>6. CASE o.class = "MATERIAL"
  <2>1. q = [o EXCEPT !.textures = [i \in 1 .. 4 |-> NotIn(@[i], del)]]
    BY <1>6 DEF CheckPreDeletion, Entities, Lights, Cameras
  <2> HIDE DEF q
  <2>2. Keeps(o, q, MadeMembers) /\ q.class = o.class
    BY <1>1, <1>2, <2>1 DEF Keeps
  <2>3. r = q
    BY <1>6, <2>2 DEF CheckPostDeletion, Aiming
  <2>4. WellMade(q)
    BY <2>2, KeepsMade
  <2> QED
    BY <2>3, <2>4 DEF q
<1> QED
  BY <1>4, <1>5, <1>6

LEMMA ReleasedMade ==
  ASSUME NEW os, NEW del, NEW k \in DOMAIN os, Proper(os, os[k]), WellMade(os[k])
  PROVE  WellMade(PreDelete(os, del)[k])
<1> DEFINE aiming == {id \in del : os[id].class \in Aiming}
           marks == {MarkOf(os[id].class) : id \in {i \in aiming : os[i].target = k}}
           released == IF marks = {} THEN os[k] ELSE Unmarked(os[k], marks)
           p == PreDelete(os, del)[k]
<1>1. p = IF k \in aiming THEN [released EXCEPT !.target = 0] ELSE released
  BY DEF PreDelete
<1> HIDE DEF marks, aiming, p
<1>2. Keeps(os[k], released, MadeMembers)
  BY MarksApart DEF Keeps, Unmarked
<1> HIDE DEF released
<1>3. Keeps(os[k], p, MadeMembers)
  BY <1>1, <1>2, MarksApart DEF Keeps
<1> QED
  BY <1>3, KeepsMade DEF p

LEMMA DestroyTyped ==
  ASSUME Inv, TypeInv, lost = {}, NEW del \in SUBSET Living, Destroy(del)
  PROVE  TypeInv'
<1> DEFINE after == DestroyedScene(objs, del, Told(del))
<1>1. objs' = after /\ UNCHANGED disk
  BY DEF Destroy, DestroyedScene
<1>2. DOMAIN after = DOMAIN objs
  BY DEF DestroyedScene
<1>3. ASSUME NEW k \in DOMAIN objs, after[k] # FREED
      PROVE  objs[k] # FREED /\ (WellMade(objs[k]) => WellMade(after[k]))
  <2> DEFINE o == PreDelete(objs, del)[k]
  <2>1. /\ k \notin del
        /\ after[k] = IF k \in Told(del) THEN CheckPostDeletion(CheckPreDeletion(o, del), del) ELSE o
    BY <1>3 DEF DestroyedScene
  <2>2. k \in Living /\ objs[k] # FREED
    BY DEF Inv, DestroyedOnce, Living
  <2>3. Proper(objs, objs[k]) /\ WellMade(objs[k])
    BY <2>2 DEF Inv, SceneInv, TypeInv, ObjectsMade
  <2>4. WellMade(o)
    BY <2>3, ReleasedMade
  <2>5. Alike(objs[k], o)
    BY <2>1, <2>3, PreDeleteIs
  <2> HIDE DEF o
  <2>6. Proper(objs, o) /\ o.class = objs[k].class
    BY <2>3, <2>5, AlikeFits DEF Fit
  <2>7. k \in Told(del) => o.class \in Entities \cup {"MATERIAL", "MESH"}
    <3>1. k \in Told(del) => Wishes(objs[k].class) # {}
      BY DEF Told
    <3> QED
      BY <2>6, <3>1 DEF Wishes, Aiming, Entities, Lights, Cameras
  <2>8. k \in Told(del) => WellMade(CheckPostDeletion(CheckPreDeletion(o, del), del))
    BY <2>4, <2>6, <2>7, ToldMade
  <2> QED
    BY <2>1, <2>2, <2>4, <2>8
<1> HIDE DEF after
<1>4. ObjectsMade'
  BY <1>1, <1>2, <1>3, SomeMade DEF TypeInv
<1>5. Numbered' /\ DiskMade'
  BY <1>1, <1>2 DEF TypeInv, Numbered, DiskMade
<1> QED
  BY <1>4, <1>5 DEF TypeInv

LEMMA WrittenMade ==
  ASSUME NEW os, NEW o, Proper(os, o), WellMade(o), o.class # "MESH", NEW m \in DOMAIN o,
         m \notin Listed, m # "class", NEW v, m \in TypedMembers => v \in ValueType(m)
  PROVE  WellMade(Written(o, m, v))
<1> DEFINE p == Written(o, m, v)
<1>1. DOMAIN p = DOMAIN o /\ \A k \in DOMAIN o : p[k] = IF k = m THEN v ELSE o[k]
  BY DEF Written
<1> HIDE DEF p
<1>2. WellMade(p)
  BY <1>1, MemberMade
<1> QED
  BY <1>2 DEF p

LEMMA MembersTyped ==
  ASSUME Inv, TypeInv, NEW id \in Living, Members(id)
  PROVE  TypeInv'
<1>1. Proper(objs, objs[id]) /\ WellMade(objs[id])
  BY DEF Inv, SceneInv, TypeInv, ObjectsMade
<1>2. ASSUME NEW asked, NEW members, Assigned(id, asked, members), objs[id].class # "MESH",
             \A m \in members : Settable(objs[id].class, m) /\ m \notin Listed /\ m # "class"
      PROVE  TypeInv'
  <2>1. PICK m \in members : \E v \in Values[m] : Changed(id, Written(objs[id], m, v))
    BY <1>2 DEF Assigned
  <2>2. PICK v \in Values[m] : Changed(id, Written(objs[id], m, v))
    BY <2>1
  <2>3. m \in DOMAIN objs[id] /\ m \notin Listed /\ m # "class"
    BY <1>1, <1>2 DEF Settable
  <2>4. m \in TypedMembers => v \in ValueType(m)
    BY ValueAssumption
  <2>5. WellMade(Written(objs[id], m, v))
    BY <1>1, <1>2, <2>3, <2>4, WrittenMade
  <2> QED
    BY <2>2, <2>5, CallMade
<1>3. CASE Assigned(id, "TEXTURE", BMTextureMembers)
  <2>1. objs[id].class = "TEXTURE"
    BY <1>3, CheckedIs DEF Assigned
  <2>2. \A m \in BMTextureMembers : m \notin Listed /\ m # "class"
    BY DEF BMTextureMembers, Listed
  <2> QED
    BY <1>2, <1>3, <2>1, <2>2, SettableTexture
<1>4. CASE Assigned(id, "MATERIAL", BMMaterialSurface \cup BMMaterialBorder \cup BMMaterialSampling
                                      \cup BMMaterialRaster \cup BMMaterialCompare)
  <2>1. objs[id].class = "MATERIAL"
    BY <1>4, CheckedIs DEF Assigned
  <2>2. \A m \in BMMaterialSurface \cup BMMaterialBorder \cup BMMaterialSampling
                   \cup BMMaterialRaster \cup BMMaterialCompare : m \notin Listed /\ m # "class"
    BY DEF BMMaterialSurface, BMMaterialBorder, BMMaterialSampling, BMMaterialRaster,
           BMMaterialCompare, Colours, Listed
  <2> QED
    BY <1>2, <1>4, <2>1, <2>2, SettableMaterial
<1>5. \A m \in BM3dEntityMembers \cup BMLightMembers \cup BMCameraMembers : m \notin Listed /\ m # "class"
  BY DEF BM3dEntityMembers, BMLightMembers, BMCameraMembers, Listed
<1>6. objs[id].class \in Entities => objs[id].class # "MESH"
  BY DEF Entities, Lights, Cameras
<1>7. CASE Assigned(id, "3DENTITY", BM3dEntityMembers)
  <2>1. objs[id].class \in Entities
    BY <1>7, CheckedIs DEF Assigned
  <2> QED
    BY <1>2, <1>5, <1>6, <1>7, <2>1, SettableEntity
<1>8. CASE Assigned(id, "LIGHT", BMLightMembers)
  <2>1. objs[id].class \in Lights /\ objs[id].class \in Entities
    BY <1>8, CheckedIs DEF Assigned, Entities
  <2> QED
    BY <1>2, <1>5, <1>6, <1>8, <2>1, SettableEntity
<1>9. CASE Assigned(id, "CAMERA", BMCameraMembers)
  <2>1. objs[id].class \in Cameras /\ objs[id].class \in Entities
    BY <1>9, CheckedIs DEF Assigned, Entities
  <2> QED
    BY <1>2, <1>5, <1>6, <1>9, <2>1, SettableEntity
<1> QED
  BY <1>3, <1>4, <1>7, <1>8, <1>9 DEF Members

LEMMA LinkingTyped ==
  ASSUME Inv, TypeInv, NEW id \in Living, Linking(id)
  PROVE  TypeInv'
<1>1. Proper(objs, objs[id]) /\ WellMade(objs[id])
  BY DEF Inv, SceneInv, TypeInv, ObjectsMade
<1>2. ASSUME NEW other, BMMaterial_SetTexture(id, other)
      PROVE  TypeInv'
  BY <1>1, <1>2, TextureSetMade, CallMade DEF BMMaterial_SetTexture
<1>3. ASSUME NEW other, BM3dEntity_SetCurrentMesh(id, other)
      PROVE  TypeInv'
  <2> DEFINE m == OrNull(other, "MESH")
  <2>1. m \in Nat /\ objs[id].class \in Entities
    <3>1. objs[id].class \in Entities
      BY <1>3, CheckedIs DEF BM3dEntity_SetCurrentMesh
    <3>2. m = 0 \/ m \in DOMAIN objs
      BY CheckedIs DEF OrNull, Living
    <3>3. \A k \in DOMAIN objs : k \in Nat
      BY DEF TypeInv, Numbered
    <3> QED
      BY <3>1, <3>2, <3>3
  <2>2. Changed(id, SetCurrentMesh(objs[id], m))
    BY <1>3 DEF BM3dEntity_SetCurrentMesh
  <2> HIDE DEF m
  <2>3. WellMade(SetCurrentMesh(objs[id], m))
    BY <1>1, <2>1, EntityCallsMade
  <2> QED
    BY <2>2, <2>3, CallMade
<1>4. ASSUME NEW other, NEW index, BMMesh_SetMaterialSlot(id, index, other)
      PROVE  TypeInv'
  <2>1. objs[id].class = "MESH"
    BY <1>4, CheckedIs DEF BMMesh_SetMaterialSlot
  <2> QED
    BY <1>4, <2>1, SlotTyped DEF BMMesh_SetMaterialSlot
<1> QED
  BY <1>2, <1>3, <1>4 DEF Linking

LEMMA ListFirst ==
  ASSUME NEW s, IsList(s), s # <<>>
  PROVE  1 \in DOMAIN s
<1>1. Len(s) # 0
  BY DEF IsList
<1>2. Len(s) \in Nat /\ DOMAIN s = 1 .. Len(s)
  BY DEF IsList
<1> QED
  BY <1>1, <1>2

LEMMA OtherTyped ==
  ASSUME Inv, TypeInv, NEW id \in Living, OtherCall(id)
  PROVE  TypeInv'
<1> DEFINE o == objs[id]
<1>1. Proper(objs, o) /\ WellMade(o)
  BY DEF Inv, SceneInv, TypeInv, ObjectsMade
<1>2. ASSUME NEW name \in Name, BMTexture_LoadImage(id, name)
      PROVE  TypeInv'
  <2> DEFINE s == IF o.slots = <<>> THEN SetSlotCount(o, 1) ELSE o
             p == LoadImage(s, 1, name, disk, extra)
  <2>1. o.class = "TEXTURE" /\ Changed(id, p)
    BY <1>2, CheckedIs DEF BMTexture_LoadImage
  <2> HIDE DEF o
  <2>2. "class" \in DOMAIN o /\ "slots" \in DOMAIN o
    BY <1>1, <2>1, MadeMembersIs
  <2>3. DOMAIN s = DOMAIN o /\ s.class = "TEXTURE"
    BY <2>1, <2>2 DEF SetSlotCount
  <2>4. WellMade(s)
    BY <1>1, <2>1, MipmapCallsMade
  <2>5. Proper(objs, s)
    BY <1>1, <2>1, <2>3, TextureFits DEF Fit
  <2>6. 1 \in DOMAIN s.slots
    <3>1. IsList(o.slots)
      BY <1>1, <2>1 DEF WellMade, TextureWellMade
    <3>2. CASE o.slots = <<>>
      <4>1. s = [o EXCEPT !.slots = [i \in 1 .. 1 |-> IF i <= Len(o.slots) THEN o.slots[i] ELSE Slot]]
        BY <3>2 DEF SetSlotCount
      <4>2. DOMAIN s.slots = 1 .. 1
        BY <2>2, <4>1
      <4> QED
        BY <4>2
    <3>3. CASE o.slots # <<>>
      BY <3>1, <3>3, ListFirst
    <3> QED
      BY <3>2, <3>3
  <2>7. IsName(name) /\ FilesMade(disk)
    BY FileAssumption DEF TypeInv, DiskMade
  <2> HIDE DEF s
  <2>8. WellMade(p)
    BY <2>3, <2>4, <2>5, <2>6, <2>7, SlotCallsMade
  <2> QED
    BY <2>1, <2>8, CallMade
<1>3. ASSUME NEW name, BMTexture_SaveImage(id, name)
      PROVE  TypeInv'
  <2>1. o.class = "TEXTURE" /\ o.slots # <<>> /\ disk' = SaveImage(o, 1, name, disk) /\ UNCHANGED objs
    BY <1>3, CheckedIs DEF BMTexture_SaveImage
  <2>2. IsList(o.slots)
    BY <1>1, <2>1 DEF WellMade, TextureWellMade
  <2>3. 1 \in DOMAIN o.slots
    BY <2>1, <2>2, ListFirst
  <2> QED
    BY <2>1, <2>3, ImageFileTyped
<1>4. ASSUME NEW flag \in Switches, NEW on, BMMaterialSwitch(id, flag, on)
      PROVE  TypeInv'
  <2>1. o.class = "MATERIAL" /\ Changed(id, SwitchMaterial(o, flag, on))
    BY <1>4, CheckedIs DEF BMMaterialSwitch
  <2> HIDE DEF o
  <2> QED
    BY <1>1, <2>1, SwitchesMade, CallMade
<1>5. ASSUME NEW mode, BMMesh_SetLitMode(id, mode)
      PROVE  TypeInv'
  <2>1. o.class = "MESH" /\ Changed(id, SetLitMode(o, mode))
    BY <1>5, CheckedIs DEF BMMesh_SetLitMode
  <2> HIDE DEF o
  <2> QED
    BY <1>1, <2>1, MeshFlagsMade, CallMade
<1>6. ASSUME NEW n \in 0 .. MaxSize, BMMeshCounts(id, n)
      PROVE  TypeInv'
  <2>1. /\ o.class = "MESH" /\ n \in Nat
        /\ \/ Changed(id, SetVertexCount(o, n)) \/ Changed(id, SetFaceCount(o, n))
           \/ Changed(id, SetMaterialSlotCount(o, n))
    BY <1>6, CheckedIs, ObjectDataAssumption DEF BMMeshCounts
  <2> HIDE DEF o
  <2>2. /\ WellMade(SetVertexCount(o, n)) /\ WellMade(SetFaceCount(o, n))
        /\ WellMade(SetMaterialSlotCount(o, n))
    BY <1>1, <2>1, SizingMade
  <2> QED
    BY <2>1, <2>2, CallMade
<1>7. CASE BMMeshWrite(id)
  <2>1. o.class = "MESH"
    BY <1>7, CheckedIs DEF BMMeshWrite
  <2>2. BMMeshArrays \subseteq VertexArrays \cup FaceArrays \cup {"lines"}
    BY DEF BMMeshArrays, VertexArrays, FaceArrays
  <2> QED
    BY <1>7, <2>1, <2>2, ArrayTyped DEF BMMeshWrite
<1>8. ASSUME NEW visible, BM3dEntity_SetVisibility(id, visible)
      PROVE  TypeInv'
  <2> DEFINE option == IF visible THEN "SHOW" ELSE "HIDE"
  <2>1. o.class \in Entities /\ Changed(id, ShowEntity(o, option))
    BY <1>8, CheckedIs DEF BM3dEntity_SetVisibility
  <2> HIDE DEF option
  <2>2. ShowOf(o, option) = ShowEntity(o, option)
    BY <2>1 DEF ShowOf, Entities, Lights, Cameras
  <2> HIDE DEF o
  <2>3. WellMade(ShowOf(o, option))
    BY <1>1, ShowMade
  <2> QED
    BY <2>1, <2>2, <2>3, CallMade
<1>9. ASSUME NEW w \in Values.width, NEW h \in Values.height, BMCamera_SetAspectRatio(id, w, h)
      PROVE  TypeInv'
  <2> DEFINE q == Written(o, "width", w)
             p == Written(q, "height", h)
  <2>1. o.class \in Cameras /\ o.class \in Entities /\ Changed(id, p)
    BY <1>9, CheckedIs DEF BMCamera_SetAspectRatio, Entities
  <2> HIDE DEF o
  <2>2. "width" \in DOMAIN o /\ "height" \in DOMAIN o /\ o.class # "MESH"
    BY <1>1, <2>1, SettableEntity DEF Settable, Cameras
  <2>3. /\ "width" \notin Listed /\ "height" \notin Listed
        /\ "width" \in TypedMembers /\ "height" \in TypedMembers
    BY DEF Listed, TypedMembers
  <2>4. w \in ValueType("width") /\ h \in ValueType("height")
    BY <2>3, ValueAssumption
  <2>5. WellMade(q)
    BY <1>1, <2>2, <2>3, <2>4, WrittenMade
  <2>6. Fit(objs, o, q)
    BY <1>1, <2>2, WrittenFits DEF Links
  <2>7. Proper(objs, q) /\ q.class = o.class /\ "height" \in DOMAIN q
    BY <2>2, <2>6 DEF Fit, Written
  <2> HIDE DEF q
  <2>8. WellMade(p)
    BY <2>2, <2>3, <2>4, <2>5, <2>7, WrittenMade
  <2> QED
    BY <2>1, <2>8, CallMade
<1> QED
  BY <1>2, <1>3, <1>4, <1>5, <1>6, <1>7, <1>8, <1>9 DEF OtherCall

\* The temp folder with `n` files unpacked: of two with one name the later.
TempAfter(files, d, n, t) ==
  /\ \A k \in 1 .. n : files[k].base \in DOMAIN t
  /\ \A b \in DOMAIN t :
       \/ \E k \in 1 .. n : files[k].base = b /\ t[b] = files[k].image
       \/ /\ b \in DOMAIN d[TempFolder] /\ t[b] = d[TempFolder][b]
          /\ \A k \in 1 .. n : files[k].base # b

\* One more file.
LEMMA TempNext ==
  ASSUME NEW files, NEW d, NEW n \in Nat, NEW t, TempAfter(files, d, n, t), NEW u,
         u = Entry(files[n + 1].base, files[n + 1].image) ++ t
  PROVE  TempAfter(files, d, n + 1, u)
<1> DEFINE f == files[n + 1]
<1>1. 1 .. n + 1 = (1 .. n) \cup {n + 1}
  OBVIOUS
<1>2. /\ DOMAIN u = {f.base} \cup DOMAIN t /\ u[f.base] = f.image
      /\ \A b \in DOMAIN t : b # f.base => u[b] = t[b]
  BY DEF ++, Derived, Entry
<1>3. \A k \in 1 .. n + 1 : files[k].base \in DOMAIN u
  BY <1>1, <1>2 DEF TempAfter
<1>4. ASSUME NEW b \in DOMAIN u
      PROVE  \/ \E k \in 1 .. n + 1 : files[k].base = b /\ u[b] = files[k].image
             \/ /\ b \in DOMAIN d[TempFolder] /\ u[b] = d[TempFolder][b]
                /\ \A k \in 1 .. n + 1 : files[k].base # b
  <2>1. CASE b = f.base
    BY <1>1, <1>2, <2>1
  <2>2. CASE b # f.base
    <3>1. b \in DOMAIN t /\ u[b] = t[b]
      BY <1>2, <2>2
    <3> HIDE DEF f
    <3>2. CASE \E k \in 1 .. n : files[k].base = b /\ t[b] = files[k].image
      BY <1>1, <3>1, <3>2
    <3>3. CASE /\ b \in DOMAIN d[TempFolder] /\ t[b] = d[TempFolder][b]
               /\ \A k \in 1 .. n : files[k].base # b
      BY <1>1, <2>2, <3>1, <3>3 DEF f
    <3> QED
      BY <3>1, <3>2, <3>3 DEF TempAfter
  <2> QED
    BY <2>1, <2>2
<1> QED
  BY <1>3, <1>4 DEF TempAfter

\* Directories in which `n` files have been unpacked.
UnpackedAs(files, d, n, e) ==
  /\ DOMAIN e = DOMAIN d /\ \A x \in DOMAIN d \ {TempFolder} : e[x] = d[x]
  /\ TempAfter(files, d, n, e[TempFolder])

UnpackOne(acc, f) == [acc EXCEPT ![TempFolder] = Entry(f.base, f.image) ++ @]

LEMMA UnpackedNext ==
  ASSUME NEW files, NEW d, TempFolder \in DOMAIN d, NEW n \in Nat, NEW e, UnpackedAs(files, d, n, e),
         NEW g, g = UnpackOne(e, files[n + 1])
  PROVE  UnpackedAs(files, d, n + 1, g)
<1> DEFINE u == Entry(files[n + 1].base, files[n + 1].image) ++ e[TempFolder]
<1>1. DOMAIN e = DOMAIN d /\ \A x \in DOMAIN d \ {TempFolder} : e[x] = d[x]
  BY DEF UnpackedAs
<1>2. g = [e EXCEPT ![TempFolder] = u]
  BY DEF UnpackOne
<1>3. TempAfter(files, d, n + 1, u)
  BY TempNext DEF UnpackedAs
<1> HIDE DEF u
<1>4. DOMAIN g = DOMAIN d /\ g[TempFolder] = u /\ \A x \in DOMAIN d \ {TempFolder} : g[x] = d[x]
  BY <1>1, <1>2
<1> QED
  BY <1>3, <1>4 DEF UnpackedAs

LEMMA UnpackedIs ==
  ASSUME NEW F, NEW files \in Seq(F), NEW d, TempFolder \in DOMAIN d
  PROVE  UnpackedAs(files, d, Len(files), Unpacked(files, d))
<1> DEFINE n == Len(files)
           T0 == d[TempFolder]
           B == {files[k].base : k \in 1 .. n} \cup DOMAIN T0
           I == {files[k].image : k \in 1 .. n} \cup {T0[b] : b \in DOMAIN T0}
           U == UNION {[D -> I] : D \in SUBSET B}
           D0 == {[d EXCEPT ![TempFolder] = t] : t \in U} \cup {d}
           step == [i \in 1 .. n |-> [acc \in D0 |-> UnpackOne(acc, files[i])]]
           Walk(f) == [D \in SUBSET DOMAIN files |->
                         IF D = {} THEN d ELSE UnpackOne(f[D \ {Max(D)}], files[Max(D)])]
           iter == CHOOSE f : f = Walk(f)
<1>1. Unpacked(files, d) = iter[DOMAIN files]
  BY DEF Unpacked, FoldLeft, MapThenFoldSet, UnpackOne
<1>2. n \in Nat /\ DOMAIN files = 1 .. n
  BY LenProperties
<1>3. d \in D0 /\ step \in Steps(D0, n)
  <2>1. ASSUME NEW i \in 1 .. n, NEW acc \in D0
        PROVE  UnpackOne(acc, files[i]) \in D0
    <3> DEFINE u == Entry(files[i].base, files[i].image) ++ acc[TempFolder]
    <3>1. UnpackOne(acc, files[i]) = [acc EXCEPT ![TempFolder] = u]
      BY DEF UnpackOne
    <3>2. files[i].base \in B /\ files[i].image \in I
      OBVIOUS
    <3>3. DOMAIN acc[TempFolder] \subseteq B /\ \A b \in DOMAIN acc[TempFolder] : acc[TempFolder][b] \in I
      <4>1. CASE acc = d
        BY <4>1
      <4>2. CASE acc # d
        <5>1. PICK t \in U : acc = [d EXCEPT ![TempFolder] = t]
          BY <4>2
        <5>2. acc[TempFolder] = t
          BY <5>1
        <5>3. PICK D \in SUBSET B : t \in [D -> I]
          BY <5>1
        <5> HIDE DEF B, I
        <5> QED
          BY <5>2, <5>3
      <4> QED
        BY <4>1, <4>2
    <3> HIDE DEF B, I
    <3>4. u = [m \in {files[i].base} \cup DOMAIN acc[TempFolder] |->
                IF m \in {files[i].base} THEN files[i].image ELSE acc[TempFolder][m]]
      BY DEF ++, Derived, Entry
    <3>5. {files[i].base} \cup DOMAIN acc[TempFolder] \in SUBSET B
      BY <3>2, <3>3
    <3>6. u \in [{files[i].base} \cup DOMAIN acc[TempFolder] -> I]
      BY <3>2, <3>3, <3>4
    <3>7. u \in U
      BY <3>5, <3>6
    <3> HIDE DEF u, U
    <3>8. [acc EXCEPT ![TempFolder] = u] = [d EXCEPT ![TempFolder] = u]
      <4>1. CASE acc = d
        BY <4>1
      <4>2. CASE acc # d
        <5>1. PICK t \in U : acc = [d EXCEPT ![TempFolder] = t]
          BY <4>2
        <5> QED
          BY <5>1
      <4> QED
        BY <4>1, <4>2
    <3> QED
      BY <3>1, <3>7, <3>8
  <2> HIDE DEF D0, n
  <2>2. step \in Steps(D0, n)
    BY <2>1 DEF Steps
  <2> QED
    BY <2>2 DEF D0
<1>4. \A i \in 1 .. n, acc \in D0 : step[i][acc] = UnpackOne(acc, files[i])
  OBVIOUS
<1> HIDE DEF n, step, D0, U, B, I, T0
<1>5. Folds(D0, d, n, step)
  BY <1>2, <1>3, Folding
<1>6. PICK g \in [SUBSET (1 .. n) -> D0] : FoldsLeft(g, d, n, step)
  BY <1>5 DEF Folds
<1>7. ASSUME NEW D \in SUBSET (1 .. n), D # {}
      PROVE  g[D] = UnpackOne(g[D \ {Max(D)}], files[Max(D)])
  <2>1. Max(D) \in D /\ g[D] = step[Max(D)][g[D \ {Max(D)}]]
    BY <1>6, <1>7 DEF FoldsLeft
  <2>2. D \ {Max(D)} \in SUBSET (1 .. n) /\ Max(D) \in 1 .. n
    BY <2>1
  <2> QED
    BY <1>4, <1>6, <2>1, <2>2
<1>8. g[{}] = d
  BY <1>6 DEF FoldsLeft
<1>9. g = Walk(g)
  BY <1>2, <1>6, <1>7, <1>8
<1>10. iter = Walk(iter)
  BY <1>9
<1> HIDE DEF iter
<1>11. iter[{}] = d /\ \A D \in SUBSET (1 .. n) :
         D # {} => iter[D] = UnpackOne(iter[D \ {Max(D)}], files[Max(D)])
  BY <1>2, <1>10
<1>12. \A D \in SUBSET (1 .. n) : D # {} => Max(D) \in 1 .. n
  BY <1>2, MaxIs
<1>13. GoesBy(iter, D0, d, n, step)
  BY <1>4, <1>11, <1>12 DEF GoesBy
<1>14. PICK f \in [0 .. n -> D0] : Recurs(f, d, n, step) /\ f[n] = iter[1 .. n]
  BY <1>2, <1>3, <1>13, Folded
<1>15. f[0] = d /\ f[n] = Unpacked(files, d)
  BY <1>1, <1>2, <1>14 DEF Recurs
<1>16. ASSUME NEW i \in 1 .. n
       PROVE  f[i] = UnpackOne(f[i - 1], files[i])
  <2>1. i - 1 \in 0 .. n
    BY <1>2
  <2>2. f[i] = step[i][f[i - 1]] /\ f[i - 1] \in D0
    BY <1>14, <2>1 DEF Recurs
  <2> QED
    BY <1>4, <2>2
<1> DEFINE M == {m \in Nat : m <= n => UnpackedAs(files, d, m, f[m])}
<1>17. 0 \in M
  BY <1>15 DEF UnpackedAs, TempAfter
<1>18. ASSUME NEW m \in M
       PROVE  m + 1 \in M
  <2> SUFFICES ASSUME m + 1 <= n
               PROVE  UnpackedAs(files, d, m + 1, f[m + 1])
    OBVIOUS
  <2>1. UnpackedAs(files, d, m, f[m]) /\ m \in Nat
    BY <1>2
  <2>2. f[m + 1] = UnpackOne(f[m], files[m + 1])
    <3>1. m + 1 \in 1 .. n /\ m + 1 - 1 = m
      BY <1>2
    <3> QED
      BY <1>16, <3>1
  <2> QED
    BY <2>1, <2>2, UnpackedNext
<1>19. M = Nat
  <2> HIDE DEF M
  <2>1. M \in SUBSET Nat
    BY DEF M
  <2> QED
    BY <1>17, <1>18, <2>1, Induction
<1>20. UnpackedAs(files, d, n, f[n])
  BY <1>2, <1>19
<1> QED
  BY <1>15, <1>20 DEF n

IsFiles(files) ==
  \E F : files \in Seq(F) /\ \A k \in DOMAIN files : files[k].image = NoImage \/ IsImage(files[k].image)

\* Unpacking leaves the files well made.
LEMMA UnpackedMade ==
  ASSUME NEW files, IsFiles(files), NEW d, TempFolder \in DOMAIN d, FilesMade(d)
  PROVE  FilesMade(Unpacked(files, d)) /\ DOMAIN Unpacked(files, d) = DOMAIN d
<1> DEFINE e == Unpacked(files, d)
<1>1. PICK F : files \in Seq(F)
  BY DEF IsFiles
<1>2. UnpackedAs(files, d, Len(files), e)
  BY <1>1, UnpackedIs
<1>3. DOMAIN files = 1 .. Len(files)
  BY <1>1, LenProperties
<1>4. \A k \in 1 .. Len(files) : files[k].image = NoImage \/ IsImage(files[k].image)
  BY <1>3 DEF IsFiles
<1> HIDE DEF e
<1>5. DOMAIN e = DOMAIN d /\ \A x \in DOMAIN d \ {TempFolder} : e[x] = d[x]
  BY <1>2 DEF UnpackedAs
<1>6. FilesOf(e[TempFolder])
  <2> SUFFICES ASSUME NEW b \in DOMAIN e[TempFolder]
               PROVE  e[TempFolder][b] = NoImage \/ IsImage(e[TempFolder][b])
    BY DEF FilesOf
  <2>1. CASE \E k \in 1 .. Len(files) : files[k].base = b /\ e[TempFolder][b] = files[k].image
    BY <1>4, <2>1
  <2>2. CASE b \in DOMAIN d[TempFolder] /\ e[TempFolder][b] = d[TempFolder][b]
    BY <2>2 DEF FilesMade, FilesOf
  <2> QED
    BY <1>2, <2>1, <2>2 DEF UnpackedAs, TempAfter
<1>7. FilesMade(e)
  BY <1>5, <1>6 DEF FilesMade
<1> QED
  BY <1>5, <1>7 DEF e

\* The names of the slots of a texture.
NamesOf(o) == [i \in DOMAIN o.slots |-> o.slots[i].name]

LEMMA SavedFilesIs ==
  ASSUME NEW o, TextureWellMade(o), NEW T, \A i \in DOMAIN o.slots : o.slots[i].name \in T, NEW options
  PROVE  SavedFiles(o, options) \in Seq(T)
<1> DEFINE names == NamesOf(o)
<1>1. Len(o.slots) \in Nat /\ DOMAIN o.slots = 1 .. Len(o.slots)
  BY DEF TextureWellMade, IsList
<1>2. names \in Seq(T)
  <2>1. names = [i \in 1 .. Len(o.slots) |-> o.slots[i].name]
    BY <1>1 DEF NamesOf
  <2>2. \A i \in 1 .. Len(o.slots) : o.slots[i].name \in T
    BY <1>1
  <2> QED
    BY <1>1, <2>1, <2>2, SeqDef
<1>3. SavedFiles(o, options) = <<>> \/ SavedFiles(o, options) = Only(names, ToSet(names) \ {NoName})
  BY DEF SavedFiles, NamesOf
<1> HIDE DEF names
<1>4. Only(names, ToSet(names) \ {NoName}) \in Seq(T)
  BY <1>2, OnlyType
<1> QED
  BY <1>3, <1>4, EmptySeq

LEMMA IncludedIs ==
  ASSUME Inv, TypeInv, NEW d, FilesMade(d), NEW options
  PROVE  IsFiles(Included(objs, options, d))
<1> DEFINE of(id) == IF objs[id] = FREED \/ objs[id].class # "TEXTURE" THEN <<>>
                     ELSE SavedFiles(objs[id], options)
           seqs == [id \in DOMAIN objs |-> of(id)]
           names == IncludedFiles(objs, options)
           files == Included(objs, options, d)
           N(id) == IF objs[id] = FREED \/ objs[id].class # "TEXTURE" THEN {}
                    ELSE {objs[id].slots[i].name : i \in DOMAIN objs[id].slots}
           T == UNION {N(id) : id \in DOMAIN objs}
<1>1. PICK n \in Nat : DOMAIN objs = 1 .. n
  BY DEF TypeInv, Numbered
<1>2. ASSUME NEW id \in DOMAIN objs
      PROVE  of(id) \in Seq(T)
  <2>1. CASE objs[id] = FREED \/ objs[id].class # "TEXTURE"
    BY <2>1, EmptySeq
  <2>2. CASE ~ (objs[id] = FREED \/ objs[id].class # "TEXTURE")
    <3>1. WellMade(objs[id])
      BY <2>2 DEF TypeInv, ObjectsMade, Living
    <3>2. TextureWellMade(objs[id])
      BY <2>2, <3>1 DEF WellMade
    <3>3. \A i \in DOMAIN objs[id].slots : objs[id].slots[i].name \in T
      BY <2>2
    <3> HIDE DEF T
    <3>4. SavedFiles(objs[id], options) \in Seq(T)
      BY <3>2, <3>3, SavedFilesIs
    <3> QED
      BY <2>2, <3>4
  <2> QED
    BY <2>1, <2>2
<1> HIDE DEF T
<1>3. seqs \in [1 .. n -> Seq(T)]
  BY <1>1, <1>2
<1>4. names = FlattenSeq(seqs)
  BY DEF IncludedFiles
<1> HIDE DEF seqs, names
<1>5. PICK f \in [0 .. n -> Seq(T)] : Joins(f, seqs, n)
  BY <1>3, Flattening
<1>6. names \in Seq(T)
  BY <1>4, <1>5 DEF Joins
<1>7. Len(names) \in Nat /\ DOMAIN names = 1 .. Len(names)
  BY <1>6, LenProperties
<1> DEFINE body(m) == IF m.dir # "" /\ IsFile(m, d) THEN d[m.dir][m.base] ELSE NoImage
           file(k) == [base |-> names[k].base, image |-> body(names[k])]
<1>8. files = [k \in 1 .. Len(names) |-> file(k)]
  BY <1>7 DEF Included, names
<1>9. \A k \in 1 .. Len(names) : file(k).image = NoImage \/ IsImage(file(k).image)
  <2>1. \A m : body(m) = NoImage \/ IsImage(body(m))
    BY DEF IsFile, FilesMade, FilesOf
  <2> QED
    BY <2>1
<1>10. files \in Seq({file(k) : k \in 1 .. Len(names)})
  <2> DEFINE F == {file(k) : k \in 1 .. Len(names)}
  <2>1. \A k \in 1 .. Len(names) : file(k) \in F
    OBVIOUS
  <2> HIDE DEF file, files, F
  <2>2. files \in [1 .. Len(names) -> F]
    BY <1>8, <2>1
  <2>3. files \in Seq(F)
    BY <1>7, <2>2, SeqDef
  <2> QED
    BY <2>3 DEF F
<1>11. \A k \in DOMAIN files : files[k].image = NoImage \/ IsImage(files[k].image)
  <2> HIDE DEF file
  <2> QED
    BY <1>8, <1>9
<1> QED
  BY <1>10, <1>11 DEF IsFiles

-----------------------------------------------------------------------------
(* What is in the document.                                                 *)

\* The main section of an entity with the identifiers other programs write.
WithMarks(s, marks) ==
  <<s[1] \cup marks>> \o SubSeq(s, 2, 6)
    \o [k \in 1 .. Cardinality(marks) |-> 77] \o SubSeq(s, 7, Len(s))

HierarchyOf(b, c) ==
  \E marks \in SUBSET {"PLACEVALID", "PARENTVALID"} :
    c = Entry("3DENTITYNDATA", WithMarks(b["3DENTITYNDATA"], marks)) ++ b

OtherLinksOf(b, c) ==
  \E other :
    \/ Has(b, "MESHS") /\ c = Entry("MESHS", <<other, b["MESHS"][2]>>) ++ b
    \/ Has(b, "MATDATA") /\ c = Entry("MATDATA", [b["MATDATA"] EXCEPT ![6] = other]) ++ b
    \/ Has(b, "MATDATA2") /\ c = Entry("MATDATA2", [b["MATDATA2"] EXCEPT ![1] = other]) ++ b
    \/ Has(b, "MESHMATERIALS") /\ c = Entry("MESHMATERIALS", <<other>>) ++ b

OtherDataOf(b, c) ==
  \/ Has(b, "MATDATA") /\ c = Entry("MATDATA5", <<77, 2>>) ++ b
  \/ Has(b, "LIGHTDATA") /\ c = Entry("LIGHTDATA", [b["LIGHTDATA"] EXCEPT ![1] = <<@[1], "UNKNOWN">>]) ++ b

\* A chunk of the document: what was saved, or what became of it elsewhere.
ChunkOf(what, class, b, c) ==
  \/ c = b
  \/ what = "hierarchy" /\ class \in Entities /\ HierarchyOf(b, c)
  \/ what = "links" /\ OtherLinksOf(b, c)
  \/ what = "data" /\ OtherDataOf(b, c)

ChunksSaved ==
  \A id \in Living : ChunkOf(foreign, objs[id].class, SaveOf(objs[id], global), doc.chunks[id])

FilesSaved == \E d : FilesMade(d) /\ doc.files = Included(objs, global, d)

\* What Save asks of the scene, and what it leaves of it.
SceneSaved ==
  ~ Dangling /\ ~ FaceOutside /\ \A id \in Living : AfterSave(objs[id]) = objs[id]

DocumentMade == doc # NONE => ChunksSaved /\ FilesSaved /\ SceneSaved

\* A copy is made of the document, with the directories that are there then.
CopyMade ==
  copy # NONE =>
    /\ copy = Reloaded(doc.chunks, disk)
    /\ \E d : FilesMade(d) /\ TempFolder \in DOMAIN d /\ disk = Unpacked(doc.files, d)

PathsMade == extra \in Seq({n.dir : n \in Name})

DataInv == TypeInv /\ PathsMade /\ DocumentMade /\ CopyMade

\* Saving an object does not change what saving it gives.
LEMMA RegulatedTwice ==
  ASSUME NEW o, "entityFlags" \in DOMAIN o
  PROVE  Regulated(Regulated(o)) = Regulated(o)
<1> DEFINE away == {"PARENTVALID", "PLACEVALID", "ZORDERVALID"}
           mark == IF o.zorder # 0 THEN {"ZORDERVALID"} ELSE {}
           flags == (o.entityFlags \ away) \cup mark
           p == Regulated(o)
<1>1. p = [o EXCEPT !.entityFlags = flags]
  BY DEF Regulated
<1>2. mark \subseteq away
  OBVIOUS
<1>3. (flags \ away) \cup mark = flags
  BY <1>2
<1> HIDE DEF p, mark, away
<1>4. p.entityFlags = flags /\ p.zorder = o.zorder
  BY <1>1
<1>5. Regulated(p) = [p EXCEPT !.entityFlags = (p.entityFlags \ away) \cup mark]
  BY <1>4 DEF Regulated, away, mark
<1> HIDE DEF flags
<1>6. [p EXCEPT !.entityFlags = flags] = p
  BY <1>1
<1> QED
  BY <1>3, <1>4, <1>5, <1>6 DEF p

LEMMA FacesTwice ==
  ASSUME NEW o, {"faceNormals", "faces", "positions"} \subseteq DOMAIN o
  PROVE  /\ BuildFaceNormals(BuildFaceNormals(o)) = BuildFaceNormals(o)
         /\ DOMAIN BuildFaceNormals(o) = DOMAIN o
         /\ \A m \in DOMAIN o \ {"faceNormals"} : BuildFaceNormals(o)[m] = o[m]
<1> DEFINE p == BuildFaceNormals(o)
           made == [f \in DOMAIN o.faces |-> FaceNormal(o, f)]
<1>1. DOMAIN p = DOMAIN o /\ \A m \in DOMAIN o \ {"faceNormals"} : p[m] = o[m]
  BY DEF BuildFaceNormals
<1>2. CASE o.faces = <<>> \/ o.positions = <<>>
  BY <1>1, <1>2 DEF BuildFaceNormals
<1>3. CASE ~ (o.faces = <<>> \/ o.positions = <<>>)
  <2>1. p = [o EXCEPT !.faceNormals = made]
    BY <1>3 DEF BuildFaceNormals
  <2> HIDE DEF p
  <2>2. p.faces = o.faces /\ p.positions = o.positions
    BY <1>1
  <2>3. BuildFaceNormals(p) = [p EXCEPT !.faceNormals = made]
    BY <1>3, <2>2 DEF BuildFaceNormals, FaceNormal
  <2> HIDE DEF made
  <2>4. BuildFaceNormals(p) = p
    BY <2>1, <2>3
  <2> QED
    BY <1>1, <2>4 DEF p
<1> QED
  BY <1>2, <1>3

LEMMA SavedTwice ==
  ASSUME NEW os, NEW o, Proper(os, o)
  PROVE  AfterSave(AfterSave(o)) = AfterSave(o)
<1> DEFINE p == AfterSave(o)
<1>1. CASE o.class \in Entities
  <2>1. o.class # "MESH"
    BY <1>1 DEF Entities, Lights, Cameras
  <2>2. p = Regulated(o)
    BY <1>1, <2>1 DEF AfterSave
  <2>3. "entityFlags" \in DOMAIN o /\ "class" \in DOMAIN o
    BY <1>1, <2>1, ProperMembers DEF EntityMembers
  <2> HIDE DEF p
  <2>4. p.class = o.class
    BY <2>2, <2>3 DEF Regulated
  <2>5. AfterSave(p) = Regulated(p)
    BY <1>1, <2>1, <2>4 DEF AfterSave
  <2>6. Regulated(p) = p
    BY <2>2, <2>3, RegulatedTwice
  <2> QED
    BY <2>5, <2>6 DEF p
<1>2. CASE o.class = "MESH"
  <2>1. p = AfterSaveMesh(o)
    BY <1>2 DEF AfterSave, Entities, Lights, Cameras
  <2>2. {"faceNormals", "faces", "positions", "meshFlags", "class"} \subseteq DOMAIN o
    BY <1>2, ProperMembers DEF MeshMembers, ObjectMembers
  <2>3. CASE p = o
    BY <2>3
  <2>4. CASE p # o
    <3>1. /\ ~ (o.positions = <<>> \/ o.meshFlags \cap {"NORMAL_CHANGED", "PROCEDURALPOS"} # {})
          /\ p = BuildFaceNormals(o)
      BY <2>1, <2>4 DEF AfterSaveMesh
    <3> HIDE DEF p
    <3>2. p.positions = o.positions /\ p.meshFlags = o.meshFlags /\ p.class = o.class
      BY <2>2, <3>1, FacesTwice
    <3>3. AfterSave(p) = BuildFaceNormals(p)
      BY <1>2, <3>1, <3>2 DEF AfterSave, AfterSaveMesh, Entities, Lights, Cameras
    <3>4. BuildFaceNormals(p) = p
      BY <2>2, <3>1, FacesTwice
    <3> QED
      BY <3>3, <3>4 DEF p
  <2> QED
    BY <2>3, <2>4
<1>3. CASE o.class \notin Entities /\ o.class # "MESH"
  BY <1>3 DEF AfterSave
<1> QED
  BY <1>1, <1>2, <1>3

LEMMA SavedAgain ==
  ASSUME NEW os, NEW o, Proper(os, o), NEW options
  PROVE  SaveOf(AfterSave(o), options) = SaveOf(o, options)
<1> DEFINE p == AfterSave(o)
<1>1. CASE o.class \in Entities
  <2>0. o.class # "MESH"
    BY <1>1 DEF Entities, Lights, Cameras
  <2>1. p = Regulated(o) /\ EntityMembers \subseteq DOMAIN o
    <3>1. p = Regulated(o)
      BY <1>1, <2>0 DEF AfterSave
    <3>2. EntityMembers \subseteq DOMAIN o
      BY <1>1, <2>0, ProperMembers
    <3> QED
      BY <3>1, <3>2
  <2>2. "entityFlags" \in DOMAIN o
    BY <2>1 DEF EntityMembers
  <2> HIDE DEF p
  <2>3. DOMAIN p = DOMAIN o /\ \A m \in DOMAIN o \ {"entityFlags"} : p[m] = o[m]
    BY <2>1 DEF Regulated
  <2>4. p.class = o.class /\ p.flags = o.flags
    BY <2>3, ProperMembers
  <2>5. Regulated(p) = Regulated(o)
    BY <2>1, <2>2, RegulatedTwice
  <2>6. SaveEntity(p) = SaveEntity(o)
    BY <2>4, <2>5 DEF SaveEntity, SaveObject
  <2>7. o.class \in Lights => SaveLight(p) = SaveLight(o)
    <3> SUFFICES ASSUME o.class \in Lights
                 PROVE  SaveLight(p) = SaveLight(o)
      OBVIOUS
    <3>1. LightMembers \subseteq DOMAIN o
      BY ProperMembers DEF MembersOf, Lights
    <3>2. /\ p.lightFlags = o.lightFlags /\ p.type = o.type /\ p.diffuse = o.diffuse
          /\ p.attenuation0 = o.attenuation0 /\ p.attenuation1 = o.attenuation1
          /\ p.attenuation2 = o.attenuation2 /\ p.range = o.range /\ p.power = o.power
          /\ p.innerCone = o.innerCone /\ p.outerCone = o.outerCone /\ p.falloff = o.falloff
      BY <2>3, <3>1 DEF LightMembers
    <3> QED
      BY <2>6, <3>2 DEF SaveLight, Cones
  <2>8. o.class \in Cameras => SaveCamera(p) = SaveCamera(o)
    <3> SUFFICES ASSUME o.class \in Cameras
                 PROVE  SaveCamera(p) = SaveCamera(o)
      OBVIOUS
    <3>1. CameraMembers \subseteq DOMAIN o
      BY ProperMembers DEF MembersOf, Cameras
    <3>2. /\ p.project = o.project /\ p.fov = o.fov /\ p.zoom = o.zoom /\ p.width = o.width
          /\ p.height = o.height /\ p.front = o.front /\ p.back = o.back
      BY <2>3, <3>1 DEF CameraMembers
    <3> QED
      BY <2>6, <3>2 DEF SaveCamera
  <2>9. o.class \in Aiming => p.target = o.target
    BY <2>3, ProperMembers
  <2>10. o.class \in Aiming => WrittenTarget(p, Living) = WrittenTarget(o, Living)
    BY <2>9 DEF WrittenTarget
  <2> QED
    BY <1>1, <2>4, <2>6, <2>7, <2>8, <2>10
    DEF p, SaveOf, SaveTargetLight, SaveTargetCamera, Entities, Lights, Cameras, Aiming
<1>2. CASE o.class = "MESH"
  <2>1. p = o \/ p = BuildFaceNormals(o)
    BY <1>2 DEF AfterSave, AfterSaveMesh, Entities, Lights, Cameras
  <2> HIDE DEF p
  <2>2. CASE p = BuildFaceNormals(o)
    <3>1. MeshMembers \subseteq DOMAIN o
      BY <1>2, ProperMembers
    <3>2. DOMAIN p = DOMAIN o /\ \A m \in DOMAIN o \ {"faceNormals"} : p[m] = o[m]
      BY <2>2 DEF BuildFaceNormals
    <3>3. /\ p.class = o.class /\ p.flags = o.flags /\ p.meshFlags = o.meshFlags /\ p.slots = o.slots
          /\ p.positions = o.positions /\ p.normals = o.normals /\ p.uvs = o.uvs
          /\ p.colors = o.colors /\ p.specular = o.specular /\ p.faces = o.faces
          /\ p.faceSlots = o.faceSlots /\ p.lines = o.lines
      BY <3>1, <3>2, ProperMembers DEF MeshMembers, ObjectMembers
    <3>4. BuildFaceNormals(p) = p
      BY <2>2, <3>1, FacesTwice DEF MeshMembers
    <3>5. NormalDrift(p) = NormalDrift(o)
      BY <2>2, <3>3, <3>4 DEF NormalDrift
    <3>6. GenerateSaveFlags(p) = GenerateSaveFlags(o)
      BY <3>3, <3>5 DEF GenerateSaveFlags, NormalsFollow
    <3>7. SaveMesh(p) = SaveMesh(o)
      BY <3>3, <3>6 DEF SaveMesh, SaveObject, SavedSlots, VertexSection
    <3> QED
      BY <1>2, <3>3, <3>7 DEF p, SaveOf
  <2> QED
    BY <2>1, <2>2 DEF p
<1>3. CASE o.class \notin Entities /\ o.class # "MESH"
  BY <1>3 DEF AfterSave
<1> QED
  BY <1>1, <1>2, <1>3

\* A call sees no document.
LEMMA CallsApart ==
  ASSUME NEW id, Call(id)
  PROVE  UNCHANGED <<extra, doc, copy>>
<1>1. CASE SetField(id)
  BY <1>1 DEF SetField, Changed
<1>2. CASE Show(id)
  BY <1>2 DEF Show, Changed
<1>3. CASE EntityCall(id)
  BY <1>3 DEF EntityCall, Changed
<1>4. CASE LightCall(id)
  BY <1>4 DEF LightCall, Changed
<1>5. CASE TargetCall(id)
  BY <1>5 DEF TargetCall
<1>6. CASE MaterialCall(id)
  BY <1>6 DEF MaterialCall, Changed
<1>7. CASE MeshSizing(id)
  BY <1>7 DEF MeshSizing, Changed
<1>8. CASE MeshWriting(id)
  BY <1>8 DEF MeshWriting, Changed
<1>9. CASE MeshFlagging(id)
  BY <1>9 DEF MeshFlagging, Changed
<1>10. CASE TextureCall(id)
  <2>1. SlotCall(id) => UNCHANGED <<extra, doc, copy>>
    BY DEF SlotCall, Changed
  <2>2. MipmapCall(id) => UNCHANGED <<extra, doc, copy>>
    BY DEF MipmapCall, Changed
  <2> QED
    BY <1>10, <2>1, <2>2 DEF TextureCall, Changed
<1>11. CASE SaveImageFile(id)
  BY <1>11 DEF SaveImageFile
<1> QED
  BY <1>1, <1>2, <1>3, <1>4, <1>5, <1>6, <1>7, <1>8, <1>9, <1>10, <1>11 DEF Call

LEMMA OthersApart ==
  ASSUME NEW id, Members(id) \/ Linking(id) \/ OtherCall(id)
  PROVE  UNCHANGED <<extra, doc, copy>>
<1>1. \A o : Changed(id, o) => UNCHANGED <<extra, doc, copy>>
  BY DEF Changed
<1>2. Members(id) => UNCHANGED <<extra, doc, copy>>
  BY <1>1 DEF Members, Assigned
<1>3. Linking(id) => UNCHANGED <<extra, doc, copy>>
  BY <1>1 DEF Linking, BMMaterial_SetTexture, BM3dEntity_SetCurrentMesh, BMMesh_SetMaterialSlot
<1>4. OtherCall(id) => UNCHANGED <<extra, doc, copy>>
  <2>1. \A name : BMTexture_LoadImage(id, name) => UNCHANGED <<extra, doc, copy>>
    BY <1>1 DEF BMTexture_LoadImage
  <2>2. \A name : BMTexture_SaveImage(id, name) => UNCHANGED <<extra, doc, copy>>
    BY DEF BMTexture_SaveImage
  <2>3. \A n : BMMeshCounts(id, n) => UNCHANGED <<extra, doc, copy>>
    BY <1>1 DEF BMMeshCounts
  <2>4. BMMeshWrite(id) => UNCHANGED <<extra, doc, copy>>
    BY <1>1 DEF BMMeshWrite
  <2> QED
    BY <1>1, <2>1, <2>2, <2>3, <2>4
    DEF OtherCall, BMMaterialSwitch, BMMesh_SetLitMode, BM3dEntity_SetVisibility,
        BMCamera_SetAspectRatio
<1> QED
  BY <1>2, <1>3, <1>4

\* Before there is a document.
LEMMA EditingKeeps ==
  ASSUME Inv, DataInv, Editing, TypeInv', UNCHANGED <<extra, doc, copy>>
  PROVE  DataInv'
<1>1. doc' = NONE /\ copy' = NONE
  BY DEF Editing, Inv, DocumentThere
<1> QED
  BY <1>1 DEF DataInv, PathsMade, DocumentMade, CopyMade

LEMMA CallsTyped ==
  ASSUME Inv, TypeInv, NEW id \in Living, Call(id)
  PROVE  TypeInv'
<1>1. CASE SetField(id)
  BY <1>1, FieldTyped
<1>2. CASE Show(id)
  BY <1>2, ShowTyped
<1>3. CASE objs[id].class \in Entities /\ EntityCall(id)
  BY <1>3, EntityTyped
<1>4. CASE objs[id].class \in Lights /\ LightCall(id)
  BY <1>4, LightTyped
<1>5. CASE objs[id].class \in Aiming /\ TargetCall(id)
  BY <1>5, TargetTyped
<1>6. CASE objs[id].class = "MATERIAL" /\ MaterialCall(id)
  BY <1>6, MaterialTyped
<1>7. CASE objs[id].class = "MESH" /\ (MeshSizing(id) \/ MeshWriting(id) \/ MeshFlagging(id))
  BY <1>7, MeshTyped
<1>8. CASE objs[id].class = "TEXTURE" /\ TextureCall(id)
  BY <1>8, TextureTyped
<1>9. CASE objs[id].class = "TEXTURE" /\ SaveImageFile(id)
  BY <1>9, ImageFileTyped DEF SaveImageFile
<1> QED
  BY <1>1, <1>2, <1>3, <1>4, <1>5, <1>6, <1>7, <1>8, <1>9 DEF Call

\* Saving writes every object and every file as it is after it.
LEMMA SaveDocument ==
  ASSUME Inv, DataInv, Save
  PROVE  DataInv'
<1>1. TypeInv'
  BY SaveTyped DEF DataInv
<1>2. UNCHANGED <<global, extra, disk, foreign, copy>> /\ copy = NONE
  BY DEF Save, Inv, DocumentThere
<1>3. /\ DOMAIN objs' = DOMAIN objs
      /\ \A k \in DOMAIN objs : objs'[k] = IF objs[k] = FREED THEN FREED ELSE AfterSave(objs[k])
  BY DEF Save
<1>4. \A k \in Living : Proper(objs, objs[k])
  BY DEF Inv, SceneInv
<1>5. \A k \in Living : objs'[k] = AfterSave(objs[k])
  BY <1>3 DEF Living
<1>6. ASSUME NEW k \in Living
      PROVE  AfterSave(objs[k]) # FREED /\ AfterSave(objs[k]).class = objs[k].class
  <2>1. Proper(objs, objs[k])
    BY <1>4
  <2>2. "class" \in DOMAIN objs[k]
    BY <2>1, ProperMembers
  <2>3. DOMAIN AfterSave(objs[k]) = DOMAIN objs[k] /\ AfterSave(objs[k]).class = objs[k].class
    BY <2>2 DEF AfterSave, AfterSaveMesh, BuildFaceNormals, Regulated
  <2> QED
    BY <2>2, <2>3, ObjectDataAssumption
<1>7. Living' = Living
  BY <1>3, <1>6 DEF Living
<1>8. doc' = [chunks |-> [id \in DOMAIN objs |->
                            IF objs[id] = FREED THEN FREED ELSE SaveOf(objs[id], global)],
              files |-> Included(objs, global, disk)]
  BY DEF Save
<1>9. ChunksSaved'
  <2>1. \A id \in Living : doc'.chunks[id] = SaveOf(objs[id], global)
    BY <1>8 DEF Living
  <2>2. ASSUME NEW id \in Living
        PROVE  SaveOf(objs'[id], global) = SaveOf(objs[id], global)
    BY <1>4, <1>5, SavedAgain
  <2>3. \A id \in Living : SaveOf(objs[id], global)' = SaveOf(objs'[id], global)
    BY <1>2, <1>7 DEF SaveOf, SaveTargetLight, SaveTargetCamera, WrittenTarget
  <2>4. \A id \in Living' : doc'.chunks[id] = SaveOf(objs[id], global)'
    BY <1>7, <2>1, <2>2, <2>3
  <2> QED
    BY <2>4 DEF ChunksSaved, ChunkOf
<1>10. FilesSaved'
  <2>1. \A k \in Living : objs[k].class = "TEXTURE" => objs'[k] = objs[k]
    BY <1>5 DEF AfterSave, Entities, Lights, Cameras
  <2>2. \A k \in DOMAIN objs :
          (IF objs'[k] = FREED \/ objs'[k].class # "TEXTURE" THEN <<>> ELSE SavedFiles(objs'[k], global))
            = (IF objs[k] = FREED \/ objs[k].class # "TEXTURE" THEN <<>> ELSE SavedFiles(objs[k], global))
    BY <1>3, <1>5, <1>6, <2>1 DEF Living
  <2>3. IncludedFiles(objs', global) = IncludedFiles(objs, global)
    <3>1. [id \in DOMAIN objs' |-> IF objs'[id] = FREED \/ objs'[id].class # "TEXTURE" THEN <<>>
                                   ELSE SavedFiles(objs'[id], global)]
            = [id \in DOMAIN objs |-> IF objs[id] = FREED \/ objs[id].class # "TEXTURE" THEN <<>>
                                      ELSE SavedFiles(objs[id], global)]
      BY <1>3, <2>2
    <3> QED
      BY <3>1 DEF IncludedFiles
  <2>4. Included(objs', global, disk) = Included(objs, global, disk)
    BY <2>3 DEF Included
  <2>5. doc'.files = Included(objs', global', disk) /\ FilesMade(disk)
    BY <1>2, <1>8, <2>4 DEF DataInv, TypeInv, DiskMade
  <2> QED
    BY <2>5 DEF FilesSaved
<1>11. SceneSaved'
  <2>1. ASSUME NEW k \in Living
        PROVE  /\ Pointers(objs'[k]) = Pointers(objs[k])
               /\ objs[k].class = "MESH" => /\ objs'[k].faces = objs[k].faces
                                            /\ objs'[k].positions = objs[k].positions
    <3> DEFINE o == objs[k]
    <3>1. Proper(objs, o)
      BY <1>4
    <3>2. objs'[k] = AfterSave(o)
      BY <1>5
    <3> HIDE DEF o
    <3>3. AfterSave(o).class = o.class
      BY <1>6 DEF o
    <3>4. CASE o.class \in Entities
      <4>1. o.class # "MATERIAL" /\ o.class # "MESH"
        BY <3>4 DEF Entities, Lights, Cameras
      <4>2. AfterSave(o) = Regulated(o)
        BY <3>4, <4>1 DEF AfterSave
      <4>3. "mesh" \in DOMAIN o /\ "potentials" \in DOMAIN o
        BY <3>1, <3>4, ProperMembers DEF EntityMembers
      <4>4. AfterSave(o).mesh = o.mesh /\ AfterSave(o).potentials = o.potentials
        BY <4>2, <4>3 DEF Regulated
      <4> QED
        BY <3>2, <3>3, <3>4, <4>1, <4>4 DEF Pointers, o
    <3>5. CASE o.class = "MESH"
      <4>1. {"slots", "faces", "positions"} \subseteq DOMAIN o
        BY <3>1, <3>5, ProperMembers DEF MeshMembers
      <4>2. o.class \notin Entities
        BY <3>5 DEF Entities, Lights, Cameras
      <4>3. AfterSave(o) = o \/ AfterSave(o) = BuildFaceNormals(o)
        BY <3>5, <4>2 DEF AfterSave, AfterSaveMesh
      <4>4. /\ AfterSave(o).slots = o.slots /\ AfterSave(o).faces = o.faces
            /\ AfterSave(o).positions = o.positions
        BY <4>1, <4>3 DEF BuildFaceNormals
      <4> QED
        BY <3>2, <3>3, <3>5, <4>2, <4>4 DEF Pointers, o
    <3>6. CASE o.class \notin Entities /\ o.class # "MESH"
      <4>1. AfterSave(o) = o
        BY <3>6 DEF AfterSave
      <4> QED
        BY <3>2, <3>6, <4>1 DEF o
    <3> QED
      BY <3>4, <3>5, <3>6
  <2>2. Dangling' <=> Dangling
    BY <1>7, <2>1 DEF Dangling
  <2>3. \A k \in Living : objs'[k].class = objs[k].class
    BY <1>5, <1>6
  <2>4. Of({"MESH"})' = Of({"MESH"})
    BY <1>7, <2>3 DEF Of
  <2>5. \A k \in Of({"MESH"}) : /\ objs'[k].faces = objs[k].faces
                                 /\ objs'[k].positions = objs[k].positions
    BY <2>1 DEF Of
  <2>6. FaceOutside' <=> FaceOutside
    BY <2>4, <2>5 DEF FaceOutside, FacesInside
  <2>7. \A k \in Living : AfterSave(objs'[k]) = objs'[k]
    BY <1>4, <1>5, SavedTwice
  <2> QED
    BY <1>7, <2>2, <2>6, <2>7 DEF SceneSaved, Save
<1> QED
  BY <1>1, <1>2, <1>9, <1>10, <1>11 DEF DataInv, PathsMade, DocumentMade, CopyMade

\* The scene as it was saved.
LEMMA SameScene ==
  ASSUME UNCHANGED objs
  PROVE  SceneSaved' <=> SceneSaved
<1>1. Living' = Living /\ Of({"MESH"})' = Of({"MESH"})
  BY DEF Living, Of
<1> QED
  BY <1>1 DEF SceneSaved, Dangling, FaceOutside

\* What stands between saving and loading.
LEMMA AwayKeeps ==
  ASSUME DataInv, doc # NONE, UNCHANGED <<objs, global, copy>>, copy = NONE, DiskMade', PathsMade',
         doc'.files = doc.files, ChunksSaved'
  PROVE  DataInv'
<1>1. TypeInv'
  BY AroundTyped DEF DataInv
<1>2. FilesSaved'
  BY DEF DataInv, DocumentMade, FilesSaved
<1>3. SceneSaved'
  BY SameScene DEF DataInv, DocumentMade
<1> QED
  BY <1>1, <1>2, <1>3 DEF DataInv, DocumentMade, CopyMade

LEMMA RewrittenKeeps ==
  ASSUME Inv, DataInv, Saved, NEW what, NEW id \in Living, NEW section, NEW s,
         Rewritten(what, id, section, s),
         ChunkOf(what, objs[id].class, doc.chunks[id], Entry(section, s) ++ doc.chunks[id])
  PROVE  DataInv'
<1>1. /\ UNCHANGED <<objs, global, extra, disk, copy>> /\ copy = NONE /\ doc # NONE
      /\ foreign = "none" /\ foreign' = what
  BY DEF Rewritten, Saved
<1>2. DOMAIN doc = {"chunks", "files"} /\ DOMAIN doc.chunks = DOMAIN objs
  BY <1>1 DEF Inv, DocumentThere
<1>3. /\ doc'.files = doc.files
      /\ \A k \in DOMAIN objs : doc'.chunks[k] = IF k = id THEN Entry(section, s) ++ doc.chunks[id]
                                                 ELSE doc.chunks[k]
  BY <1>2 DEF Rewritten
<1>4. Living' = Living
  BY <1>1 DEF Living
<1>5. \A k \in Living : doc.chunks[k] = SaveOf(objs[k], global)
  BY <1>1 DEF DataInv, DocumentMade, ChunksSaved, ChunkOf
<1>6. \A k \in Living : SaveOf(objs[k], global)' = SaveOf(objs[k], global)
  BY <1>1, <1>4 DEF SaveOf, SaveTargetLight, SaveTargetCamera, WrittenTarget
<1>7. \A k \in Living : ChunkOf(what, objs[k].class, SaveOf(objs[k], global), doc'.chunks[k])
  <2>1. \A k \in Living : k # id => doc'.chunks[k] = SaveOf(objs[k], global)
    BY <1>3, <1>5 DEF Living
  <2>2. doc'.chunks[id] = Entry(section, s) ++ doc.chunks[id]
    BY <1>3 DEF Living
  <2> QED
    BY <1>5, <2>1, <2>2 DEF ChunkOf
<1>8. ChunksSaved'
  BY <1>1, <1>4, <1>6, <1>7 DEF ChunksSaved
<1>9. DiskMade' /\ PathsMade'
  BY <1>1 DEF DataInv, TypeInv, DiskMade, PathsMade
<1> QED
  BY <1>1, <1>3, <1>8, <1>9, AwayKeeps

\* What other programs write into a chunk.
LEMMA ElsewhereData ==
  ASSUME Inv, DataInv, Elsewhere
  PROVE  DataInv'
<1>1. ASSUME Saved, NEW id \in Living, objs[id].class \in Entities, WithHierarchy(id)
      PROVE  DataInv'
  <2> DEFINE c == doc.chunks[id]
             s == c["3DENTITYNDATA"]
  <2>1. PICK marks \in SUBSET {"PLACEVALID", "PARENTVALID"} :
          Rewritten("hierarchy", id, "3DENTITYNDATA", WithMarks(s, marks))
    BY <1>1 DEF WithHierarchy, WithMarks
  <2> HIDE DEF c
  <2>2. HierarchyOf(c, Entry("3DENTITYNDATA", WithMarks(s, marks)) ++ c)
    BY DEF HierarchyOf
  <2>3. ChunkOf("hierarchy", objs[id].class, c, Entry("3DENTITYNDATA", WithMarks(s, marks)) ++ c)
    BY <1>1, <2>2 DEF ChunkOf
  <2> QED
    BY <1>1, <2>1, <2>3, RewrittenKeeps DEF c
<1>2. ASSUME Saved, NEW id \in Living, WithOtherLinks(id)
      PROVE  DataInv'
  <2> DEFINE c == doc.chunks[id]
  <2>1. PICK section, s : /\ Rewritten("links", id, section, s)
                          /\ OtherLinksOf(c, Entry(section, s) ++ c)
    BY <1>2 DEF WithOtherLinks, OtherLinksOf
  <2> HIDE DEF c
  <2>2. ChunkOf("links", objs[id].class, c, Entry(section, s) ++ c)
    BY <2>1 DEF ChunkOf
  <2> QED
    BY <1>2, <2>1, <2>2, RewrittenKeeps DEF c
<1>3. ASSUME Saved, NEW id \in Living, WithOtherData(id)
      PROVE  DataInv'
  <2> DEFINE c == doc.chunks[id]
  <2>1. PICK section, s : /\ Rewritten("data", id, section, s)
                          /\ OtherDataOf(c, Entry(section, s) ++ c)
    BY <1>3 DEF WithOtherData, OtherDataOf
  <2> HIDE DEF c
  <2>2. ChunkOf("data", objs[id].class, c, Entry(section, s) ++ c)
    BY <2>1 DEF ChunkOf
  <2> QED
    BY <1>3, <2>1, <2>2, RewrittenKeeps DEF c
<1>4. ASSUME doc # NONE, copy = NONE, UNCHANGED <<objs, global, doc, copy>>,
             foreign' = foreign \/ (foreign = "none" /\ foreign' = "temp")
      PROVE  /\ doc'.files = doc.files /\ ChunksSaved'
  <2>1. \A class, b, c : ChunkOf(foreign, class, b, c) => ChunkOf(foreign', class, b, c)
    BY <1>4 DEF ChunkOf
  <2>2. Living' = Living
    BY <1>4 DEF Living
  <2>3. \A k \in Living : SaveOf(objs[k], global)' = SaveOf(objs[k], global)
    BY <1>4, <2>2 DEF SaveOf, SaveTargetLight, SaveTargetCamera, WrittenTarget
  <2>4. \A k \in Living : ChunkOf(foreign', objs[k].class, SaveOf(objs[k], global), doc.chunks[k])
    BY <1>4, <2>1 DEF DataInv, DocumentMade, ChunksSaved
  <2> QED
    BY <1>4, <2>2, <2>3, <2>4 DEF ChunksSaved
<1>5. ASSUME NEW base, OtherDocument(base)
      PROVE  DataInv'
  <2>1. PICK image \in Image : disk' = [disk EXCEPT ![TempFolder] = Entry(base, image) ++ @]
    BY <1>5 DEF OtherDocument
  <2>2. /\ UNCHANGED <<objs, global, doc, copy, extra>> /\ doc # NONE /\ copy = NONE
        /\ foreign = "none" /\ foreign' = "temp"
    BY <1>5 DEF OtherDocument, Searching, Saved
  <2>3. TempFolder \in DOMAIN disk /\ FilesMade(disk) /\ IsImage(image)
    BY FileAssumption DEF DataInv, TypeInv, DiskMade
  <2>4. FilesMade(disk') /\ DOMAIN disk' = DOMAIN disk
    BY <2>1, <2>3, EntryMade
  <2>5. DiskMade' /\ PathsMade'
    BY <2>2, <2>3, <2>4 DEF DiskMade, DataInv, PathsMade
  <2> QED
    BY <1>4, <2>2, <2>5, AwayKeeps
<1>6. ASSUME NEW name \in Name, AddPath(name.dir)
      PROVE  DataInv'
  <2>1. /\ UNCHANGED <<objs, global, doc, copy, disk, foreign>> /\ doc # NONE /\ copy = NONE
        /\ extra' = Append(extra, name.dir)
    BY <1>6 DEF AddPath, Searching, Saved
  <2>2. PathsMade'
    BY <2>1, AppendProperties DEF DataInv, PathsMade
  <2>3. DiskMade'
    BY <2>1 DEF DataInv, TypeInv, DiskMade
  <2> QED
    BY <1>4, <2>1, <2>2, <2>3, AwayKeeps
<1>7. ASSUME ClearPath
      PROVE  DataInv'
  <2>1. /\ UNCHANGED <<objs, global, doc, copy, disk, foreign>> /\ doc # NONE /\ copy = NONE
        /\ extra' = <<>>
    BY <1>7 DEF ClearPath, Searching, Saved
  <2>2. PathsMade'
    BY <2>1, EmptySeq DEF PathsMade
  <2>3. DiskMade'
    BY <2>1 DEF DataInv, TypeInv, DiskMade
  <2> QED
    BY <1>4, <2>1, <2>2, <2>3, AwayKeeps
<1> QED
  BY <1>1, <1>2, <1>3, <1>5, <1>6, <1>7 DEF Elsewhere

LEMMA LoadData ==
  ASSUME Inv, DataInv, Load
  PROVE  DataInv'
<1>1. /\ UNCHANGED <<objs, global, extra, doc, foreign>> /\ doc # NONE
      /\ disk' = Unpacked(doc.files, disk) /\ copy' = Reloaded(doc.chunks, disk')
  BY DEF Load
<1>2. PICK d : FilesMade(d) /\ doc.files = Included(objs, global, d)
  BY <1>1 DEF DataInv, DocumentMade, FilesSaved
<1>3. IsFiles(doc.files)
  BY <1>2, IncludedIs DEF DataInv
<1>4. TempFolder \in DOMAIN disk /\ FilesMade(disk)
  BY DEF DataInv, TypeInv, DiskMade
<1>5. FilesMade(disk') /\ DOMAIN disk' = DOMAIN disk
  BY <1>1, <1>3, <1>4, UnpackedMade
<1>6. TypeInv'
  BY <1>1, <1>4, <1>5, AroundTyped DEF DiskMade, DataInv
<1>7. Living' = Living
  BY <1>1 DEF Living
<1>8. ChunksSaved'
  <2>1. \A k \in Living : SaveOf(objs[k], global)' = SaveOf(objs[k], global)
    BY <1>1, <1>7 DEF SaveOf, SaveTargetLight, SaveTargetCamera, WrittenTarget
  <2> QED
    BY <1>1, <1>7, <2>1 DEF DataInv, DocumentMade, ChunksSaved
<1>9. FilesSaved' /\ PathsMade'
  BY <1>1, <1>2 DEF FilesSaved, DataInv, PathsMade
<1>10. copy' = Reloaded(doc.chunks, disk)'
  BY <1>1, <1>7 DEF Reloaded, LoadOf, ClassAt
<1>11. CopyMade'
  BY <1>1, <1>4, <1>10 DEF CopyMade
<1>12. SceneSaved'
  BY <1>1, SameScene DEF DataInv, DocumentMade
<1> QED
  BY <1>6, <1>8, <1>9, <1>11, <1>12 DEF DataInv, DocumentMade

LEMMA FaultData ==
  ASSUME DataInv, UNCHANGED <<objs, global, extra, disk, doc, foreign, copy>>
  PROVE  DataInv'
<1>1. TypeInv'
  BY AroundTyped, SameDisk DEF DataInv
<1>2. Living' = Living
  BY DEF Living
<1>3. \A k \in Living : SaveOf(objs[k], global)' = SaveOf(objs[k], global)
  BY <1>2 DEF SaveOf, SaveTargetLight, SaveTargetCamera, WrittenTarget
<1>4. DocumentMade'
  BY <1>2, <1>3, SameScene DEF DataInv, DocumentMade, ChunksSaved, FilesSaved
<1>5. Reloaded(doc.chunks, disk)' = Reloaded(doc.chunks, disk)
  BY <1>2 DEF Reloaded, LoadOf, ClassAt
<1>6. CopyMade'
  BY <1>5 DEF DataInv, CopyMade
<1> QED
  BY <1>1, <1>4, <1>6 DEF DataInv, PathsMade

LEMMA InitData ==
  ASSUME Init
  PROVE  DataInv
<1>1. objs \in Scene /\ disk = Disk /\ extra = <<>> /\ doc = NONE /\ copy = NONE
  BY DEF Init
<1>2. Len(objs) \in Nat /\ objs = [id \in 1 .. Len(objs) |-> objs[id]]
  BY <1>1, SceneAssumption
<1>3. Numbered
  <2>1. DOMAIN objs = 1 .. Len(objs)
    BY <1>2
  <2> QED
    BY <1>2, <2>1 DEF Numbered
<1>4. ObjectsMade
  BY <1>1, ValueAssumption DEF ObjectsMade, Living
<1>5. DiskMade
  BY <1>1, FileAssumption DEF DiskMade, FilesMade
<1>6. PathsMade
  BY <1>1, EmptySeq DEF PathsMade
<1> QED
  BY <1>1, <1>3, <1>4, <1>5, <1>6 DEF DataInv, TypeInv, DocumentMade, CopyMade

LEMMA NextData ==
  ASSUME Inv, DataInv, [BMNext]_vars
  PROVE  DataInv'
<1>1. CASE UNCHANGED vars
  BY <1>1, FaultData DEF vars
<1>2. CASE Editing /\ \E id \in Living : Call(id)
  BY <1>2, CallsTyped, CallsApart, EditingKeeps DEF DataInv
<1>3. CASE Editing /\ \E options \in Values.saveOptions, ext \in Values.saveExt :
             SetGlobalImages(options, ext)
  <2>1. UNCHANGED <<objs, extra, disk, doc, copy>> /\ Editing
    BY <1>3 DEF SetGlobalImages
  <2>2. TypeInv'
    BY <2>1, AroundTyped, SameDisk DEF DataInv
  <2> QED
    BY <2>1, <2>2, EditingKeeps
<1>4. CASE Editing /\ lost = {} /\ \E del \in SUBSET Living :
             del # {} /\ (Destroy(del) \/ DestroyFaults(del))
  <2>1. PICK del \in SUBSET Living : Destroy(del) \/ DestroyFaults(del)
    BY <1>4
  <2>2. CASE Destroy(del)
    BY <1>4, <2>2, DestroyTyped, EditingKeeps DEF DataInv, Destroy
  <2>3. CASE DestroyFaults(del)
    BY <2>3, FaultData DEF DestroyFaults
  <2> QED
    BY <2>1, <2>2, <2>3
<1>5. CASE Save
  BY <1>5, SaveDocument
<1>6. CASE SaveFaults \/ LoadThrows
  BY <1>6, FaultData DEF SaveFaults, LoadThrows
<1>7. CASE Elsewhere
  BY <1>7, ElsewhereData
<1>8. CASE Load
  BY <1>8, LoadData
<1>9. CASE Editing /\ \E id \in Living : Members(id) \/ Linking(id) \/ OtherCall(id)
  BY <1>9, MembersTyped, LinkingTyped, OtherTyped, OthersApart, EditingKeeps DEF DataInv
<1> QED
  BY <1>1, <1>2, <1>3, <1>4, <1>5, <1>6, <1>7, <1>8, <1>9 DEF BMNext, Next

\* Every member of an object, every array, image and file has its type, what is
\* saved is what the objects were, and a copy is made of just that: the setters
\* of the classes, CKContext's options, Save, Load and the unpacking of files.
THEOREM DataInvariant == BMSpec => []DataInv
<1>1. Init => Inv /\ DataInv
  BY InitInv, InitData
<1>2. (Inv /\ DataInv) /\ [BMNext]_vars => (Inv /\ DataInv)'
  BY NextInv, NextData
<1> QED
  BY <1>1, <1>2, PTL DEF BMSpec
=============================================================================
