----------------------------- MODULE EntityData -----------------------------
(***************************************************************************)
(* The objects of a scene as data: CKObject, CK3dEntity, CKLight, CKCamera *)
(* and the two classes with a target (LibCmo/CK2/ObjImpls).  An object is  *)
(* a record of its members, its chunk a function from the names of the     *)
(* sections to the values in them, in the order they are written and read. *)
(*                                                                         *)
(* Flags are sets of names; a pointer is an identifier, 0 being null.  A   *)
(* vector is three integers.  A channel of a colour is a number of half    *)
(* steps: a byte b stands for 2b.  Fields nothing depends on take any      *)
(* value, and the module says nothing of them.                             *)
(***************************************************************************)
EXTENDS Integers, Sequences, FiniteSets, SequencesExt, TLC

NoSections == [s \in {} |-> <<>>]

Has(chunk, section) == section \in DOMAIN chunk

\* An object of a class that adds members to those of another.
Derived(base, members) ==
  [m \in DOMAIN base \cup DOMAIN members |-> IF m \in DOMAIN base THEN base[m] ELSE members[m]]

\* A section with its content, a file with its image; and the entries of two
\* such functions, those of the first where both have one.
Entry(key, value) == [k \in {key} |-> value]

a ++ b == Derived(a, b)

\* The elements of a sequence that are in a set, in their order.
Only(s, S) == FoldLeft(LAMBDA t, x : IF x \in S THEN Append(t, x) ELSE t, <<>>, s)

-----------------------------------------------------------------------------
(* Vectors and colours. *)

CrossProduct(a, b) ==
  << a[2] * b[3] - a[3] * b[2], a[3] * b[1] - a[1] * b[3], a[1] * b[2] - a[2] * b[1] >>

DotProduct(a, b) == a[1] * b[1] + a[2] * b[2] + a[3] * b[3]

Identity == << <<1, 0, 0, 0>>, <<0, 1, 0, 0>>, <<0, 0, 1, 0>>, <<0, 0, 0, 1>> >>

Spatial(row) == SubSeq(row, 1, 3)

\* ToARGB cuts what lies between two bytes off.
ToARGB(colour) == [i \in DOMAIN colour |-> colour[i] \div 2]

FromARGB(bytes) == [i \in DOMAIN bytes |-> 2 * bytes[i]]

Opaque == 255

-----------------------------------------------------------------------------
(* CKObject. *)

NewObject(class) == [class |-> class, flags |-> {"VISIBLE"}]

SaveObject(o) ==
  IF "HIERARCHICALHIDE" \in o.flags THEN Entry("OBJECTHIERAHIDDEN", <<>>)
  ELSE IF "VISIBLE" \notin o.flags THEN Entry("OBJECTHIDDEN", <<>>)
  ELSE NoSections

LoadObject(o, chunk) ==
  [o EXCEPT !.flags = (@ \ {"VISIBLE", "HIERARCHICALHIDE"}) \cup
     (IF Has(chunk, "OBJECTHIDDEN") THEN {}
      ELSE IF Has(chunk, "OBJECTHIERAHIDDEN") THEN {"HIERARCHICALHIDE"}
      ELSE {"VISIBLE"})]

\* What an option of Show leaves of the two marks.
Shown(option) ==
  CASE option = "SHOW" -> {"VISIBLE"}
    [] option = "HIERARCHICALHIDE" -> {"HIERARCHICALHIDE"}
    [] OTHER -> {}

ShowObject(o, option) ==
  [o EXCEPT !.flags = (@ \ {"VISIBLE", "HIERARCHICALHIDE"}) \cup Shown(option)]

-----------------------------------------------------------------------------
(* CK3dEntity. *)

NewEntity(class) ==
  Derived(NewObject(class),
    [potentials |-> <<>>, mesh |-> 0, matrix |-> Identity, zorder |-> 0,
     moveable |-> {"PICKABLE", "VISIBLE", "RENDERCHANNELS", "INVERSEWORLDMATVALID"},
     entityFlags |-> {}])

\* The members behind a getter and a setter that do nothing else.
EntityFields == {"matrix", "entityFlags", "moveable", "zorder"}

ShowEntity(o, option) ==
  [ShowObject(o, option) EXCEPT
     !.moveable = (@ \ {"VISIBLE", "HIERARCHICALHIDE"}) \cup Shown(option)]

AddIfNotHere(list, id) == IF id \in ToSet(list) THEN list ELSE Append(list, id)

AddPotentialMesh(o, id) == [o EXCEPT !.potentials = AddIfNotHere(@, id)]

RemovePotentialMesh(o, id) == [o EXCEPT !.potentials = Only(@, ToSet(@) \ {id})]

SetCurrentMesh(o, id) ==
  IF id = 0 THEN [o EXCEPT !.mesh = 0] ELSE AddPotentialMesh([o EXCEPT !.mesh = id], id)

\* Save sets the flags of the object right before it writes them.
Regulated(o) ==
  [o EXCEPT !.entityFlags = (@ \ {"PARENTVALID", "PLACEVALID", "ZORDERVALID"}) \cup
     (IF o.zorder # 0 THEN {"ZORDERVALID"} ELSE {})]

MeshSection(o) ==
  IF o.mesh # 0 \/ o.potentials # <<>> THEN Entry("MESHS", <<o.mesh, o.potentials>>)
  ELSE NoSections

EntityData(o) ==
  Entry("3DENTITYNDATA",
    << o.entityFlags, o.moveable, Spatial(o.matrix[1]), Spatial(o.matrix[2]),
       Spatial(o.matrix[3]), Spatial(o.matrix[4])>>
    \o (IF o.zorder # 0 THEN <<o.zorder>> ELSE <<>>))

SaveEntity(o) == SaveObject(o) ++ MeshSection(Regulated(o)) ++ EntityData(Regulated(o))

\* `ClassAt` names the class of the object an identifier stands for; the
\* potential meshes are taken whatever they are.
LoadMeshes(o, s, ClassAt) ==
  LET mesh == IF s[1] # 0 /\ ClassAt[s[1]] = "MESH" THEN s[1] ELSE o.mesh
      others == FoldLeft(LAMBDA list, id : IF id = 0 THEN list ELSE AddIfNotHere(list, id),
                         <<>>, s[2])
  IN SetCurrentMesh([o EXCEPT !.potentials = others], mesh)

VolatileEntity == {"UPDATELASTFRAME", "RESERVED0"}

VolatileMoveable ==
  {"RESERVED2", "STENCILONLY", "DONTUPDATEFROMPARENT", "INVERSEWORLDMATVALID", "HASMOVED",
   "BOXVALID", "USERBOX", "UPTODATE"}

Mirrored(matrix) ==
  DotProduct(CrossProduct(Spatial(matrix[1]), Spatial(matrix[2])), Spatial(matrix[3])) < 0

\* The moveable flags: those read, but for what belongs to a session, with the
\* ones that follow from the matrix and from the visibility of the object.
LoadedMoveable(o, saved, matrix) ==
  ((saved \ VolatileMoveable) \ {"INDIRECTMATRIX", "VISIBLE", "HIERARCHICALHIDE"})
    \cup (o.moveable \cap {"WORLDALIGNED"})
    \cup (IF Mirrored(matrix) THEN {"INDIRECTMATRIX"} ELSE {})
    \cup (o.flags \cap {"VISIBLE", "HIERARCHICALHIDE"})

\* Faulty variant: the identifiers of place and parent are not skipped.
OptionalIgnored(flags) == 6

\* Where the z-order is: behind the identifiers of a place and of a parent.
WordsBeforeOrder(flags) == 6 + Cardinality(flags \cap {"PLACEVALID", "PARENTVALID"})

LoadEntityData(o, s) ==
  LET flags == s[1] \ VolatileEntity
      matrix == [i \in 1 .. 4 |-> Append(s[i + 2], Identity[i][4])]
  IN [o EXCEPT
        !.entityFlags = flags \ {"PLACEVALID", "PARENTVALID"},
        !.moveable = LoadedMoveable(o, s[2], matrix),
        !.matrix = matrix,
        !.zorder = IF "ZORDERVALID" \in flags THEN s[WordsBeforeOrder(flags) + 1]
                   ELSE IF "RENDERFIRST" \in s[2] THEN 10000 ELSE @]

LoadEntity(o, chunk, ClassAt) ==
  LET seen == LoadObject(o, chunk)
      meshed == IF Has(chunk, "MESHS") THEN LoadMeshes(seen, chunk["MESHS"], ClassAt) ELSE seen
  IN IF Has(chunk, "3DENTITYNDATA") THEN LoadEntityData(meshed, chunk["3DENTITYNDATA"])
     ELSE meshed

-----------------------------------------------------------------------------
(* CKLight. *)

NewLight(class) ==
  Derived(NewEntity(class),
    [type |-> "POINT", diffuse |-> <<510, 510, 510, 510>>, attenuation0 |-> 1,
     attenuation1 |-> 0, attenuation2 |-> 0, range |-> 5000, innerCone |-> 40, outerCone |-> 45,
     falloff |-> 1, lightFlags |-> {"ACTIVE"}, power |-> 1])

LightFields ==
  {"type", "diffuse", "attenuation0", "attenuation1", "attenuation2", "range", "innerCone",
   "outerCone", "falloff", "power"}

SwitchLight(o, flag, on) ==
  [o EXCEPT !.lightFlags = IF on THEN @ \cup {flag} ELSE @ \ {flag}]

Cones(o) == IF o.type = "SPOT" THEN <<o.outerCone, o.innerCone, o.falloff>> ELSE <<>>

\* The type and the flags share a word, in which they do not overlap.
SaveLight(o) ==
  SaveEntity(o)
    ++ Entry("LIGHTDATA",
         << <<o.lightFlags, o.type>>, [ToARGB(o.diffuse) EXCEPT ![4] = Opaque],
            o.attenuation0, o.attenuation1, o.attenuation2, o.range>> \o Cones(o))
    ++ (IF o.power # 1 THEN Entry("LIGHTDATA2", <<o.power>>) ELSE NoSections)

LightTypes == {"POINT", "SPOT", "DIREC", "PARA"}

LoadLight(o, chunk, ClassAt) ==
  LET entity == LoadEntity(o, chunk, ClassAt)
      s == chunk["LIGHTDATA"]
      basic == [entity EXCEPT
        !.lightFlags = s[1][1], !.type = s[1][2], !.diffuse = FromARGB(s[2]),
        !.attenuation0 = s[3], !.attenuation1 = s[4], !.attenuation2 = s[5], !.range = s[6]]
      coned == IF s[1][2] # "SPOT" THEN basic
               ELSE [basic EXCEPT !.outerCone = s[7], !.innerCone = s[8], !.falloff = s[9]]
      lit == IF Has(chunk, "LIGHTDATA") THEN coned ELSE entity
  IN [lit EXCEPT
        !.power = IF Has(chunk, "LIGHTDATA2") THEN chunk["LIGHTDATA2"][1] ELSE 1,
        !.type = IF @ \in LightTypes THEN @ ELSE "POINT"]

-----------------------------------------------------------------------------
(* CKCamera. *)

NewCamera(class) ==
  Derived(NewEntity(class),
    [project |-> "PERSPECTIVE", fov |-> 5, zoom |-> 1, width |-> 4, height |-> 3,
     front |-> 1, back |-> 4000])

CameraFields == {"project", "fov", "zoom", "front", "back", "width", "height"}

Word == 65536

SaveCamera(o) ==
  SaveEntity(o)
    ++ Entry("CAMERAONLY",
         <<o.project, o.fov, o.zoom, <<o.width % Word, o.height % Word>>, o.front, o.back>>)

LoadCamera(o, chunk, ClassAt) ==
  LET entity == LoadEntity(o, chunk, ClassAt)
      s == chunk["CAMERAONLY"]
  IN IF ~ Has(chunk, "CAMERAONLY") THEN entity
     ELSE [entity EXCEPT !.project = s[1], !.fov = s[2], !.zoom = s[3], !.width = s[4][1],
             !.height = s[4][2], !.front = s[5], !.back = s[6]]

-----------------------------------------------------------------------------
(* CKTargetCamera and CKTargetLight; `section` is TCAMERATARGET or           *)
(* TLIGHTTARGET.  The target is kept as an identifier.                       *)

NewTargetCamera(class) == Derived(NewCamera(class), [target |-> 0])

NewTargetLight(class) == Derived(NewLight(class), [target |-> 0])

\* The identifier of an object that is no longer there is written as none.
WrittenTarget(o, there) == <<IF o.target \in there THEN o.target ELSE 0>>

SaveTargetCamera(o, there) == SaveCamera(o) ++ Entry("TCAMERATARGET", WrittenTarget(o, there))

SaveTargetLight(o, there) == SaveLight(o) ++ Entry("TLIGHTTARGET", WrittenTarget(o, there))

LoadTargetCamera(o, chunk, ClassAt) ==
  [LoadCamera(o, chunk, ClassAt) EXCEPT
     !.target = IF Has(chunk, "TCAMERATARGET") THEN chunk["TCAMERATARGET"][1] ELSE @]

LoadTargetLight(o, chunk, ClassAt) ==
  [LoadLight(o, chunk, ClassAt) EXCEPT
     !.target = IF Has(chunk, "TLIGHTTARGET") THEN chunk["TLIGHTTARGET"][1] ELSE @]
=============================================================================
