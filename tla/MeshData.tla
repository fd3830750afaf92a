------------------------------ MODULE MeshData ------------------------------
(***************************************************************************)
(* CKMesh (LibCmo/CK2/ObjImpls/CKMesh.cpp) as data, in the form of         *)
(* EntityData: arrays that are resized together and written through        *)
(* pointers, and a chunk in which the writer leaves out what the reader    *)
(* can make again: colours that are all alike, generated positions, and    *)
(* normals that follow from the faces.                                     *)
(*                                                                         *)
(* A vertex index counts from 0, as in the faces.  Vectors have integer    *)
(* components, Unit of them in one length; Unit is a thousand, so that one *)
(* step is the difference up to which the writer takes normals for equal.  *)
(* A unit vector is represented by a multiple of its direction, which is   *)
(* exact for the vectors along an axis that the faces here have.           *)
(***************************************************************************)
EXTENDS EntityData

Unit == 1000

Zero == <<0, 0, 0>>

Plus(a, b) == [i \in 1 .. 3 |-> a[i] + b[i]]

Minus(a, b) == [i \in 1 .. 3 |-> a[i] - b[i]]

Absolute(n) == IF n < 0 THEN -n ELSE n

AbsoluteVector(a) == [i \in 1 .. 3 |-> Absolute(a[i])]

\* Divides evenly into every component; the greatest is taken.
CommonDivisors(a) ==
  {d \in 1 .. Max({Absolute(a[i]) : i \in 1 .. 3}) : \A i \in 1 .. 3 : a[i] % d = 0}

Normalized(a) ==
  IF a = Zero THEN a
  ELSE LET d == Max(CommonDivisors(a)) IN [i \in 1 .. 3 |-> Unit * (a[i] \div d)]

NewMesh ==
  Derived(NewObject("MESH"),
    [meshFlags |-> {"VISIBLE", "RENDERCHANNELS"},
     positions |-> <<>>, normals |-> <<>>, uvs |-> <<>>, colors |-> <<>>, specular |-> <<>>,
     slots |-> <<>>, faces |-> <<>>, faceSlots |-> <<>>, faceNormals |-> <<>>, lines |-> <<>>])

-----------------------------------------------------------------------------
(* The arrays. *)

Resized(s, n, default) == [i \in 1 .. n |-> IF i <= Len(s) THEN s[i] ELSE default]

White == 15

SetVertexCount(o, n) ==
  [o EXCEPT !.positions = Resized(@, n, Zero), !.normals = Resized(@, n, Zero),
     !.uvs = Resized(@, n, 0), !.colors = Resized(@, n, White), !.specular = Resized(@, n, 0)]

SetFaceCount(o, n) ==
  [o EXCEPT !.faces = Resized(@, n, <<0, 0, 0>>), !.faceSlots = Resized(@, n, 0),
     !.faceNormals = Resized(@, n, Zero)]

SetLineCount(o, n) == [o EXCEPT !.lines = Resized(@, n, <<0, 0>>)]

SetMaterialSlotCount(o, n) == [o EXCEPT !.slots = Resized(@, n, 0)]

\* The pointers the getters return: whole arrays are written through them.
VertexArrays == {"positions", "normals", "uvs", "colors", "specular"}

FaceArrays == {"faces", "faceSlots"}

-----------------------------------------------------------------------------
(* Flags. *)

ShowMesh(o, option) ==
  [ShowObject(o, option) EXCEPT
     !.meshFlags = IF option = "SHOW" THEN @ \cup {"VISIBLE"} ELSE @ \ {"VISIBLE"}]

\* The object is shown or hidden with the mesh.
SetMeshFlags(o, flags) ==
  [o EXCEPT !.meshFlags = flags,
     !.flags = IF "VISIBLE" \in flags THEN @ \cup {"VISIBLE"} ELSE @ \ {"VISIBLE"}]

SetLitMode(o, mode) ==
  [o EXCEPT !.meshFlags = IF mode = "PRELIT" THEN @ \cup {"PRELITMODE"} ELSE @ \ {"PRELITMODE"}]

SetWrapMode(o, axes) == [o EXCEPT !.meshFlags = (@ \ {"WRAPU", "WRAPV"}) \cup axes]

-----------------------------------------------------------------------------
(* Normals. *)

\* Every face names vertices there are; nothing in the class asks for it.
FacesInside(o) ==
  \A f \in DOMAIN o.faces : \A c \in 1 .. 3 : o.faces[f][c] < Len(o.positions)

FaceNormal(o, f) ==
  LET p(c) == o.positions[o.faces[f][c] + 1]
  IN Normalized(CrossProduct(Minus(p(2), p(1)), Minus(p(3), p(1))))

BuildFaceNormals(o) ==
  IF o.faces = <<>> \/ o.positions = <<>> THEN o
  ELSE [o EXCEPT !.faceNormals = [f \in DOMAIN o.faces |-> FaceNormal(o, f)]]

\* What the faces around a vertex give it, added corner by corner to `start`.
Gathered(o, start) ==
  [v \in DOMAIN start |->
     FoldLeft(LAMBDA sum, f : FoldLeft(LAMBDA s, c :
                 IF o.faces[f][c] + 1 = v THEN Plus(s, o.faceNormals[f]) ELSE s,
                 sum, <<1, 2, 3>>),
              start[v], [f \in DOMAIN o.faces |-> f])]

NormalizedAll(s) == [v \in DOMAIN s |-> Normalized(s[v])]

BuildNormals(o) ==
  IF o.faces = <<>> \/ o.positions = <<>> THEN o
  ELSE LET b == BuildFaceNormals(o) IN [b EXCEPT !.normals = NormalizedAll(Gathered(b, b.normals))]

-----------------------------------------------------------------------------
(* Save. *)

AllAlike(s) == \A i \in DOMAIN s : s[i] = s[1]

\* The sum of the differences between the normals and the generated ones.
NormalDrift(o) ==
  LET b == BuildFaceNormals(o)
      made == NormalizedAll(Gathered(b, [v \in DOMAIN o.normals |-> Zero]))
  IN FoldLeft(LAMBDA sum, v : Plus(sum, AbsoluteVector(Minus(o.normals[v], made[v]))),
              Zero, [v \in DOMAIN o.normals |-> v])

\* The mean of the differences is not longer than one step.
NormalsFollow(o) ==
  DotProduct(NormalDrift(o), NormalDrift(o)) <= Len(o.positions) * Len(o.positions)

\* Faulty variant: normals are generated again in any case.
NormalsNever(o) ==
  {f \in {"NoPos", "SingleUV", "SingleColor", "SingleSpecularColor", "NoNormal"} :
     CASE f = "NoPos" -> "PROCEDURALPOS" \in o.meshFlags
       [] f = "SingleUV" -> "PROCEDURALUV" \in o.meshFlags \/ AllAlike(o.uvs)
       [] f = "SingleColor" -> AllAlike(o.colors)
       [] f = "SingleSpecularColor" -> AllAlike(o.specular)
       [] OTHER -> TRUE}

\* What need not be written in full.
GenerateSaveFlags(o) ==
  {f \in {"NoPos", "SingleUV", "SingleColor", "SingleSpecularColor", "NoNormal"} :
     CASE f = "NoPos" -> "PROCEDURALPOS" \in o.meshFlags
       [] f = "SingleUV" -> "PROCEDURALUV" \in o.meshFlags \/ AllAlike(o.uvs)
       [] f = "SingleColor" -> AllAlike(o.colors)
       [] f = "SingleSpecularColor" -> AllAlike(o.specular)
       [] OTHER -> \/ o.meshFlags \cap {"NORMAL_CHANGED", "PROCEDURALPOS"} # {}
                   \/ NormalsFollow(o)}

OneOrAll(s, single) == IF single THEN <<s[1]>> ELSE s

VertexSection(o) ==
  LET saved == GenerateSaveFlags(o)
  IN << Len(o.positions), saved,
        IF "NoPos" \in saved THEN <<>> ELSE o.positions,
        OneOrAll(o.colors, "SingleColor" \in saved),
        OneOrAll(o.specular, "SingleSpecularColor" \in saved),
        IF "NoNormal" \in saved THEN <<>> ELSE o.normals,
        OneOrAll(o.uvs, "SingleUV" \in saved)>>

\* A mesh has at least one slot in the chunk, Virtools asks for it.
SavedSlots(o) == IF o.slots = <<>> THEN <<0>> ELSE o.slots

\* Saving builds the normals of the faces, but for positions that are generated.
AfterSaveMesh(o) ==
  IF o.positions = <<>> \/ o.meshFlags \cap {"NORMAL_CHANGED", "PROCEDURALPOS"} # {} THEN o
  ELSE BuildFaceNormals(o)

SaveMesh(o) ==
  SaveObject(o)
    ++ Entry("MESHFLAGS", <<o.meshFlags>>)
    ++ Entry("MESHMATERIALS", SavedSlots(o))
    ++ (IF o.faces # <<>> THEN Entry("MESHFACES", <<o.faces, o.faceSlots>>) ELSE NoSections)
    ++ (IF o.lines # <<>> THEN Entry("MESHLINES", o.lines) ELSE NoSections)
    ++ (IF o.positions # <<>> THEN Entry("MESHVERTICES", VertexSection(o)) ELSE NoSections)

-----------------------------------------------------------------------------
(* Load. *)

\* The flags VXMESH_ALLFLAGS leaves out, and two more that Load removes.
VolatileMesh == {"MONOMATERIAL", "PM_BUILDNORM", "BWEIGHTS_CHANGED", "BOUNDINGUPTODATE", "OPTIMIZED"}

CleanMesh(o) ==
  SetLineCount(SetFaceCount(SetMaterialSlotCount(SetVertexCount(o, 0), 0), 0), 0)

MaterialAt(id, ClassAt) == IF id # 0 /\ ClassAt[id] = "MATERIAL" THEN id ELSE 0

Spread(s, n) == [i \in 1 .. n |-> IF Len(s) = n THEN s[i] ELSE s[1]]

LoadVertices(o, s) ==
  LET sized == SetVertexCount(o, s[1])
  IN IF s[1] = 0 THEN sized
     ELSE [sized EXCEPT
             !.positions = IF "NoPos" \in s[2] THEN @ ELSE s[3],
             !.colors = Spread(s[4], s[1]), !.specular = Spread(s[5], s[1]),
             !.normals = IF "NoNormal" \in s[2] THEN @ ELSE s[6],
             !.uvs = Spread(s[7], s[1])]

\* Everything before the normals are built.
LoadArrays(o, chunk, ClassAt) ==
  LET clean == CleanMesh(LoadObject(o, chunk))
      flagged == IF ~ Has(chunk, "MESHFLAGS") THEN clean
                 ELSE [clean EXCEPT !.meshFlags = chunk["MESHFLAGS"][1] \ VolatileMesh]
      slotted == IF ~ Has(chunk, "MESHMATERIALS") THEN flagged
                 ELSE [flagged EXCEPT !.slots = [i \in DOMAIN chunk["MESHMATERIALS"] |->
                         MaterialAt(chunk["MESHMATERIALS"][i], ClassAt)]]
      filled == IF Has(chunk, "MESHVERTICES") THEN LoadVertices(slotted, chunk["MESHVERTICES"])
                ELSE slotted
      faced == IF ~ Has(chunk, "MESHFACES") THEN filled
               ELSE [SetFaceCount(filled, Len(chunk["MESHFACES"][1])) EXCEPT
                       !.faces = chunk["MESHFACES"][1], !.faceSlots = chunk["MESHFACES"][2]]
  IN IF Has(chunk, "MESHLINES")
       THEN [SetLineCount(faced, Len(chunk["MESHLINES"])) EXCEPT !.lines = chunk["MESHLINES"]]
       ELSE faced

LoadMesh(o, chunk, ClassAt) ==
  LET read == LoadArrays(o, chunk, ClassAt)
      generated == Has(chunk, "MESHVERTICES") /\ "NoNormal" \in chunk["MESHVERTICES"][2]
  IN IF generated THEN BuildNormals(read) ELSE BuildFaceNormals(read)
=============================================================================
