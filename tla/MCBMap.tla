------------------------------- MODULE MCBMap -------------------------------
(* One document and one transition, whose addresses are used again.  Meshes *)
(* of two faces have corners that are equal or differ in one component, and *)
(* two vertices, which fit, or three or four, which do not.                *)
EXTENDS BMap

MCOffered == <<"MESH", "MATERIAL", "ENTITY">>

MCHidden == {"LIGHT"}

MCLinkClass == [c \in {"MESH", "MATERIAL", "ENTITY"} |-> IF c = "ENTITY" THEN "MESH" ELSE NONE]

MCDocuments == {<<"MESH", "LIGHT", "MATERIAL">>}

MCSizes ==
  [what \in Prepared |->
     CASE what \in {"uvs", "mtlSlots"} -> {1} [] what = "vertexs" -> {1, 2} [] OTHER -> {2}]

MCContents ==
  [a \in Arrays |->
     CASE a \in {"vertexs", "normals"} -> {<<0, 5>>}
       [] a = "mtlSlots" -> {<<2>>}
       [] a = "faceVertexs" -> {<<0, 1, 0, 1, 0, 1>>, <<0, 1, 1, 1, 1, 1>>}
       [] a = "faceNormals" -> {<<0, 0, 0, 1, 1, 1>>}
       [] OTHER -> {}]
=============================================================================
