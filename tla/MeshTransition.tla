--------------------------- MODULE MeshTransition ---------------------------
(***************************************************************************)
(* BMMeshTransition (Ballance/BMap/BMap/BMap.cpp): a program outside hands *)
(* over a mesh with separate indices for positions, normals and texture    *)
(* coordinates; Parse merges equal corners into the vertices of a CKMesh,  *)
(* which has one index and 16 bits for it.                                 *)
(*                                                                         *)
(* The client asks for the sizes, is given pointers and writes through     *)
(* them, in any order and as often as it likes, until the one call of      *)
(* Parse.  A value of a vector is a token: equal tokens are equal bytes.   *)
(***************************************************************************)
EXTENDS Integers, FiniteSets, SequencesExt

CONSTANTS
  Transition,  \* addresses of BMMeshTransition objects
  Sizes,       \* the sizes a client prepares, by array
  Contents,    \* what a client writes into an array
  MaxWord      \* the largest CKWORD, 65535 in the code

VARIABLE transitions  \* the objects on the heap, by address

\* What `new` adds to the objects on the heap.
Allocated(heap, a, v) == [b \in DOMAIN heap \cup {a} |-> IF b = a THEN v ELSE heap[b]]

\* The arrays of the client.  One call sizes the four arrays of the faces.
FaceArrays == {"faceVertexs", "faceNormals", "faceUVs", "faceMtlSlotIdxs"}

Prepared == {"vertexs", "normals", "uvs", "mtlSlots", "face"}

Arrays == (Prepared \ {"face"}) \cup FaceArrays

\* `ok` holds the arrays whose size was given: m_IsVertexOK and so on.
NewTransition == [ok |-> {}, parsed |-> FALSE, data |-> [a \in Arrays |-> <<>>]]

-----------------------------------------------------------------------------
Usable(t) == t \in DOMAIN transitions /\ ~ transitions[t].parsed

\* std::vector::resize; what is new is zero.
Resize(s, n) == [i \in 1 .. n |-> IF i \in DOMAIN s THEN s[i] ELSE 0]

SizeOf(a, what, n) ==
  CASE what = "face" /\ a \in FaceArrays \ {"faceMtlSlotIdxs"} -> 3 * n
    [] OTHER -> n

\* PrepareVertexCount, PrepareNormalCount, ..., PrepareFaceCount.
PrepareCount(t, what, n) ==
  /\ Usable(t)
  /\ LET sized == IF what = "face" THEN FaceArrays ELSE {what}
     IN transitions' = [transitions EXCEPT
          ![t].ok = @ \cup {what},
          ![t].data = [a \in Arrays |->
                         IF a \in sized THEN Resize(@[a], SizeOf(a, what, n)) ELSE @[a]]]

\* The client writes an array through the pointer PrepareVertex and its like
\* have given it: only for a prepared array, and not after Parse.
WriteArray(t, a, values) ==
  /\ Usable(t)
  /\ (IF a \in FaceArrays THEN "face" ELSE a) \in transitions[t].ok
  /\ Len(values) = Len(transitions[t].data[a])
  /\ transitions' = [transitions EXCEPT ![t].data[a] = values]

-----------------------------------------------------------------------------
(* DoRealParse.  Indices count from 0.                                      *)

\* No index is compared with the size of the array it goes into; when one is
\* outside the behaviour is undefined, and the model stops there.
IndicesInside(d) ==
  \A c \in DOMAIN d.faceVertexs :
    /\ d.faceVertexs[c] < Len(d.vertexs)
    /\ d.faceNormals[c] < Len(d.normals)
    /\ d.faceUVs[c] < Len(d.uvs)

\* The TransitionVertex of a corner.
Corner(d, c) ==
  <<d.vertexs[d.faceVertexs[c] + 1], d.normals[d.faceNormals[c] + 1], d.uvs[d.faceUVs[c] + 1]>>

\* Faulty variant: the comparison forgets the normals.
EqualButNormal(v, w) == v[1] = w[1] /\ v[3] = w[3]

\* TransitionVertexCompare takes neither for the smaller.
Equal(v, w) == v = w

\* One corner: m_ProcDupRemover knows the position of each vertex there is.
Insert(proc, v) ==
  LET known == {i \in DOMAIN proc.vertexs : Equal(proc.vertexs[i], v)}
  IN IF known # {}
       THEN [proc EXCEPT !.idx = Append(@, (CHOOSE i \in known : TRUE) - 1)]
       ELSE [vertexs |-> Append(proc.vertexs, v), idx |-> Append(proc.idx, Len(proc.vertexs))]

DoRealParse(d) ==
  FoldLeft(LAMBDA proc, c : Insert(proc, Corner(d, c)),
           [vertexs |-> <<>>, idx |-> <<>>], [c \in DOMAIN d.faceVertexs |-> c])

\* What Parse finds after DoRealParse and then refuses to write.
Overflows(d, proc) == Len(proc.vertexs) > MaxWord \/ Len(d.mtlSlots) > MaxWord

Word(n) == n % (MaxWord + 1)

EmptyMesh == [vertexs |-> <<>>, faces |-> <<>>, mtlSlots |-> <<>>]

\* ApplyToMesh: the mesh is cleaned first, so nothing of it remains.
\* `material` has, for an identifier, the object it stands for or 0.
Applied(d, proc, material) ==
  [vertexs |-> proc.vertexs,
   faces |-> [i \in DOMAIN d.faceMtlSlotIdxs |->
                [idx |-> [j \in 1 .. 3 |-> Word(proc.idx[3 * (i - 1) + j])],
                 slot |-> Word(d.faceMtlSlotIdxs[i])]],
   mtlSlots |-> [k \in DOMAIN d.mtlSlots |-> material[d.mtlSlots[k]]]]

\* The arrays stay in memory after Parse but nothing reads them any more: the
\* model drops them.
Spent == [NewTransition EXCEPT !.parsed = TRUE]

-----------------------------------------------------------------------------
(* What the merged mesh must be, from the client's arrays alone.            *)

Corners(d) == {Corner(d, c) : c \in DOMAIN d.faceVertexs}

\* Each corner of each face has its position, normal and coordinates, no two
\* vertices are equal, none is unused, and the slots hold the materials.
Carries(mesh, d, material) ==
  /\ Len(mesh.vertexs) = Cardinality(Corners(d))
  /\ Len(mesh.faces) = Len(d.faceMtlSlotIdxs)
  /\ \A i \in DOMAIN mesh.faces :
       /\ mesh.faces[i].slot = d.faceMtlSlotIdxs[i]
       /\ \A j \in 1 .. 3 :
            mesh.vertexs[mesh.faces[i].idx[j] + 1] = Corner(d, 3 * (i - 1) + j)
  /\ mesh.mtlSlots = [k \in DOMAIN d.mtlSlots |-> material[d.mtlSlots[k]]]

\* Each vertex and each slot can be numbered with a CKWORD.
Fits(d) == Cardinality(Corners(d)) <= MaxWord /\ Len(d.mtlSlots) <= MaxWord
=============================================================================
