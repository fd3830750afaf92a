---------------------------- MODULE MCStateChunk ----------------------------
(* The chunk on small instances: three objects, two of them in the file. *)
EXTENDS StateChunk

MCSaved == <<4, 6>>

MCGarbage == -99

MCCreated == <<9, 8>>

\* One item per calling pattern, with null and unsaved references among them.
MCItem == {
  [k |-> "struct", v |-> 30],
  [k |-> "id", v |-> 6], [k |-> "id", v |-> 0],
  [k |-> "ids", v |-> <<6, 5, 4>>],
  [k |-> "idseq", v |-> <<4, 0, 6>>],
  [k |-> "man", v |-> 31], [k |-> "mans", v |-> <<32, 33>>],
  [k |-> "buf", n |-> 5], [k |-> "buf", n |-> 0],
  [k |-> "raw", n |-> 8],
  [k |-> "vtx", n |-> 1, mask |-> 15]}

\* A vertex block with nothing left out: every colour, normal and coordinate.
FullVertices == {
  [k |-> "struct", v |-> 30],
  [k |-> "raw", n |-> 8],
  [k |-> "vtx", n |-> 2, mask |-> 0]}
=============================================================================
