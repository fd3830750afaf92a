---------------------------- MODULE MCFileSession ----------------------------
(* Documents of other programs with forward, backward and circular          *)
(* references, classes this program does not know, chunks that are missing, *)
(* unreadable or too old, and one included file in two versions.            *)
EXTENDS FileSession, TLC

MCClass == {"MESH", "TEXTURE", "BEHAVIOR"}

MCRegistered == {"MESH", "TEXTURE"}

MCIncludes == [c \in MCClass |-> IF c = "TEXTURE" THEN "file" ELSE NULL]

MCBody == {"first", "second"}

Current(ref) == [kind |-> "current", ref |-> ref]

Entries(objs) ==
  LET size(i) == IF objs[i].data = NULL THEN 1 ELSE IF objs[i].data.ref = 0 THEN 2 ELSE 3
      index[i \in DOMAIN objs] == IF i = 1 THEN Len(objs) + 1 ELSE index[i - 1] + size(i - 1)
  IN [i \in DOMAIN objs |->
        [id |-> objs[i].id, cls |-> objs[i].cls, data |-> objs[i].data, index |-> index[i]]]

Saved(id, cls, data) == [id |-> id, cls |-> cls, data |-> data]

With(objs, body) ==
  [maxId |-> 3, objs |-> Entries(objs),
   included |-> IF body = NULL THEN <<>> ELSE <<[name |-> "file", body |-> body]>>]

MCOriginals == {
  With(<<Saved(2, "MESH", Current(2)), Saved(1, "TEXTURE", Current(1))>>, "first"),
  With(<<Saved(1, "BEHAVIOR", Current(3)), Saved(3, "MESH", Current(1)),
         Saved(2, "MESH", Current(2))>>, "second"),
  With(<<Saved(1, "TEXTURE", NULL), Saved(2, "MESH", Current(1))>>, NULL),
  With(<<Saved(3, "MESH", [kind |-> "unreadable", ref |-> 0]), Saved(2, "MESH", Current(3)),
         Saved(1, "MESH", Current(1))>>, NULL),
  With(<<Saved(2, "MESH", [kind |-> "old", ref |-> 0]), Saved(1, "MESH", Current(1))>>, NULL),
  With(<<Saved(1, "MESH", Current(2)), Saved(3, "MESH", [kind |-> "old", ref |-> 1])>>, NULL)}

ObjectSymmetry == Permutations(Object)
=============================================================================
