------------------------------- MODULE MCUnvirt -------------------------------
(* Two documents with three and no objects, one of them with a manager, and *)
(* both with an included file of one name; every command with every choice  *)
(* of its words, and lines each of which the parser must refuse.            *)
EXTENDS Unvirt

MCNumberOf == [w \in {"0", "1", "2", "3"} |->
  CASE w = "0" -> 0 [] w = "1" -> 1 [] w = "2" -> 2 [] w = "3" -> 3]

MCMatches ==
  [q \in {<<"plain", "a">>, <<"plain", "x">>, <<"re", "a">>} |->
     IF q[2] = "a" THEN {"ball", "lamp"} ELSE {}]

MCLines ==
  {<<"load", s, p>> : s \in {"shallow", "deep"}, p \in {"p1", "p2", "out", "nowhere"}}
  \cup {<<"save", "out">>, <<"unload">>, <<"info">>, <<"exit">>, <<"items", "2">>, <<"style", "full">>}
  \cup {<<"ls", "obj", n>> : n \in {"1", "2", "3"}} \cup {<<"ls", "mgr", "1">>}
  \cup {<<"ls", "search", n>> : n \in {"1", "2"}}
  \cup {<<"data", "obj", n>> : n \in {"0", "3"}} \cup {<<"chunk", "mgr", "0">>}
  \cup {<<"search", part, "plain", t>> : part \in {"obj", "mgr"}, t \in {"a", "x"}}
  \cup {<<"search", "obj", "re", t>> : t \in {"a", "["}} \cup {<<"search", "obj", "plain", "a", "x">>}
  \cup {<<"encoding", "latin">>, <<"encoding", "none">>, <<"encoding", "none", "latin">>}
  \cup {<<"temp", f>> : f \in {"t1", "t2", "nowhere"}}
  \cup {<<>>, <<"lode">>, <<"style", "long">>, <<"ls", "obj", "0">>, <<"items", "0">>, <<"load", "deep">>, <<"exit", "1">>}

MCOriginals ==
  [p \in {"p1", "p2", "out"} |->
     CASE p = "p1" -> [names |-> <<"ball", "floor", "lamp">>, mgrs |-> 1, mode |-> "compressed",
                       included |-> [n \in {"f"} |-> "one"]]
       [] p = "p2" -> [names |-> <<>>, mgrs |-> 0, mode |-> "uncompressed",
                       included |-> [n \in {"f"} |-> "two"]]
       [] OTHER -> ABSENT]
=============================================================================
