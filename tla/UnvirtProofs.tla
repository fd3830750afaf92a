---------------------------- MODULE UnvirtProofs ----------------------------
(***************************************************************************)
(* Theorems about Unvirt for every set of lines, documents and folders.    *)
(***************************************************************************)
EXTENDS Unvirt, InductionLemmas

-----------------------------------------------------------------------------
(* The invariant.                                                           *)

TypeOK ==
  /\ disk \in [Path -> Document \cup {ABSENT, BROKEN}]
  /\ folders \in [Folder -> [FileName -> Body \cup {ABSENT}]]
  /\ temp \in Folder
  /\ HasOpenedFile => reader \in [doc : Document, shallow : BOOLEAN, folder : Folder]
  /\ items \in Nat \ {0}
  /\ search.part \in {"obj", "mgr"}

\* The files of the open document are still in the folder they were unpacked
\* into: nothing is unpacked while a document is open.
UnpackedThere ==
  HasOpenedFile =>
    \A n \in DOMAIN reader.doc.included : folders[reader.folder][n] = reader.doc.included[n]

IInv == TypeOK /\ UnpackedThere /\ ResultsCurrent

-----------------------------------------------------------------------------
(* Parsing.                                                                 *)

\* A number from 1 on.
LEMMA FromOne ==
  ASSUME NEW n \in Nat, n >= 1
  PROVE  n \in Nat \ {0} /\ n - 1 \in Nat
OBVIOUS

\* A line without an error has a known verb, and its words are admitted.
LEMMA Accepted ==
  ASSUME NEW line, Verdict(line) = "none"
  PROVE  /\ Head(line) \in DOMAIN Syntax
         /\ \A k \in DOMAIN Syntax[Head(line)] : Admits(Syntax[Head(line)][k], Tail(line)[k])
<1>1. line # <<>> /\ Head(line) \in DOMAIN Syntax
  BY DEF Verdict
<1> DEFINE params == Syntax[Head(line)]
           args == Tail(line)
           bad == {k \in DOMAIN params : k > Len(args) \/ ~ Admits(params[k], args[k])}
<1>2. bad = {}
  <2>1. SUFFICES ASSUME bad # {} PROVE FALSE
    OBVIOUS
  <2>2. Verdict(line) \in {"TooLessParam", "BadArg"}
    BY <1>1, <2>1 DEF Verdict
  <2>3. QED BY <2>2
<1>3. QED BY <1>1, <1>2

\* The words of `ls` are a part and a page from 1 on.
LEMMA LsWords ==
  ASSUME NEW line, Verdict(line) = "none", Head(line) = "ls",
         NEW args, args = Tail(line)
  PROVE  args[1] \in {"obj", "mgr", "search"} /\ NumberOf[args[2]] - 1 \in Nat
<1>1. Syntax["ls"] = <<{"obj", "mgr", "search"}, Numbers(1)>>
  BY DEF Syntax
<1>2. Admits(Syntax["ls"][1], args[1]) /\ Admits(Syntax["ls"][2], args[2])
  <2>1. DOMAIN Syntax["ls"] = {1, 2}
    BY <1>1
  <2>2. QED BY <2>1, Accepted, Zenon
<1>3. Admits({"obj", "mgr", "search"}, args[1]) /\ Admits(Numbers(1), args[2])
  <2>1. Syntax["ls"][1] = {"obj", "mgr", "search"} /\ Syntax["ls"][2] = Numbers(1)
    BY <1>1
  <2>2. QED BY <2>1, <1>2, Zenon
<1>4. "obj" \notin AnyWord
  BY DEF AnyWord
<1>5. Numbers(1) # AnyWord
  BY UnvirtAssumption DEF Numbers, AnyWord
<1>6. args[1] \in {"obj", "mgr", "search"} /\ args[2] \in Numbers(1)
  BY <1>3, <1>4, <1>5, Zenon DEF Admits
<1>7. args[2] \in DOMAIN NumberOf /\ NumberOf[args[2]] >= 1
  BY <1>6, Zenon DEF Numbers
<1>8. NumberOf[args[2]] \in Nat
  BY <1>7, UnvirtAssumption
<1>9. NumberOf[args[2]] - 1 \in Nat
  BY <1>7, <1>8, FromOne, Zenon
<1>10. QED BY <1>6, <1>9, Zenon

\* The words of `search` begin with a part.
LEMMA SearchWords ==
  ASSUME NEW line, Verdict(line) = "none", Head(line) = "search"
  PROVE  Tail(line)[1] \in {"obj", "mgr"}
<1>1. Syntax["search"] = <<{"obj", "mgr"}, {"plain", "re"}, AnyWord>>
  BY DEF Syntax
<1>2. Admits(Syntax["search"][1], Tail(line)[1])
  <2>1. 1 \in DOMAIN Syntax["search"]
    BY <1>1
  <2>2. QED BY <2>1, Accepted, Zenon
<1>3. Admits({"obj", "mgr"}, Tail(line)[1])
  <2>1. Syntax["search"][1] = {"obj", "mgr"}
    BY <1>1
  <2>2. QED BY <2>1, <1>2, Zenon
<1>4. "obj" \notin AnyWord
  BY DEF AnyWord
<1>5. QED BY <1>3, <1>4, Zenon DEF Admits

\* The words of `items` are a number from 1 on.
LEMMA ItemsWords ==
  ASSUME NEW line, Verdict(line) = "none", Head(line) = "items"
  PROVE  NumberOf[Tail(line)[1]] \in Nat \ {0}
<1>1. Syntax["items"] = <<Numbers(1)>>
  BY DEF Syntax
<1>2. Admits(Syntax["items"][1], Tail(line)[1])
  <2>1. 1 \in DOMAIN Syntax["items"]
    BY <1>1
  <2>2. QED BY <2>1, Accepted, Zenon
<1>3. Admits(Numbers(1), Tail(line)[1])
  <2>1. Syntax["items"][1] = Numbers(1)
    BY <1>1
  <2>2. QED BY <2>1, <1>2, Zenon
<1>4. Numbers(1) # AnyWord
  BY UnvirtAssumption DEF Numbers, AnyWord
<1>5. Tail(line)[1] \in Numbers(1)
  BY <1>3, <1>4, Zenon DEF Admits
<1>6. Tail(line)[1] \in DOMAIN NumberOf /\ NumberOf[Tail(line)[1]] >= 1
  BY <1>5, Zenon DEF Numbers
<1>7. NumberOf[Tail(line)[1]] \in Nat
  BY <1>6, UnvirtAssumption
<1>8. QED BY <1>6, <1>7, FromOne, Zenon

-----------------------------------------------------------------------------
(* Pages.                                                                   *)

\* The smaller of two numbers.
LEMMA MinOfTwo ==
  ASSUME NEW m \in Int, NEW n \in Int
  PROVE  Min({m, n}) = IF m <= n THEN m ELSE n
<1>1. \E x \in {m, n} : \A y \in {m, n} : x =< y
  OBVIOUS
<1>2. Min({m, n}) \in {m, n} /\ \A y \in {m, n} : Min({m, n}) =< y
  BY <1>1, Zenon DEF Min
<1>3. QED BY <1>2

\* A list without rows has no page with a row.
LEMMA NoRowsNoPage ==
  ASSUME NEW page \in Nat, NEW perPage \in Nat \ {0}
  PROVE  ToSet(PageIndices(page, 0, perPage)) = {}
<1>1. CASE page # 0
  <2>1. ~ IsValidPage(page, 0, perPage)
    BY <1>1 DEF IsValidPage, MaxPage
  <2>2. QED BY <2>1 DEF PageIndices, ToSet
<1>2. CASE page = 0
  <2>1. IsValidPage(page, 0, perPage)
    BY <1>2 DEF IsValidPage
  <2>2. Min({0, (page + 1) * perPage}) = 0
    BY <1>2, MinOfTwo
  <2>3. PageIndices(page, 0, perPage) = [k \in 1 .. 0 |-> 0 + k - 1]
    BY <1>2, <2>1, <2>2 DEF PageIndices
  <2>4. QED BY <2>3 DEF ToSet
<1>3. QED BY <1>1, <1>2

\* What division promises, for a divisor that is no literal.
LEMMA DivBound ==
  ASSUME NEW a \in Nat, NEW b \in Nat \ {0}
  PROVE  a \div b \in Nat /\ b * (a \div b) <= a /\ a < b * (a \div b) + b
BY SMTT(30)

\* A product is monotonic.
LEMMA ProductLess ==
  ASSUME NEW q \in Nat, NEW r \in Nat, NEW b \in Nat \ {0}, q * b < r * b
  PROVE  q < r
BY SMTT(30)

\* The first row of a valid page lies in the list.
LEMMA ValidPage ==
  ASSUME NEW page \in Nat, NEW count \in Nat \ {0}, NEW perPage \in Nat \ {0}
  PROVE  IsValidPage(page, count, perPage) <=> page * perPage < count
<1> DEFINE a == count + perPage - 1
           pages == a \div perPage
<1>1. a \in Nat /\ pages \in Nat /\ perPage * pages <= a /\ a < perPage * pages + perPage
  BY DivBound
<1> HIDE DEF pages
<1>2. IsValidPage(page, count, perPage) <=> page = 0 \/ page <= pages - 1
  BY DEF IsValidPage, MaxPage, pages
<1>3. ASSUME page * perPage < count PROVE page < pages
  <2>1. page * perPage < pages * perPage
    BY <1>1, <1>3
  <2>2. QED BY <1>1, <2>1, ProductLess
<1>4. ASSUME page <= pages - 1 PROVE page * perPage < count
  <2>1. PICK k \in Nat : pages = page + 1 + k
    <3>1. pages - 1 - page \in Nat /\ pages = page + 1 + (pages - 1 - page)
      BY <1>1, <1>4
    <3>2. QED BY <3>1
  <2>2. perPage * pages = page * perPage + perPage + k * perPage /\ k * perPage \in Nat
    BY <2>1
  <2>3. page * perPage \in Nat
    OBVIOUS
  <2>4. QED BY <1>1, <2>2, <2>3
<1>5. page = 0 => page * perPage < count
  OBVIOUS
<1>6. QED BY <1>1, <1>2, <1>3, <1>4, <1>5

\* PageBreaker: the pages a user can turn hold every row once: row i is on
\* page i \div perPage, for every list and every number of rows per page.
THEOREM PagesPartition ==
  ASSUME NEW page \in Nat, NEW count \in Nat, NEW perPage \in Nat \ {0}
  PROVE  ToSet(PageIndices(page, count, perPage)) =
           {i \in Nat : i < count /\ page = i \div perPage}
<1> DEFINE first == page * perPage
           last == (page + 1) * perPage
           end == Min({count, last})
<1>1. first \in Nat /\ last \in Nat /\ last = first + perPage
  OBVIOUS
<1>2. end = IF count <= last THEN count ELSE last
  BY <1>1, MinOfTwo
<1>3. \A i \in Nat : page = i \div perPage <=> first <= i /\ i < last
  <2> SUFFICES ASSUME NEW i \in Nat PROVE page = i \div perPage <=> first <= i /\ i < last
    OBVIOUS
  <2> DEFINE q == i \div perPage
  <2>1. q \in Nat /\ perPage * q <= i /\ i < perPage * q + perPage
    BY DivBound
  <2> HIDE DEF q
  <2>2. page = q => first <= i /\ i < last
    BY <2>1
  <2>3. ASSUME first <= i, i < last PROVE page = q
    <3>1. page * perPage < (q + 1) * perPage /\ q * perPage < (page + 1) * perPage
      BY <2>1, <2>3
    <3>2. page < q + 1 /\ q < page + 1
      BY <2>1, <3>1, ProductLess
    <3>3. QED BY <2>1, <3>2
  <2>4. QED BY <2>2, <2>3 DEF q
<1> HIDE DEF first, last
<1>4. CASE count = 0 \/ ~ IsValidPage(page, count, perPage)
  <2>1. CASE ~ IsValidPage(page, count, perPage)
    <3>1. PageIndices(page, count, perPage) = <<>>
      BY <2>1 DEF PageIndices
    <3>2. \A i \in Nat : i < count => ~ (first <= i /\ i < last)
      BY <1>1, <2>1, ValidPage DEF first, IsValidPage
    <3>3. QED BY <1>3, <3>1, <3>2 DEF ToSet
  <2>2. CASE count = 0 /\ IsValidPage(page, count, perPage)
    <3>1. page = 0
      BY <2>2 DEF IsValidPage, MaxPage
    <3>2. QED BY <2>2, <3>1, NoRowsNoPage
  <2>3. QED BY <1>4, <2>1, <2>2
<1>5. CASE count # 0 /\ IsValidPage(page, count, perPage)
  <2>1. PageIndices(page, count, perPage) = [k \in 1 .. end - first |-> first + k - 1]
    BY <1>5 DEF PageIndices, first, last
  <2> HIDE DEF end
  <2>2. first < count /\ end \in Nat
    BY <1>1, <1>2, <1>5, ValidPage DEF first
  <2>3. ToSet(PageIndices(page, count, perPage)) = {first + k - 1 : k \in 1 .. end - first}
    BY <2>1 DEF ToSet
  <2>4. {first + k - 1 : k \in 1 .. end - first} = {i \in Nat : first <= i /\ i < end}
    <3>1. ASSUME NEW i \in Nat, first <= i, i < end
          PROVE  i \in {first + k - 1 : k \in 1 .. end - first}
      <4>1. i - first + 1 \in 1 .. end - first /\ i = first + (i - first + 1) - 1
        BY <1>1, <2>2, <3>1
      <4>2. QED BY <4>1
    <3>2. \A k \in 1 .. end - first :
            first + k - 1 \in {i \in Nat : first <= i /\ i < end}
      BY <1>1, <2>2
    <3>3. QED BY <3>1, <3>2, Zenon
  <2>5. {i \in Nat : first <= i /\ i < end} = {i \in Nat : i < count /\ page = i \div perPage}
    BY <1>1, <1>2, <1>3, <2>2
  <2>6. QED BY <2>3, <2>4, <2>5
<1>6. QED BY <1>4, <1>5

-----------------------------------------------------------------------------
(* Documents.                                                               *)

\* The fields of a document.
LEMMA DocumentParts ==
  ASSUME NEW d \in Document
  PROVE  /\ d = [names |-> d.names, mgrs |-> d.mgrs, mode |-> d.mode, included |-> d.included]
         /\ d.names \in Seq(Name) /\ d.mgrs \in Nat /\ d.mode \in {"compressed", "uncompressed"}
         /\ DOMAIN d.included \subseteq FileName
         /\ d.included \in [DOMAIN d.included -> Body]
<1>1. /\ d = [names |-> d.names, mgrs |-> d.mgrs, mode |-> d.mode, included |-> d.included]
      /\ d.names \in Seq(Name) /\ d.mgrs \in Nat /\ d.mode \in {"compressed", "uncompressed"}
      /\ d.included \in UNION {[N -> Body] : N \in SUBSET FileName}
  BY DEF Document
<1>2. PICK N \in SUBSET FileName : d.included \in [N -> Body]
  BY <1>1
<1>3. QED BY <1>1, <1>2

\* A document may get other included files, and lose its managers.
LEMMA DocumentWith ==
  ASSUME NEW d \in Document, NEW N \in SUBSET FileName, NEW files \in [N -> Body],
         NEW mgrs \in Nat
  PROVE  /\ [d EXCEPT !.included = files] \in Document
         /\ [d EXCEPT !.mgrs = mgrs, !.included = files] \in Document
<1>1. files \in UNION {[M -> Body] : M \in SUBSET FileName}
  OBVIOUS
<1>2. QED BY <1>1 DEF Document

\* What a writer finds in a folder is the body of a file.
LEMMA BodyFound ==
  ASSUME TypeOK, NEW f \in Folder, NEW n \in FileName
  PROVE  BodyIn(f, n) \in Body
BY UnvirtAssumption DEF TypeOK, BodyIn

-----------------------------------------------------------------------------
(* The initial states.                                                      *)

LEMMA InitIInv == Init => IInv
<1> SUFFICES ASSUME Init PROVE IInv
  OBVIOUS
<1>1. ~ HasOpenedFile /\ search = NoSearch /\ state = "run"
  BY DEF Init, HasOpenedFile
<1>2. TypeOK
  BY <1>1, UnvirtAssumption DEF Init, TypeOK, NoSearch
<1>3. UnpackedThere
  BY <1>1 DEF UnpackedThere
<1>4. ResultsCurrent
  BY <1>1 DEF ResultsCurrent
<1>5. QED BY <1>2, <1>3, <1>4 DEF IInv

-----------------------------------------------------------------------------
(* The steps.                                                               *)

\* `load` unpacks before the document counts as open, and keeps the search of
\* nothing; a document that fails leaves nothing behind.
LEMMA LoadIInv ==
  ASSUME IInv, Running, NEW stage, NEW path, HandleLoad(stage, path)
  PROVE  IInv'
<1>1. CASE HasOpenedFile \/ ~ encoded
  <2>1. UNCHANGED vars \/ UNCHANGED <<disk, folders, temp, encoded, reader, items, search, asked, state>>
    BY <1>1 DEF HandleLoad
  <2>2. QED BY <2>1 DEF IInv, TypeOK, UnpackedThere, ResultsCurrent, HasOpenedFile, vars
<1>2. CASE ~ (HasOpenedFile \/ ~ encoded) /\ (path \notin Path \/ disk[path] \in {ABSENT, BROKEN})
  <2>1. /\ UNCHANGED <<disk, folders, temp, items, state>>
        /\ reader' = ABSENT /\ search' = NoSearch
    BY <1>2 DEF HandleLoad, ClearDocument
  <2>2. QED BY <2>1 DEF IInv, TypeOK, UnpackedThere, ResultsCurrent, HasOpenedFile, NoSearch, Running
<1>3. CASE ~ HasOpenedFile /\ path \in Path /\ disk[path] \notin {ABSENT, BROKEN} /\ encoded
  <2> DEFINE doc == disk[path]
  <2>1. /\ UNCHANGED <<disk, temp, items, search, asked, state>>
        /\ reader' = [doc |-> doc, shallow |-> stage = "shallow", folder |-> temp]
        /\ folders' = Unpacked(doc)
    BY <1>3 DEF HandleLoad
  <2>2. doc \in Document /\ temp \in Folder /\ folders \in [Folder -> [FileName -> Body \cup {ABSENT}]]
    BY <1>3 DEF IInv, TypeOK
  <2>3. DOMAIN doc.included \subseteq FileName /\ doc.included \in [DOMAIN doc.included -> Body]
    BY <2>2, DocumentParts
  <2>4. /\ folders' \in [Folder -> [FileName -> Body \cup {ABSENT}]]
        /\ \A n \in DOMAIN doc.included : folders'[temp][n] = doc.included[n]
    BY <2>1, <2>2, <2>3 DEF Unpacked
  <2>5. reader' \in [doc : Document, shallow : BOOLEAN, folder : Folder]
    BY <2>1, <2>2
  <2>6. TypeOK'
    BY <2>1, <2>4, <2>5 DEF IInv, TypeOK
  <2>7. UnpackedThere'
    BY <2>1, <2>4 DEF UnpackedThere
  <2>8. search = NoSearch
    BY <1>3 DEF IInv, ResultsCurrent
  <2>9. ResultsCurrent'
    BY <2>1, <2>8 DEF ResultsCurrent, NoSearch, Running
  <2>10. QED BY <2>6, <2>7, <2>9 DEF IInv
<1>4. QED BY <1>1, <1>2, <1>3

\* ClearDocument takes the search with the document.
LEMMA ClearIInv ==
  ASSUME IInv, Running, UNCHANGED <<disk, folders, temp, items, asked>>, state' \in {state, "exit"},
         IF HasOpenedFile THEN ClearDocument ELSE UNCHANGED <<reader, search>>
  PROVE  IInv'
<1>1. CASE HasOpenedFile
  <2>1. reader' = ABSENT /\ search' = NoSearch
    BY <1>1 DEF ClearDocument
  <2>2. QED BY <2>1 DEF IInv, TypeOK, UnpackedThere, ResultsCurrent, HasOpenedFile, NoSearch, Running
<1>2. CASE ~ HasOpenedFile
  <2>1. UNCHANGED <<reader, search>>
    BY <1>2
  <2>2. QED BY <1>2, <2>1 DEF IInv, TypeOK, UnpackedThere, ResultsCurrent, HasOpenedFile, NoSearch, Running
<1>3. QED BY <1>1, <1>2

\* `save` writes a document, or spoils the file.
LEMMA SaveIInv ==
  ASSUME IInv, Running, NEW path, HandleSave(path)
  PROVE  IInv'
<1>1. UNCHANGED <<folders, temp, encoded, reader, items, search, asked, state>>
  BY DEF HandleSave
<1>2. UnpackedThere' /\ ResultsCurrent'
  BY <1>1 DEF IInv, UnpackedThere, ResultsCurrent, HasOpenedFile
<1>3. disk' \in [Path -> Document \cup {ABSENT, BROKEN}]
  <2>1. CASE disk' = [disk EXCEPT ![path] = BROKEN] \/ UNCHANGED disk
    BY <2>1 DEF IInv, TypeOK
  <2>2. CASE /\ HasOpenedFile
             /\ \E inc \in SUBSET DOMAIN reader.doc.included :
                  disk' = [disk EXCEPT ![path] =
                             IF reader.shallow THEN ShallowDocument(inc) ELSE DeepDocument(inc)]
    <3>1. PICK inc \in SUBSET DOMAIN reader.doc.included :
            disk' = [disk EXCEPT ![path] =
                       IF reader.shallow THEN ShallowDocument(inc) ELSE DeepDocument(inc)]
      BY <2>2
    <3>2. reader.doc \in Document /\ reader.folder \in Folder /\ temp \in Folder
      BY <2>2 DEF IInv, TypeOK
    <3>3. DOMAIN reader.doc.included \subseteq FileName
      BY <3>2, DocumentParts
    <3>4. [n \in DOMAIN reader.doc.included |-> BodyIn(temp, n)] \in [DOMAIN reader.doc.included -> Body]
      BY <3>2, <3>3, BodyFound DEF IInv
    <3>5. [n \in inc |-> BodyIn(reader.folder, n)] \in [inc -> Body]
      BY <3>2, <3>3, BodyFound DEF IInv
    <3>6. ShallowDocument(inc) \in Document
      BY <3>2, <3>3, <3>4, DocumentWith DEF ShallowDocument
    <3>7. DeepDocument(inc) \in Document
      BY <3>2, <3>3, <3>5, DocumentWith DEF DeepDocument
    <3>8. QED BY <3>1, <3>6, <3>7 DEF IInv, TypeOK
  <2>3. QED BY <2>1, <2>2 DEF HandleSave
<1>4. TypeOK'
  BY <1>1, <1>3 DEF IInv, TypeOK, HasOpenedFile
<1>5. QED BY <1>2, <1>4 DEF IInv

\* `ls` of a search for managers is the one that reads past the results, and
\* then there is a manager to list.
LEMMA LsIInv ==
  ASSUME IInv, Running, NEW part \in {"obj", "mgr", "search"}, NEW page \in Nat,
         HandleLs(part, page)
  PROVE  IInv'
<1>1. UNCHANGED <<disk, folders, temp, encoded, reader, items, search, asked>>
  BY DEF HandleLs
<1>2. TypeOK' /\ UnpackedThere'
  BY <1>1 DEF IInv, TypeOK, UnpackedThere, HasOpenedFile
<1>3. state' = "past_results" => search.part = "mgr" /\ reader.doc.mgrs > 0
  <2>1. SUFFICES ASSUME state' = "past_results" PROVE search.part = "mgr" /\ reader.doc.mgrs > 0
    OBVIOUS
  <2>2. HasOpenedFile /\ part = "search" /\ ListSearch(page)
    BY <2>1 DEF HandleLs, Running
  <2>3. /\ search.part # "obj"
        /\ \E i \in ToSet(PageIndices(page, reader.doc.mgrs, items)) : i >= Len(search.results)
    BY <2>1, <2>2 DEF ListSearch, Running
  <2>4. items \in Nat \ {0} /\ reader.doc.mgrs \in Nat /\ search.part = "mgr"
    BY <2>2, <2>3, DocumentParts DEF IInv, TypeOK
  <2>5. reader.doc.mgrs # 0
    BY <2>3, <2>4, NoRowsNoPage
  <2>6. QED BY <2>4, <2>5
<1>4. ResultsCurrent'
  BY <1>1, <1>3 DEF IInv, ResultsCurrent, HasOpenedFile
<1>5. QED BY <1>2, <1>4 DEF IInv

\* `search` replaces the results and the question together, or neither.
LEMMA SearchIInv ==
  ASSUME IInv, Running, NEW part \in {"obj", "mgr"}, NEW mode, NEW text,
         HandleSearch(part, mode, text)
  PROVE  IInv'
<1>1. UNCHANGED <<disk, folders, temp, encoded, reader, items, state>>
  BY DEF HandleSearch
<1>2. CASE UNCHANGED <<search, asked>>
  BY <1>1, <1>2 DEF IInv, TypeOK, UnpackedThere, ResultsCurrent, HasOpenedFile
<1>3. CASE /\ HasOpenedFile
           /\ search' = [on |-> TRUE, part |-> part,
                         results |-> IF part = "mgr" THEN <<>>
                                     ELSE Found(reader.doc.names, Matches[<<mode, text>>])]
           /\ asked' = Matches[<<mode, text>>]
  <2>1. TypeOK' /\ UnpackedThere'
    BY <1>1, <1>3 DEF IInv, TypeOK, UnpackedThere, HasOpenedFile
  <2>2. search'.part = "obj" => search'.results = Found(reader.doc.names, asked')
    BY <1>3
  <2>3. ResultsCurrent'
    BY <1>1, <1>3, <2>2 DEF ResultsCurrent, HasOpenedFile, Running
  <2>4. QED BY <2>1, <2>3 DEF IInv
<1>4. QED BY <1>2, <1>3 DEF HandleSearch

\* The settings, and what only prints.
LEMMA SettingsIInv ==
  ASSUME IInv, Running, UNCHANGED <<disk, folders, reader, search, asked, state>>,
         temp' \in Folder, items' \in Nat \ {0}
  PROVE  IInv'
BY DEF IInv, TypeOK, UnpackedThere, ResultsCurrent, HasOpenedFile

\* Every line that is accepted keeps the invariant.
LEMMA ObeyIInv ==
  ASSUME IInv, Running, NEW line, Verdict(line) = "none", Obey(Head(line), Tail(line))
  PROVE  IInv'
<1> DEFINE verb == Head(line)
           args == Tail(line)
<1>1. temp \in Folder /\ items \in Nat \ {0}
  BY DEF IInv, TypeOK
<1>2. CASE verb = "load" /\ HandleLoad(args[1], args[2])
  BY <1>2, LoadIInv
<1>3. CASE HandleUnLoad
  BY <1>3, ClearIInv DEF HandleUnLoad
<1>4. CASE HandleSave(args[1])
  BY <1>4, SaveIInv
<1>5. CASE verb = "ls" /\ HandleLs(args[1], NumberOf[args[2]] - 1)
  BY <1>5, LsWords, LsIInv
<1>6. CASE HandleData(args[1], NumberOf[args[2]])
  BY <1>1, <1>6, SettingsIInv DEF HandleData
<1>7. CASE verb = "search" /\ HandleSearch(args[1], args[2], args[3])
  BY <1>7, SearchWords, SearchIInv
<1>8. CASE verb = "items" /\ HandleItems(NumberOf[args[1]])
  BY <1>1, <1>8, ItemsWords, SettingsIInv DEF HandleItems
<1>9. CASE HandleEncoding(args)
  BY <1>1, <1>9, SettingsIInv DEF HandleEncoding
<1>10. CASE HandleTemp(args[1])
  BY <1>1, <1>10, SettingsIInv DEF HandleTemp
<1>11. CASE HandleOther
  BY <1>1, <1>11, SettingsIInv DEF HandleOther
<1>12. CASE HandleExit
  BY <1>12, ClearIInv DEF HandleExit
<1>13. QED
  BY <1>2, <1>3, <1>4, <1>5, <1>6, <1>7, <1>8, <1>9, <1>10, <1>11, <1>12, Zenon DEF Obey

LEMMA NextIInv == IInv /\ [Next]_vars => IInv'
<1> SUFFICES ASSUME IInv, [Next]_vars PROVE IInv'
  OBVIOUS
<1>1. CASE Refuse \/ UNCHANGED vars
  BY <1>1 DEF Refuse, vars, IInv, TypeOK, UnpackedThere, ResultsCurrent, HasOpenedFile
<1>2. CASE Running /\ \E line \in Lines : Verdict(line) = "none" /\ Obey(Head(line), Tail(line))
  BY <1>2, ObeyIInv
<1>3. QED BY <1>1, <1>2 DEF Next

-----------------------------------------------------------------------------
(* Theorems.                                                                *)

\* Types, the unpacked files and the search results (UnvirtContext.cpp:190-297).
THEOREM Invariance == Spec => []IInv
BY InitIInv, NextIInv, PTL DEF Spec

\* For all documents and all lines: results are those of the last search in the
\* open document, and only a search for managers is read past its end.
THEOREM Results == Spec => []ResultsCurrent
<1>1. IInv => ResultsCurrent
  BY DEF IInv
<1>2. QED BY Invariance, <1>1, PTL

\* What `save` writes (UnvirtContext.cpp:230).
LEMMA SaveCopies ==
  ASSUME IInv, [Next]_vars, Writes, NEW p \in Path, disk'[p] # disk[p]
  PROVE  /\ disk'[p].names = reader.doc.names /\ disk'[p].mode = reader.doc.mode
         /\ reader.shallow /\ temp = reader.folder => disk'[p] = reader.doc
<1>1. PICK path : HandleSave(path)
  <2>1. UNCHANGED disk \/ \E path : HandleSave(path)
    <3>1. CASE Refuse \/ UNCHANGED vars
      BY <3>1 DEF Refuse, vars
    <3>2. CASE \E line \in Lines : Obey(Head(line), Tail(line))
      BY <3>2 DEF Obey, HandleLoad, HandleUnLoad, HandleLs, HandleData, HandleSearch, HandleItems,
           HandleEncoding, HandleTemp, HandleOther, HandleExit
    <3>3. QED BY <3>1, <3>2 DEF Next
  <2>2. QED BY <2>1
<1>2. /\ HasOpenedFile /\ path \in Path
      /\ \/ \E inc \in SUBSET DOMAIN reader.doc.included :
              disk' = [disk EXCEPT ![path] =
                         IF reader.shallow THEN ShallowDocument(inc) ELSE DeepDocument(inc)]
         \/ disk' = [disk EXCEPT ![path] = BROKEN]
  BY <1>1 DEF HandleSave
<1>3. disk \in [Path -> Document \cup {ABSENT, BROKEN}]
  BY DEF IInv, TypeOK
<1>4. p = path /\ disk'[p] # BROKEN
  BY <1>2, <1>3 DEF Writes
<1>5. PICK inc \in SUBSET DOMAIN reader.doc.included :
        disk'[p] = IF reader.shallow THEN ShallowDocument(inc) ELSE DeepDocument(inc)
  BY <1>2, <1>3, <1>4
<1>6. reader \in [doc : Document, shallow : BOOLEAN, folder : Folder]
  BY <1>2 DEF IInv, TypeOK
<1> DEFINE doc == reader.doc
<1>7. /\ doc = [names |-> doc.names, mgrs |-> doc.mgrs, mode |-> doc.mode, included |-> doc.included]
      /\ DOMAIN doc.included \subseteq FileName
      /\ doc.included \in [DOMAIN doc.included -> Body]
  BY <1>6, DocumentParts
<1>8. disk'[p].names = doc.names /\ disk'[p].mode = doc.mode
  BY <1>5, <1>7 DEF ShallowDocument, DeepDocument
<1>9. ASSUME reader.shallow, temp = reader.folder PROVE disk'[p] = doc
  <2>1. \A n \in DOMAIN doc.included : BodyIn(temp, n) = doc.included[n]
    BY <1>2, <1>7, <1>9, UnvirtAssumption DEF IInv, UnpackedThere, BodyIn
  <2>2. [n \in DOMAIN doc.included |-> BodyIn(temp, n)] = doc.included
    BY <1>7, <2>1
  <2>3. disk'[p] = [doc EXCEPT !.included = doc.included]
    BY <1>5, <1>9, <2>2 DEF ShallowDocument
  <2>4. QED BY <1>7, <2>3
<1>10. QED BY <1>8, <1>9

\* For all documents, lines and folders: a document that was loaded as chunks
\* is saved as it was, and one that was loaded in full keeps its names and mode.
THEOREM Copies == Spec => CopiesDocument
<1>1. IInv /\ [Next]_vars =>
        [Writes => \A p \in Path : disk'[p] # disk[p] =>
           /\ disk'[p].names = reader.doc.names /\ disk'[p].mode = reader.doc.mode
           /\ reader.shallow /\ temp = reader.folder => disk'[p] = reader.doc]_vars
  BY SaveCopies
<1>2. QED BY Invariance, <1>1, PTL DEF Spec, CopiesDocument

-----------------------------------------------------------------------------
(* All pages together.                                                      *)

\* How many of n rows are on the first p pages.
Cut(n, perPage, p) == IF n <= p * perPage THEN n ELSE p * perPage

LEMMA CutIs ==
  ASSUME NEW n \in Nat, NEW perPage \in Nat \ {0}, NEW p \in Nat
  PROVE  /\ Cut(n, perPage, p) \in 0 .. n /\ Cut(n, perPage, 0) = 0
         /\ Cut(n, perPage, p) <= Cut(n, perPage, p + 1)
<1>1. /\ p * perPage \in Nat /\ (p + 1) * perPage = p * perPage + perPage
      /\ 0 * perPage = 0
  OBVIOUS
<1> DEFINE a == p * perPage
<1>2. a \in Nat /\ (p + 1) * perPage = a + perPage
  BY <1>1
<1> HIDE DEF a
<1>3. Cut(n, perPage, p) = IF n <= a THEN n ELSE a
  BY DEF Cut, a
<1>4. Cut(n, perPage, p + 1) = IF n <= a + perPage THEN n ELSE a + perPage
  BY <1>2 DEF Cut
<1>5. Cut(n, perPage, 0) = 0
  BY <1>1 DEF Cut
<1> QED
  BY <1>2, <1>3, <1>4, <1>5

\* The last page is the one that reaches the end.
LEMMA LastPage ==
  ASSUME NEW n \in Nat, NEW perPage \in Nat \ {0}
  PROVE  MaxPage(n, perPage) \in Nat /\ Cut(n, perPage, MaxPage(n, perPage) + 1) = n
<1>1. CASE n = 0
  <2>1. MaxPage(n, perPage) = 0 /\ (0 + 1) * perPage >= n
    BY <1>1 DEF MaxPage
  <2> QED
    BY <2>1 DEF Cut
<1>2. CASE n # 0
  <2> DEFINE q == (n + perPage - 1) \div perPage
  <2>1. n + perPage - 1 \in Nat
    OBVIOUS
  <2>2. q \in Nat /\ n + perPage - 1 < perPage * q + perPage
    BY <2>1, DivBound
  <2>3. MaxPage(n, perPage) = q - 1
    BY <1>2 DEF MaxPage
  <2> HIDE DEF q
  <2>4. q # 0
    BY <1>2, <2>2
  <2>5. q - 1 + 1 = q /\ q - 1 \in Nat
    BY <2>2, <2>4
  <2>6. n <= q * perPage
    <3>1. perPage * q = q * perPage /\ perPage * q \in Nat
      BY <2>2
    <3> QED
      BY <2>2, <3>1
  <2> QED
    BY <2>3, <2>5, <2>6 DEF Cut
<1> QED
  BY <1>1, <1>2

\* What is on a page that can be turned to.
LEMMA PageIs ==
  ASSUME NEW n \in Nat, NEW perPage \in Nat \ {0}, NEW page \in 0 .. MaxPage(n, perPage),
         NEW first, first = Cut(n, perPage, page), NEW end, end = Cut(n, perPage, page + 1)
  PROVE  PageIndices(page, n, perPage) = [k \in 1 .. end - first |-> first + k - 1]
<1>1. page \in Nat /\ IsValidPage(page, n, perPage)
  BY LastPage DEF IsValidPage
<1>2. page * perPage \in Nat /\ (page + 1) * perPage \in Nat
  BY <1>1
<1>3. first = page * perPage
  <2>1. CASE n = 0
    <3>1. page = 0
      BY <2>1 DEF MaxPage
    <3> QED
      BY <2>1, <3>1 DEF Cut
  <2>2. CASE n # 0
    <3>1. page * perPage < n
      BY <1>1, <2>2, ValidPage
    <3> QED
      BY <1>2, <3>1 DEF Cut
  <2> QED
    BY <2>1, <2>2
<1>4. end = Min({n, (page + 1) * perPage})
  BY <1>2, MinOfTwo DEF Cut
<1> QED
  BY <1>1, <1>3, <1>4 DEF PageIndices

\* The m rows are what is between the cuts through a sequence of n elements.
CutInto(T, whole, n, rows, m, cut) ==
  /\ whole \in Seq(T) /\ n \in Nat /\ n = Len(whole)
  /\ m \in Nat /\ cut \in [0 .. m -> 0 .. n] /\ cut[0] = 0 /\ cut[m] = n
  /\ \A p \in Nat : p < m => cut[p] <= cut[p + 1]
  /\ rows \in [1 .. m -> Seq(T)]
  /\ \A p \in Nat : p < m => rows[p + 1] = SubSeq(whole, cut[p] + 1, cut[p + 1])

\* A sequence that is cut into parts is their concatenation.
LEMMA PartsJoin ==
  ASSUME NEW T, NEW whole, NEW n, NEW m, NEW cut, NEW rows, CutInto(T, whole, n, rows, m, cut)
  PROVE  FlattenSeq(rows) = whole
<1>0. /\ whole \in Seq(T) /\ n \in Nat /\ n = Len(whole)
      /\ m \in Nat /\ cut \in [0 .. m -> 0 .. n] /\ cut[0] = 0 /\ cut[m] = n
      /\ \A p \in Nat : p < m => cut[p] <= cut[p + 1]
      /\ rows \in [1 .. m -> Seq(T)]
      /\ \A p \in Nat : p < m => rows[p + 1] = SubSeq(whole, cut[p] + 1, cut[p + 1])
  BY DEF CutInto
<1>1. PICK f \in [0 .. m -> Seq(T)] : Joins(f, rows, m)
  BY <1>0, Flattening
<1> DEFINE M == {p \in Nat : p <= m => f[p] = SubSeq(whole, 1, cut[p])}
<1>2. 0 \in M
  <2>1. SubSeq(whole, 1, 0) = <<>>
    BY <1>0, SubSeqEmpty
  <2> QED
    BY <1>0, <1>1, <2>1 DEF Joins
<1>3. ASSUME NEW p \in M
      PROVE  p + 1 \in M
  <2> SUFFICES ASSUME p + 1 <= m
               PROVE  f[p + 1] = SubSeq(whole, 1, cut[p + 1])
    OBVIOUS
  <2>1. p \in Nat /\ p < m /\ p \in 0 .. m /\ p + 1 \in 0 .. m
    BY <1>0
  <2>2. f[p] = SubSeq(whole, 1, cut[p])
    BY <2>1
  <2>3. f[p + 1] = f[p] \o rows[p + 1]
    BY <1>0, <1>1, <2>1 DEF Joins
  <2>4. PICK a \in 0 .. n : a = cut[p]
    BY <1>0, <2>1
  <2>5. PICK b \in 0 .. n : b = cut[p + 1]
    BY <1>0, <2>1
  <2>6. a <= b
    BY <1>0, <2>1, <2>4, <2>5
  <2>7. 1 \in 1 .. Len(whole) + 1 /\ a \in 1 - 1 .. Len(whole) /\ b \in a .. Len(whole)
    BY <1>0, <2>6
  <2>8. SubSeq(whole, 1, a) \o SubSeq(whole, a + 1, b) = SubSeq(whole, 1, b)
    BY <1>0, <2>7, ConcatAdjacentSubSeq
  <2>9. rows[p + 1] = SubSeq(whole, a + 1, b)
    BY <1>0, <2>1, <2>4, <2>5
  <2> QED
    BY <2>2, <2>3, <2>4, <2>5, <2>8, <2>9
<1> HIDE DEF M
<1>4. M = Nat
  <2>1. M \in SUBSET Nat
    BY DEF M
  <2> QED
    BY <1>2, <1>3, <2>1, Induction
<1>5. f[m] = SubSeq(whole, 1, n)
  <2>1. m \in M
    BY <1>0, <1>4
  <2> QED
    BY <1>0, <2>1 DEF M
<1> QED
  BY <1>0, <1>1, <1>5, SubSeqFull DEF Joins

\* Two cuts through a sequence of n elements.
Cuts(T, whole, n, first, end) ==
  /\ whole \in Seq(T) /\ n \in Nat /\ n = Len(whole)
  /\ first \in 0 .. n /\ end \in 0 .. n /\ first <= end

\* What a page shows is the part of the sequence between two cuts.
LEMMA PageCut ==
  ASSUME NEW T, NEW whole, NEW n, NEW first, NEW end, Cuts(T, whole, n, first, end)
  PROVE  /\ SubSeq(whole, first + 1, end) \in Seq(T)
         /\ [k \in 1 .. end - first |-> whole[first + k]] = SubSeq(whole, first + 1, end)
<1> DEFINE part == SubSeq(whole, first + 1, end)
<1>0. /\ whole \in Seq(T) /\ n \in Nat /\ n = Len(whole)
      /\ first \in 0 .. n /\ end \in 0 .. n /\ first <= end
  BY DEF Cuts
<1>1. \A i \in 1 .. n : whole[i] \in T
  BY <1>0, LenProperties
<1>2. \A i \in first + 1 .. end : whole[i] \in T
  BY <1>0, <1>1
<1>3. /\ part \in Seq(T)
      /\ Len(part) = IF first + 1 <= end THEN end - (first + 1) + 1 ELSE 0
      /\ \A k \in 1 .. end - (first + 1) + 1 : part[k] = whole[(first + 1) + k - 1]
  BY <1>0, <1>2, SubSeqProperties
<1> HIDE DEF part
<1>4. /\ end - (first + 1) + 1 = end - first /\ end - first \in Nat
      /\ \A k \in 1 .. end - first : (first + 1) + k - 1 = first + k
  BY <1>0
<1>5. Len(part) = end - first /\ \A k \in 1 .. end - first : part[k] = whole[first + k]
  BY <1>0, <1>3, <1>4
<1>6. part = [k \in 1 .. end - first |-> part[k]]
  BY <1>3, <1>5, LenProperties
<1>7. part = [k \in 1 .. end - first |-> whole[first + k]]
  BY <1>5, <1>6
<1> QED
  BY <1>3, <1>7 DEF part

\* The first m pages of a sequence of n elements.
Paged(whole, n, perPage, m) ==
  [p \in 1 .. m |-> [k \in DOMAIN PageIndices(p - 1, n, perPage) |->
                      whole[PageIndices(p - 1, n, perPage)[k] + 1]]]

\* A sequence cut into pages is the sequence.
LEMMA PagesJoin ==
  ASSUME NEW T, NEW whole \in Seq(T), NEW n \in Nat, n = Len(whole), NEW perPage \in Nat \ {0},
         NEW m \in Nat, m = MaxPage(n, perPage) + 1
  PROVE  FlattenSeq(Paged(whole, n, perPage, m)) = whole
<1> DEFINE rows == Paged(whole, n, perPage, m)
<1>0. rows = [p \in 1 .. m |-> [k \in DOMAIN PageIndices(p - 1, n, perPage) |->
                                 whole[PageIndices(p - 1, n, perPage)[k] + 1]]]
  BY DEF Paged
<1> HIDE DEF rows
<1> DEFINE cut == [p \in 0 .. m |-> Cut(n, perPage, p)]
<1>1. cut \in [0 .. m -> 0 .. n] /\ cut[0] = 0
  <2>1. \A p \in 0 .. m : p \in Nat /\ Cut(n, perPage, p) \in 0 .. n
    BY CutIs
  <2>2. Cut(n, perPage, 0) = 0 /\ 0 \in 0 .. m
    BY CutIs
  <2> QED
    BY <2>1, <2>2
<1>2. ASSUME NEW p \in Nat, p < m
      PROVE  cut[p] = Cut(n, perPage, p) /\ cut[p + 1] = Cut(n, perPage, p + 1)
  BY <1>2
<1>3. cut[m] = n
  <2>1. Cut(n, perPage, m) = n
    BY LastPage, Zenon
  <2> QED
    BY <2>1
<1> HIDE DEF cut
<1>4. ASSUME NEW p \in Nat, p < m
      PROVE  cut[p] \in 0 .. n /\ cut[p + 1] \in 0 .. n /\ cut[p] <= cut[p + 1]
  <2>0. p \in 0 .. m /\ p + 1 \in 0 .. m
    BY <1>4
  <2>1. cut[p] \in 0 .. n /\ cut[p + 1] \in 0 .. n
    BY <1>1, <2>0
  <2>2. Cut(n, perPage, p) <= Cut(n, perPage, p + 1)
    BY CutIs
  <2> QED
    BY <1>2, <1>4, <2>1, <2>2
<1>5. ASSUME NEW p \in Nat, p < m
      PROVE  /\ rows[p + 1] = SubSeq(whole, cut[p] + 1, cut[p + 1])
             /\ rows[p + 1] \in Seq(T)
  <2>1. PICK last \in Nat : last = MaxPage(n, perPage)
    BY LastPage
  <2>2. p \in 0 .. last /\ p + 1 \in 1 .. m /\ p + 1 - 1 = p
    BY <1>5, <2>1
  <2>3. PICK first \in 0 .. n : first = cut[p]
    BY <1>4, <1>5
  <2>4. PICK end \in 0 .. n : end = cut[p + 1]
    BY <1>4, <1>5
  <2>5. first <= end /\ first = Cut(n, perPage, p) /\ end = Cut(n, perPage, p + 1)
    BY <1>2, <1>4, <1>5, <2>3, <2>4
  <2> DEFINE on == PageIndices(p, n, perPage)
             i == p + 1
  <2>6. on = [k \in 1 .. end - first |-> first + k - 1]
    BY <2>1, <2>2, <2>5, PageIs
  <2>7. i \in 1 .. m /\ i - 1 = p
    BY <2>2
  <2> HIDE DEF on, i
  <2>8. rows[i] = [k \in DOMAIN on |-> whole[on[k] + 1]]
    <3>1. rows[i] = [k \in DOMAIN PageIndices(i - 1, n, perPage) |->
                       whole[PageIndices(i - 1, n, perPage)[k] + 1]]
      BY <1>0, <2>7
    <3> QED
      BY <2>7, <3>1 DEF on
  <2>9. rows[i] = [k \in 1 .. end - first |-> whole[first + k]]
    <3>1. /\ DOMAIN on = 1 .. end - first
          /\ \A k \in 1 .. end - first : on[k] + 1 = first + k
      BY <2>5, <2>6
    <3> QED
      BY <2>8, <3>1
  <2>10. /\ SubSeq(whole, first + 1, end) \in Seq(T)
         /\ [k \in 1 .. end - first |-> whole[first + k]] = SubSeq(whole, first + 1, end)
    <3>1. Cuts(T, whole, n, first, end)
      BY <2>5 DEF Cuts
    <3> QED
      BY <3>1, PageCut
  <2> QED
    BY <2>3, <2>4, <2>9, <2>10 DEF i
<1>6. rows \in [1 .. m -> Seq(T)]
  <2>1. ASSUME NEW i \in 1 .. m
        PROVE  rows[i] \in Seq(T)
    <3>1. i - 1 \in Nat /\ i - 1 < m /\ i - 1 + 1 = i
      OBVIOUS
    <3> QED
      BY <1>5, <3>1
  <2>2. rows = [p \in 1 .. m |-> rows[p]]
    BY <1>0
  <2> QED
    BY <2>1, <2>2
<1>7. /\ \A p \in Nat : p < m => cut[p] <= cut[p + 1]
      /\ \A p \in Nat : p < m => rows[p + 1] = SubSeq(whole, cut[p] + 1, cut[p + 1])
  BY <1>4, <1>5
<1>8. FlattenSeq(rows) = whole
  <2>1. CutInto(T, whole, n, rows, m, cut)
    BY <1>1, <1>3, <1>6, <1>7 DEF CutInto
  <2> QED
    BY <2>1, PartsJoin
<1> QED
  BY <1>8 DEF rows

\* The indices on a page are in the list.
LEMMA PageInside ==
  ASSUME NEW n \in Nat, NEW perPage \in Nat \ {0}, NEW page \in 0 .. MaxPage(n, perPage),
         NEW k \in DOMAIN PageIndices(page, n, perPage)
  PROVE  /\ PageIndices(page, n, perPage)[k] \in Nat
         /\ PageIndices(page, n, perPage)[k] + 1 \in 1 .. n
<1>1. page \in Nat
  BY LastPage
<1>2. PICK first \in 0 .. n : first = Cut(n, perPage, page)
  BY <1>1, CutIs
<1>3. PICK end \in 0 .. n : end = Cut(n, perPage, page + 1)
  BY <1>1, CutIs
<1>4. PageIndices(page, n, perPage) = [j \in 1 .. end - first |-> first + j - 1]
  BY <1>2, <1>3, PageIs
<1> QED
  BY <1>2, <1>3, <1>4

\* All pages of objects are all objects, with their indices.
LEMMA ObjectsShown ==
  ASSUME NEW names \in Seq(Name), items \in Nat \ {0}
  PROVE  AllObjects(names) = [i \in DOMAIN names |-> <<i - 1, names[i]>>]
<1> DEFINE n == Len(names)
           whole == [i \in DOMAIN names |-> <<i - 1, names[i]>>]
           T == Nat \X Name
           On(p) == PageIndices(p - 1, n, items)
           rows == [p \in Pages(n) |-> ObjectRows(names, p - 1, items)]
<1>1. n \in Nat /\ DOMAIN names = 1 .. n /\ \A i \in 1 .. n : names[i] \in Name
  BY LenProperties
<1> HIDE DEF n
<1>2. whole \in Seq(T) /\ Len(whole) = n
  <2>1. whole = [i \in 1 .. n |-> <<i - 1, names[i]>>]
    BY <1>1
  <2>2. \A i \in 1 .. n : <<i - 1, names[i]>> \in T
    BY <1>1
  <2>3. whole \in [1 .. n -> T]
    BY <2>1, <2>2
  <2>4. DOMAIN whole = 1 .. n
    BY <2>1
  <2> HIDE DEF whole, T
  <2> QED
    BY <1>1, <2>3, <2>4, IsASeq, LenProperties
<1>3. \A i \in 1 .. n : whole[i] = <<i - 1, names[i]>>
  BY <1>1
<1> HIDE DEF whole, T
<1>4. PICK m \in Nat : m = MaxPage(n, items) + 1
  BY <1>1, LastPage
<1>5. ASSUME NEW p \in 1 .. m
      PROVE  ObjectRows(names, p - 1, items) = [k \in DOMAIN On(p) |-> whole[On(p)[k] + 1]]
  <2>1. p - 1 \in 0 .. MaxPage(n, items)
    <3>1. PICK top \in Nat : top = MaxPage(n, items)
      BY <1>1, LastPage
    <3>2. m = top + 1
      BY <1>4, <3>1, Zenon
    <3>3. p - 1 \in 0 .. top
      BY <3>2
    <3> QED
      BY <3>1, <3>3, Zenon
  <2> DEFINE on == On(p)
  <2>2. \A k \in DOMAIN on : on[k] \in Nat /\ on[k] + 1 \in 1 .. n
    BY <1>1, <2>1, PageInside
  <2>3. ObjectRows(names, p - 1, items) = [k \in DOMAIN on |-> <<on[k], names[on[k] + 1]>>]
    BY DEF ObjectRows, n
  <2> HIDE DEF on
  <2>4. \A k \in DOMAIN on : whole[on[k] + 1] = <<on[k], names[on[k] + 1]>>
    <3> SUFFICES ASSUME NEW k \in DOMAIN on
                 PROVE  whole[on[k] + 1] = <<on[k], names[on[k] + 1]>>
      OBVIOUS
    <3>1. on[k] + 1 - 1 = on[k]
      BY <2>2
    <3> QED
      BY <1>3, <2>2, <3>1
  <2>5. ObjectRows(names, p - 1, items) = [k \in DOMAIN on |-> whole[on[k] + 1]]
    BY <2>3, <2>4
  <2> QED
    BY <2>5 DEF on
<1>6. rows = [p \in 1 .. m |-> [k \in DOMAIN On(p) |-> whole[On(p)[k] + 1]]]
  <2>1. rows = [p \in 1 .. m |-> ObjectRows(names, p - 1, items)]
    BY <1>4 DEF Pages
  <2> HIDE DEF On, rows
  <2> QED
    BY <1>5, <2>1
<1> HIDE DEF rows
<1>7. rows = Paged(whole, n, items, m)
  BY <1>6 DEF Paged, On
<1>8. FlattenSeq(rows) = whole
  BY <1>1, <1>2, <1>4, <1>7, PagesJoin
<1>9. AllObjects(names) = FlattenSeq(rows)
  BY DEF AllObjects, rows, n
<1> QED
  BY <1>8, <1>9 DEF whole

-----------------------------------------------------------------------------
(* The results of a search.                                                 *)

\* A list of the numbers in S, in their order.
Ascends(s, S) ==
  /\ s \in Seq(Nat) /\ {s[k] : k \in DOMAIN s} = S
  /\ \A j, k \in DOMAIN s : j < k => s[j] < s[k]

LEMMA AscendsAppended ==
  ASSUME NEW s, NEW S, Ascends(s, S), NEW e \in Nat, \A i \in S : i < e
  PROVE  Ascends(Append(s, e), S \cup {e})
<1> DEFINE t == Append(s, e)
<1>1. /\ s \in Seq(Nat) /\ Len(s) \in Nat /\ DOMAIN s = 1 .. Len(s)
      /\ S = {s[k] : k \in DOMAIN s} /\ \A j, k \in DOMAIN s : j < k => s[j] < s[k]
  BY LenProperties DEF Ascends
<1>2. /\ t \in Seq(Nat) /\ DOMAIN t = 1 .. Len(s) + 1 /\ t[Len(s) + 1] = e
      /\ \A i \in 1 .. Len(s) : t[i] = s[i]
  BY <1>1, AppendProperties, LenProperties
<1> HIDE DEF t
<1>3. \A i \in DOMAIN t : (i \in DOMAIN s /\ t[i] = s[i]) \/ (i = Len(s) + 1 /\ t[i] = e)
  BY <1>1, <1>2
<1>4. {t[i] : i \in DOMAIN t} = S \cup {e}
  <2>1. \A i \in DOMAIN t : t[i] \in S \cup {e}
    BY <1>1, <1>3
  <2>2. e \in {t[i] : i \in DOMAIN t}
    BY <1>1, <1>2
  <2>3. \A i \in DOMAIN s : i \in DOMAIN t /\ t[i] = s[i]
    BY <1>1, <1>2
  <2>4. \A x \in S : x \in {t[i] : i \in DOMAIN t}
    BY <1>1, <2>3
  <2> QED
    BY <2>1, <2>2, <2>4
<1>5. ASSUME NEW j \in DOMAIN t, NEW k \in DOMAIN t, j < k
      PROVE  t[j] < t[k]
  <2>1. j \in DOMAIN s /\ t[j] = s[j] /\ s[j] \in S
    BY <1>1, <1>2, <1>3, <1>5
  <2>2. CASE k \in DOMAIN s /\ t[k] = s[k]
    BY <1>1, <1>5, <2>1, <2>2
  <2>3. CASE k = Len(s) + 1 /\ t[k] = e
    BY <2>1, <2>3
  <2> QED
    BY <1>3, <2>2, <2>3
<1> QED
  BY <1>2, <1>4, <1>5 DEF Ascends, t

\* What a search finds: the places of the names it looks for, in their order.
LEMMA FoundIs ==
  ASSUME NEW names \in Seq(Name), NEW text
  PROVE  Ascends(Found(names, text), {i \in 0 .. Len(names) - 1 : names[i + 1] \in text})
<1> DEFINE n == Len(names)
           step == [i \in 1 .. n |->
                      [s \in Seq(Nat) |-> IF names[i] \in text THEN Append(s, i - 1) ELSE s]]
           Walk(f) == [i \in 0 .. n |->
                         IF i = 0 THEN <<>>
                         ELSE IF names[i] \in text THEN Append(f[i - 1], i - 1) ELSE f[i - 1]]
           found == CHOOSE f : f = Walk(f)
           Before(m) == {i \in 0 .. m - 1 : names[i + 1] \in text}
<1>1. n \in Nat /\ DOMAIN names = 1 .. n
  BY LenProperties
<1>2. <<>> \in Seq(Nat) /\ step \in [1 .. n -> [Seq(Nat) -> Seq(Nat)]]
  BY AppendProperties, EmptySeq
<1>3. \A i \in 1 .. n, s \in Seq(Nat) :
        step[i][s] = IF names[i] \in text THEN Append(s, i - 1) ELSE s
  OBVIOUS
<1> HIDE DEF step, n
<1>4. found = Walk(found)
  <2>1. PICK f \in [0 .. n -> Seq(Nat)] : Recurs(f, <<>>, n, step)
    BY <1>1, <1>2, Recursion
  <2>2. ASSUME NEW i \in 0 .. n
        PROVE  f[i] = IF i = 0 THEN <<>>
                      ELSE IF names[i] \in text THEN Append(f[i - 1], i - 1) ELSE f[i - 1]
    <3>1. CASE i = 0
      BY <2>1, <3>1 DEF Recurs
    <3>2. CASE i # 0
      <4>1. i \in 1 .. n /\ i - 1 \in 0 .. n
        BY <1>1, <3>2
      <4>2. f[i - 1] \in Seq(Nat) /\ f[i] = step[i][f[i - 1]]
        BY <2>1, <4>1 DEF Recurs
      <4> QED
        BY <1>3, <3>2, <4>1, <4>2
    <3> QED
      BY <3>1, <3>2
  <2>3. f = Walk(f)
    BY <2>1, <2>2
  <2> HIDE DEF Walk
  <2> QED
    BY <2>3
<1>5. Found(names, text) = found[n]
  BY DEF Found, n
<1>6. /\ found[0] = <<>>
      /\ \A i \in 0 .. n - 1 :
           found[i + 1] = IF names[i + 1] \in text THEN Append(found[i], i) ELSE found[i]
  <2> HIDE DEF found
  <2>1. \A i \in 0 .. n :
          found[i] = IF i = 0 THEN <<>>
                     ELSE IF names[i] \in text THEN Append(found[i - 1], i - 1) ELSE found[i - 1]
    BY <1>4
  <2>2. 0 \in 0 .. n
    BY <1>1
  <2>3. ASSUME NEW i \in 0 .. n - 1
        PROVE  found[i + 1] = IF names[i + 1] \in text THEN Append(found[i], i) ELSE found[i]
    <3>1. i + 1 \in 0 .. n /\ i + 1 # 0 /\ i + 1 - 1 = i
      BY <1>1
    <3> QED
      BY <2>1, <3>1
  <2> QED
    BY <2>1, <2>2, <2>3
<1> HIDE DEF found, Walk
<1> DEFINE M == {m \in Nat : m <= n => Ascends(found[m], Before(m))}
<1>7. 0 \in M
  <2>1. Before(0) = {}
    OBVIOUS
  <2>2. Ascends(<<>>, {})
    BY EmptySeq DEF Ascends
  <2> QED
    BY <1>6, <2>1, <2>2
<1>8. ASSUME NEW m \in M
      PROVE  m + 1 \in M
  <2> SUFFICES ASSUME m + 1 <= n
               PROVE  Ascends(found[m + 1], Before(m + 1))
    OBVIOUS
  <2>1. Ascends(found[m], Before(m)) /\ m \in Nat
    BY <1>1
  <2>2. m \in 0 .. n - 1
    BY <1>1
  <2>3. found[m + 1] = IF names[m + 1] \in text THEN Append(found[m], m) ELSE found[m]
    BY <1>6, <2>2
  <2>4. Before(m + 1) = IF names[m + 1] \in text THEN Before(m) \cup {m} ELSE Before(m)
    <3>1. 0 .. (m + 1) - 1 = (0 .. m - 1) \cup {m}
      BY <2>1
    <3> QED
      BY <3>1
  <2>5. \A i \in Before(m) : i < m
    BY <2>1
  <2> HIDE DEF Before
  <2> QED
    BY <2>1, <2>3, <2>4, <2>5, AscendsAppended
<1> HIDE DEF M
<1>9. M = Nat
  <2>1. M \in SUBSET Nat
    BY DEF M
  <2> QED
    BY <1>7, <1>8, <2>1, Induction
<1>10. n \in M /\ n <= n
  BY <1>1, <1>9
<1>11. Ascends(found[n], Before(n))
  BY <1>10 DEF M
<1> QED
  BY <1>5, <1>11 DEF n

\* All pages of the results show the names that were asked for.
LEMMA ResultsShown ==
  ASSUME NEW names \in Seq(Name), NEW text, items \in Nat \ {0},
         NEW results, results = Found(names, text)
  PROVE  Shows(AllSearched(names, results), names, text)
<1> DEFINE N == Len(names)
           n == Len(results)
           sought == {i \in 0 .. N - 1 : names[i + 1] \in text}
           whole == [k \in 1 .. n |-> <<k - 1, names[results[k] + 1]>>]
           T == Nat \X Name
           On(p) == PageIndices(p - 1, n, items)
           rows == [p \in Pages(n) |-> SearchedRows(names, results, p - 1, items)]
<1>1. N \in Nat /\ DOMAIN names = 1 .. N /\ \A i \in 1 .. N : names[i] \in Name
  BY LenProperties
<1>2. Ascends(results, sought)
  BY FoundIs
<1> HIDE DEF N, sought
<1>3. /\ n \in Nat /\ DOMAIN results = 1 .. n /\ results \in Seq(Nat)
      /\ {results[k] : k \in DOMAIN results} = sought
      /\ \A j, k \in 1 .. n : j < k => results[j] < results[k]
  BY <1>2, LenProperties DEF Ascends
<1> HIDE DEF n
<1>4. \A k \in 1 .. n : results[k] \in 0 .. N - 1 /\ results[k] + 1 \in 1 .. N
  <2>1. \A k \in 1 .. n : results[k] \in sought
    BY <1>3
  <2> QED
    BY <1>1, <2>1 DEF sought
<1>5. whole \in Seq(T) /\ Len(whole) = n
  <2>1. \A k \in 1 .. n : <<k - 1, names[results[k] + 1]>> \in T
    BY <1>1, <1>3, <1>4
  <2>2. whole \in [1 .. n -> T] /\ DOMAIN whole = 1 .. n
    BY <2>1
  <2> HIDE DEF whole, T
  <2> QED
    BY <1>3, <2>2, IsASeq, LenProperties
<1>6. DOMAIN whole = 1 .. n /\ \A k \in 1 .. n : whole[k] = <<k - 1, names[results[k] + 1]>>
  OBVIOUS
<1> HIDE DEF whole, T
<1>7. PICK m \in Nat : m = MaxPage(n, items) + 1
  BY <1>3, LastPage
<1>8. ASSUME NEW p \in 1 .. m
      PROVE  SearchedRows(names, results, p - 1, items) = [k \in DOMAIN On(p) |-> whole[On(p)[k] + 1]]
  <2>1. p - 1 \in 0 .. MaxPage(n, items)
    <3>1. PICK top \in Nat : top = MaxPage(n, items)
      BY <1>3, LastPage
    <3>2. m = top + 1
      BY <1>7, <3>1, Zenon
    <3>3. p - 1 \in 0 .. top
      BY <3>2
    <3> QED
      BY <3>1, <3>3, Zenon
  <2> DEFINE on == On(p)
  <2>2. \A k \in DOMAIN on : on[k] \in Nat /\ on[k] + 1 \in 1 .. n
    BY <1>3, <2>1, PageInside
  <2>3. SearchedRows(names, results, p - 1, items) =
          [k \in DOMAIN on |-> <<on[k], names[results[on[k] + 1] + 1]>>]
    BY DEF SearchedRows, n
  <2> HIDE DEF on
  <2>4. \A k \in DOMAIN on : whole[on[k] + 1] = <<on[k], names[results[on[k] + 1] + 1]>>
    <3> SUFFICES ASSUME NEW k \in DOMAIN on
                 PROVE  whole[on[k] + 1] = <<on[k], names[results[on[k] + 1] + 1]>>
      OBVIOUS
    <3>1. on[k] + 1 - 1 = on[k]
      BY <2>2
    <3> QED
      BY <1>6, <2>2, <3>1
  <2>5. SearchedRows(names, results, p - 1, items) = [k \in DOMAIN on |-> whole[on[k] + 1]]
    BY <2>3, <2>4
  <2> QED
    BY <2>5 DEF on
<1>9. rows = [p \in 1 .. m |-> [k \in DOMAIN On(p) |-> whole[On(p)[k] + 1]]]
  <2>1. rows = [p \in 1 .. m |-> SearchedRows(names, results, p - 1, items)]
    BY <1>7 DEF Pages
  <2> HIDE DEF On, rows
  <2> QED
    BY <1>8, <2>1
<1> HIDE DEF rows
<1>10. rows = Paged(whole, n, items, m)
  BY <1>9 DEF Paged, On
<1>11. FlattenSeq(rows) = whole
  BY <1>3, <1>5, <1>7, <1>10, PagesJoin
<1>12. AllSearched(names, results) = whole
  BY <1>11 DEF AllSearched, rows, n
<1> DEFINE at == [k \in 1 .. n |-> results[k] + 1]
<1>13. at \in [DOMAIN whole -> DOMAIN names]
  BY <1>1, <1>4, <1>6
<1>14. \A j, k \in DOMAIN whole : j < k => at[j] < at[k]
  <2> SUFFICES ASSUME NEW j \in 1 .. n, NEW k \in 1 .. n, j < k
               PROVE  results[j] + 1 < results[k] + 1
    BY <1>6
  <2> QED
    BY <1>3, <1>4
<1>15. ToSet(at) = {i \in DOMAIN names : names[i] \in text}
  <2>1. ASSUME NEW i \in DOMAIN names, names[i] \in text
        PROVE  \E k \in 1 .. n : at[k] = i
    <3>1. i \in 1 .. N /\ i - 1 \in 0 .. N - 1 /\ (i - 1) + 1 = i
      BY <1>1
    <3>2. i - 1 \in sought
      BY <2>1, <3>1 DEF sought
    <3>3. PICK k \in 1 .. n : results[k] = i - 1
      BY <1>3, <3>2
    <3>4. at[k] = i
      BY <3>1, <3>3
    <3> QED
      BY <3>4
  <2>2. ASSUME NEW k \in 1 .. n
        PROVE  at[k] \in DOMAIN names /\ names[at[k]] \in text
    <3>1. results[k] \in sought
      BY <1>3
    <3> QED
      BY <1>1, <1>4, <3>1 DEF sought
  <2>3. ToSet(at) = {at[k] : k \in 1 .. n}
    BY DEF ToSet
  <2> HIDE DEF at
  <2> QED
    BY <2>1, <2>2, <2>3
<1>16. \A k \in DOMAIN whole : whole[k] = <<k - 1, names[at[k]]>>
  BY <1>6
<1> HIDE DEF at
<1>17. Shows(whole, names, text)
  BY <1>13, <1>14, <1>15, <1>16 DEF Shows
<1> QED
  BY <1>12, <1>17

\* For all documents, page sizes and lines: turning all pages shows every object
\* once, in order and under its index, and those of a search every object whose
\* name was asked for (PageBreaker and the lists of StructFmt.cpp).
THEOREM Showing == Spec => []PagesShowAll
<1>1. IInv => PagesShowAll
  <2> SUFFICES ASSUME IInv, HasOpenedFile,
                      NEW names, names = reader.doc.names
               PROVE  /\ AllObjects(names) = [i \in DOMAIN names |-> <<i - 1, names[i]>>]
                      /\ search.part = "obj" /\ search.on =>
                           Shows(AllSearched(names, search.results), names, asked)
    BY DEF PagesShowAll
  <2>1. names \in Seq(Name) /\ items \in Nat \ {0}
    BY DEF IInv, TypeOK, Document
  <2>2. search.part = "obj" /\ search.on => search.results = Found(names, asked)
    BY DEF IInv, ResultsCurrent
  <2> QED
    BY <2>1, <2>2, ObjectsShown, ResultsShown
<1>2. QED BY Invariance, <1>1, PTL
=============================================================================
