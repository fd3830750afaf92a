-------------------------------- MODULE Unvirt --------------------------------
(***************************************************************************)
(* The interactive viewer (Unvirt/CmdHelper.cpp, UnvirtContext.cpp,        *)
(* Utils.cpp and the lists of StructFmt.cpp): lines are parsed, a document *)
(* is loaded in one of two stages, listed page by page, searched, saved    *)
(* again and released, while the settings change in between.               *)
(*                                                                         *)
(* Here a document is the names of its objects, the number of its          *)
(* managers, its write mode and its included files; what its chunks hold,  *)
(* and chunks that are missing, are FileSession's subject.  A line is a    *)
(* sequence of words.  Left out: the level of detail of a list, rsc with   *)
(* the resource paths (ObjectData), what data and chunk print, the         *)
(* encodings but for whether one of them is valid, and test, which         *)
(* changes chunks in debug builds only.                                    *)
(***************************************************************************)
EXTENDS Integers, FiniteSetsExt, SequencesExt

CONSTANTS
  Lines,      \* what the user types
  Path,       \* the words that name a document
  Folder,     \* the words that name a folder that exists ...
  TempFolder, \* ... with the one CKPathManager starts with
  Name,       \* the names of objects
  FileName,   \* the names of included files ...
  Body,       \* ... and their contents
  NumberOf,   \* the words that are numbers, with their values
  Matches,    \* <<mode, text>> -> the names found, for a text the mode accepts
  ValidEncoding, \* the words that name an encoding
  Originals,  \* the documents on the disk in the beginning, by path
  ABSENT,     \* a file that does not exist, and no document
  BROKEN,     \* a file no reader accepts
  EMPTY       \* the contents of an included file without a body

\* A document: the names of its objects, the number of its managers, its write
\* mode and its included files.
Document ==
  [names : Seq(Name), mgrs : Nat, mode : {"compressed", "uncompressed"},
   included : UNION {[N -> Body] : N \in SUBSET FileName}]

ASSUME UnvirtAssumption ==
  /\ TempFolder \in Folder
  /\ NumberOf \in [DOMAIN NumberOf -> Nat] /\ "*" \notin DOMAIN NumberOf
  /\ Originals \in [Path -> Document \cup {ABSENT, BROKEN}]
  /\ ABSENT \notin Document /\ BROKEN \notin Document /\ ABSENT # BROKEN
  /\ EMPTY \in Body /\ ABSENT \notin Body

VARIABLES
  disk,     \* the documents by path
  folders,  \* the included files in each folder
  temp,     \* m_TempFolder of the path manager
  encoded,  \* CKContext::IsValidEncoding
  reader,   \* the open document, or ABSENT
  items,    \* m_ItemPerPage
  search,   \* m_IsSearching, m_SearchPart, m_SearchIdxResult
  asked,    \* history: the names the last search looked for
  screen,   \* the rows the last line has printed
  state     \* "run", "exit", or the bad access that ended the program

vars == <<disk, folders, temp, encoded, reader, items, search, asked, screen, state>>

-----------------------------------------------------------------------------
(* Parsing.                                                                 *)

AnyWord == {"*"}

Numbers(least) == {w \in DOMAIN NumberOf : NumberOf[w] >= least}

\* The words each parameter of a command may be; "*" stands for any.
Syntax ==
  [load |-> <<{"shallow", "deep"}, AnyWord>>, unload |-> <<>>, save |-> <<AnyWord>>, info |-> <<>>,
   ls |-> <<{"obj", "mgr", "search"}, Numbers(1)>>,
   data |-> <<{"obj", "mgr"}, Numbers(0)>>, chunk |-> <<{"obj", "mgr"}, Numbers(0)>>,
   search |-> <<{"obj", "mgr"}, {"plain", "re"}, AnyWord>>,
   items |-> <<Numbers(1)>>, style |-> <<{"simple", "full"}>>, encoding |-> <<AnyWord>>,
   temp |-> <<AnyWord>>, version |-> <<>>, help |-> <<>>, exit |-> <<>>]

\* The branch that takes all the words there are.
OpenEnded == {"encoding"}

Admits(words, word) == words = AnyWord \/ word \in words

\* Commander::Dispatch: the error of a line, or "none".
Verdict(line) ==
  IF line = <<>> THEN "TooLessParam"
  ELSE IF Head(line) \notin DOMAIN Syntax THEN "BadVerb"
  ELSE LET params == Syntax[Head(line)]
           args == Tail(line)
           bad == {k \in DOMAIN params : k > Len(args) \/ ~ Admits(params[k], args[k])}
       IN IF bad # {} THEN IF Min(bad) > Len(args) THEN "TooLessParam" ELSE "BadArg"
          ELSE IF Len(args) > Len(params) /\ Head(line) \notin OpenEnded THEN "TooMuchParam"
          ELSE "none"

-----------------------------------------------------------------------------
(* Pages (PageBreaker), numbered from 0 here and from 1 by the user.        *)

\* Faulty variant: a last page that is not full is forgotten.
FullPages(count, perPage) == IF count < perPage THEN 0 ELSE count \div perPage - 1

MaxPage(count, perPage) == IF count = 0 THEN 0 ELSE (count + perPage - 1) \div perPage - 1

IsValidPage(page, count, perPage) == page = 0 \/ page <= MaxPage(count, perPage)

\* The indices on a page, from 0; none when the page is refused.
PageIndices(page, count, perPage) ==
  IF ~ IsValidPage(page, count, perPage) THEN <<>>
  ELSE LET first == page * perPage
           end == Min({count, (page + 1) * perPage})
       IN [k \in 1 .. end - first |-> first + k - 1]

\* A row is the index that is printed in front of it, and a name.
ObjectRows(names, page, perPage) ==
  LET on == PageIndices(page, Len(names), perPage)
  IN [k \in DOMAIN on |-> <<on[k], names[on[k] + 1]>>]

\* PrintSearchedObjectList: the index printed is the position in the results.
SearchedRows(names, results, page, perPage) ==
  LET on == PageIndices(page, Len(results), perPage)
  IN [k \in DOMAIN on |-> <<on[k], names[results[on[k] + 1] + 1]>>]

\* A list of managers is made of rows that are never added to their table.
ManagerRows == <<>>

-----------------------------------------------------------------------------
(* Handlers.                                                                *)

HasOpenedFile == reader # ABSENT

NoSearch == [on |-> FALSE, part |-> "obj", results |-> <<>>]

Running == state = "run"

Silent == screen' = <<>>

\* Faulty variant: the results outlive the document they were found in.
SearchKept ==
  /\ reader' = ABSENT
  /\ UNCHANGED search

\* ClearDocument, which also clears the context.
ClearDocument ==
  /\ reader' = ABSENT
  /\ search' = NoSearch

\* The included files are unpacked into the folder of the moment.
Unpacked(doc) ==
  [folders EXCEPT ![temp] = [n \in FileName |->
     IF n \in DOMAIN doc.included THEN doc.included[n] ELSE @[n]]]

HandleLoad(stage, path) ==
  /\ Silent
  /\ IF HasOpenedFile \/ ~ encoded THEN UNCHANGED <<reader, search, folders>>
     ELSE IF path \notin Path \/ disk[path] \in {ABSENT, BROKEN}
       THEN ClearDocument /\ UNCHANGED folders
     ELSE /\ reader' = [doc |-> disk[path], shallow |-> stage = "shallow", folder |-> temp]
          /\ folders' = Unpacked(disk[path])
          /\ UNCHANGED search
  /\ UNCHANGED <<disk, temp, encoded, items, asked, state>>

HandleUnLoad ==
  /\ Silent
  /\ IF HasOpenedFile THEN ClearDocument ELSE UNCHANGED <<reader, search>>
  /\ UNCHANGED <<disk, folders, temp, encoded, items, asked, state>>

BodyIn(folder, name) == IF folders[folder][name] = ABSENT THEN EMPTY ELSE folders[folder][name]

\* Faulty variant: the document is written in the mode of the context.
ContextMode(inc) ==
  [reader.doc EXCEPT !.mode = "uncompressed",
     !.included = [n \in DOMAIN reader.doc.included |-> BodyIn(temp, n)]]

\* A shallow writer copies the document; its included files are sought in the
\* temp folder as it is now.
ShallowDocument(inc) ==
  [reader.doc EXCEPT !.included = [n \in DOMAIN reader.doc.included |-> BodyIn(temp, n)]]

\* A deep one has no managers, and of the included files `inc`, those whose
\* textures ask for it, from where they were found by Load.
DeepDocument(inc) ==
  [reader.doc EXCEPT !.mgrs = 0, !.included = [n \in inc |-> BodyIn(reader.folder, n)]]

\* The write mode of the document replaces that of the context while the
\* writer runs.  A file that cannot be opened is left as it is, but nobody looks
\* whether what is written arrives: on a full disk the file is cut off.
HandleSave(path) ==
  /\ Silent
  /\ IF ~ HasOpenedFile \/ ~ encoded \/ path \notin Path THEN UNCHANGED disk
     ELSE \/ \E inc \in SUBSET DOMAIN reader.doc.included :
               disk' = [disk EXCEPT ![path] =
                          IF reader.shallow THEN ShallowDocument(inc) ELSE DeepDocument(inc)]
          \/ disk' = [disk EXCEPT ![path] = BROKEN]
          \/ UNCHANGED disk
  /\ UNCHANGED <<folders, temp, encoded, reader, items, search, asked, state>>

ListSearch(page) ==
  IF ~ search.on THEN Silent /\ UNCHANGED state
  ELSE IF search.part = "obj"
    THEN screen' = SearchedRows(reader.doc.names, search.results, page, items) /\ UNCHANGED state
  ELSE /\ Silent
       /\ state' = IF \E i \in ToSet(PageIndices(page, reader.doc.mgrs, items)) :
                        i >= Len(search.results)
                   THEN "past_results" ELSE state

\* The pages of the found managers are counted by the managers there are.
HandleLs(part, page) ==
  /\ IF ~ HasOpenedFile THEN Silent /\ UNCHANGED state
     ELSE CASE part = "obj" -> screen' = ObjectRows(reader.doc.names, page, items) /\ UNCHANGED state
            [] part = "mgr" -> screen' = ManagerRows /\ UNCHANGED state
            [] part = "search" -> ListSearch(page)
  /\ UNCHANGED <<disk, folders, temp, encoded, reader, items, search, asked>>

\* HandleData and HandleChunk: what is printed is about one object.
HandleData(part, index) ==
  /\ screen' = IF HasOpenedFile /\ part = "obj" /\ index < Len(reader.doc.names)
               THEN << <<index, reader.doc.names[index + 1]>> >> ELSE <<>>
  /\ UNCHANGED <<disk, folders, temp, encoded, reader, items, search, asked, state>>

\* Where the names of a document match, counted from 0.
Found(names, text) ==
  LET found[i \in 0 .. Len(names)] ==
        IF i = 0 THEN <<>>
        ELSE IF names[i] \in text THEN Append(found[i - 1], i - 1) ELSE found[i - 1]
  IN found[Len(names)]

\* An expression that cannot be compiled leaves the former results; managers
\* cannot be searched, and leave none.
HandleSearch(part, mode, text) ==
  /\ Silent
  /\ IF ~ HasOpenedFile \/ <<mode, text>> \notin DOMAIN Matches THEN UNCHANGED <<search, asked>>
     ELSE /\ search' = [on |-> TRUE, part |-> part,
                        results |-> IF part = "mgr" THEN <<>>
                                    ELSE Found(reader.doc.names, Matches[<<mode, text>>])]
          /\ asked' = Matches[<<mode, text>>]
  /\ UNCHANGED <<disk, folders, temp, encoded, reader, items, state>>

\* HandleInfo, HandleStyle, HandleVersion and HandleHelp list no object.
HandleOther ==
  /\ Silent
  /\ UNCHANGED <<disk, folders, temp, encoded, reader, items, search, asked, state>>

HandleItems(count) ==
  /\ Silent
  /\ items' = count
  /\ UNCHANGED <<disk, folders, temp, encoded, reader, search, asked, state>>

HandleEncoding(words) ==
  /\ Silent
  /\ encoded' = (ToSet(words) \cap ValidEncoding # {})
  /\ UNCHANGED <<disk, folders, temp, reader, items, search, asked, state>>

HandleTemp(word) ==
  /\ Silent
  /\ temp' = IF word \in Folder THEN word ELSE temp
  /\ UNCHANGED <<disk, folders, encoded, reader, items, search, asked, state>>

\* HandleExit, the end of the loop and the destructor.
HandleExit ==
  /\ Silent
  /\ IF HasOpenedFile THEN ClearDocument ELSE UNCHANGED <<reader, search>>
  /\ state' = "exit"
  /\ UNCHANGED <<disk, folders, temp, encoded, items, asked>>

-----------------------------------------------------------------------------
Refuse ==
  /\ Running
  /\ \E line \in Lines : Verdict(line) # "none"
  /\ Silent
  /\ UNCHANGED <<disk, folders, temp, encoded, reader, items, search, asked, state>>

\* Run: a line that is accepted goes to its handler.
Obey(verb, args) ==
  \/ verb = "load" /\ HandleLoad(args[1], args[2])
  \/ verb = "unload" /\ HandleUnLoad
  \/ verb = "save" /\ HandleSave(args[1])
  \/ verb = "ls" /\ HandleLs(args[1], NumberOf[args[2]] - 1)
  \/ verb \in {"data", "chunk"} /\ HandleData(args[1], NumberOf[args[2]])
  \/ verb = "search" /\ HandleSearch(args[1], args[2], args[3])
  \/ verb = "items" /\ HandleItems(NumberOf[args[1]])
  \/ verb = "encoding" /\ HandleEncoding(args)
  \/ verb = "temp" /\ HandleTemp(args[1])
  \/ verb \in {"info", "style", "version", "help"} /\ HandleOther
  \/ verb = "exit" /\ HandleExit

Init ==
  /\ disk = Originals
  /\ folders = [f \in Folder |-> [n \in FileName |-> ABSENT]]
  /\ temp = TempFolder
  /\ encoded = FALSE
  /\ reader = ABSENT
  /\ items = 10
  /\ search = NoSearch /\ asked = {}
  /\ screen = <<>>
  /\ state = "run"

Next ==
  \/ Refuse
  \/ Running /\ \E line \in Lines : Verdict(line) = "none" /\ Obey(Head(line), Tail(line))

Spec == Init /\ [][Next]_vars

-----------------------------------------------------------------------------
(* Properties.                                                              *)

\* The pages of a list of n rows, and all their rows one after another.
Pages(n) == 1 .. MaxPage(n, items) + 1

AllObjects(names) == FlattenSeq([p \in Pages(Len(names)) |-> ObjectRows(names, p - 1, items)])

AllSearched(names, results) ==
  FlattenSeq([p \in Pages(Len(results)) |-> SearchedRows(names, results, p - 1, items)])

\* Rows show the elements of a list that are in a set, each one once and in the
\* order of the list, and count themselves.
Shows(rows, names, S) ==
  \E at \in [DOMAIN rows -> DOMAIN names] :
    /\ \A j, k \in DOMAIN rows : j < k => at[j] < at[k]
    /\ ToSet(at) = {i \in DOMAIN names : names[i] \in S}
    /\ \A k \in DOMAIN rows : rows[k] = <<k - 1, names[at[k]]>>

\* Whoever turns all pages has seen every object once and in order, under the
\* index that `data` and `chunk` take; turning those of a search shows every
\* object whose name matches, once and in order (PageBreaker and the lists of
\* StructFmt.cpp).  The index in front of a search result is its place among
\* the results, and no index of the document.
PagesShowAll ==
  HasOpenedFile =>
    LET names == reader.doc.names
    IN /\ AllObjects(names) = [i \in DOMAIN names |-> <<i - 1, names[i]>>]
       /\ search.part = "obj" /\ search.on =>
            Shows(AllSearched(names, search.results), names, asked)

\* Results are those of the last search, in the document that is open: none is
\* left from a document that was released, or that failed to load, and none
\* leads outside the list.  Only after a search for managers the list of results
\* is read past its end (StructFmt.cpp:697 counts the managers, not the results).
ResultsCurrent ==
  /\ ~ HasOpenedFile => search = NoSearch
  /\ HasOpenedFile /\ search.on /\ search.part = "obj" =>
       search.results = Found(reader.doc.names, asked)
  /\ state = "past_results" => search.part = "mgr" /\ reader.doc.mgrs > 0

Writes == disk' # disk /\ \A p \in Path : disk'[p] # disk[p] => disk'[p] # BROKEN

\* `save` of a document loaded as chunks makes a copy of it, write mode, managers
\* and included files with it, whatever was searched, listed or set in between,
\* as long as the temp folder is the one it was loaded with; another folder
\* gives the copy empty files or those of other documents, without an error (nor
\* does a full disk give one, which spoils the file, and is left out here).  A
\* document loaded in full keeps its names and its mode (UnvirtContext.cpp:230,
\* CKFileOthers.cpp:236).
CopiesDocument ==
  [][Writes => \A p \in Path : disk'[p] # disk[p] =>
       /\ disk'[p].names = reader.doc.names /\ disk'[p].mode = reader.doc.mode
       /\ reader.shallow /\ temp = reader.folder => disk'[p] = reader.doc]_vars
=============================================================================
