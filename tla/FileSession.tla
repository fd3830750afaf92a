----------------------------- MODULE FileSession -----------------------------
(***************************************************************************)
(* CKFileReader and CKFileWriter (CK2/CKFileReader.cpp, CKFileWriter.cpp,  *)
(* CKFileOthers.cpp): loading a document into a context, in whole (deep)   *)
(* or as chunks only (shallow), and saving it again.  The object manager   *)
(* is taken as what it promises, the table of ObjectTable.                 *)
(*                                                                         *)
(* An object is its class and one reference to another object, a chunk is  *)
(* the position of the referenced object in the file (0 for none); how a   *)
(* chunk holds it is StateChunk's subject.  Left out: managers, plugins    *)
(* and names, which pass through, and packing.  A call that is refused     *)
(* with an error code changes nothing and has no action.                   *)
(***************************************************************************)
EXTENDS Integers, FiniteSets, SequencesExt

CONSTANTS
  Object,      \* addresses of CKObjects
  Id,          \* the identifiers of the context
  Class,       \* the classes in documents ...
  Registered,  \* ... those CKGetClassDesc knows ...
  Includes,    \* ... and the file CKBitmapData adds for an object, or NULL
  Body,        \* contents of included files
  Originals,   \* documents other programs write
  MaxIncluded, \* bound: files one writer includes
  NULL,        \* the null pointer, and no chunk
  ABSENT,      \* a file that does not exist
  BROKEN       \* a file no reader accepts, such as an empty one

Name == {Includes[c] : c \in Class} \ {NULL}

\* What is left of a chunk, the entries a reader and a writer keep, and both.
Data == [kind : {"current", "old", "unreadable"}, ref : Nat]

ReaderEntry ==
  [id : Nat, cls : Class, data : Data \cup {NULL}, ptr : Object \cup {NULL}, created : Nat]

WriterEntry == [id : Nat, cls : Class, ptr : Object \cup {NULL}, data : Data \cup {NULL}]

Reader ==
  [deep : BOOLEAN, done : BOOLEAN, maxId : Nat, objs : Seq(ReaderEntry), included : Seq(Name)]

Writer ==
  [kind : {"plain", "deep", "shallow"}, done : BOOLEAN, maxId : Nat, objs : Seq(WriterEntry),
   hash : [Id -> Nat], mask : SUBSET Id, included : Seq(Name)]

\* Positions in a file count in units of a DWORD: each entry of the object list
\* takes one, each chunk its PackSize after a DWORD that holds it.
PackSize(data) == CASE data = NULL -> 0 [] data.ref = 0 -> 1 [] OTHER -> 2

HeaderSize(objs) == Len(objs) + 1

\* Faulty variant: the DWORD in front of each chunk is forgotten.
PackedIndexes(objs) ==
  LET index[i \in DOMAIN objs] ==
        IF i = 1 THEN HeaderSize(objs) ELSE index[i - 1] + PackSize(objs[i - 1].data)
  IN index

\* CKFileObject::FileIndex of each object, as Save computes it.
FileIndexes(objs) ==
  LET index[i \in DOMAIN objs] ==
        IF i = 1 THEN HeaderSize(objs) ELSE index[i - 1] + PackSize(objs[i - 1].data) + 1
  IN index

\* Where ReadFileData finds the length of each chunk when it goes through
\* the file from the end of the header on.
ReadPosition(doc) ==
  LET pos[i \in DOMAIN doc.objs] ==
        IF i = 1 THEN HeaderSize(doc.objs)
        ELSE pos[i - 1] + 1 + PackSize(doc.objs[i - 1].data)
  IN pos

\* A document where no two objects have one identifier, none exceeds the
\* largest, and each chunk is where it is said to be.
Numbered(doc) ==
  \A i \in DOMAIN doc.objs :
    /\ doc.objs[i].id <= doc.maxId
    /\ \A j \in DOMAIN doc.objs : doc.objs[i].id = doc.objs[j].id => i = j
    /\ doc.objs[i].index = ReadPosition(doc)[i]

\* A document that refers to its own objects only.
Closed(doc) ==
  /\ doc.maxId \in Nat
  /\ doc.objs \in Seq(ToSet(doc.objs)) /\ doc.included \in Seq(ToSet(doc.included))
  /\ \A i \in DOMAIN doc.objs :
       /\ doc.objs[i].id \in Nat /\ doc.objs[i].cls \in Class
       /\ doc.objs[i].data \in Data \cup {NULL}
       /\ doc.objs[i].data # NULL => doc.objs[i].data.ref \in {0} \cup DOMAIN doc.objs
  /\ \A k \in DOMAIN doc.included : doc.included[k].name \in Name

ASSUME SessionAssumption ==
  /\ Registered \subseteq Class
  /\ Id \subseteq Nat \ {0}
  /\ NULL \notin Object /\ NULL \notin Data /\ NULL \notin Reader /\ NULL \notin Writer
  /\ MaxIncluded \in Nat
  /\ \A doc \in Originals : Closed(doc) /\ Numbered(doc)

VARIABLES
  table,    \* the object manager: identifier -> object
  objects,  \* the class and the reference of each object
  disk,     \* the document's file
  temp,     \* the temp folder of the path manager: name -> contents
  reader,   \* the CKFileReader, or NULL
  loaded,   \* history: the document the reader was made from
  writer,   \* the CKFileWriter, or NULL
  pc,       \* where DeepLoad is: "idle", "create", "load", "finish"
  at,       \* the file object its loop is at
  fault     \* "none", or the bad access that ended the program

Table == INSTANCE ObjectTable

context == <<table, objects>>
call == <<pc, at, fault>>
vars == <<context, disk, temp, reader, loaded, writer, call>>

Idle == pc = "idle" /\ fault = "none"
Live == Table!Bindings

\* CKObject::GetID.
GetID(o) == CHOOSE id \in DOMAIN table : table[id] = o

\* CKContext::GetObject, null for an identifier that is not bound.
GetObject(id) == IF id \in DOMAIN table THEN table[id] ELSE NULL

-----------------------------------------------------------------------------
(* The file.                                                                *)

\* What Save writes for the objects, the identifier and the included names.
Document(objs, maxId, included) ==
  [maxId |-> maxId,
   objs |-> [i \in DOMAIN objs |->
               [id |-> objs[i].id, cls |-> objs[i].cls,
                index |-> FileIndexes(objs)[i], data |-> objs[i].data]],
   included |-> [k \in DOMAIN included |-> [name |-> included[k], body |-> temp[included[k]]]]]

-----------------------------------------------------------------------------
(* The reader.                                                              *)

\* A chunk of a version ConvertFromBuffer does not know is dropped.
Parsed(data) == IF data # NULL /\ data.kind = "unreadable" THEN NULL ELSE data

\* ReadFileHeader and ReadFileData: the list of objects, none created yet.
FileObjects(doc) ==
  [i \in DOMAIN doc.objs |->
     [id |-> doc.objs[i].id, cls |-> doc.objs[i].cls, data |-> Parsed(doc.objs[i].data),
      ptr |-> NULL, created |-> 0]]

\* Faulty variant: a file that is already there is left alone.
UnpackedOnce(doc) ==
  LET files(n) == {k \in DOMAIN doc.included : doc.included[k].name = n}
  IN [n \in Name |-> IF files(n) = {} \/ temp[n] # ABSENT THEN temp[n]
                     ELSE doc.included[Min(files(n))].body]

\* The included files are unpacked into the temp folder, the last one wins.
Unpacked(doc) ==
  LET files(n) == {k \in DOMAIN doc.included : doc.included[k].name = n}
  IN [n \in Name |-> IF files(n) = {} THEN temp[n] ELSE doc.included[Max(files(n))].body]

\* ShallowLoad, by itself or as the first part of DeepLoad.  A document is
\* loaded into a context of its own.
ShallowLoad(deep) ==
  /\ Idle
  /\ reader = NULL /\ writer = NULL /\ table = Table!Empty
  /\ disk \notin {ABSENT, BROKEN}
  /\ reader' = [deep |-> deep, done |-> ~ deep, maxId |-> disk.maxId, objs |-> FileObjects(disk),
                included |-> [k \in DOMAIN disk.included |-> disk.included[k].name]]
  /\ temp' = Unpacked(disk)
  /\ loaded' = disk
  /\ IF deep THEN pc' = "create" /\ at' = 1 ELSE UNCHANGED <<pc, at>>
  /\ UNCHANGED <<context, disk, writer, fault>>

\* The loops of DeepLoad go over the file objects, then to the next phase.
Entry == reader.objs[at]

Looping(phase) == pc = phase /\ fault = "none" /\ at \in DOMAIN reader.objs

LoopEnd(phase, next, first) ==
  /\ pc = phase /\ fault = "none" /\ at \notin DOMAIN reader.objs
  /\ pc' = next /\ at' = first
  /\ UNCHANGED <<context, disk, temp, reader, loaded, writer, fault>>

Advance ==
  /\ at' = at + 1
  /\ UNCHANGED <<disk, temp, loaded, writer, pc, fault>>

\* The first loop skips what has no chunk; a class without a description
\* gives no object.
CreateSkipped ==
  /\ Looping("create")
  /\ Entry.data = NULL \/ Entry.cls \notin Registered
  /\ Advance
  /\ UNCHANGED <<context, reader>>

Create(id, o) ==
  /\ Looping("create")
  /\ Entry.data # NULL /\ Entry.cls \in Registered
  /\ Table!Bind(id, o)
  /\ objects' = [objects EXCEPT ![o] = [cls |-> Entry.cls, ref |-> NULL]]
  /\ reader' = [reader EXCEPT !.objs[at].ptr = o, !.objs[at].created = id]
  /\ Advance

\* Faulty variant: the identifier the object had when it was saved.
ResolveSaved(data) ==
  IF data.ref = 0 THEN NULL ELSE GetObject(reader.objs[data.ref].id)

\* The reference in a chunk, through CKFileVisitor::GetFileObjectByIndex.
Resolve(data) ==
  IF data.ref = 0 THEN NULL ELSE GetObject(reader.objs[data.ref].created)

LoadSkipped ==
  /\ Looping("load")
  /\ Entry.data = NULL \/ Entry.ptr = NULL
  /\ Advance
  /\ UNCHANGED <<context, reader>>

Loads == Looping("load") /\ Entry.data # NULL /\ Entry.ptr # NULL

\* CKObject::Load succeeds, its chunk is deleted.
LoadObject ==
  /\ Loads /\ Entry.ptr \in Live /\ Entry.data.kind # "old"
  /\ objects' = [objects EXCEPT ![Entry.ptr].ref = Resolve(Entry.data)]
  /\ reader' = [reader EXCEPT !.objs[at].data = NULL]
  /\ Advance
  /\ UNCHANGED table

\* Load refuses data of an old version, and the object with the identifier
\* the document gives is destroyed, if there is one.  Whether the objects
\* that refer to it are told depends on the classes: `told` are those.
LoadFails(told) ==
  /\ Loads /\ Entry.ptr \in Live /\ Entry.data.kind = "old"
  /\ IF Entry.id \in DOMAIN table THEN Table!Unbind(Entry.id) ELSE UNCHANGED table
  /\ told \subseteq {o \in Live : GetObject(Entry.id) # NULL /\ objects[o].ref = GetObject(Entry.id)}
  /\ objects' = [o \in Object |-> IF o \in told THEN [objects[o] EXCEPT !.ref = NULL] ELSE objects[o]]
  /\ reader' = [reader EXCEPT !.objs[at].ptr = NULL, !.objs[at].created = 0]
  /\ Advance

\* Load is called through a pointer to an object destroyed before.
LoadFreed ==
  /\ Loads /\ Entry.ptr \notin Live
  /\ fault' = "freed_object"
  /\ UNCHANGED <<context, disk, temp, reader, loaded, writer, pc, at>>

FinishLoad ==
  /\ pc = "finish" /\ fault = "none"
  /\ reader' = [reader EXCEPT !.done = TRUE]
  /\ pc' = "idle" /\ at' = 0
  /\ UNCHANGED <<context, disk, temp, loaded, writer, fault>>

-----------------------------------------------------------------------------
(* The writer: the list of objects with the table that finds a position by  *)
(* identifier (m_ObjectsHashTable) and the identifiers that are taken       *)
(* (m_AlreadySavedMask).                                                    *)

EmptyWriter(kind) ==
  [kind |-> kind, done |-> FALSE, maxId |-> 0, objs |-> <<>>,
   hash |-> [id \in Id |-> 0], mask |-> {}, included |-> <<>>]

\* Faulty variant: the pointer is not stored.
Unset(o) == [id |-> GetID(o), cls |-> objects[o].cls, ptr |-> NULL, data |-> NULL]

\* The CKFileObject of an object, before its chunk is made.
FileObject(o) == [id |-> GetID(o), cls |-> objects[o].cls, ptr |-> o, data |-> NULL]

\* InternalObjectAdder.
Added(w, o) ==
  IF GetID(o) \in w.mask THEN w
  ELSE [w EXCEPT
          !.hash[GetID(o)] = IF @ = 0 THEN Len(w.objs) + 1 ELSE @,
          !.mask = @ \cup {GetID(o)},
          !.maxId = IF GetID(o) > @ THEN GetID(o) ELSE @,
          !.objs = Append(@, FileObject(o))]

\* The same for a list of objects and an empty writer: each object is taken
\* where it comes first.
AddedAll(w, os, maxId) ==
  [w EXCEPT
     !.hash = [id \in Id |-> IF \E k \in DOMAIN os : GetID(os[k]) = id
                             THEN CHOOSE k \in DOMAIN os : GetID(os[k]) = id ELSE 0],
     !.mask = {GetID(o) : o \in ToSet(os)},
     !.maxId = maxId,
     !.objs = [k \in DOMAIN os |-> FileObject(os[k])]]

\* The constructors.
NewWriter ==
  /\ Idle /\ reader = NULL /\ writer = NULL
  /\ writer' = EmptyWriter("plain")
  /\ UNCHANGED <<context, disk, temp, reader, loaded, call>>

\* The document's chunks and names are copied, none of its objects.
NewShallowWriter ==
  /\ Idle /\ reader # NULL /\ writer = NULL
  /\ ~ reader.deep
  /\ writer' = [EmptyWriter("shallow") EXCEPT
                  !.maxId = reader.maxId,
                  !.objs = [i \in DOMAIN reader.objs |->
                              [id |-> reader.objs[i].id, cls |-> reader.objs[i].cls,
                               ptr |-> NULL, data |-> reader.objs[i].data]],
                  !.included = reader.included]
  /\ UNCHANGED <<context, disk, temp, reader, loaded, call>>

\* Positions in ascending order: a set of one sequence.
InOrder(S) ==
  {order \in Bijection(1 .. Cardinality(S), S) :
     \A i, j \in DOMAIN order : i < j => order[i] < order[j]}

\* The objects of a deep reader, without those it could not make.
ReaderObjects ==
  {i \in DOMAIN reader.objs :
     /\ reader.objs[i].ptr # NULL
     /\ \A j \in 1 .. i - 1 : reader.objs[j].ptr # reader.objs[i].ptr}

NewDeepWriter ==
  /\ Idle /\ reader # NULL /\ writer = NULL
  /\ reader.deep
  /\ IF \A i \in ReaderObjects : reader.objs[i].ptr \in Live
       THEN /\ \E order \in InOrder(ReaderObjects) :
                LET os == [k \in DOMAIN order |-> reader.objs[order[k]].ptr]
                    ids == {0} \cup {GetID(o) : o \in ToSet(os)}
                IN \E maxId \in ids :
                     /\ \A id \in ids : id <= maxId
                     /\ writer' = AddedAll(EmptyWriter("deep"), os, maxId)
            /\ UNCHANGED call
       ELSE /\ fault' = "freed_object"
            /\ UNCHANGED <<writer, pc, at>>
  /\ UNCHANGED <<context, disk, temp, reader, loaded>>

\* Only a writer without a reader takes objects; a shallow one no files.
AddSavedObject(o) ==
  /\ Idle /\ writer # NULL
  /\ ~ writer.done /\ writer.kind = "plain"
  /\ writer' = Added(writer, o)
  /\ UNCHANGED <<context, disk, temp, reader, loaded, call>>

AddSavedFile(n) ==
  /\ Idle /\ writer # NULL
  /\ ~ writer.done /\ writer.kind # "shallow"
  /\ Len(writer.included) < MaxIncluded
  /\ writer' = [writer EXCEPT !.included = Append(@, n)]
  /\ UNCHANGED <<context, disk, temp, reader, loaded, call>>

\* CKFileVisitor::GetIndexByObjectID, 0 for an object that is not in the file.
IndexOf(o) == IF o = NULL THEN 0 ELSE writer.hash[GetID(o)]

\* The loop that makes the chunks which are not there, by CKObject::Save.
Chunk(o) == [kind |-> "current", ref |-> IndexOf(objects[o].ref)]

WithChunks ==
  [i \in DOMAIN writer.objs |->
     IF writer.objs[i].data # NULL THEN writer.objs[i]
     ELSE [writer.objs[i] EXCEPT !.data = Chunk(writer.objs[i].ptr)]]

\* A bitmap that keeps its file calls CKFileVisitor::AddSavedFile in Save.
Saving == {i \in DOMAIN writer.objs : writer.objs[i].data = NULL}

Bitmaps == {i \in Saving : Includes[writer.objs[i].cls] # NULL}

WithFiles(order) ==
  writer.included \o [k \in DOMAIN order |-> Includes[writer.objs[order[k]].cls]]

\* Faulty variant: the chunks stay for the next attempt.
Kept(objs) == objs

\* The chunks are deleted while they are written into the buffer.
Released(objs) == [i \in DOMAIN objs |-> [objs[i] EXCEPT !.data = NULL]]

\* CKObject::Save reads the object and the identifier of what it refers to.
Readable(i) ==
  /\ writer.objs[i].ptr \in Live
  /\ objects[writer.objs[i].ptr].ref \in Live \cup {NULL}

\* PrepareFile has created the file, but fopen may fail afterwards.
Save(opened) ==
  /\ Idle /\ writer # NULL /\ ~ writer.done
  /\ Len(writer.included) + Cardinality(Bitmaps) <= MaxIncluded
  /\ \A i \in Saving : Readable(i)
  /\ \E order \in InOrder(Bitmaps) :
       /\ writer' = [writer EXCEPT !.objs = Released(WithChunks), !.included = WithFiles(order),
                                   !.done = opened]
       /\ disk' = IF opened THEN Document(WithChunks, writer.maxId, WithFiles(order))
                  ELSE IF disk = ABSENT THEN BROKEN ELSE disk
  /\ UNCHANGED <<context, temp, reader, loaded, call>>

\* The first object that has no chunk, and no pointer or a stale one.
SaveCrashes ==
  /\ Idle /\ writer # NULL /\ ~ writer.done
  /\ \E i \in Saving :
       /\ ~ Readable(i)
       /\ \A j \in Saving : j < i => Readable(j)
       /\ fault' = IF writer.objs[i].ptr = NULL THEN "null_object" ELSE "freed_object"
  /\ UNCHANGED <<context, disk, temp, reader, loaded, writer, pc, at>>

-----------------------------------------------------------------------------
(* The programs: Unvirt and BMap load into an empty context or create       *)
(* objects in one, change what is there, and drop all of it.                *)

MakeObject(id, o, cls) ==
  /\ Idle /\ reader = NULL
  /\ Table!Bind(id, o)
  /\ objects' = [objects EXCEPT ![o] = [cls |-> cls, ref |-> NULL]]
  /\ UNCHANGED <<disk, temp, reader, loaded, writer, call>>

Link(o, p) ==
  /\ Idle
  /\ o \in Live /\ p \in Live \cup {NULL}
  /\ objects' = [objects EXCEPT ![o].ref = p]
  /\ UNCHANGED <<table, disk, temp, reader, loaded, writer, call>>

DropWriter ==
  /\ Idle /\ writer # NULL
  /\ writer' = NULL
  /\ UNCHANGED <<context, disk, temp, reader, loaded, call>>

\* ClearDocument, or the end of a BMFile.
ClearDocument ==
  /\ Idle /\ writer = NULL
  /\ Table!Clear
  /\ objects' = [o \in Object |-> NULL]
  /\ reader' = NULL /\ loaded' = NULL
  /\ UNCHANGED <<disk, temp, writer, call>>

\* Another program leaves a document between two sessions.
Replace ==
  /\ Idle /\ reader = NULL /\ writer = NULL
  /\ disk' \in Originals
  /\ UNCHANGED <<context, temp, reader, loaded, writer, call>>

Init ==
  /\ Table!Init
  /\ objects = [o \in Object |-> NULL]
  /\ disk \in Originals \cup {ABSENT, BROKEN}
  /\ temp = [n \in Name |-> ABSENT]
  /\ reader = NULL /\ loaded = NULL /\ writer = NULL
  /\ pc = "idle" /\ at = 0 /\ fault = "none"

Loading ==
  \/ \E deep \in BOOLEAN : ShallowLoad(deep)
  \/ CreateSkipped
  \/ \E id \in Id, o \in Object : Create(id, o)
  \/ LoopEnd("create", "load", 1)
  \/ LoadSkipped
  \/ LoadObject
  \/ \E told \in SUBSET Object : LoadFails(told)
  \/ LoadFreed
  \/ LoopEnd("load", "finish", 0)
  \/ FinishLoad

Writing ==
  \/ NewWriter
  \/ NewShallowWriter
  \/ NewDeepWriter
  \/ \E o \in Live : AddSavedObject(o)
  \/ \E n \in Name : AddSavedFile(n)
  \/ \E opened \in BOOLEAN : Save(opened)
  \/ SaveCrashes
  \/ DropWriter

Next ==
  \/ Loading
  \/ Writing
  \/ \E id \in Id, o \in Object, cls \in Registered : MakeObject(id, o, cls)
  \/ \E o \in Object, p \in Object \cup {NULL} : Link(o, p)
  \/ ClearDocument
  \/ Replace

Spec == Init /\ [][Next]_vars

-----------------------------------------------------------------------------
(* Properties.                                                              *)

\* Every document on the disk can be read: no two objects have one identifier
\* and none exceeds the largest, references stay inside the file, and the
\* position an object is said to have is where a reader finds it.
DocumentsProper ==
  disk \notin {ABSENT, BROKEN} =>
    /\ Numbered(disk)
    /\ \A i \in DOMAIN disk.objs :
         disk.objs[i].data # NULL => disk.objs[i].data.ref \in {0} \cup DOMAIN disk.objs

\* The file objects DeepLoad makes an object for.
Made(o) == Parsed(o.data) # NULL /\ o.cls \in Registered

NoOldData(doc) == \A i \in DOMAIN doc.objs : Made(doc.objs[i]) => doc.objs[i].data.kind # "old"

\* After a deep load the context is the graph of the document: one object
\* for each entry that has a chunk and a known class, of that class, referring
\* to the object of the entry its chunk names, in whatever order the entries
\* are and whatever identifiers they are given now.  It is claimed for
\* documents without old data.
LoadsGraph ==
  pc = "finish" /\ NoOldData(loaded) =>
    LET made == {i \in DOMAIN loaded.objs : Made(loaded.objs[i])}
        ptr(i) == reader.objs[i].ptr
    IN /\ Live = {ptr(i) : i \in made} /\ Cardinality(Live) = Cardinality(made)
       /\ \A i \in DOMAIN loaded.objs \ made : ptr(i) = NULL
       /\ \A i \in made :
            /\ GetObject(reader.objs[i].created) = ptr(i)
            /\ objects[ptr(i)].cls = loaded.objs[i].cls
            /\ objects[ptr(i)].ref =
                 IF loaded.objs[i].data.ref = 0 THEN NULL ELSE ptr(loaded.objs[i].data.ref)

\* An object whose data was refused is deleted: everything the context holds
\* after a deep load belongs to an entry of the reader (CKFileReader.cpp:423,
\* "if failed, delete it").
FailedObjectDeleted ==
  pc = "finish" => Live \subseteq {reader.objs[i].ptr : i \in DOMAIN reader.objs}

Succeeds == writer # NULL /\ ~ writer.done /\ writer' # NULL /\ writer'.done

\* What is on the disk is the context as it is: one entry per object of the
\* writer, with its identifier, referring to the entry of the object it refers
\* to, or to none when that is not in the file, and the files the bitmaps need.
ContextSaved ==
  LET ptr(i) == writer.objs[i].ptr
      entry == disk'.objs
  IN /\ DOMAIN entry = DOMAIN writer.objs
     /\ \A i \in DOMAIN entry :
          /\ GetObject(entry[i].id) = ptr(i)
          /\ entry[i].cls = objects[ptr(i)].cls
          /\ \A j \in DOMAIN entry : entry[i].data.ref = j <=> objects[ptr(i)].ref = ptr(j)
          /\ Includes[entry[i].cls] # NULL =>
               \E k \in DOMAIN disk'.included :
                 disk'.included[k].name = Includes[entry[i].cls]

\* A plain or deep writer that reports success has written the context as it
\* is at that moment, also when an earlier attempt failed and objects changed
\* in between.
SavesContext == [][Succeeds /\ writer.kind # "shallow" => ContextSaved]_vars

\* A shallow writer that reports success has reproduced the document that was
\* loaded, with its chunks, identifiers and included files.
ShallowSaveSame ==
  [][Succeeds /\ writer.kind = "shallow" => disk' = loaded]_vars

\* The bad accesses that can happen, and no others: a null object is saved
\* only by a shallow writer that lacks a chunk, because the document has none
\* or because a failed attempt has used it up; a freed object is used only
\* after a document with old data was loaded.
FaultsForeseen ==
  /\ fault = "null_object" => writer.kind = "shallow"
  /\ fault = "freed_object" => ~ NoOldData(loaded)
=============================================================================
