---------------------------- MODULE SessionProofs ----------------------------
(***************************************************************************)
(* Theorems about FileSession for every context, every set of documents    *)
(* and every program that uses reader and writer as Next does.             *)
(***************************************************************************)
EXTENDS FileSession, FiniteSetTheorems, SequenceTheorems, InductionLemmas

-----------------------------------------------------------------------------
(* The invariant.                                                           *)

TableOK ==
  /\ DOMAIN table \subseteq Id
  /\ \A id \in DOMAIN table : table[id] \in Object
  /\ \A id, jd \in DOMAIN table : table[id] = table[jd] => id = jd

ObjectsOK ==
  /\ DOMAIN objects = Object
  /\ \A o \in Live : objects[o] \in [cls : Registered, ref : Object \cup {NULL}]

DiskOK == disk \notin {ABSENT, BROKEN} => Closed(disk)

PhaseOK ==
  /\ pc \in {"idle", "create", "load", "finish"}
  /\ at \in Nat /\ (pc \in {"create", "load"} => at # 0)
  /\ pc # "idle" => reader # NULL /\ reader.deep /\ writer = NULL

\* The reader still has the entries of the document.
ReaderOK ==
  /\ reader \in Reader \cup {NULL}
  /\ reader # NULL =>
       /\ Closed(loaded)
       /\ DOMAIN reader.objs = DOMAIN loaded.objs
       /\ \A i \in DOMAIN loaded.objs :
            /\ reader.objs[i].id = loaded.objs[i].id
            /\ reader.objs[i].cls = loaded.objs[i].cls
            /\ reader.objs[i].data \in {NULL, loaded.objs[i].data}

\* How far the loops have come.
Seen(i) == pc # "create" \/ i < at

Read(i) == pc = "finish" \/ (pc = "load" /\ i < at)

\* An entry has its object as soon as the first loop was there ...
EntryMade(i) ==
  LET entry == reader.objs[i]
  IN IF Made(loaded.objs[i]) /\ Seen(i)
       THEN /\ entry.created \in DOMAIN table /\ table[entry.created] = entry.ptr
            /\ objects[entry.ptr].cls = loaded.objs[i].cls
       ELSE entry.ptr = NULL /\ entry.created = 0

\* ... its chunk until the second was, ...
EntryChunk(i) ==
  pc # "idle" =>
    reader.objs[i].data = IF Made(loaded.objs[i]) /\ Read(i) THEN NULL ELSE Parsed(loaded.objs[i].data)

\* ... and from then on its object refers to the one the chunk has named.
EntryRefers(i) ==
  Made(loaded.objs[i]) /\ Read(i) =>
    objects[reader.objs[i].ptr].ref =
      IF loaded.objs[i].data.ref = 0 THEN NULL ELSE reader.objs[loaded.objs[i].data.ref].ptr

\* There are no other objects, and no two entries have one.
OneEach ==
  /\ \A o \in Live : \E i \in DOMAIN loaded.objs : reader.objs[i].ptr = o
  /\ \A i, j \in DOMAIN loaded.objs :
       reader.objs[i].ptr = reader.objs[j].ptr /\ reader.objs[i].ptr # NULL => i = j

GraphOK ==
  reader # NULL /\ reader.deep /\ NoOldData(loaded) =>
    /\ \A i \in DOMAIN loaded.objs : EntryMade(i) /\ EntryChunk(i) /\ EntryRefers(i)
    /\ OneEach

\* Nothing refers to a freed object, unless a document had old data.
RefsLive ==
  reader = NULL \/ NoOldData(loaded) => \A o \in Live : objects[o].ref \in Live \cup {NULL}

\* A shallow writer has chunks and no objects, the others have objects, each of
\* them with its identifier, and find their positions by it.
Chunks(w) ==
  \A i \in DOMAIN w.objs :
    /\ w.objs[i].ptr = NULL
    /\ w.objs[i].data # NULL => w.objs[i].data.ref \in {0} \cup DOMAIN w.objs

Collected(w) ==
  /\ \A i \in DOMAIN w.objs :
       /\ w.objs[i].data = NULL
       /\ w.objs[i].id \in DOMAIN table /\ table[w.objs[i].id] = w.objs[i].ptr
       /\ w.objs[i].cls = objects[w.objs[i].ptr].cls
       /\ w.hash[w.objs[i].id] = i
  /\ \A id \in Id : w.hash[id] # 0 =>
       w.hash[id] \in DOMAIN w.objs /\ w.objs[w.hash[id]].id = id
  /\ w.mask = {id \in Id : w.hash[id] # 0}

WriterSound(w) ==
  /\ w \in Writer
  /\ IF w.kind = "shallow" THEN Chunks(w) ELSE Collected(w)

WriterOK == writer # NULL => WriterSound(writer)

SInv ==
  /\ TableOK /\ ObjectsOK /\ DiskOK /\ PhaseOK /\ ReaderOK /\ GraphOK /\ RefsLive /\ WriterOK
  /\ FaultsForeseen

-----------------------------------------------------------------------------
(* Identifiers and objects.                                                 *)

LEMMA LiveIs == \A o : o \in Live <=> \E id \in DOMAIN table : table[id] = o
BY DEF Live, Table!Bindings, Table!Bound

LEMMA LiveIsNext == \A o : o \in Live' <=> \E id \in DOMAIN table' : table'[id] = o
BY DEF Live, Table!Bindings, Table!Bound

LEMMA LiveObjects ==
  ASSUME TableOK
  PROVE  Live \subseteq Object /\ NULL \notin Live
BY LiveIs, SessionAssumption DEF TableOK

LEMMA GetIDIs ==
  ASSUME TableOK, NEW id \in DOMAIN table
  PROVE  GetID(table[id]) = id
BY DEF GetID, TableOK

LEMMA GetIDOf ==
  ASSUME TableOK, NEW o \in Live
  PROVE  GetID(o) \in DOMAIN table /\ GetID(o) \in Id /\ table[GetID(o)] = o
BY LiveIs, GetIDIs DEF TableOK

LEMMA GetObjectIs ==
  ASSUME NEW id
  PROVE  GetObject(id) \in Live \cup {NULL}
BY LiveIs DEF GetObject

\* 0 is no identifier.
LEMMA NoObjectAtZero ==
  ASSUME TableOK
  PROVE  GetObject(0) = NULL
BY SessionAssumption DEF GetObject, TableOK

LEMMA BindKeeps ==
  ASSUME TableOK, NEW id \in Id, NEW o \in Object, Table!Bind(id, o)
  PROVE  /\ TableOK'
         /\ DOMAIN table' = DOMAIN table \cup {id} /\ id \notin DOMAIN table
         /\ table'[id] = o /\ \A jd \in DOMAIN table : table'[jd] = table[jd]
         /\ Live' = Live \cup {o} /\ o \notin Live
<1>1. /\ DOMAIN table' = DOMAIN table \cup {id} /\ id \notin DOMAIN table
      /\ table'[id] = o /\ \A jd \in DOMAIN table : table'[jd] = table[jd]
      /\ o \notin Live
  BY DEF Table!Bind, Table!Bound, Live, Table!Bindings
<1>2. Live' = Live \cup {o}
  BY <1>1, LiveIs, LiveIsNext
<1>3. TableOK'
  BY <1>1, LiveIs DEF TableOK
<1>4. QED BY <1>1, <1>2, <1>3

LEMMA UnbindKeeps ==
  ASSUME TableOK, NEW id, Table!Unbind(id)
  PROVE  TableOK' /\ Live' \subseteq Live
<1>1. DOMAIN table' = DOMAIN table \ {id} /\ \A jd \in DOMAIN table' : table'[jd] = table[jd]
  BY DEF Table!Unbind, Table!Bound
<1>2. QED BY <1>1, LiveIs, LiveIsNext DEF TableOK

LEMMA EmptyTable ==
  ASSUME table = Table!Empty
  PROVE  TableOK /\ Live = {}
<1>1. DOMAIN table = {}
  BY DEF Table!Empty
<1>2. QED BY <1>1, LiveIs DEF TableOK

LEMMA ClearedTable ==
  ASSUME Table!Clear
  PROVE  TableOK' /\ Live' = {}
<1>1. DOMAIN table' = {}
  BY DEF Table!Clear, Table!Empty
<1>2. QED BY <1>1, LiveIsNext DEF TableOK

-----------------------------------------------------------------------------
(* Readers.                                                                 *)

LEMMA ReaderParts ==
  ASSUME ReaderOK, reader # NULL
  PROVE  /\ reader \in Reader
         /\ reader.objs \in Seq(ReaderEntry)
         /\ DOMAIN reader.objs = 1 .. Len(reader.objs) /\ Len(reader.objs) \in Nat
         /\ \A i \in DOMAIN reader.objs : reader.objs[i] \in ReaderEntry
<1>1. reader \in Reader
  BY DEF ReaderOK
<1>2. reader.objs \in Seq(ReaderEntry)
  BY <1>1 DEF Reader
<1>3. QED BY <1>1, <1>2, LenProperties

\* One entry of a reader is changed.
LEMMA EntryChanged ==
  ASSUME reader \in Reader, NEW i \in DOMAIN reader.objs, NEW e \in ReaderEntry,
         reader' = [reader EXCEPT !.objs[i] = e]
  PROVE  /\ reader' \in Reader /\ reader' # NULL
         /\ DOMAIN reader'.objs = DOMAIN reader.objs
         /\ reader'.objs[i] = e
         /\ \A j \in DOMAIN reader.objs : j # i => reader'.objs[j] = reader.objs[j]
         /\ reader'.deep = reader.deep
<1>1. reader.objs \in Seq(ReaderEntry) /\ i \in 1 .. Len(reader.objs)
  BY LenProperties DEF Reader
<1> DEFINE after == [reader.objs EXCEPT ![i] = e]
<1>2. /\ after \in Seq(ReaderEntry) /\ Len(after) = Len(reader.objs)
      /\ \A j \in 1 .. Len(reader.objs) : after[j] = IF j = i THEN e ELSE reader.objs[j]
  BY <1>1, ExceptSeq
<1>3. DOMAIN after = DOMAIN reader.objs /\ DOMAIN reader.objs = 1 .. Len(reader.objs)
  BY <1>1, <1>2, LenProperties
<1>4. reader' = [reader EXCEPT !.objs = after]
  OBVIOUS
<1> HIDE DEF after
<1>5. reader' \in Reader /\ reader'.objs = after /\ reader'.deep = reader.deep
  BY <1>2, <1>4 DEF Reader
<1>6. QED BY <1>2, <1>3, <1>5, SessionAssumption

LEMMA ClosedParts ==
  ASSUME NEW doc, Closed(doc)
  PROVE  /\ DOMAIN doc.objs = 1 .. Len(doc.objs) /\ Len(doc.objs) \in Nat
         /\ DOMAIN doc.included = 1 .. Len(doc.included) /\ Len(doc.included) \in Nat
         /\ \A i \in DOMAIN doc.objs : doc.objs[i].data \in Data \cup {NULL}
         /\ \A i \in DOMAIN doc.objs :
              doc.objs[i].data # NULL => doc.objs[i].data.ref \in {0} \cup DOMAIN doc.objs
BY LenProperties DEF Closed

-----------------------------------------------------------------------------
(* Calls that touch neither the context nor a reader.                       *)

LEMMA ContextKept ==
  ASSUME SInv, UNCHANGED <<table, objects, reader, loaded, pc, at>>
  PROVE  TableOK' /\ ObjectsOK' /\ ReaderOK' /\ GraphOK' /\ RefsLive' /\ Live' = Live
<1>1. Live' = Live
  BY DEF Live, Table!Bindings, Table!Bound
<1>2. TableOK' /\ ObjectsOK' /\ ReaderOK'
  BY <1>1 DEF SInv, TableOK, ObjectsOK, ReaderOK
<1>3. GraphOK'
  BY <1>1 DEF SInv, GraphOK, EntryMade, EntryChunk, EntryRefers, OneEach, Seen, Read
<1>4. RefsLive'
  BY <1>1 DEF SInv, RefsLive
<1>5. QED BY <1>1, <1>2, <1>3, <1>4

\* What a writer knows of objects stays true while they live.
LEMMA WriterKept ==
  ASSUME WriterOK, UNCHANGED writer,
         \A id \in DOMAIN table : id \in DOMAIN table' /\ table'[id] = table[id],
         \A o \in Live : objects'[o].cls = objects[o].cls
  PROVE  WriterOK'
<1> SUFFICES ASSUME writer # NULL PROVE WriterSound(writer)'
  BY DEF WriterOK
<1>1. WriterSound(writer)
  BY DEF WriterOK
<1>2. CASE writer.kind = "shallow"
  BY <1>1, <1>2 DEF WriterSound, Chunks
<1>3. CASE writer.kind # "shallow"
  BY <1>1, <1>3, LiveIs DEF WriterSound, Collected
<1>4. QED BY <1>2, <1>3

LEMMA WriterStep ==
  ASSUME SInv, pc = "idle", UNCHANGED <<table, objects, reader, loaded, pc, at>>,
         DiskOK', WriterOK', FaultsForeseen'
  PROVE  SInv'
<1>1. PhaseOK'
  BY DEF SInv, PhaseOK
<1>2. QED BY <1>1, ContextKept DEF SInv

LEMMA NoFault ==
  ASSUME fault' = "none"
  PROVE  FaultsForeseen'
BY DEF FaultsForeseen

LEMMA NewWriterKeeps ==
  ASSUME SInv, NewWriter
  PROVE  SInv'
<1>1. /\ pc = "idle" /\ fault' = "none" /\ writer' = EmptyWriter("plain")
      /\ UNCHANGED <<table, objects, reader, loaded, pc, at, disk>>
  BY DEF NewWriter, Idle, context, call
<1>2. writer' \in Writer
  BY <1>1, EmptySeq DEF EmptyWriter, Writer
<1>3. Collected(writer)' /\ writer'.kind = "plain"
  BY <1>1 DEF EmptyWriter, Collected
<1>4. WriterOK'
  BY <1>2, <1>3 DEF WriterOK, WriterSound
<1>5. DiskOK'
  BY <1>1 DEF SInv, DiskOK
<1>6. QED BY <1>1, <1>4, <1>5, NoFault, WriterStep

\* A sequence is one of elements of a set when each of its elements is.
LEMMA IsSequence ==
  ASSUME NEW n \in Nat, NEW S, NEW s, s = [i \in 1 .. n |-> s[i]], \A i \in 1 .. n : s[i] \in S
  PROVE  s \in Seq(S)
<1>1. [i \in 1 .. n |-> s[i]] \in Seq(S)
  OBVIOUS
<1>2. QED BY <1>1

LEMMA NewShallowWriterKeeps ==
  ASSUME SInv, NewShallowWriter
  PROVE  SInv'
<1> DEFINE objs == [i \in DOMAIN reader.objs |->
                      [id |-> reader.objs[i].id, cls |-> reader.objs[i].cls,
                       ptr |-> NULL, data |-> reader.objs[i].data]]
<1>1. /\ pc = "idle" /\ fault' = "none" /\ reader # NULL
      /\ writer' = [EmptyWriter("shallow") EXCEPT
                      !.maxId = reader.maxId, !.objs = objs, !.included = reader.included]
      /\ UNCHANGED <<table, objects, reader, loaded, pc, at, disk>>
  BY DEF NewShallowWriter, Idle, context, call
<1>2. /\ reader \in Reader /\ DOMAIN reader.objs = 1 .. Len(reader.objs) /\ Len(reader.objs) \in Nat
      /\ \A i \in DOMAIN reader.objs : reader.objs[i] \in ReaderEntry
  BY <1>1, ReaderParts DEF SInv
<1>3. \A i \in DOMAIN reader.objs : objs[i] \in WriterEntry
  BY <1>2 DEF ReaderEntry, WriterEntry
<1>4. objs \in Seq(WriterEntry) /\ DOMAIN objs = DOMAIN reader.objs
  <2>1. DOMAIN objs = DOMAIN reader.objs /\ objs = [i \in DOMAIN objs |-> objs[i]]
    OBVIOUS
  <2> HIDE DEF objs
  <2>2. QED BY <1>2, <1>3, <2>1, IsSequence
<1>5. \A i \in DOMAIN objs : objs[i].ptr = NULL /\ objs[i].data = reader.objs[i].data
  OBVIOUS
<1>6. \A i \in DOMAIN objs : objs[i].data # NULL => objs[i].data.ref \in {0} \cup DOMAIN objs
  BY <1>1, <1>4, <1>5, ClosedParts DEF SInv, ReaderOK
<1> HIDE DEF objs
<1>7. writer' = [kind |-> "shallow", done |-> FALSE, maxId |-> reader.maxId, objs |-> objs,
                 hash |-> [id \in Id |-> 0], mask |-> {}, included |-> reader.included]
  BY <1>1 DEF EmptyWriter
<1>8. writer' \in Writer
  BY <1>2, <1>4, <1>7 DEF Writer, Reader
<1>9. writer'.kind = "shallow" /\ Chunks(writer)'
  BY <1>5, <1>6, <1>7 DEF Chunks
<1>10. WriterOK'
  BY <1>8, <1>9 DEF WriterOK, WriterSound
<1>11. DiskOK'
  BY <1>1 DEF SInv, DiskOK
<1>12. QED BY <1>1, <1>10, <1>11, NoFault, WriterStep

\* A sequence that has each element of a set once.
Enumerates(order, S) ==
  /\ DOMAIN order = 1 .. Len(order) /\ Len(order) \in Nat
  /\ \A k \in DOMAIN order : order[k] \in S
  /\ \A j, k \in DOMAIN order : order[j] = order[k] => j = k
  /\ \A i \in S : \E k \in DOMAIN order : order[k] = i

LEMMA InOrderIs ==
  ASSUME NEW n \in Nat, NEW S \in SUBSET (1 .. n), NEW order \in InOrder(S)
  PROVE  Enumerates(order, S)
<1> DEFINE c == Cardinality(S)
<1>1. IsFiniteSet(1 .. n)
  BY FS_Interval
<1>2. c \in Nat
  BY <1>1, FS_Subset, FS_CardinalityType
<1> HIDE DEF c
<1>3. order \in Bijection(1 .. c, S)
  BY DEF InOrder, c
<1>4. /\ order \in [1 .. c -> S]
      /\ \A j, k \in DOMAIN order : order[j] = order[k] => j = k
      /\ \A i \in S : \E k \in 1 .. c : order[k] = i
  BY <1>3 DEF Bijection, Injection, Surjection, IsInjective
<1>5. Len(order) = c
  BY <1>2, <1>4
<1>6. QED BY <1>2, <1>4, <1>5 DEF Enumerates

LEMMA NewDeepWriterKeeps ==
  ASSUME SInv, NewDeepWriter
  PROVE  SInv'
<1>1. /\ pc = "idle" /\ fault = "none" /\ reader # NULL /\ reader.deep
      /\ UNCHANGED <<table, objects, reader, loaded, pc, at, disk>>
  BY DEF NewDeepWriter, Idle, context, call
<1>2. DiskOK'
  BY <1>1 DEF SInv, DiskOK
<1>3. /\ DOMAIN reader.objs = 1 .. Len(reader.objs) /\ Len(reader.objs) \in Nat
  BY <1>1, ReaderParts DEF SInv
<1>4. CASE \A i \in ReaderObjects : reader.objs[i].ptr \in Live
  <2>1. PICK order \in InOrder(ReaderObjects) :
          LET os == [k \in DOMAIN order |-> reader.objs[order[k]].ptr]
              ids == {0} \cup {GetID(o) : o \in ToSet(os)}
          IN \E maxId \in ids : writer' = AddedAll(EmptyWriter("deep"), os, maxId)
    BY <1>4 DEF NewDeepWriter
  <2> DEFINE os == [k \in DOMAIN order |-> reader.objs[order[k]].ptr]
             ids == {0} \cup {GetID(o) : o \in ToSet(os)}
  <2>2. PICK maxId \in ids : writer' = AddedAll(EmptyWriter("deep"), os, maxId)
    BY <2>1
  <2>3. /\ DOMAIN order = 1 .. Len(order) /\ Len(order) \in Nat
        /\ \A k \in DOMAIN order : order[k] \in ReaderObjects
        /\ \A j, k \in DOMAIN order : order[j] = order[k] => j = k
    <3>1. ReaderObjects \in SUBSET (1 .. Len(reader.objs))
      BY <1>3 DEF ReaderObjects
    <3>2. Enumerates(order, ReaderObjects)
      BY <1>3, <3>1, InOrderIs
    <3>3. QED BY <3>2 DEF Enumerates
  <2>4. DOMAIN os = 1 .. Len(order) /\ \A k \in DOMAIN os : os[k] \in Live
    BY <1>4, <2>3
  <2>5. \A j, k \in DOMAIN os : os[j] = os[k] => j = k
    <3>1. \A i, j \in ReaderObjects : reader.objs[i].ptr = reader.objs[j].ptr => i = j
      BY <1>3 DEF ReaderObjects
    <3>2. QED BY <2>3, <3>1
  <2>6. fault' = "none"
    BY <1>1, <1>4 DEF NewDeepWriter, call
  <2> HIDE DEF os
  <2>7. WriterOK'
    <3> DEFINE hash == [id \in Id |-> IF \E k \in DOMAIN os : GetID(os[k]) = id
                             THEN CHOOSE k \in DOMAIN os : GetID(os[k]) = id ELSE 0]
               objs == [k \in DOMAIN os |-> FileObject(os[k])]
               mask == {GetID(o) : o \in ToSet(os)}
    <3>1. writer' = [kind |-> "deep", done |-> FALSE, maxId |-> maxId, objs |-> objs,
                     hash |-> hash, mask |-> mask, included |-> <<>>]
      BY <2>2 DEF AddedAll, EmptyWriter
    <3>2. \A k \in DOMAIN os : /\ GetID(os[k]) \in DOMAIN table /\ GetID(os[k]) \in Id
                               /\ table[GetID(os[k])] = os[k]
      BY <2>4, GetIDOf DEF SInv
    <3>3. \A j, k \in DOMAIN os : GetID(os[j]) = GetID(os[k]) => j = k
      BY <2>5, <3>2
    <3>4. \A k \in DOMAIN os : objs[k] = [id |-> GetID(os[k]), cls |-> objects[os[k]].cls,
                                          ptr |-> os[k], data |-> NULL]
      BY DEF FileObject
    <3>5. \A k \in DOMAIN os : hash[GetID(os[k])] = k
      BY <3>2, <3>3
    <3>6. \A id \in Id : hash[id] # 0 => hash[id] \in DOMAIN os /\ GetID(os[hash[id]]) = id
      OBVIOUS
    <3>7. mask = {id \in Id : hash[id] # 0}
      <4>1. mask = {GetID(os[k]) : k \in DOMAIN os}
        BY DEF ToSet
      <4>2. 0 \notin DOMAIN os
        BY <2>3, <2>4
      <4> HIDE DEF mask, hash
      <4>3. QED BY <3>2, <3>5, <3>6, <4>1, <4>2
    <3>8. hash \in [Id -> Nat]
      <4>1. \A id \in Id : hash[id] \in Nat
        BY <2>3, <2>4, <3>6
      <4>2. QED BY <4>1
    <3>9. \A k \in DOMAIN os : objs[k] \in WriterEntry
      <4>1. \A k \in DOMAIN os : os[k] \in Object /\ objects[os[k]].cls \in Class
        BY <2>4, LiveObjects, SessionAssumption DEF SInv, ObjectsOK
      <4>2. \A k \in DOMAIN os : GetID(os[k]) \in Nat
        BY <3>2, SessionAssumption
      <4>3. QED BY <3>4, <4>1, <4>2 DEF WriterEntry
    <3>10. DOMAIN objs = DOMAIN os /\ objs = [k \in DOMAIN objs |-> objs[k]]
      OBVIOUS
    <3>11. objs \in Seq(WriterEntry)
      <4> HIDE DEF objs
      <4>1. QED BY <2>3, <2>4, <3>9, <3>10, IsSequence
    <3>12. maxId \in Nat
      <4>1. maxId = 0 \/ \E k \in DOMAIN os : maxId = GetID(os[k])
        BY DEF ToSet
      <4>2. QED BY <3>2, <4>1, SessionAssumption
    <3> HIDE DEF hash, objs, mask
    <3>13. writer' \in Writer
      BY <3>1, <3>7, <3>8, <3>11, <3>12, EmptySeq DEF Writer
    <3>14. Collected(writer)'
      BY <1>1, <3>1, <3>2, <3>4, <3>5, <3>6, <3>7, <3>10 DEF Collected
    <3>15. writer'.kind = "deep"
      BY <3>1
    <3>16. QED BY <3>13, <3>14, <3>15 DEF WriterOK, WriterSound
  <2>8. QED BY <1>1, <1>2, <2>6, <2>7, NoFault, WriterStep
<1>5. CASE ~ \A i \in ReaderObjects : reader.objs[i].ptr \in Live
  <2>1. fault' = "freed_object" /\ writer' = writer /\ writer = NULL
    BY <1>5 DEF NewDeepWriter
  <2>2. WriterOK'
    BY <2>1 DEF WriterOK
  <2>3. PICK i \in DOMAIN reader.objs : reader.objs[i].ptr # NULL /\ reader.objs[i].ptr \notin Live
    BY <1>5 DEF ReaderObjects
  <2>4. ~ NoOldData(loaded)
    <3>1. SUFFICES ASSUME NoOldData(loaded) PROVE FALSE
      OBVIOUS
    <3>2. EntryMade(i)
      BY <1>1, <2>3, <3>1 DEF SInv, GraphOK, ReaderOK
    <3>3. QED BY <2>3, <3>2, LiveIs DEF EntryMade
  <2>5. ~ NoOldData(loaded)'
    BY <1>1, <2>4 DEF NoOldData
  <2>6. FaultsForeseen'
    BY <2>1, <2>5 DEF FaultsForeseen
  <2>7. QED BY <1>1, <1>2, <2>2, <2>6, WriterStep
<1>6. QED BY <1>4, <1>5

LEMMA WriterParts ==
  ASSUME WriterOK, writer # NULL
  PROVE  /\ WriterSound(writer) /\ writer \in Writer
         /\ writer.objs \in Seq(WriterEntry) /\ writer.included \in Seq(Name)
         /\ DOMAIN writer.objs = 1 .. Len(writer.objs) /\ Len(writer.objs) \in Nat
         /\ \A i \in DOMAIN writer.objs : writer.objs[i] \in WriterEntry
         /\ writer.kind # "shallow" => Collected(writer)
<1>1. WriterSound(writer) /\ writer \in Writer
  BY DEF WriterOK, WriterSound
<1>2. writer.objs \in Seq(WriterEntry) /\ writer.included \in Seq(Name)
  BY <1>1 DEF Writer
<1>3. QED BY <1>1, <1>2, LenProperties DEF WriterSound

\* InternalObjectAdder keeps the table of positions exact.
LEMMA AddedSound ==
  ASSUME TableOK, ObjectsOK, WriterOK, writer # NULL, writer.kind # "shallow", NEW o \in Live,
         UNCHANGED <<table, objects>>, writer' = Added(writer, o)
  PROVE  WriterOK'
<1> DEFINE id == GetID(o)
           n == Len(writer.objs) + 1
<1>1. /\ writer \in Writer /\ writer.objs \in Seq(WriterEntry)
      /\ DOMAIN writer.objs = 1 .. Len(writer.objs) /\ Len(writer.objs) \in Nat
      /\ Collected(writer)
  BY WriterParts
<1>2. id \in DOMAIN table /\ id \in Id /\ table[id] = o /\ id \in Nat
  BY GetIDOf, SessionAssumption
<1>3. CASE id \in writer.mask
  <2>1. writer' = writer
    BY <1>3 DEF Added
  <2>2. QED BY <2>1, WriterKept
<1>4. CASE id \notin writer.mask
  <2> DEFINE hash == [writer.hash EXCEPT ![id] = n]
             objs == Append(writer.objs, FileObject(o))
             mask == writer.mask \cup {id}
             maxId == IF id > writer.maxId THEN id ELSE writer.maxId
  <2>1. writer.hash \in [Id -> Nat] /\ writer.hash[id] = 0
    BY <1>1, <1>2, <1>4 DEF Writer, Collected
  <2>2. writer' = [writer EXCEPT !.hash = hash, !.mask = mask, !.maxId = maxId, !.objs = objs]
    BY <1>4, <2>1 DEF Added
  <2>3. FileObject(o) \in WriterEntry
    <3>1. o \in Object /\ objects[o].cls \in Class
      BY LiveObjects, SessionAssumption DEF ObjectsOK
    <3>2. QED BY <1>2, <3>1 DEF FileObject, WriterEntry
  <2>4. /\ objs \in Seq(WriterEntry) /\ DOMAIN objs = 1 .. n
        /\ \A i \in DOMAIN writer.objs : objs[i] = writer.objs[i]
        /\ objs[n] = FileObject(o)
    BY <1>1, <2>3
  <2>5. /\ hash \in [Id -> Nat] /\ hash[id] = n
        /\ \A jd \in Id : jd # id => hash[jd] = writer.hash[jd]
    BY <1>1, <1>2, <2>1
  <2>6. maxId \in Nat /\ mask \in SUBSET Id
    BY <1>1, <1>2 DEF Writer
  <2> HIDE DEF hash, objs, mask, maxId
  <2>7. /\ writer'.kind = writer.kind /\ writer'.hash = hash /\ writer'.mask = mask
        /\ writer'.objs = objs /\ writer' \in Writer
    BY <1>1, <2>2, <2>4, <2>5, <2>6 DEF Writer
  <2>8. Collected(writer)'
    <3>1. \A i \in DOMAIN writer.objs : writer.objs[i].id # id /\ writer.objs[i].id \in Id
      BY <1>1, <2>1 DEF Collected, TableOK
    <3>2. ASSUME NEW i \in DOMAIN objs
          PROVE  /\ objs[i].data = NULL
                 /\ objs[i].id \in DOMAIN table /\ table[objs[i].id] = objs[i].ptr
                 /\ objs[i].cls = objects[objs[i].ptr].cls
                 /\ hash[objs[i].id] = i
      <4>1. CASE i \in DOMAIN writer.objs
        BY <1>1, <2>4, <2>5, <3>1, <4>1 DEF Collected
      <4>2. CASE i = n
        BY <1>2, <2>4, <2>5, <4>2 DEF FileObject
      <4>3. QED BY <1>1, <2>4, <4>1, <4>2
    <3>3. ASSUME NEW jd \in Id, hash[jd] # 0
          PROVE  hash[jd] \in DOMAIN objs /\ objs[hash[jd]].id = jd
      <4>1. CASE jd = id
        BY <1>1, <2>4, <2>5, <4>1 DEF FileObject
      <4>2. CASE jd # id
        BY <1>1, <2>4, <2>5, <3>3, <4>2 DEF Collected
      <4>3. QED BY <4>1, <4>2
    <3>4. mask = {jd \in Id : hash[jd] # 0}
      BY <1>1, <1>2, <2>5 DEF Collected, mask
    <3>5. QED BY <2>7, <3>2, <3>3, <3>4 DEF Collected
  <2>9. QED BY <2>7, <2>8 DEF WriterOK, WriterSound
<1>5. QED BY <1>3, <1>4

LEMMA AddSavedObjectKeeps ==
  ASSUME SInv, NEW o \in Live, AddSavedObject(o)
  PROVE  SInv'
<1>1. /\ pc = "idle" /\ fault' = "none" /\ writer # NULL /\ writer.kind # "shallow"
      /\ writer' = Added(writer, o)
      /\ UNCHANGED <<table, objects, reader, loaded, pc, at, disk>>
  BY DEF AddSavedObject, Idle, context, call
<1>2. WriterOK'
  BY <1>1, AddedSound DEF SInv
<1>3. DiskOK'
  BY <1>1 DEF SInv, DiskOK
<1>4. QED BY <1>1, <1>2, <1>3, NoFault, WriterStep

\* A writer may be given other files.
LEMMA OtherFiles ==
  ASSUME WriterOK, writer # NULL, UNCHANGED <<table, objects>>, NEW files \in Seq(Name),
         writer' = [writer EXCEPT !.included = files]
  PROVE  WriterOK'
<1>1. writer \in Writer
  BY WriterParts
<1>2. /\ writer'.kind = writer.kind /\ writer'.hash = writer.hash /\ writer'.mask = writer.mask
      /\ writer'.objs = writer.objs /\ writer' \in Writer
  BY <1>1 DEF Writer
<1>3. Chunks(writer) => Chunks(writer)'
  BY <1>2 DEF Chunks
<1>4. Collected(writer) => Collected(writer)'
  BY <1>2 DEF Collected
<1>5. QED BY <1>2, <1>3, <1>4 DEF WriterOK, WriterSound

LEMMA AddSavedFileKeeps ==
  ASSUME SInv, NEW name \in Name, AddSavedFile(name)
  PROVE  SInv'
<1>1. /\ pc = "idle" /\ fault' = "none" /\ writer # NULL
      /\ writer' = [writer EXCEPT !.included = Append(@, name)]
      /\ UNCHANGED <<table, objects, reader, loaded, pc, at, disk>>
  BY DEF AddSavedFile, Idle, context, call
<1>2. Append(writer.included, name) \in Seq(Name)
  BY <1>1, WriterParts DEF SInv
<1>3. WriterOK'
  BY <1>1, <1>2, OtherFiles DEF SInv
<1>4. DiskOK'
  BY <1>1 DEF SInv, DiskOK
<1>5. QED BY <1>1, <1>3, <1>4, NoFault, WriterStep

LEMMA DropWriterKeeps ==
  ASSUME SInv, DropWriter
  PROVE  SInv'
<1>1. /\ pc = "idle" /\ fault' = "none" /\ writer' = NULL
      /\ UNCHANGED <<table, objects, reader, loaded, pc, at, disk>>
  BY DEF DropWriter, Idle, context, call
<1>2. WriterOK' /\ DiskOK'
  BY <1>1 DEF SInv, DiskOK, WriterOK
<1>3. QED BY <1>1, <1>2, NoFault, WriterStep

LEMMA SaveCrashesKeeps ==
  ASSUME SInv, SaveCrashes
  PROVE  SInv'
<1>1. /\ pc = "idle" /\ writer # NULL
      /\ UNCHANGED <<table, objects, reader, loaded, writer, pc, at, disk>>
  BY DEF SaveCrashes, Idle, context
<1>2. PICK i \in Saving :
        ~ Readable(i) /\ fault' = IF writer.objs[i].ptr = NULL THEN "null_object" ELSE "freed_object"
  BY DEF SaveCrashes
<1>3. i \in DOMAIN writer.objs
  BY DEF Saving
<1>4. WriterSound(writer)
  BY <1>1, WriterParts DEF SInv
<1>5. CASE writer.kind = "shallow"
  <2>1. fault' = "null_object"
    BY <1>2, <1>3, <1>4, <1>5 DEF WriterSound, Chunks
  <2>2. FaultsForeseen'
    BY <1>1, <1>5, <2>1 DEF FaultsForeseen
  <2>3. WriterOK' /\ DiskOK'
    BY <1>1, WriterKept DEF SInv, DiskOK
  <2>4. QED BY <1>1, <2>2, <2>3, WriterStep
<1>6. CASE writer.kind # "shallow"
  <2>1. writer.objs[i].ptr \in Live
    BY <1>3, <1>4, <1>6, LiveIs DEF WriterSound, Collected
  <2>2. fault' = "freed_object" /\ objects[writer.objs[i].ptr].ref \notin Live \cup {NULL}
    BY <1>2, <2>1, LiveObjects DEF SInv, Readable
  <2>3. ~ NoOldData(loaded)
    BY <2>1, <2>2 DEF SInv, RefsLive
  <2>4. FaultsForeseen'
    BY <1>1, <2>2, <2>3 DEF FaultsForeseen, NoOldData
  <2>5. WriterOK'
    BY <1>1, WriterKept DEF SInv
  <2>6. DiskOK'
    BY <1>1 DEF SInv, DiskOK
  <2>7. QED BY <1>1, <2>4, <2>5, <2>6, WriterStep
<1>7. QED BY <1>5, <1>6

-----------------------------------------------------------------------------
(* Saving.                                                                  *)

\* Where the objects an object refers to are found.
LEMMA IndexOfIs ==
  ASSUME TableOK, writer \in Writer, Collected(writer), NEW o \in Live \cup {NULL}
  PROVE  /\ IndexOf(o) \in {0} \cup DOMAIN writer.objs /\ IndexOf(o) \in Nat
         /\ \A j \in DOMAIN writer.objs : IndexOf(o) = j <=> o = writer.objs[j].ptr
<1>1. /\ writer.hash \in [Id -> Nat] /\ writer.objs \in Seq(WriterEntry)
      /\ DOMAIN writer.objs = 1 .. Len(writer.objs)
  BY LenProperties DEF Writer
<1>2. \A j \in DOMAIN writer.objs : writer.objs[j].ptr \in Live /\ writer.objs[j].ptr # NULL
  BY LiveIs, LiveObjects DEF Collected
<1>3. CASE o = NULL
  BY <1>1, <1>2, <1>3 DEF IndexOf
<1>4. CASE o # NULL
  <2> DEFINE id == GetID(o)
  <2>1. o \in Live /\ id \in DOMAIN table /\ id \in Id /\ table[id] = o
    BY <1>4, GetIDOf
  <2>2. IndexOf(o) = writer.hash[id]
    BY <1>4 DEF IndexOf
  <2> HIDE DEF id
  <2>3. IndexOf(o) \in {0} \cup DOMAIN writer.objs /\ IndexOf(o) \in Nat
    BY <1>1, <2>1, <2>2 DEF Collected
  <2>4. ASSUME NEW j \in DOMAIN writer.objs PROVE IndexOf(o) = j <=> o = writer.objs[j].ptr
    <3>1. j # 0
      BY <1>1
    <3>2. ASSUME IndexOf(o) = j PROVE o = writer.objs[j].ptr
      <4>1. writer.hash[id] = j /\ writer.hash[id] # 0
        BY <2>2, <3>1, <3>2
      <4>2. writer.objs[j].id = id
        BY <2>1, <4>1 DEF Collected
      <4>3. QED BY <2>1, <4>2 DEF Collected
    <3>3. o = writer.objs[j].ptr => IndexOf(o) = j
      BY <2>1, <2>2 DEF Collected, TableOK
    <3>4. QED BY <3>2, <3>3
  <2>5. QED BY <2>3, <2>4
<1>5. QED BY <1>3, <1>4

\* What is saved: the chunks of the document, or those of the objects.
LEMMA ChunksMade ==
  ASSUME TableOK, ObjectsOK, WriterOK, writer # NULL, \A i \in Saving : Readable(i)
  PROVE  /\ WithChunks \in Seq(WriterEntry) /\ DOMAIN WithChunks = DOMAIN writer.objs
         /\ \A i \in DOMAIN writer.objs :
              /\ WithChunks[i].data \in Data
              /\ WithChunks[i].data.ref \in {0} \cup DOMAIN writer.objs
              /\ WithChunks[i].id = writer.objs[i].id /\ WithChunks[i].cls = writer.objs[i].cls
              /\ WithChunks[i].ptr = writer.objs[i].ptr
              /\ writer.kind # "shallow" =>
                   WithChunks[i].data.ref = IndexOf(objects[writer.objs[i].ptr].ref)
<1>1. /\ WriterSound(writer) /\ writer \in Writer
      /\ DOMAIN writer.objs = 1 .. Len(writer.objs) /\ Len(writer.objs) \in Nat
      /\ \A i \in DOMAIN writer.objs : writer.objs[i] \in WriterEntry
  BY WriterParts
<1>2. ASSUME NEW i \in DOMAIN writer.objs, writer.objs[i].data # NULL
      PROVE  /\ WithChunks[i] = writer.objs[i] /\ writer.kind = "shallow"
             /\ WithChunks[i].data \in Data
             /\ WithChunks[i].data.ref \in {0} \cup DOMAIN writer.objs
  <2>1. WithChunks[i] = writer.objs[i] /\ WithChunks[i].data \in Data
    BY <1>1, <1>2 DEF WithChunks, WriterEntry
  <2>2. writer.kind = "shallow" /\ Chunks(writer)
    BY <1>1, <1>2 DEF WriterSound, Collected
  <2>3. QED BY <1>2, <2>1, <2>2 DEF Chunks
<1>3. ASSUME NEW i \in DOMAIN writer.objs, writer.objs[i].data = NULL
      PROVE  /\ writer.kind # "shallow" /\ objects[writer.objs[i].ptr].ref \in Live \cup {NULL}
             /\ WithChunks[i] = [writer.objs[i] EXCEPT
                  !.data = [kind |-> "current", ref |-> IndexOf(objects[writer.objs[i].ptr].ref)]]
             /\ IndexOf(objects[writer.objs[i].ptr].ref) \in {0} \cup DOMAIN writer.objs
             /\ IndexOf(objects[writer.objs[i].ptr].ref) \in Nat
  <2>1. writer.objs[i].ptr \in Live /\ objects[writer.objs[i].ptr].ref \in Live \cup {NULL}
    BY <1>3 DEF Saving, Readable
  <2>2. writer.kind # "shallow" /\ Collected(writer)
    BY <1>1, <2>1, LiveObjects DEF WriterSound, Chunks
  <2>3. WithChunks[i] = [writer.objs[i] EXCEPT
                  !.data = [kind |-> "current", ref |-> IndexOf(objects[writer.objs[i].ptr].ref)]]
    BY <1>3 DEF WithChunks, Chunk
  <2>4. QED BY <1>1, <2>1, <2>2, <2>3, IndexOfIs
<1>4. ASSUME NEW i \in DOMAIN writer.objs
      PROVE  /\ WithChunks[i] \in WriterEntry
             /\ WithChunks[i].data \in Data
             /\ WithChunks[i].data.ref \in {0} \cup DOMAIN writer.objs
             /\ WithChunks[i].id = writer.objs[i].id /\ WithChunks[i].cls = writer.objs[i].cls
             /\ WithChunks[i].ptr = writer.objs[i].ptr
             /\ writer.kind # "shallow" =>
                  WithChunks[i].data.ref = IndexOf(objects[writer.objs[i].ptr].ref)
  <2> DEFINE data == [kind |-> "current", ref |-> IndexOf(objects[writer.objs[i].ptr].ref)]
  <2>1. writer.objs[i] \in WriterEntry
    BY <1>1
  <2>2. CASE writer.objs[i].data # NULL
    BY <1>2, <2>1, <2>2
  <2>3. CASE writer.objs[i].data = NULL
    <3>1. data \in Data /\ data.ref = IndexOf(objects[writer.objs[i].ptr].ref)
      BY <1>3, <2>3 DEF Data
    <3>2. data.ref \in {0} \cup DOMAIN writer.objs /\ WithChunks[i] = [writer.objs[i] EXCEPT !.data = data]
      BY <1>3, <2>3
    <3> HIDE DEF data
    <3>3. QED BY <2>1, <3>1, <3>2 DEF WriterEntry
  <2>4. QED BY <2>2, <2>3
<1>5. DOMAIN WithChunks = DOMAIN writer.objs /\ WithChunks = [i \in DOMAIN WithChunks |-> WithChunks[i]]
  BY DEF WithChunks
<1>6. WithChunks \in Seq(WriterEntry)
  BY <1>1, <1>4, <1>5, IsSequence
<1>7. QED BY <1>4, <1>5, <1>6

\* The files of the bitmaps follow those that were there.
LEMMA FilesAdded ==
  ASSUME WriterOK, writer # NULL, NEW order \in InOrder(Bitmaps)
  PROVE  /\ WithFiles(order) \in Seq(Name)
         /\ \A i \in Bitmaps : \E k \in DOMAIN WithFiles(order) :
              WithFiles(order)[k] = Includes[writer.objs[i].cls]
<1> DEFINE names == [k \in DOMAIN order |-> Includes[writer.objs[order[k]].cls]]
           all == writer.included \o names
<1>1. /\ DOMAIN writer.objs = 1 .. Len(writer.objs) /\ Len(writer.objs) \in Nat
      /\ \A i \in DOMAIN writer.objs : writer.objs[i] \in WriterEntry
      /\ writer.included \in Seq(Name)
  BY WriterParts
<1>2. Bitmaps \in SUBSET (1 .. Len(writer.objs))
  BY <1>1 DEF Bitmaps, Saving
<1>3. Enumerates(order, Bitmaps)
  BY <1>1, <1>2, InOrderIs
<1>4. /\ DOMAIN order = 1 .. Len(order) /\ Len(order) \in Nat
      /\ \A k \in DOMAIN order : order[k] \in Bitmaps
      /\ \A i \in Bitmaps : \E k \in DOMAIN order : order[k] = i
  BY <1>3 DEF Enumerates
<1>5. \A i \in Bitmaps : Includes[writer.objs[i].cls] \in Name
  BY <1>1, <1>2 DEF Bitmaps, WriterEntry, Name
<1>6. DOMAIN names = 1 .. Len(order) /\ names = [k \in DOMAIN names |-> names[k]]
  BY <1>4
<1>7. \A k \in DOMAIN names : names[k] \in Name /\ names[k] = Includes[writer.objs[order[k]].cls]
  BY <1>4, <1>5
<1> HIDE DEF names
<1>8. names \in Seq(Name)
  BY <1>4, <1>6, <1>7, IsSequence
<1>9. /\ all \in Seq(Name) /\ DOMAIN all = 1 .. Len(writer.included) + Len(names)
      /\ \A k \in 1 .. Len(names) : all[Len(writer.included) + k] = names[k]
      /\ Len(writer.included) \in Nat
  BY <1>1, <1>8
<1>10. DOMAIN names = 1 .. Len(names) /\ Len(names) \in Nat
  BY <1>8, LenProperties
<1> HIDE DEF all
<1>11. ASSUME NEW i \in Bitmaps
       PROVE  \E k \in DOMAIN all : all[k] = Includes[writer.objs[i].cls]
  <2>1. PICK k \in DOMAIN names : order[k] = i
    BY <1>4, <1>6
  <2>2. all[Len(writer.included) + k] = Includes[writer.objs[i].cls]
    BY <1>7, <1>9, <1>10, <2>1
  <2>3. Len(writer.included) + k \in DOMAIN all
    BY <1>9, <1>10
  <2>4. QED BY <2>2, <2>3
<1>12. WithFiles(order) = all
  BY DEF WithFiles, all, names
<1>13. QED BY <1>9, <1>11, <1>12

\* The parts of a document that is written.
HasParts(doc, objs, maxId, files) ==
  /\ doc.maxId = maxId
  /\ DOMAIN doc.objs = DOMAIN objs /\ doc.objs = [i \in DOMAIN doc.objs |-> doc.objs[i]]
  /\ \A i \in DOMAIN objs : /\ doc.objs[i].id = objs[i].id /\ doc.objs[i].cls = objs[i].cls
                            /\ doc.objs[i].data = objs[i].data
  /\ DOMAIN doc.included = DOMAIN files
  /\ doc.included = [k \in DOMAIN doc.included |-> doc.included[k]]
  /\ \A k \in DOMAIN files : doc.included[k].name = files[k]

LEMMA DocumentIs ==
  ASSUME NEW objs, NEW maxId, NEW files
  PROVE  HasParts(Document(objs, maxId, files), objs, maxId, files)
BY DEF Document, HasParts

LEMMA DocumentClosed ==
  ASSUME NEW objs \in Seq(WriterEntry), NEW maxId \in Nat, NEW files \in Seq(Name),
         \A i \in DOMAIN objs : objs[i].data \in Data /\ objs[i].data.ref \in {0} \cup DOMAIN objs
  PROVE  Closed(Document(objs, maxId, files))
<1> DEFINE doc == Document(objs, maxId, files)
<1>1. /\ doc.maxId = maxId
      /\ DOMAIN doc.objs = DOMAIN objs /\ doc.objs = [i \in DOMAIN doc.objs |-> doc.objs[i]]
      /\ \A i \in DOMAIN objs : /\ doc.objs[i].id = objs[i].id /\ doc.objs[i].cls = objs[i].cls
                                /\ doc.objs[i].data = objs[i].data
      /\ DOMAIN doc.included = DOMAIN files
      /\ doc.included = [k \in DOMAIN doc.included |-> doc.included[k]]
      /\ \A k \in DOMAIN files : doc.included[k].name = files[k]
  <2>1. HasParts(doc, objs, maxId, files)
    BY DocumentIs
  <2> HIDE DEF doc
  <2>2. QED BY <2>1 DEF HasParts
<1> HIDE DEF doc
<1>2. /\ DOMAIN objs = 1 .. Len(objs) /\ Len(objs) \in Nat
      /\ \A i \in DOMAIN objs : objs[i] \in WriterEntry
      /\ DOMAIN files = 1 .. Len(files) /\ Len(files) \in Nat
      /\ \A k \in DOMAIN files : files[k] \in Name
  BY LenProperties
<1>3. doc.objs \in Seq(ToSet(doc.objs))
  <2>1. \A i \in DOMAIN doc.objs : doc.objs[i] \in ToSet(doc.objs)
    BY DEF ToSet
  <2>2. QED BY <1>1, <1>2, <2>1, IsSequence
<1>4. doc.included \in Seq(ToSet(doc.included))
  <2>1. \A k \in DOMAIN doc.included : doc.included[k] \in ToSet(doc.included)
    BY DEF ToSet
  <2>2. QED BY <1>1, <1>2, <2>1, IsSequence
<1>5. \A i \in DOMAIN doc.objs :
        /\ doc.objs[i].id \in Nat /\ doc.objs[i].cls \in Class
        /\ doc.objs[i].data \in Data
        /\ doc.objs[i].data.ref \in {0} \cup DOMAIN doc.objs
  BY <1>1, <1>2 DEF WriterEntry
<1>6. QED BY <1>1, <1>2, <1>3, <1>4, <1>5 DEF Closed, doc

\* Chunks are deleted while they are written.
LEMMA ReleasedSound ==
  ASSUME TableOK, WriterOK, writer # NULL, UNCHANGED <<table, objects>>,
         NEW objs \in Seq(WriterEntry), DOMAIN objs = DOMAIN writer.objs,
         \A i \in DOMAIN writer.objs :
            objs[i].id = writer.objs[i].id /\ objs[i].cls = writer.objs[i].cls
              /\ objs[i].ptr = writer.objs[i].ptr,
         NEW files \in Seq(Name), NEW done \in BOOLEAN,
         writer' = [writer EXCEPT !.objs = Released(objs), !.included = files, !.done = done]
  PROVE  WriterOK'
<1> DEFINE free == Released(objs)
<1>1. /\ WriterSound(writer) /\ writer \in Writer
      /\ DOMAIN writer.objs = 1 .. Len(writer.objs) /\ Len(writer.objs) \in Nat
  BY WriterParts
<1>2. \A i \in DOMAIN objs : objs[i] \in WriterEntry
  BY LenProperties
<1>3. /\ DOMAIN free = DOMAIN writer.objs /\ free = [i \in DOMAIN free |-> free[i]]
      /\ \A i \in DOMAIN objs : free[i] = [objs[i] EXCEPT !.data = NULL]
  BY DEF Released
<1> HIDE DEF free
<1>4. \A i \in DOMAIN objs :
        /\ free[i] \in WriterEntry /\ free[i].data = NULL /\ free[i].ptr = writer.objs[i].ptr
        /\ free[i].id = writer.objs[i].id /\ free[i].cls = writer.objs[i].cls
  <2>1. \A entry \in WriterEntry :
          LET after == [entry EXCEPT !.data = NULL]
          IN /\ after \in WriterEntry /\ after.data = NULL /\ after.ptr = entry.ptr
             /\ after.id = entry.id /\ after.cls = entry.cls
    BY DEF WriterEntry
  <2>2. SUFFICES ASSUME NEW i \in DOMAIN objs
                 PROVE  /\ free[i] \in WriterEntry /\ free[i].data = NULL
                        /\ free[i].ptr = writer.objs[i].ptr
                        /\ free[i].id = writer.objs[i].id /\ free[i].cls = writer.objs[i].cls
    OBVIOUS
  <2>3. objs[i] \in WriterEntry /\ free[i] = [objs[i] EXCEPT !.data = NULL]
    BY <1>2, <1>3
  <2>4. /\ free[i] \in WriterEntry /\ free[i].data = NULL /\ free[i].ptr = objs[i].ptr
        /\ free[i].id = objs[i].id /\ free[i].cls = objs[i].cls
    BY <2>1, <2>3
  <2>5. QED BY <2>4
<1>5. free \in Seq(WriterEntry)
  BY <1>1, <1>3, <1>4, IsSequence
<1>6. writer' = [writer EXCEPT !.objs = free, !.included = files, !.done = done]
  BY DEF free
<1>7. /\ writer'.kind = writer.kind /\ writer'.hash = writer.hash /\ writer'.mask = writer.mask
      /\ writer'.objs = free /\ writer' \in Writer
  BY <1>1, <1>5, <1>6 DEF Writer
<1>8. Chunks(writer) => Chunks(writer)'
  BY <1>3, <1>4, <1>7 DEF Chunks
<1>9. ASSUME Collected(writer) PROVE Collected(writer)'
  <2>1. \A i \in DOMAIN writer.objs :
          /\ writer.objs[i].id \in DOMAIN table /\ table[writer.objs[i].id] = writer.objs[i].ptr
          /\ writer.objs[i].cls = objects[writer.objs[i].ptr].cls
          /\ writer.hash[writer.objs[i].id] = i
    BY <1>9 DEF Collected
  <2>2. \A i \in DOMAIN free :
          /\ free[i].data = NULL
          /\ free[i].id \in DOMAIN table /\ table[free[i].id] = free[i].ptr
          /\ free[i].cls = objects[free[i].ptr].cls
          /\ writer.hash[free[i].id] = i
    BY <1>3, <1>4, <2>1
  <2>3. \A id \in Id : writer.hash[id] # 0 =>
          writer.hash[id] \in DOMAIN free /\ free[writer.hash[id]].id = id
    BY <1>3, <1>4, <1>9 DEF Collected
  <2>4. writer.mask = {id \in Id : writer.hash[id] # 0}
    BY <1>9 DEF Collected
  <2>5. QED BY <1>7, <2>2, <2>3, <2>4 DEF Collected
<1>10. QED BY <1>1, <1>7, <1>8, <1>9 DEF WriterOK, WriterSound

LEMMA SaveKeeps ==
  ASSUME SInv, NEW opened \in BOOLEAN, Save(opened)
  PROVE  SInv'
<1>1. /\ pc = "idle" /\ fault' = "none" /\ writer # NULL /\ \A i \in Saving : Readable(i)
      /\ UNCHANGED <<table, objects, reader, loaded, pc, at>>
  BY DEF Save, Idle, context, call
<1>2. PICK order \in InOrder(Bitmaps) :
       /\ writer' = [writer EXCEPT !.objs = Released(WithChunks), !.included = WithFiles(order),
                                   !.done = opened]
       /\ disk' = IF opened THEN Document(WithChunks, writer.maxId, WithFiles(order))
                  ELSE IF disk = ABSENT THEN BROKEN ELSE disk
  BY DEF Save
<1>3. WithFiles(order) \in Seq(Name)
  BY <1>1, FilesAdded DEF SInv
<1>4. /\ WithChunks \in Seq(WriterEntry) /\ DOMAIN WithChunks = DOMAIN writer.objs
      /\ \A i \in DOMAIN writer.objs :
           /\ WithChunks[i].data \in Data
           /\ WithChunks[i].data.ref \in {0} \cup DOMAIN writer.objs
           /\ WithChunks[i].id = writer.objs[i].id /\ WithChunks[i].cls = writer.objs[i].cls
           /\ WithChunks[i].ptr = writer.objs[i].ptr
  BY <1>1, ChunksMade DEF SInv
<1>5. WriterOK'
  BY <1>1, <1>2, <1>3, <1>4, ReleasedSound DEF SInv
<1>6. writer.maxId \in Nat
  BY <1>1, WriterParts DEF SInv, Writer
<1>7. Closed(Document(WithChunks, writer.maxId, WithFiles(order)))
  BY <1>3, <1>4, <1>6, DocumentClosed
<1>8. DiskOK'
  <2>1. CASE opened
    BY <1>2, <1>7, <2>1 DEF DiskOK
  <2>2. CASE ~ opened
    BY <1>2, <2>2 DEF SInv, DiskOK
  <2>3. QED BY <2>1, <2>2
<1>9. QED BY <1>1, <1>5, <1>8, NoFault, WriterStep

-----------------------------------------------------------------------------
(* The client.                                                              *)

\* A new object is referred to by none, and refers to none.
LEMMA ObjectBound ==
  ASSUME TableOK, ObjectsOK, NEW id \in Id, NEW o \in Object, NEW cls \in Registered,
         Table!Bind(id, o), objects' = [objects EXCEPT ![o] = [cls |-> cls, ref |-> NULL]]
  PROVE  /\ TableOK' /\ ObjectsOK'
         /\ DOMAIN table' = DOMAIN table \cup {id} /\ id \notin DOMAIN table
         /\ table'[id] = o /\ \A jd \in DOMAIN table : table'[jd] = table[jd]
         /\ Live' = Live \cup {o} /\ o \notin Live
         /\ objects'[o] = [cls |-> cls, ref |-> NULL]
         /\ \A p \in Live : objects'[p] = objects[p]
<1>1. /\ TableOK'
      /\ DOMAIN table' = DOMAIN table \cup {id} /\ id \notin DOMAIN table
      /\ table'[id] = o /\ \A jd \in DOMAIN table : table'[jd] = table[jd]
      /\ Live' = Live \cup {o} /\ o \notin Live
  BY BindKeeps
<1>2. /\ DOMAIN objects' = Object /\ objects'[o] = [cls |-> cls, ref |-> NULL]
      /\ \A p \in Live : objects'[p] = objects[p]
  BY <1>1, LiveObjects DEF ObjectsOK
<1>3. ObjectsOK'
  BY <1>1, <1>2 DEF ObjectsOK
<1>4. QED BY <1>1, <1>2, <1>3

LEMMA MakeObjectKeeps ==
  ASSUME SInv, NEW id \in Id, NEW o \in Object, NEW cls \in Registered, MakeObject(id, o, cls)
  PROVE  SInv'
<1>1. /\ pc = "idle" /\ fault' = "none" /\ reader = NULL
      /\ Table!Bind(id, o) /\ objects' = [objects EXCEPT ![o] = [cls |-> cls, ref |-> NULL]]
      /\ UNCHANGED <<disk, reader, loaded, writer, pc, at>>
  BY DEF MakeObject, Idle, call
<1>2. /\ TableOK' /\ ObjectsOK'
      /\ \A jd \in DOMAIN table : jd \in DOMAIN table' /\ table'[jd] = table[jd]
      /\ Live' = Live \cup {o} /\ objects'[o].ref = NULL
      /\ \A p \in Live : objects'[p] = objects[p]
  <2>1. TableOK /\ ObjectsOK
    BY DEF SInv
  <2>2. /\ TableOK' /\ ObjectsOK'
        /\ DOMAIN table' = DOMAIN table \cup {id}
        /\ \A jd \in DOMAIN table : table'[jd] = table[jd]
        /\ Live' = Live \cup {o} /\ objects'[o] = [cls |-> cls, ref |-> NULL]
        /\ \A p \in Live : objects'[p] = objects[p]
    BY <1>1, <2>1, ObjectBound
  <2>3. QED BY <2>2
<1>3. RefsLive'
  BY <1>1, <1>2 DEF SInv, RefsLive
<1>4. WriterOK'
  BY <1>1, <1>2, WriterKept DEF SInv
<1>5. DiskOK' /\ PhaseOK' /\ ReaderOK' /\ GraphOK' /\ FaultsForeseen'
  BY <1>1 DEF SInv, DiskOK, PhaseOK, ReaderOK, GraphOK, FaultsForeseen
<1>6. QED BY <1>2, <1>3, <1>4, <1>5 DEF SInv

\* An object refers to another one.
LEMMA RefChanged ==
  ASSUME TableOK, ObjectsOK, NEW o \in Live, NEW p \in Live \cup {NULL}, UNCHANGED table,
         objects' = [objects EXCEPT ![o].ref = p]
  PROVE  /\ TableOK' /\ ObjectsOK' /\ Live' = Live
         /\ \A q \in Live : objects'[q].cls = objects[q].cls
         /\ objects'[o].ref = p /\ \A q \in Live : q # o => objects'[q] = objects[q]
<1>1. Live' = Live /\ TableOK'
  BY DEF Live, Table!Bindings, Table!Bound, TableOK
<1>2. /\ o \in Object /\ p \in Object \cup {NULL} /\ DOMAIN objects = Object
      /\ objects[o] \in [cls : Registered, ref : Object \cup {NULL}]
  BY LiveObjects DEF ObjectsOK
<1>3. /\ DOMAIN objects' = Object /\ objects'[o] = [objects[o] EXCEPT !.ref = p]
      /\ \A q \in Object : q # o => objects'[q] = objects[q]
  BY <1>2
<1>4. /\ objects'[o] \in [cls : Registered, ref : Object \cup {NULL}]
      /\ objects'[o].cls = objects[o].cls /\ objects'[o].ref = p
  BY <1>2, <1>3
<1>5. ObjectsOK'
  BY <1>1, <1>3, <1>4, LiveObjects DEF ObjectsOK
<1>6. QED BY <1>1, <1>3, <1>4, <1>5, LiveObjects

LEMMA LinkKeeps ==
  ASSUME SInv, NEW o, NEW p, Link(o, p)
  PROVE  SInv'
<1>1. /\ pc = "idle" /\ fault' = "none" /\ o \in Live /\ p \in Live \cup {NULL}
      /\ objects' = [objects EXCEPT ![o].ref = p]
      /\ UNCHANGED <<table, disk, reader, loaded, writer, pc, at>>
  BY DEF Link, Idle, call
<1>2. /\ TableOK' /\ ObjectsOK' /\ Live' = Live
      /\ \A q \in Live : objects'[q].cls = objects[q].cls
      /\ objects'[o].ref = p /\ \A q \in Live : q # o => objects'[q] = objects[q]
  BY <1>1, RefChanged DEF SInv
<1>3. RefsLive'
  BY <1>1, <1>2 DEF SInv, RefsLive
<1>4. WriterOK'
  BY <1>1, <1>2, WriterKept DEF SInv
<1>5. DiskOK' /\ PhaseOK' /\ ReaderOK' /\ FaultsForeseen'
  BY <1>1 DEF SInv, DiskOK, PhaseOK, ReaderOK, FaultsForeseen
<1>6. GraphOK'
  <2> SUFFICES ASSUME reader # NULL, reader.deep, NoOldData(loaded)
               PROVE  /\ \A i \in DOMAIN loaded.objs : (EntryMade(i) /\ EntryChunk(i) /\ EntryRefers(i))'
                      /\ OneEach'
    BY <1>1 DEF GraphOK
  <2>1. (\A i \in DOMAIN loaded.objs : EntryMade(i)) /\ OneEach
    BY DEF SInv, GraphOK
  <2>2. OneEach'
    BY <1>1, <1>2, <2>1 DEF OneEach
  <2>3. \A i \in DOMAIN loaded.objs : EntryMade(i)'
    BY <1>1, <1>2, <2>1, LiveIs DEF EntryMade, Seen
  <2>4. \A i \in DOMAIN loaded.objs : (EntryChunk(i) /\ EntryRefers(i))'
    BY <1>1 DEF EntryChunk, EntryRefers, Read
  <2>5. QED BY <2>2, <2>3, <2>4
<1>7. QED BY <1>2, <1>3, <1>4, <1>5, <1>6 DEF SInv

LEMMA ClearDocumentKeeps ==
  ASSUME SInv, ClearDocument
  PROVE  SInv'
<1>1. /\ pc = "idle" /\ fault' = "none" /\ writer' = NULL /\ reader' = NULL
      /\ Table!Clear /\ DOMAIN objects' = Object
      /\ UNCHANGED <<disk, pc, at>>
  BY DEF ClearDocument, Idle, call
<1>2. TableOK' /\ Live' = {}
  BY <1>1, ClearedTable
<1>3. ObjectsOK' /\ RefsLive'
  BY <1>1, <1>2 DEF ObjectsOK, RefsLive
<1>4. DiskOK' /\ PhaseOK' /\ ReaderOK' /\ GraphOK' /\ WriterOK' /\ FaultsForeseen'
  BY <1>1 DEF SInv, DiskOK, PhaseOK, ReaderOK, GraphOK, WriterOK, FaultsForeseen
<1>5. QED BY <1>2, <1>3, <1>4 DEF SInv

LEMMA ReplaceKeeps ==
  ASSUME SInv, Replace
  PROVE  SInv'
<1>1. /\ pc = "idle" /\ fault' = "none" /\ disk' \in Originals
      /\ UNCHANGED <<table, objects, reader, loaded, writer, pc, at>>
  BY DEF Replace, Idle, context, call
<1>2. DiskOK'
  BY <1>1, SessionAssumption DEF DiskOK
<1>3. WriterOK'
  BY <1>1, WriterKept DEF SInv
<1>4. QED BY <1>1, <1>2, <1>3, NoFault, WriterStep

-----------------------------------------------------------------------------
(* Loading.                                                                 *)

LEMMA LoadStep ==
  ASSUME SInv, pc # "idle", UNCHANGED <<disk, writer>>, fault' = "none",
         TableOK', ObjectsOK', PhaseOK', ReaderOK', GraphOK', RefsLive'
  PROVE  SInv'
<1>1. writer' = NULL
  BY DEF SInv, PhaseOK
<1>2. DiskOK' /\ WriterOK'
  BY <1>1 DEF SInv, DiskOK, WriterOK
<1>3. QED BY <1>2, NoFault DEF SInv

\* What there is while DeepLoad runs.
LEMMA WhileLoading ==
  ASSUME SInv, pc # "idle"
  PROVE  /\ reader # NULL /\ reader.deep /\ reader \in Reader /\ at \in Nat
         /\ DOMAIN reader.objs = 1 .. Len(loaded.objs) /\ DOMAIN reader.objs = DOMAIN loaded.objs
         /\ Len(loaded.objs) \in Nat
         /\ \A i \in DOMAIN loaded.objs : reader.objs[i] \in ReaderEntry
         /\ \A i \in DOMAIN loaded.objs :
              loaded.objs[i].data # NULL => loaded.objs[i].data.ref \in {0} \cup DOMAIN loaded.objs
         /\ NoOldData(loaded) =>
              /\ \A i \in DOMAIN loaded.objs : EntryMade(i) /\ EntryChunk(i) /\ EntryRefers(i)
              /\ OneEach
<1>1. reader # NULL /\ reader.deep /\ at \in Nat
  BY DEF SInv, PhaseOK
<1>2. Closed(loaded) /\ DOMAIN reader.objs = DOMAIN loaded.objs
  BY <1>1 DEF SInv, ReaderOK
<1>3. reader \in Reader /\ \A i \in DOMAIN reader.objs : reader.objs[i] \in ReaderEntry
  BY <1>1, ReaderParts DEF SInv
<1>4. QED BY <1>1, <1>2, <1>3, ClosedParts DEF SInv, GraphOK

\* A step of a loop that leaves the context and the reader.
LEMMA LoopStep ==
  ASSUME SInv, pc # "idle", UNCHANGED <<table, objects, reader, loaded, disk, writer>>, fault' = "none",
         PhaseOK',
         NoOldData(loaded) =>
           \A i \in DOMAIN loaded.objs : (EntryMade(i) /\ EntryChunk(i) /\ EntryRefers(i))'
  PROVE  SInv'
<1>1. Live' = Live
  BY DEF Live, Table!Bindings, Table!Bound
<1>2. TableOK' /\ ObjectsOK' /\ ReaderOK' /\ RefsLive'
  BY <1>1 DEF SInv, TableOK, ObjectsOK, ReaderOK, RefsLive
<1>3. GraphOK'
  BY <1>1 DEF SInv, GraphOK, OneEach
<1>4. QED BY <1>2, <1>3, LoadStep

LEMMA CreateSkippedKeeps ==
  ASSUME SInv, CreateSkipped
  PROVE  SInv'
<1>1. /\ pc = "create" /\ pc' = pc /\ at' = at + 1 /\ at \in DOMAIN reader.objs /\ fault' = "none"
      /\ reader.objs[at].data = NULL \/ reader.objs[at].cls \notin Registered
      /\ UNCHANGED <<table, objects, reader, loaded, disk, writer>>
  BY DEF CreateSkipped, Looping, Entry, Advance, context
<1>2. PhaseOK'
  BY <1>1 DEF SInv, PhaseOK
<1>3. ASSUME NoOldData(loaded), NEW i \in DOMAIN loaded.objs
      PROVE  (EntryMade(i) /\ EntryChunk(i) /\ EntryRefers(i))'
  <2>1. /\ EntryMade(i) /\ EntryChunk(i)
        /\ i \in Nat /\ at \in Nat
    BY <1>1, <1>3, WhileLoading
  <2>2. ~ Made(loaded.objs[at])
    BY <1>1, <1>3, WhileLoading DEF EntryChunk, Read, Made, SInv, ReaderOK
  <2>3. Made(loaded.objs[i]) => (Seen(i)' <=> Seen(i))
    BY <1>1, <2>1, <2>2 DEF Seen
  <2>4. EntryMade(i)'
    BY <1>1, <2>1, <2>3 DEF EntryMade
  <2>5. (EntryChunk(i) /\ EntryRefers(i))'
    BY <1>1, <2>1 DEF EntryChunk, EntryRefers, Read
  <2>6. QED BY <2>4, <2>5
<1>4. QED BY <1>1, <1>2, <1>3, LoopStep

LEMMA LoadSkippedKeeps ==
  ASSUME SInv, LoadSkipped
  PROVE  SInv'
<1>1. /\ pc = "load" /\ pc' = pc /\ at' = at + 1 /\ at \in DOMAIN reader.objs /\ fault' = "none"
      /\ reader.objs[at].data = NULL \/ reader.objs[at].ptr = NULL
      /\ UNCHANGED <<table, objects, reader, loaded, disk, writer>>
  BY DEF LoadSkipped, Looping, Entry, Advance, context
<1>2. PhaseOK'
  BY <1>1 DEF SInv, PhaseOK
<1>3. ASSUME NoOldData(loaded), NEW i \in DOMAIN loaded.objs
      PROVE  (EntryMade(i) /\ EntryChunk(i) /\ EntryRefers(i))'
  <2>1. /\ EntryMade(i) /\ EntryChunk(i) /\ EntryRefers(i)
        /\ at \in DOMAIN loaded.objs /\ EntryMade(at) /\ EntryChunk(at)
        /\ i \in Nat /\ at \in Nat
    BY <1>1, <1>3, WhileLoading
  <2>2. ~ Made(loaded.objs[at])
    <3>1. SUFFICES ASSUME Made(loaded.objs[at]) PROVE FALSE
      OBVIOUS
    <3>2. reader.objs[at].ptr \in Live
      BY <1>1, <2>1, <3>1, LiveIs DEF EntryMade, Seen
    <3>3. reader.objs[at].data # NULL
      BY <1>1, <2>1, <3>1 DEF EntryChunk, Read, Made
    <3>4. QED BY <1>1, <3>2, <3>3, LiveObjects DEF SInv
  <2>3. Made(loaded.objs[i]) => (Read(i)' <=> Read(i))
    BY <1>1, <2>1, <2>2 DEF Read
  <2>4. EntryMade(i)'
    BY <1>1, <2>1 DEF EntryMade, Seen
  <2>5. EntryChunk(i)' /\ EntryRefers(i)'
    BY <1>1, <2>1, <2>3 DEF EntryChunk, EntryRefers
  <2>6. QED BY <2>4, <2>5
<1>4. QED BY <1>1, <1>2, <1>3, LoopStep

LEMMA CreateEndKeeps ==
  ASSUME SInv, LoopEnd("create", "load", 1)
  PROVE  SInv'
<1>1. /\ pc = "create" /\ pc' = "load" /\ at' = 1 /\ at \notin DOMAIN reader.objs /\ fault' = "none"
      /\ UNCHANGED <<table, objects, reader, loaded, disk, writer>>
  BY DEF LoopEnd, context
<1>2. PhaseOK'
  BY <1>1 DEF SInv, PhaseOK
<1>3. ASSUME NoOldData(loaded), NEW i \in DOMAIN loaded.objs
      PROVE  (EntryMade(i) /\ EntryChunk(i) /\ EntryRefers(i))'
  <2>1. EntryMade(i) /\ EntryChunk(i) /\ i \in Nat \ {0}
    BY <1>1, <1>3, WhileLoading
  <2>2. i < at
    BY <1>1, <1>3, WhileLoading DEF SInv, PhaseOK
  <2>3. EntryMade(i)'
    BY <1>1, <2>1, <2>2 DEF EntryMade, Seen
  <2>4. (EntryChunk(i) /\ EntryRefers(i))'
    BY <1>1, <2>1 DEF EntryChunk, EntryRefers, Read
  <2>5. QED BY <2>3, <2>4
<1>4. QED BY <1>1, <1>2, <1>3, LoopStep

LEMMA LoadEndKeeps ==
  ASSUME SInv, LoopEnd("load", "finish", 0)
  PROVE  SInv'
<1>1. /\ pc = "load" /\ pc' = "finish" /\ at' = 0 /\ at \notin DOMAIN reader.objs /\ fault' = "none"
      /\ UNCHANGED <<table, objects, reader, loaded, disk, writer>>
  BY DEF LoopEnd, context
<1>2. PhaseOK'
  BY <1>1 DEF SInv, PhaseOK
<1>3. ASSUME NoOldData(loaded), NEW i \in DOMAIN loaded.objs
      PROVE  (EntryMade(i) /\ EntryChunk(i) /\ EntryRefers(i))'
  <2>1. EntryMade(i) /\ EntryChunk(i) /\ EntryRefers(i)
    BY <1>1, <1>3, WhileLoading
  <2>2. i < at
    BY <1>1, <1>3, WhileLoading DEF SInv, PhaseOK
  <2>3. EntryMade(i)'
    BY <1>1, <2>1 DEF EntryMade, Seen
  <2>4. EntryChunk(i)' /\ EntryRefers(i)'
    BY <1>1, <2>1, <2>2 DEF EntryChunk, EntryRefers, Read
  <2>5. QED BY <2>3, <2>4
<1>4. QED BY <1>1, <1>2, <1>3, LoopStep

LEMMA CreateKeeps ==
  ASSUME SInv, NEW id \in Id, NEW o \in Object, Create(id, o)
  PROVE  SInv'
<1> DEFINE e == [reader.objs[at] EXCEPT !.ptr = o, !.created = id]
           cls == reader.objs[at].cls
<1>1. /\ pc = "create" /\ pc' = pc /\ at' = at + 1 /\ at \in DOMAIN reader.objs /\ fault' = "none"
      /\ reader.objs[at].data # NULL /\ cls \in Registered
      /\ Table!Bind(id, o) /\ objects' = [objects EXCEPT ![o] = [cls |-> cls, ref |-> NULL]]
      /\ reader' = [reader EXCEPT !.objs[at].ptr = o, !.objs[at].created = id]
      /\ UNCHANGED <<loaded, disk, writer>>
  BY DEF Create, Looping, Entry, Advance
<1>2. /\ reader \in Reader /\ reader # NULL /\ reader.deep
      /\ DOMAIN reader.objs = DOMAIN loaded.objs /\ reader.objs[at] \in ReaderEntry
      /\ at \in DOMAIN loaded.objs /\ DOMAIN loaded.objs \subseteq Nat
  BY <1>1, WhileLoading
<1>3. reader' = [reader EXCEPT !.objs[at] = e]
  BY <1>1
<1>4. /\ e \in ReaderEntry /\ e.ptr = o /\ e.created = id
      /\ e.id = reader.objs[at].id /\ e.cls = cls /\ e.data = reader.objs[at].data
  BY <1>2, SessionAssumption DEF ReaderEntry
<1> HIDE DEF e
<1>5. /\ reader' \in Reader /\ reader' # NULL
      /\ DOMAIN reader'.objs = DOMAIN reader.objs
      /\ reader'.objs[at] = e
      /\ \A j \in DOMAIN reader.objs : j # at => reader'.objs[j] = reader.objs[j]
      /\ reader'.deep = reader.deep
  BY <1>1, <1>2, <1>3, <1>4, EntryChanged
<1>6. TableOK /\ ObjectsOK
  BY DEF SInv
<1> HIDE DEF cls
<1>7. /\ TableOK' /\ ObjectsOK'
      /\ DOMAIN table' = DOMAIN table \cup {id} /\ id \notin DOMAIN table
      /\ table'[id] = o /\ \A jd \in DOMAIN table : table'[jd] = table[jd]
      /\ Live' = Live \cup {o} /\ o \notin Live
      /\ objects'[o] = [cls |-> cls, ref |-> NULL]
      /\ \A p \in Live : objects'[p] = objects[p]
  BY <1>1, <1>6, ObjectBound
<1>8. PhaseOK'
  BY <1>1, <1>5 DEF SInv, PhaseOK
<1>9. ReaderOK'
  BY <1>1, <1>2, <1>4, <1>5 DEF SInv, ReaderOK, cls
<1>10. RefsLive'
  <2>1. objects'[o].ref = NULL
    BY <1>7
  <2>2. NoOldData(loaded) => \A p \in Live : objects'[p].ref \in Live \cup {NULL}
    BY <1>7 DEF SInv, RefsLive
  <2>3. NoOldData(loaded) => \A p \in Live' : objects'[p].ref \in Live' \cup {NULL}
    BY <1>7, <2>1, <2>2
  <2>4. QED BY <1>1, <1>5, <2>3 DEF RefsLive
<1>11. ASSUME NoOldData(loaded)
       PROVE  /\ \A i \in DOMAIN loaded.objs : (EntryMade(i) /\ EntryChunk(i) /\ EntryRefers(i))'
              /\ OneEach'
  <2>1. (\A i \in DOMAIN loaded.objs : EntryMade(i) /\ EntryChunk(i)) /\ OneEach
    BY <1>1, <1>11, WhileLoading
  <2>2. cls = loaded.objs[at].cls
    BY <1>2 DEF SInv, ReaderOK, cls
  <2>3. Made(loaded.objs[at]) /\ reader.objs[at].ptr = NULL
    <3>1. Made(loaded.objs[at])
      BY <1>1, <1>2, <2>1, <2>2 DEF EntryChunk, Read, Made
    <3>2. ~ Seen(at)
      BY <1>1, <1>2 DEF Seen
    <3>3. QED BY <1>2, <2>1, <3>1, <3>2 DEF EntryMade
  <2>4. ASSUME NEW i \in DOMAIN loaded.objs
        PROVE  EntryMade(i)'
    <3>1. CASE i = at
      <4>1. Seen(i)'
        BY <1>1, <1>2, <3>1 DEF Seen
      <4>2. QED BY <1>1, <1>4, <1>5, <1>7, <2>2, <2>3, <3>1, <4>1 DEF EntryMade
    <3>2. CASE i # at
      <4>1. Seen(i)' <=> Seen(i)
        BY <1>1, <1>2, <3>2 DEF Seen
      <4>2. EntryMade(i) /\ reader'.objs[i] = reader.objs[i]
        BY <1>2, <1>5, <2>1, <3>2
      <4>3. CASE Made(loaded.objs[i]) /\ Seen(i)
        <5>1. reader.objs[i].created \in DOMAIN table /\ reader.objs[i].ptr \in Live
          BY <4>2, <4>3, LiveIs DEF EntryMade
        <5>2. QED BY <1>1, <1>7, <4>1, <4>2, <4>3, <5>1 DEF EntryMade
      <4>4. CASE ~ (Made(loaded.objs[i]) /\ Seen(i))
        BY <1>1, <4>1, <4>2, <4>4 DEF EntryMade
      <4>5. QED BY <4>3, <4>4
    <3>3. QED BY <3>1, <3>2
  <2>5. ASSUME NEW i \in DOMAIN loaded.objs
        PROVE  (EntryChunk(i) /\ EntryRefers(i))'
    <3>1. reader'.objs[i].data = reader.objs[i].data
      BY <1>2, <1>4, <1>5
    <3>2. ~ Read(i) /\ ~ Read(i)'
      BY <1>1 DEF Read
    <3>3. EntryChunk(i)
      BY <2>1
    <3>4. QED BY <1>1, <3>1, <3>2, <3>3 DEF EntryChunk, EntryRefers
  <2>6. OneEach'
    <3>1. \A p \in Live' : \E i \in DOMAIN loaded.objs : reader'.objs[i].ptr = p
      <4>1. SUFFICES ASSUME NEW p \in Live'
                     PROVE  \E i \in DOMAIN loaded.objs : reader'.objs[i].ptr = p
        OBVIOUS
      <4>2. CASE p = o
        BY <1>2, <1>4, <1>5, <4>2
      <4>3. CASE p # o
        <5>1. p \in Live /\ p # NULL
          BY <1>6, <1>7, <4>3, LiveObjects
        <5>2. PICK i \in DOMAIN loaded.objs : reader.objs[i].ptr = p
          BY <2>1, <5>1 DEF OneEach
        <5>3. QED BY <1>2, <1>5, <2>3, <5>1, <5>2
      <4>4. QED BY <4>2, <4>3
    <3>2. \A i \in DOMAIN loaded.objs : reader.objs[i].ptr # o
      <4>1. SUFFICES ASSUME NEW i \in DOMAIN loaded.objs, reader.objs[i].ptr = o PROVE FALSE
        OBVIOUS
      <4>2. EntryMade(i) /\ o # NULL
        BY <2>1, SessionAssumption
      <4>3. o \in Live
        BY <4>1, <4>2, LiveIs DEF EntryMade
      <4>4. QED BY <1>7, <4>3
    <3>3. \A i, j \in DOMAIN loaded.objs :
            reader'.objs[i].ptr = reader'.objs[j].ptr /\ reader'.objs[i].ptr # NULL => i = j
      BY <1>2, <1>4, <1>5, <2>1, <3>2 DEF OneEach
    <3>4. QED BY <1>1, <3>1, <3>3 DEF OneEach
  <2>7. QED BY <2>4, <2>5, <2>6
<1>12. GraphOK'
  BY <1>1, <1>11 DEF GraphOK, NoOldData
<1>13. QED BY <1>1, <1>7, <1>8, <1>9, <1>10, <1>12, LoadStep

LEMMA LoadObjectKeeps ==
  ASSUME SInv, LoadObject
  PROVE  SInv'
<1> DEFINE e == [reader.objs[at] EXCEPT !.data = NULL]
           o == reader.objs[at].ptr
           p == Resolve(reader.objs[at].data)
<1>1. /\ pc = "load" /\ pc' = pc /\ at' = at + 1 /\ at \in DOMAIN reader.objs /\ fault' = "none"
      /\ reader.objs[at].data # NULL /\ o # NULL /\ o \in Live
      /\ objects' = [objects EXCEPT ![o].ref = p]
      /\ reader' = [reader EXCEPT !.objs[at].data = NULL]
      /\ UNCHANGED <<table, loaded, disk, writer>>
  BY DEF LoadObject, Loads, Looping, Entry, Advance
<1>2. /\ reader \in Reader /\ reader # NULL /\ reader.deep
      /\ DOMAIN reader.objs = DOMAIN loaded.objs /\ reader.objs[at] \in ReaderEntry
      /\ at \in DOMAIN loaded.objs /\ DOMAIN loaded.objs \subseteq Nat
  BY <1>1, WhileLoading
<1>3. reader' = [reader EXCEPT !.objs[at] = e]
  BY <1>1
<1>4. /\ e \in ReaderEntry /\ e.data = NULL /\ e.ptr = o
      /\ e.id = reader.objs[at].id /\ e.cls = reader.objs[at].cls /\ e.created = reader.objs[at].created
  BY <1>2 DEF ReaderEntry
<1> HIDE DEF e
<1>5. /\ reader' \in Reader /\ reader' # NULL
      /\ DOMAIN reader'.objs = DOMAIN reader.objs
      /\ reader'.objs[at] = e
      /\ \A j \in DOMAIN reader.objs : j # at => reader'.objs[j] = reader.objs[j]
      /\ reader'.deep = reader.deep
  BY <1>1, <1>2, <1>3, <1>4, EntryChanged
<1>6. TableOK /\ ObjectsOK
  BY DEF SInv
<1>7. p \in Live \cup {NULL}
  BY GetObjectIs DEF Resolve
<1> HIDE DEF o, p
<1>8. /\ TableOK' /\ ObjectsOK' /\ Live' = Live
      /\ \A q \in Live : objects'[q].cls = objects[q].cls
      /\ objects'[o].ref = p /\ \A q \in Live : q # o => objects'[q] = objects[q]
  BY <1>1, <1>6, <1>7, RefChanged
<1>9. PhaseOK'
  BY <1>1, <1>5 DEF SInv, PhaseOK
<1>10. ReaderOK'
  BY <1>1, <1>2, <1>4, <1>5 DEF SInv, ReaderOK
<1>11. RefsLive'
  <2>1. NoOldData(loaded) => \A q \in Live : objects'[q].ref \in Live \cup {NULL}
    BY <1>7, <1>8 DEF SInv, RefsLive
  <2>2. QED BY <1>1, <1>5, <1>8, <2>1 DEF RefsLive
<1>12. \A i \in DOMAIN loaded.objs :
         /\ reader'.objs[i].ptr = reader.objs[i].ptr /\ reader'.objs[i].created = reader.objs[i].created
         /\ i # at => reader'.objs[i].data = reader.objs[i].data
  BY <1>2, <1>4, <1>5 DEF o
<1>13. ASSUME NoOldData(loaded)
       PROVE  /\ \A i \in DOMAIN loaded.objs : (EntryMade(i) /\ EntryChunk(i) /\ EntryRefers(i))'
              /\ OneEach'
  <2>1. (\A i \in DOMAIN loaded.objs : EntryMade(i) /\ EntryChunk(i) /\ EntryRefers(i)) /\ OneEach
    BY <1>1, <1>13, WhileLoading
  <2>2. Made(loaded.objs[at])
    BY <1>1, <1>2, <2>1 DEF EntryMade, o
  <2>3. reader.objs[at].data = loaded.objs[at].data
    <3>1. EntryChunk(at) /\ ~ Read(at)
      BY <1>1, <1>2, <2>1 DEF Read
    <3>2. QED BY <1>1, <2>2, <3>1 DEF EntryChunk, Made, Parsed
  <2>4. \A r \in DOMAIN loaded.objs : GetObject(reader.objs[r].created) = reader.objs[r].ptr
    <3>1. SUFFICES ASSUME NEW r \in DOMAIN loaded.objs
                   PROVE  GetObject(reader.objs[r].created) = reader.objs[r].ptr
      OBVIOUS
    <3>2. EntryMade(r) /\ GetObject(0) = NULL
      BY <1>6, <2>1, NoObjectAtZero
    <3>3. QED BY <3>2 DEF EntryMade, GetObject
  <2>5. p = IF loaded.objs[at].data.ref = 0 THEN NULL ELSE reader.objs[loaded.objs[at].data.ref].ptr
    <3>1. loaded.objs[at].data.ref \in {0} \cup DOMAIN loaded.objs
      BY <1>1, <1>2, <2>3, WhileLoading
    <3>2. QED BY <2>3, <2>4, <3>1 DEF p, Resolve
  <2>6. ASSUME NEW i \in DOMAIN loaded.objs
        PROVE  EntryMade(i)'
    <3>1. EntryMade(i) /\ Seen(i) /\ Seen(i)'
      BY <1>1, <2>1 DEF Seen
    <3>2. Made(loaded.objs[i]) => reader.objs[i].ptr \in Live
      BY <3>1, LiveIs DEF EntryMade
    <3>3. QED BY <1>1, <1>8, <1>12, <3>1, <3>2 DEF EntryMade
  <2>7. ASSUME NEW i \in DOMAIN loaded.objs
        PROVE  EntryChunk(i)' /\ EntryRefers(i)'
    <3>1. CASE i = at
      <4>1. Read(i)'
        BY <1>1, <1>2, <3>1 DEF Read
      <4>2. EntryChunk(i)'
        BY <1>1, <1>4, <1>5, <2>2, <3>1, <4>1 DEF EntryChunk
      <4>3. EntryRefers(i)'
        <5>1. loaded.objs[at].data.ref \in {0} \cup DOMAIN loaded.objs
          BY <1>1, <1>2, <2>3, WhileLoading
        <5>2. reader'.objs[at].ptr = o
          BY <1>4, <1>5
        <5>3. QED BY <1>1, <1>8, <1>12, <2>5, <3>1, <5>1, <5>2 DEF EntryRefers
      <4>4. QED BY <4>2, <4>3
    <3>2. CASE i # at
      <4>1. Read(i)' <=> Read(i)
        BY <1>1, <1>2, <3>2 DEF Read
      <4>2. EntryChunk(i)'
        BY <1>1, <1>12, <2>1, <3>2, <4>1 DEF EntryChunk
      <4>3. ASSUME Made(loaded.objs[i]), Read(i)
            PROVE  EntryRefers(i)'
        <5>1. EntryMade(i) /\ EntryRefers(i) /\ Seen(i)
          BY <1>1, <2>1 DEF Seen
        <5>2. reader.objs[i].ptr \in Live
          BY <4>3, <5>1, LiveIs DEF EntryMade
        <5>3. reader.objs[i].ptr # o
          BY <1>1, <1>2, <2>1, <3>2, <5>2 DEF OneEach, o
        <5>4. objects'[reader.objs[i].ptr] = objects[reader.objs[i].ptr]
          BY <1>8, <5>2, <5>3
        <5>5. loaded.objs[i].data.ref \in {0} \cup DOMAIN loaded.objs
          <6>1. loaded.objs[i].data # NULL
            BY <4>3 DEF Made, Parsed
          <6>2. QED BY <1>1, <6>1, WhileLoading
        <5>6. QED BY <1>1, <1>12, <4>3, <5>1, <5>4, <5>5 DEF EntryRefers
      <4>4. EntryRefers(i)'
        BY <1>1, <4>1, <4>3 DEF EntryRefers
      <4>5. QED BY <4>2, <4>4
    <3>3. QED BY <3>1, <3>2
  <2>8. OneEach'
    BY <1>1, <1>8, <1>12, <2>1 DEF OneEach
  <2>9. QED BY <2>6, <2>7, <2>8
<1>14. GraphOK'
  BY <1>1, <1>13 DEF GraphOK, NoOldData
<1>15. QED BY <1>1, <1>8, <1>9, <1>10, <1>11, <1>14, LoadStep

LEMMA LoadFailsKeeps ==
  ASSUME SInv, NEW told \in SUBSET Object, LoadFails(told)
  PROVE  SInv'
<1> DEFINE e == [reader.objs[at] EXCEPT !.ptr = NULL, !.created = 0]
<1>1. /\ pc = "load" /\ pc' = pc /\ at' = at + 1 /\ at \in DOMAIN reader.objs /\ fault' = "none"
      /\ reader.objs[at].data # NULL /\ reader.objs[at].ptr # NULL /\ reader.objs[at].data.kind = "old"
      /\ Table!Unbind(reader.objs[at].id) \/ UNCHANGED table
      /\ objects' = [o \in Object |-> IF o \in told THEN [objects[o] EXCEPT !.ref = NULL] ELSE objects[o]]
      /\ told \subseteq Live
      /\ reader' = [reader EXCEPT !.objs[at].ptr = NULL, !.objs[at].created = 0]
      /\ UNCHANGED <<loaded, disk, writer>>
  BY DEF LoadFails, Loads, Looping, Entry, Advance
<1>2. /\ reader \in Reader /\ reader # NULL /\ reader.deep
      /\ DOMAIN reader.objs = DOMAIN loaded.objs /\ reader.objs[at] \in ReaderEntry
      /\ at \in DOMAIN loaded.objs
  BY <1>1, WhileLoading
<1>3. reader' = [reader EXCEPT !.objs[at] = e]
  BY <1>1
<1>4. /\ e \in ReaderEntry
      /\ e.id = reader.objs[at].id /\ e.cls = reader.objs[at].cls /\ e.data = reader.objs[at].data
  BY <1>2 DEF ReaderEntry
<1> HIDE DEF e
<1>5. /\ reader' \in Reader /\ reader' # NULL
      /\ DOMAIN reader'.objs = DOMAIN reader.objs
      /\ reader'.objs[at] = e
      /\ \A j \in DOMAIN reader.objs : j # at => reader'.objs[j] = reader.objs[j]
      /\ reader'.deep = reader.deep
  BY <1>1, <1>2, <1>3, <1>4, EntryChanged
<1>6. TableOK' /\ Live' \subseteq Live
  <2>1. TableOK
    BY DEF SInv
  <2>2. CASE Table!Unbind(reader.objs[at].id)
    BY <2>1, <2>2, UnbindKeeps
  <2>3. CASE UNCHANGED table
    BY <2>1, <2>3 DEF TableOK, Live, Table!Bindings, Table!Bound
  <2>4. QED BY <1>1, <2>2, <2>3
<1>7. ObjectsOK'
  <2>1. DOMAIN objects' = Object
    BY <1>1
  <2>2. ASSUME NEW o \in Live'
        PROVE  objects'[o] \in [cls : Registered, ref : Object \cup {NULL}]
    <3>1. o \in Object /\ objects[o] \in [cls : Registered, ref : Object \cup {NULL}]
      BY <1>6, LiveObjects DEF SInv, ObjectsOK
    <3>2. objects'[o] = IF o \in told THEN [objects[o] EXCEPT !.ref = NULL] ELSE objects[o]
      BY <1>1, <3>1
    <3>3. QED BY <3>1, <3>2
  <2>3. QED BY <2>1, <2>2 DEF ObjectsOK
<1>8. PhaseOK'
  BY <1>1, <1>5 DEF SInv, PhaseOK
<1>9. ReaderOK'
  BY <1>1, <1>2, <1>4, <1>5 DEF SInv, ReaderOK
<1>10. ~ NoOldData(loaded)
  <2>1. SUFFICES ASSUME NoOldData(loaded) PROVE FALSE
    OBVIOUS
  <2>2. EntryMade(at)
    BY <1>1, <1>2, <2>1, WhileLoading
  <2>3. Made(loaded.objs[at])
    BY <1>1, <2>2 DEF EntryMade
  <2>4. reader.objs[at].data = loaded.objs[at].data
    BY <1>1, <1>2 DEF SInv, ReaderOK
  <2>5. QED BY <1>1, <1>2, <2>1, <2>3, <2>4 DEF NoOldData
<1>11. GraphOK' /\ RefsLive'
  <2>1. ~ NoOldData(loaded')
    BY <1>1, <1>10
  <2>2. QED BY <1>5, <2>1 DEF GraphOK, RefsLive
<1>12. QED BY <1>1, <1>6, <1>7, <1>8, <1>9, <1>11, LoadStep

LEMMA LoadFreedKeeps ==
  ASSUME SInv, LoadFreed
  PROVE  SInv'
<1>1. /\ pc = "load" /\ at \in DOMAIN reader.objs /\ fault' = "freed_object"
      /\ reader.objs[at].ptr # NULL /\ reader.objs[at].ptr \notin Live
      /\ UNCHANGED <<table, objects, reader, loaded, disk, writer, pc, at>>
  BY DEF LoadFreed, Loads, Looping, Entry, context
<1>2. ~ NoOldData(loaded)
  <2>1. SUFFICES ASSUME NoOldData(loaded) PROVE FALSE
    OBVIOUS
  <2>2. EntryMade(at)
    BY <1>1, <2>1, WhileLoading
  <2>3. QED BY <1>1, <2>2, LiveIs DEF EntryMade
<1>3. FaultsForeseen'
  BY <1>1, <1>2 DEF FaultsForeseen
<1>4. DiskOK' /\ WriterOK' /\ PhaseOK'
  <2>1. writer' = NULL
    BY <1>1 DEF SInv, PhaseOK
  <2>2. QED BY <1>1, <2>1 DEF SInv, DiskOK, WriterOK, PhaseOK
<1>5. QED BY <1>1, <1>3, <1>4, ContextKept DEF SInv

LEMMA FinishLoadKeeps ==
  ASSUME SInv, FinishLoad
  PROVE  SInv'
<1>1. /\ pc = "finish" /\ pc' = "idle" /\ at' = 0 /\ fault' = "none"
      /\ reader' = [reader EXCEPT !.done = TRUE]
      /\ UNCHANGED <<table, objects, loaded, disk, writer>>
  BY DEF FinishLoad, context
<1>2. reader \in Reader /\ reader # NULL /\ reader.deep
  BY <1>1, WhileLoading
<1>3. /\ reader' \in Reader /\ reader' # NULL
      /\ reader'.objs = reader.objs /\ reader'.deep = reader.deep
  BY <1>1, <1>2, SessionAssumption DEF Reader
<1>4. Live' = Live /\ TableOK' /\ ObjectsOK' /\ PhaseOK'
  BY <1>1 DEF SInv, TableOK, ObjectsOK, PhaseOK, Live, Table!Bindings, Table!Bound
<1>5. ReaderOK' /\ RefsLive'
  BY <1>1, <1>2, <1>3, <1>4 DEF SInv, ReaderOK, RefsLive
<1>6. ASSUME NoOldData(loaded)
      PROVE  /\ \A i \in DOMAIN loaded.objs : (EntryMade(i) /\ EntryChunk(i) /\ EntryRefers(i))'
             /\ OneEach'
  <2>1. (\A i \in DOMAIN loaded.objs : EntryMade(i)) /\ OneEach
    BY <1>1, <1>6, WhileLoading
  <2>2. OneEach'
    BY <1>1, <1>3, <1>4, <2>1 DEF OneEach
  <2>3. \A i \in DOMAIN loaded.objs : EntryMade(i)'
    BY <1>1, <1>3, <2>1 DEF EntryMade, Seen
  <2>4. \A i \in DOMAIN loaded.objs : (EntryChunk(i) /\ EntryRefers(i))'
    BY <1>1 DEF EntryChunk, EntryRefers, Read
  <2>5. QED BY <2>2, <2>3, <2>4
<1>7. GraphOK'
  BY <1>1, <1>6 DEF GraphOK, NoOldData
<1>8. QED BY <1>1, <1>4, <1>5, <1>7, LoadStep

LEMMA ShallowLoadKeeps ==
  ASSUME SInv, NEW deep \in BOOLEAN, ShallowLoad(deep)
  PROVE  SInv'
<1> DEFINE objs == FileObjects(disk)
           names == [k \in DOMAIN disk.included |-> disk.included[k].name]
<1>1. /\ pc = "idle" /\ fault' = "none" /\ writer' = NULL /\ loaded' = disk
      /\ table = Table!Empty /\ disk \notin {ABSENT, BROKEN}
      /\ reader' = [deep |-> deep, done |-> ~ deep, maxId |-> disk.maxId, objs |-> objs,
                    included |-> names]
      /\ deep => pc' = "create" /\ at' = 1
      /\ ~ deep => pc' = pc /\ at' = at
      /\ UNCHANGED <<table, objects, disk>>
  BY DEF ShallowLoad, Idle, context
<1>2. /\ Closed(disk)
      /\ DOMAIN disk.objs = 1 .. Len(disk.objs) /\ Len(disk.objs) \in Nat
      /\ DOMAIN disk.included = 1 .. Len(disk.included) /\ Len(disk.included) \in Nat
  BY <1>1, ClosedParts DEF SInv, DiskOK
<1>3. /\ DOMAIN objs = DOMAIN disk.objs
      /\ \A i \in DOMAIN disk.objs :
           /\ objs[i] = [id |-> disk.objs[i].id, cls |-> disk.objs[i].cls,
                         data |-> Parsed(disk.objs[i].data), ptr |-> NULL, created |-> 0]
           /\ objs[i].id = disk.objs[i].id /\ objs[i].cls = disk.objs[i].cls
           /\ objs[i].data = Parsed(disk.objs[i].data)
           /\ objs[i].ptr = NULL /\ objs[i].created = 0
  BY DEF FileObjects
<1>3a. objs = [i \in DOMAIN objs |-> objs[i]]
  BY DEF FileObjects
<1>4. DOMAIN names = DOMAIN disk.included /\ names = [k \in DOMAIN names |-> names[k]]
  OBVIOUS
<1>5. \A k \in DOMAIN names : names[k] \in Name
  BY <1>2 DEF Closed
<1> HIDE DEF objs, names
<1>6. objs \in Seq(ReaderEntry)
  <2>1. ASSUME NEW i \in DOMAIN disk.objs
        PROVE  objs[i] \in ReaderEntry
    <3>1. Parsed(disk.objs[i].data) \in Data \cup {NULL}
      BY <1>2, ClosedParts DEF Parsed
    <3>2. disk.objs[i].id \in Nat /\ disk.objs[i].cls \in Class
      BY <1>2 DEF Closed
    <3>3. \A n \in Nat, c \in Class, d \in Data \cup {NULL} :
            [id |-> n, cls |-> c, data |-> d, ptr |-> NULL, created |-> 0] \in ReaderEntry
      BY DEF ReaderEntry
    <3>4. objs[i] = [id |-> disk.objs[i].id, cls |-> disk.objs[i].cls,
                     data |-> Parsed(disk.objs[i].data), ptr |-> NULL, created |-> 0]
      BY <1>3
    <3>5. QED BY <3>1, <3>2, <3>3, <3>4
  <2>2. QED BY <1>2, <1>3, <1>3a, <2>1, IsSequence
<1>7. names \in Seq(Name)
  BY <1>2, <1>4, <1>5, IsSequence
<1>8. reader' \in Reader /\ reader' # NULL
  <2>1. disk.maxId \in Nat
    BY <1>2 DEF Closed
  <2>2. reader' \in Reader
    BY <1>1, <1>6, <1>7, <2>1 DEF Reader
  <2>3. QED BY <2>2, SessionAssumption
<1>9. TableOK' /\ Live = {} /\ Live' = {} /\ ObjectsOK' /\ RefsLive'
  <2>1. TableOK' /\ Live = {} /\ Live' = Live
    BY <1>1, EmptyTable DEF TableOK, Live, Table!Bindings, Table!Bound
  <2>2. QED BY <1>1, <2>1 DEF SInv, ObjectsOK, RefsLive
<1>10. PhaseOK'
  <2>1. reader'.deep = deep
    BY <1>1
  <2>2. QED BY <1>1, <1>8, <2>1 DEF SInv, PhaseOK
<1>11. reader'.objs = objs /\ reader'.deep = deep
  BY <1>1
<1>12. ReaderOK'
  <2>1. \A i \in DOMAIN disk.objs : objs[i].data \in {NULL, disk.objs[i].data}
    BY <1>3 DEF Parsed
  <2>2. QED BY <1>1, <1>2, <1>3, <1>8, <1>11, <2>1 DEF ReaderOK
<1>13. GraphOK'
  <2>1. CASE ~ deep
    BY <1>11, <2>1 DEF GraphOK
  <2>2. CASE deep
    <3>1. \A i \in DOMAIN disk.objs : ~ Seen(i)' /\ ~ Read(i)'
      BY <1>1, <1>2, <2>2 DEF Seen, Read
    <3>2. \A i \in DOMAIN disk.objs : (EntryMade(i) /\ EntryChunk(i) /\ EntryRefers(i))'
      BY <1>1, <1>3, <1>11, <3>1 DEF EntryMade, EntryChunk, EntryRefers
    <3>3. OneEach'
      BY <1>1, <1>3, <1>9, <1>11 DEF OneEach
    <3>4. QED BY <1>1, <3>2, <3>3 DEF GraphOK
  <2>3. QED BY <2>1, <2>2
<1>14. DiskOK' /\ WriterOK' /\ FaultsForeseen'
  BY <1>1 DEF SInv, DiskOK, WriterOK, FaultsForeseen
<1>15. QED BY <1>9, <1>10, <1>12, <1>13, <1>14 DEF SInv

-----------------------------------------------------------------------------
(* The specification.                                                       *)

LEMMA SInit ==
  ASSUME Init
  PROVE  SInv
<1>1. TableOK /\ Live = {}
  BY EmptyTable DEF Init, Table!Init
<1>2. ObjectsOK /\ RefsLive
  BY <1>1 DEF Init, ObjectsOK, RefsLive
<1>3. DiskOK
  BY SessionAssumption DEF Init, DiskOK
<1>4. PhaseOK /\ ReaderOK /\ GraphOK /\ WriterOK /\ FaultsForeseen
  BY DEF Init, PhaseOK, ReaderOK, GraphOK, WriterOK, FaultsForeseen
<1>5. QED BY <1>1, <1>2, <1>3, <1>4 DEF SInv

LEMMA SNext ==
  ASSUME SInv, [Next]_vars
  PROVE  SInv'
<1>1. CASE Loading
  <2>1. ASSUME NEW deep \in BOOLEAN, ShallowLoad(deep) PROVE SInv'
    BY <2>1, ShallowLoadKeeps
  <2>2. ASSUME NEW id \in Id, NEW o \in Object, Create(id, o) PROVE SInv'
    BY <2>2, CreateKeeps
  <2>3. ASSUME NEW told \in SUBSET Object, LoadFails(told) PROVE SInv'
    BY <2>3, LoadFailsKeeps
  <2>4. ASSUME CreateSkipped \/ LoadSkipped \/ LoadObject \/ LoadFreed \/ FinishLoad PROVE SInv'
    BY <2>4, CreateSkippedKeeps, LoadSkippedKeeps, LoadObjectKeeps, LoadFreedKeeps, FinishLoadKeeps
  <2>5. ASSUME LoopEnd("create", "load", 1) \/ LoopEnd("load", "finish", 0) PROVE SInv'
    BY <2>5, CreateEndKeeps, LoadEndKeeps
  <2>6. QED BY <1>1, <2>1, <2>2, <2>3, <2>4, <2>5 DEF Loading
<1>2. CASE Writing
  <2>1. ASSUME NEW o \in Live, AddSavedObject(o) PROVE SInv'
    BY <2>1, AddSavedObjectKeeps
  <2>2. ASSUME NEW n \in Name, AddSavedFile(n) PROVE SInv'
    BY <2>2, AddSavedFileKeeps
  <2>3. ASSUME NEW opened \in BOOLEAN, Save(opened) PROVE SInv'
    BY <2>3, SaveKeeps
  <2>4. ASSUME NewWriter \/ NewShallowWriter \/ NewDeepWriter \/ SaveCrashes \/ DropWriter PROVE SInv'
    BY <2>4, NewWriterKeeps, NewShallowWriterKeeps, NewDeepWriterKeeps, SaveCrashesKeeps,
       DropWriterKeeps
  <2>5. QED BY <1>2, <2>1, <2>2, <2>3, <2>4 DEF Writing
<1>3. ASSUME NEW id \in Id, NEW o \in Object, NEW cls \in Registered, MakeObject(id, o, cls)
      PROVE  SInv'
  BY <1>3, MakeObjectKeeps
<1>4. ASSUME NEW o \in Object, NEW p \in Object \cup {NULL}, Link(o, p)
      PROVE  SInv'
  BY <1>4, LinkKeeps
<1>5. CASE ClearDocument
  BY <1>5, ClearDocumentKeeps
<1>6. CASE Replace
  BY <1>6, ReplaceKeeps
<1>7. CASE UNCHANGED vars
  <2>1. UNCHANGED <<table, objects, disk, reader, loaded, writer, pc, at, fault>>
    BY <1>7 DEF vars, context, call
  <2>2. DiskOK' /\ PhaseOK' /\ FaultsForeseen'
    BY <2>1 DEF SInv, DiskOK, PhaseOK, FaultsForeseen
  <2>3. WriterOK'
    BY <2>1, WriterKept DEF SInv
  <2>4. QED BY <2>1, <2>2, <2>3, ContextKept DEF SInv
<1>8. QED BY <1>1, <1>2, <1>3, <1>4, <1>5, <1>6, <1>7 DEF Next

\* The reader's loops, the writer's tables and the bad accesses: SInv is an
\* invariant of every session (CKFileReader.cpp, CKFileWriter.cpp).
THEOREM SessionInvariance == Spec => []SInv
<1>1. Init => SInv
  BY SInit
<1>2. SInv /\ [Next]_vars => SInv'
  BY SNext
<1>3. QED BY <1>1, <1>2, PTL DEF Spec

\* A null object is saved only by a shallow writer, and a freed object is used
\* only after a document with old data was loaded (CKFileReader.cpp, DeepLoad;
\* CKFileWriter.cpp, Save).
THEOREM Foreseen == Spec => []FaultsForeseen
<1>1. SInv => FaultsForeseen
  BY DEF SInv
<1>2. QED BY <1>1, SessionInvariance, PTL

\* What the loops of DeepLoad have made when they are through.
LEMMA GraphLoaded ==
  ASSUME SInv
  PROVE  LoadsGraph
<1> DEFINE made == {i \in DOMAIN loaded.objs : Made(loaded.objs[i])}
           ptr(i) == reader.objs[i].ptr
<1> SUFFICES ASSUME pc = "finish", NoOldData(loaded)
             PROVE  /\ Live = {ptr(i) : i \in made} /\ Cardinality(Live) = Cardinality(made)
                    /\ \A i \in DOMAIN loaded.objs \ made : ptr(i) = NULL
                    /\ \A i \in made :
                         /\ GetObject(reader.objs[i].created) = ptr(i)
                         /\ objects[ptr(i)].cls = loaded.objs[i].cls
                         /\ objects[ptr(i)].ref =
                              IF loaded.objs[i].data.ref = 0 THEN NULL ELSE ptr(loaded.objs[i].data.ref)
  BY DEF LoadsGraph
<1>1. /\ DOMAIN loaded.objs = 1 .. Len(loaded.objs) /\ Len(loaded.objs) \in Nat
      /\ \A i \in DOMAIN loaded.objs : EntryMade(i) /\ EntryRefers(i)
      /\ OneEach
  BY WhileLoading
<1>2. \A i \in DOMAIN loaded.objs : Seen(i) /\ Read(i)
  BY DEF Seen, Read
<1>3. \A i \in DOMAIN loaded.objs \ made : ptr(i) = NULL
  BY <1>1, <1>2 DEF EntryMade
<1>4. ASSUME NEW i \in made
      PROVE  /\ GetObject(reader.objs[i].created) = ptr(i) /\ ptr(i) \in Live
             /\ objects[ptr(i)].cls = loaded.objs[i].cls
             /\ objects[ptr(i)].ref =
                  IF loaded.objs[i].data.ref = 0 THEN NULL ELSE ptr(loaded.objs[i].data.ref)
  <2>1. EntryMade(i) /\ EntryRefers(i) /\ Made(loaded.objs[i]) /\ Seen(i) /\ Read(i)
    BY <1>1, <1>2
  <2>2. /\ reader.objs[i].created \in DOMAIN table /\ table[reader.objs[i].created] = ptr(i)
        /\ objects[ptr(i)].cls = loaded.objs[i].cls
    BY <2>1 DEF EntryMade
  <2>3. QED BY <2>1, <2>2, LiveIs DEF EntryRefers, GetObject
<1>5. Live = {ptr(i) : i \in made}
  <2>1. \A o \in Live : \E i \in made : ptr(i) = o
    <3>1. SUFFICES ASSUME NEW o \in Live PROVE \E i \in made : ptr(i) = o
      OBVIOUS
    <3>2. PICK i \in DOMAIN loaded.objs : ptr(i) = o
      BY <1>1 DEF OneEach
    <3>3. o # NULL
      BY LiveObjects DEF SInv
    <3>4. QED BY <1>3, <3>2, <3>3
  <2>2. QED BY <1>4, <2>1
<1>6. Cardinality(Live) = Cardinality(made)
  <2>1. IsFiniteSet(made)
    <3>1. IsFiniteSet(1 .. Len(loaded.objs)) /\ made \in SUBSET (1 .. Len(loaded.objs))
      BY <1>1, FS_Interval
    <3>2. QED BY <3>1, FS_Subset
  <2> DEFINE f == [i \in made |-> ptr(i)]
  <2>2. f \in [made -> Live]
    BY <1>4
  <2>3. \A i, j \in made : f[i] = f[j] => i = j
    <3>1. \A i \in made : ptr(i) # NULL
      BY <1>4, LiveObjects DEF SInv
    <3>2. QED BY <1>1, <3>1 DEF OneEach
  <2>4. \A o \in Live : \E i \in made : f[i] = o
    BY <1>5
  <2> HIDE DEF f, made, ptr
  <2>5. f \in Bijection(made, Live)
    BY <2>2, <2>3, <2>4 DEF Bijection, Injection, Surjection, IsInjective
  <2>6. ExistsBijection(made, Live)
    BY <2>5 DEF ExistsBijection
  <2>7. QED BY <2>1, <2>6, FS_Bijection
<1>7. QED BY <1>3, <1>4, <1>5, <1>6

\* After a deep load of a document without old data the context is the graph of
\* the document (CKFileReader.cpp, DeepLoad, and CKFileVisitor).
THEOREM DeepLoad == Spec => []LoadsGraph
<1>1. SInv => LoadsGraph
  BY GraphLoaded
<1>2. QED BY <1>1, SessionInvariance, PTL

\* No call but Save ends in success.
LEMMA OnlySaveSucceeds ==
  ASSUME SInv, [Next]_vars, Succeeds
  PROVE  Save(TRUE)
<1>1. writer # NULL /\ ~ writer.done /\ writer' # NULL /\ writer'.done /\ writer' # writer
  BY DEF Succeeds
<1>2. ~ Loading
  <2>1. Loading => UNCHANGED writer
    BY DEF Loading, ShallowLoad, CreateSkipped, Create, LoopEnd, LoadSkipped, LoadObject, LoadFails,
           LoadFreed, FinishLoad, Advance
  <2>2. QED BY <1>1, <2>1
<1>3. Writing
  BY <1>1, <1>2 DEF Next, MakeObject, Link, ClearDocument, Replace, vars
<1>4. ~ NewWriter /\ ~ NewShallowWriter /\ ~ NewDeepWriter /\ ~ DropWriter /\ ~ SaveCrashes
  BY <1>1 DEF NewWriter, NewShallowWriter, NewDeepWriter, DropWriter, SaveCrashes
<1>5. writer \in Writer
  BY <1>1, WriterParts DEF SInv
<1>6. ASSUME NEW o \in Live, AddSavedObject(o) PROVE FALSE
  <2>1. writer' = Added(writer, o)
    BY <1>6 DEF AddSavedObject
  <2>2. Added(writer, o).done = writer.done
    BY <1>5 DEF Added, Writer
  <2>3. QED BY <1>1, <2>1, <2>2
<1>7. ASSUME NEW n \in Name, AddSavedFile(n) PROVE FALSE
  BY <1>1, <1>5, <1>7 DEF AddSavedFile, Writer
<1>8. PICK opened \in BOOLEAN : Save(opened)
  BY <1>3, <1>4, <1>6, <1>7 DEF Writing
<1>9. writer'.done = opened
  BY <1>5, <1>8 DEF Save, Writer
<1>10. QED BY <1>1, <1>8, <1>9

LEMMA SaveWrites ==
  ASSUME SInv, Save(TRUE), writer.kind # "shallow"
  PROVE  ContextSaved
<1>1. PICK order \in InOrder(Bitmaps) : disk' = Document(WithChunks, writer.maxId, WithFiles(order))
  BY DEF Save
<1>2. writer # NULL /\ \A i \in Saving : Readable(i)
  BY DEF Save
<1>3. WriterSound(writer) /\ Collected(writer) /\ writer \in Writer
  BY <1>2 DEF SInv, WriterOK, WriterSound
<1>4. /\ WithChunks \in Seq(WriterEntry) /\ DOMAIN WithChunks = DOMAIN writer.objs
      /\ \A i \in DOMAIN writer.objs :
           /\ WithChunks[i].data \in Data
           /\ WithChunks[i].data.ref \in {0} \cup DOMAIN writer.objs
           /\ WithChunks[i].id = writer.objs[i].id /\ WithChunks[i].cls = writer.objs[i].cls
           /\ WithChunks[i].ptr = writer.objs[i].ptr
           /\ writer.kind # "shallow" =>
                WithChunks[i].data.ref = IndexOf(objects[writer.objs[i].ptr].ref)
  BY <1>2, ChunksMade DEF SInv
<1>5. /\ WithFiles(order) \in Seq(Name)
      /\ \A i \in Bitmaps : \E k \in DOMAIN WithFiles(order) :
           WithFiles(order)[k] = Includes[writer.objs[i].cls]
  BY <1>2, FilesAdded DEF SInv
<1>6. HasParts(disk', WithChunks, writer.maxId, WithFiles(order))
  BY <1>1, DocumentIs
<1>7. DOMAIN disk'.objs = DOMAIN writer.objs
  BY <1>4, <1>6 DEF HasParts
<1>8. ASSUME NEW i \in DOMAIN writer.objs
      PROVE  /\ GetObject(disk'.objs[i].id) = writer.objs[i].ptr
             /\ disk'.objs[i].cls = objects[writer.objs[i].ptr].cls
             /\ \A j \in DOMAIN writer.objs :
                  disk'.objs[i].data.ref = j <=> objects[writer.objs[i].ptr].ref = writer.objs[j].ptr
             /\ Includes[disk'.objs[i].cls] # NULL =>
                  \E k \in DOMAIN disk'.included : disk'.included[k].name = Includes[disk'.objs[i].cls]
  <2>1. /\ disk'.objs[i].id = writer.objs[i].id /\ disk'.objs[i].cls = writer.objs[i].cls
        /\ disk'.objs[i].data = WithChunks[i].data
    BY <1>4, <1>6 DEF HasParts
  <2>2. /\ writer.objs[i].id \in DOMAIN table /\ table[writer.objs[i].id] = writer.objs[i].ptr
        /\ writer.objs[i].cls = objects[writer.objs[i].ptr].cls /\ writer.objs[i].data = NULL
    BY <1>3 DEF Collected
  <2>3. GetObject(disk'.objs[i].id) = writer.objs[i].ptr
    BY <2>1, <2>2 DEF GetObject
  <2>4. objects[writer.objs[i].ptr].ref \in Live \cup {NULL}
    BY <1>2, <2>2 DEF Saving, Readable
  <2>5. \A j \in DOMAIN writer.objs :
          disk'.objs[i].data.ref = j <=> objects[writer.objs[i].ptr].ref = writer.objs[j].ptr
    BY <1>3, <1>4, <2>1, <2>4, IndexOfIs DEF SInv
  <2>6. ASSUME Includes[disk'.objs[i].cls] # NULL
        PROVE  \E k \in DOMAIN disk'.included : disk'.included[k].name = Includes[disk'.objs[i].cls]
    <3>1. i \in Bitmaps
      BY <2>1, <2>2, <2>6 DEF Bitmaps, Saving
    <3>2. PICK k \in DOMAIN WithFiles(order) : WithFiles(order)[k] = Includes[writer.objs[i].cls]
      BY <1>5, <3>1
    <3>3. QED BY <1>6, <2>1, <3>2 DEF HasParts
  <2>7. QED BY <2>1, <2>2, <2>3, <2>5, <2>6
<1>9. QED BY <1>7, <1>8 DEF ContextSaved

\* A plain or deep writer that reports success has written the context as it
\* is at that moment (CKFileWriter.cpp, Save, and InternalObjectAdder).
THEOREM Saves == Spec => SavesContext
<1>1. SInv /\ [Next]_vars => [Succeeds /\ writer.kind # "shallow" => ContextSaved]_vars
  BY OnlySaveSucceeds, SaveWrites
<1>2. QED BY <1>1, SessionInvariance, PTL DEF Spec, SavesContext

-----------------------------------------------------------------------------
(* Positions in a file.                                                     *)

\* The equation of FileIndexes and of ReadPosition.
Walks(f, n, first, size) ==
  f = [i \in 1 .. n |-> IF i = 1 THEN first ELSE f[i - 1] + size[i - 1] + 1]

LEMMA WalkExists ==
  ASSUME NEW n \in Nat, NEW first \in Nat, NEW size \in [1 .. n -> Nat]
  PROVE  \E f \in [1 .. n -> Nat] : Walks(f, n, first, size)
<1> DEFINE S == {m \in Nat : m <= n => \E f \in [1 .. m -> Nat] : Walks(f, m, first, size)}
<1>1. 0 \in S
  <2> DEFINE f == [i \in 1 .. 0 |-> 0]
  <2>1. f \in [1 .. 0 -> Nat] /\ Walks(f, 0, first, size)
    BY DEF Walks
  <2> QED
    BY <2>1
<1>2. ASSUME NEW m \in S
      PROVE  m + 1 \in S
  <2> SUFFICES ASSUME m + 1 <= n
               PROVE  \E f \in [1 .. m + 1 -> Nat] : Walks(f, m + 1, first, size)
    OBVIOUS
  <2>1. PICK g \in [1 .. m -> Nat] : Walks(g, m, first, size)
    OBVIOUS
  <2> DEFINE next == IF m = 0 THEN first ELSE g[m] + size[m] + 1
             f == [i \in 1 .. m + 1 |-> IF i = m + 1 THEN next ELSE g[i]]
  <2>2. next \in Nat
    OBVIOUS
  <2>3. f \in [1 .. m + 1 -> Nat]
    BY <2>2
  <2>4. ASSUME NEW i \in 1 .. m + 1
        PROVE  f[i] = IF i = 1 THEN first ELSE f[i - 1] + size[i - 1] + 1
    <3>1. CASE i = m + 1
      BY <3>1
    <3>2. CASE i # m + 1
      <4>1. i \in 1 .. m /\ (i # 1 => i - 1 \in 1 .. m /\ i - 1 # m + 1)
        BY <3>2
      <4>2. g[i] = IF i = 1 THEN first ELSE g[i - 1] + size[i - 1] + 1
        BY <2>1, <4>1 DEF Walks
      <4> QED
        BY <4>1, <4>2
    <3> QED
      BY <3>1, <3>2
  <2> HIDE DEF f
  <2>5. Walks(f, m + 1, first, size)
    BY <2>3, <2>4 DEF Walks
  <2> QED
    BY <2>3, <2>5
<1> HIDE DEF S
<1>3. S = Nat
  <2>1. S \in SUBSET Nat
    BY DEF S
  <2> QED
    BY <1>1, <1>2, <2>1, Induction
<1>4. n \in S
  BY <1>3
<1> QED
  BY <1>4 DEF S

LEMMA WalkUnique ==
  ASSUME NEW n \in Nat, NEW first, NEW size, NEW f, NEW g,
         Walks(f, n, first, size), Walks(g, n, first, size)
  PROVE  f = g
<1> DEFINE S == {m \in Nat : \A i \in 1 .. n : i <= m => f[i] = g[i]}
<1>1. 0 \in S
  OBVIOUS
<1>2. ASSUME NEW m \in S
      PROVE  m + 1 \in S
  <2>1. ASSUME NEW i \in 1 .. n, i <= m + 1
        PROVE  f[i] = g[i]
    <3>1. /\ f[i] = IF i = 1 THEN first ELSE f[i - 1] + size[i - 1] + 1
          /\ g[i] = IF i = 1 THEN first ELSE g[i - 1] + size[i - 1] + 1
      BY DEF Walks
    <3>2. i # 1 => i - 1 \in 1 .. n /\ i - 1 <= m
      BY <2>1
    <3>3. i # 1 => f[i - 1] = g[i - 1]
      BY <3>2
    <3> QED
      BY <3>1, <3>3
  <2> QED
    BY <2>1
<1> HIDE DEF S
<1>3. S = Nat
  <2>1. S \in SUBSET Nat
    BY DEF S
  <2> QED
    BY <1>1, <1>2, <2>1, Induction
<1>4. \A i \in 1 .. n : f[i] = g[i]
  BY <1>3 DEF S
<1> QED
  BY <1>4 DEF Walks

Sizes(objs) == [i \in DOMAIN objs |-> PackSize(objs[i].data)]

LEMMA SizesAre ==
  ASSUME NEW objs, NEW n \in Nat, DOMAIN objs = 1 .. n, \A i \in 1 .. n : objs[i].data \in Data \cup {NULL}
  PROVE  Sizes(objs) \in [1 .. n -> Nat]
<1>1. \A i \in 1 .. n : PackSize(objs[i].data) \in Nat
  BY SessionAssumption DEF PackSize, Data
<1> QED
  BY <1>1 DEF Sizes

\* The recursion of Save has one solution.
LEMMA FileIndexesWalk ==
  ASSUME NEW objs, NEW n \in Nat, DOMAIN objs = 1 .. n, Len(objs) = n,
         \A i \in 1 .. n : objs[i].data \in Data \cup {NULL}
  PROVE  FileIndexes(objs) \in [1 .. n -> Nat] /\ Walks(FileIndexes(objs), n, n + 1, Sizes(objs))
<1>1. ASSUME NEW f
      PROVE  f = [i \in DOMAIN objs |->
                    IF i = 1 THEN HeaderSize(objs) ELSE f[i - 1] + PackSize(objs[i - 1].data) + 1]
             <=> Walks(f, n, n + 1, Sizes(objs))
  <2> DEFINE g == [i \in DOMAIN objs |->
                     IF i = 1 THEN HeaderSize(objs) ELSE f[i - 1] + PackSize(objs[i - 1].data) + 1]
             h == [i \in 1 .. n |-> IF i = 1 THEN n + 1 ELSE f[i - 1] + Sizes(objs)[i - 1] + 1]
  <2>1. \A i \in 1 .. n : i # 1 => Sizes(objs)[i - 1] = PackSize(objs[i - 1].data)
    BY DEF Sizes
  <2>2. \A i \in 1 .. n : g[i] = h[i]
    BY <2>1 DEF HeaderSize
  <2>3. g = h
    BY <2>2
  <2> QED
    BY <2>3 DEF Walks
<1>2. \E f \in [1 .. n -> Nat] : Walks(f, n, n + 1, Sizes(objs))
  <2>1. Sizes(objs) \in [1 .. n -> Nat] /\ n + 1 \in Nat
    BY SizesAre
  <2> QED
    BY <2>1, WalkExists
<1>3. Walks(FileIndexes(objs), n, n + 1, Sizes(objs))
  BY <1>1, <1>2 DEF FileIndexes
<1> QED
  BY <1>2, <1>3, WalkUnique

\* The recursion of ReadFileData has the same one.
LEMMA ReadPositionWalk ==
  ASSUME NEW doc, NEW n \in Nat, DOMAIN doc.objs = 1 .. n, Len(doc.objs) = n,
         \A i \in 1 .. n : doc.objs[i].data \in Data \cup {NULL}
  PROVE  ReadPosition(doc) = FileIndexes(doc.objs)
<1> DEFINE objs == doc.objs
<1>1. Sizes(objs) \in [1 .. n -> Nat]
  BY SizesAre
<1>2. FileIndexes(objs) \in [1 .. n -> Nat] /\ Walks(FileIndexes(objs), n, n + 1, Sizes(objs))
  BY FileIndexesWalk
<1> DEFINE Reads(f) == [i \in DOMAIN doc.objs |->
                          IF i = 1 THEN HeaderSize(doc.objs)
                          ELSE f[i - 1] + 1 + PackSize(doc.objs[i - 1].data)]
<1>3. \A i \in 1 .. n : i # 1 => i - 1 \in 1 .. n /\ Sizes(objs)[i - 1] = PackSize(objs[i - 1].data)
  BY DEF Sizes
<1>4. FileIndexes(objs) = Reads(FileIndexes(objs))
  <2> DEFINE f == FileIndexes(objs)
  <2> HIDE DEF f
  <2>1. f \in [1 .. n -> Nat] /\ f = [i \in 1 .. n |-> IF i = 1 THEN n + 1 ELSE f[i - 1] + Sizes(objs)[i - 1] + 1]
    BY <1>2 DEF f, Walks
  <2>2. ASSUME NEW i \in 1 .. n
        PROVE  f[i] = Reads(f)[i]
    <3>1. CASE i = 1
      BY <2>1, <3>1 DEF HeaderSize
    <3>2. CASE i # 1
      <4>1. f[i] = f[i - 1] + Sizes(objs)[i - 1] + 1 /\ f[i - 1] \in Nat /\ Sizes(objs)[i - 1] \in Nat
        BY <1>1, <1>3, <2>1, <3>2
      <4>2. Reads(f)[i] = f[i - 1] + 1 + Sizes(objs)[i - 1]
        BY <1>3, <3>2
      <4> QED
        BY <4>1, <4>2
    <3> QED
      BY <3>1, <3>2
  <2>3. f = Reads(f)
    BY <2>1, <2>2
  <2> QED
    BY <2>3 DEF f
<1> DEFINE g == ReadPosition(doc)
<1>5. g = Reads(g)
  BY <1>4 DEF ReadPosition
<1> HIDE DEF g
<1>6. g = FileIndexes(objs)
  <2> DEFINE f == FileIndexes(objs)
             S == {m \in Nat : \A i \in 1 .. n : i <= m => f[i] = g[i]}
  <2>1. \A i \in 1 .. n : /\ f[i] = IF i = 1 THEN HeaderSize(objs) ELSE f[i - 1] + 1 + PackSize(objs[i - 1].data)
                         /\ g[i] = IF i = 1 THEN HeaderSize(objs) ELSE g[i - 1] + 1 + PackSize(objs[i - 1].data)
    BY <1>4, <1>5
  <2> HIDE DEF f
  <2>2. 0 \in S
    OBVIOUS
  <2>3. ASSUME NEW m \in S
        PROVE  m + 1 \in S
    <3>1. ASSUME NEW i \in 1 .. n, i <= m + 1
          PROVE  f[i] = g[i]
      <4>1. i # 1 => f[i - 1] = g[i - 1]
        BY <3>1
      <4> QED
        BY <2>1, <4>1
    <3> QED
      BY <3>1
  <2> HIDE DEF S
  <2>4. S = Nat
    <3>1. S \in SUBSET Nat
      BY DEF S
    <3> QED
      BY <2>2, <2>3, <3>1, Induction
  <2>5. \A i \in 1 .. n : f[i] = g[i]
    <3>1. \A i \in 1 .. n : i \in S
      BY <2>4
    <3> QED
      BY <3>1 DEF S
  <2>6. f = Reads(f) /\ g = Reads(g)
    BY <1>4, <1>5 DEF f
  <2>7. DOMAIN f = 1 .. n /\ DOMAIN g = 1 .. n /\ f = [i \in 1 .. n |-> f[i]] /\ g = [i \in 1 .. n |-> g[i]]
    BY <2>6
  <2> QED
    BY <2>5, <2>7 DEF f
<1> QED
  BY <1>6 DEF g

\* Both depend on the sizes of the chunks only.
LEMMA SamePositions ==
  ASSUME NEW objs \in Seq(WriterEntry), NEW maxId, NEW files,
         \A i \in DOMAIN objs : objs[i].data \in Data
  PROVE  LET doc == Document(objs, maxId, files)
         IN \A i \in DOMAIN objs : doc.objs[i].index = ReadPosition(doc)[i]
<1> DEFINE doc == Document(objs, maxId, files)
           n == Len(objs)
<1>1. DOMAIN objs = 1 .. n /\ n \in Nat
  BY LenProperties
<1>2. /\ DOMAIN doc.objs = 1 .. n /\ doc.objs = [i \in 1 .. n |-> doc.objs[i]]
      /\ \A i \in 1 .. n : doc.objs[i].data = objs[i].data /\ doc.objs[i].index = FileIndexes(objs)[i]
  BY <1>1 DEF Document
<1> HIDE DEF doc, n
<1>3. Len(doc.objs) = n
  <2>1. \A i \in 1 .. n : doc.objs[i] \in ToSet(doc.objs)
    BY <1>2 DEF ToSet
  <2>2. doc.objs \in Seq(ToSet(doc.objs))
    BY <1>1, <1>2, <2>1, IsSequence
  <2> QED
    BY <1>1, <1>2, <2>2, LenProperties
<1>4. \A i \in 1 .. n : doc.objs[i].data \in Data \cup {NULL} /\ objs[i].data \in Data \cup {NULL}
  BY <1>1, <1>2
<1>5. Sizes(doc.objs) = Sizes(objs)
  BY <1>1, <1>2 DEF Sizes
<1>6. Walks(FileIndexes(objs), n, n + 1, Sizes(objs))
  BY <1>1, <1>4, FileIndexesWalk DEF n
<1>7. Walks(FileIndexes(doc.objs), n, n + 1, Sizes(objs))
  <2>1. Walks(FileIndexes(doc.objs), n, n + 1, Sizes(doc.objs))
    BY <1>1, <1>2, <1>3, <1>4, FileIndexesWalk
  <2> QED
    BY <1>5, <2>1
<1>8. FileIndexes(doc.objs) = FileIndexes(objs)
  BY <1>1, <1>6, <1>7, WalkUnique
<1>9. ReadPosition(doc) = FileIndexes(doc.objs)
  BY <1>1, <1>2, <1>3, <1>4, ReadPositionWalk
<1> QED
  BY <1>1, <1>2, <1>8, <1>9 DEF doc

-----------------------------------------------------------------------------
(* Identifiers and positions in documents.                                  *)

\* The document in memory is as good as the one on the disk, and a writer
\* knows the largest of its identifiers.
Numbers ==
  /\ disk \notin {ABSENT, BROKEN} => Numbered(disk)
  /\ reader # NULL => Numbered(loaded) /\ reader.maxId = loaded.maxId
  /\ writer # NULL =>
       \A i \in DOMAIN writer.objs :
         /\ writer.objs[i].id <= writer.maxId
         /\ \A j \in DOMAIN writer.objs : writer.objs[i].id = writer.objs[j].id => i = j

\* The positions of a writer's table tell its objects apart.
LEMMA WriterDistinct ==
  ASSUME WriterOK, writer # NULL, writer.kind # "shallow"
  PROVE  \A i, j \in DOMAIN writer.objs : writer.objs[i].id = writer.objs[j].id => i = j
BY DEF WriterOK, WriterSound, Collected

LEMMA NumbersLoading ==
  ASSUME SInv, Numbers, Loading
  PROVE  Numbers'
<1>1. CASE \E deep \in BOOLEAN : ShallowLoad(deep)
  <2>1. /\ disk \notin {ABSENT, BROKEN} /\ reader'.maxId = disk.maxId /\ loaded' = disk
        /\ writer' = NULL /\ disk' = disk
    BY <1>1 DEF ShallowLoad
  <2> QED
    BY <2>1 DEF Numbers, Numbered
<1>2. CASE /\ UNCHANGED <<disk, loaded, writer>>
           /\ reader' = reader \/ (reader \in Reader /\ reader'.maxId = reader.maxId /\ reader # NULL)
  BY <1>2 DEF Numbers, Numbered
<1>3. ASSUME \/ CreateSkipped
             \/ \E id \in Id, o \in Object : Create(id, o)
             \/ LoopEnd("create", "load", 1)
             \/ LoadSkipped
             \/ LoadObject
             \/ \E told \in SUBSET Object : LoadFails(told)
             \/ LoadFreed
             \/ LoopEnd("load", "finish", 0)
             \/ FinishLoad
      PROVE  /\ UNCHANGED <<disk, loaded, writer>>
             /\ reader' = reader \/ (reader \in Reader /\ reader'.maxId = reader.maxId /\ reader # NULL)
  <2>1. pc # "idle"
    BY <1>3 DEF CreateSkipped, Create, LoopEnd, LoadSkipped, LoadObject, LoadFails, LoadFreed,
                FinishLoad, Loads, Looping
  <2>2. reader \in Reader /\ reader # NULL
    BY <2>1, WhileLoading
  <2>3. UNCHANGED <<disk, loaded, writer>>
    BY <1>3 DEF CreateSkipped, Create, LoopEnd, LoadSkipped, LoadObject, LoadFails, LoadFreed,
                FinishLoad, Advance
  <2>4. reader' = reader \/ reader'.maxId = reader.maxId
    <3>1. ASSUME NEW id, NEW o, Create(id, o)
          PROVE  reader'.maxId = reader.maxId
      BY <2>2, <3>1 DEF Create, Reader
    <3>2. ASSUME NEW told, LoadFails(told)
          PROVE  reader'.maxId = reader.maxId
      BY <2>2, <3>2 DEF LoadFails, Reader
    <3>3. LoadObject \/ FinishLoad => reader'.maxId = reader.maxId
      BY <2>2 DEF LoadObject, FinishLoad, Reader
    <3>4. CreateSkipped \/ LoopEnd("create", "load", 1) \/ LoadSkipped \/ LoadFreed
            \/ LoopEnd("load", "finish", 0) => reader' = reader
      BY DEF CreateSkipped, LoopEnd, LoadSkipped, LoadFreed
    <3> QED
      BY <1>3, <3>1, <3>2, <3>3, <3>4
  <2> QED
    BY <2>2, <2>3, <2>4
<1> QED
  BY <1>1, <1>2, <1>3 DEF Loading

LEMMA NumbersWriting ==
  ASSUME SInv, SInv', Numbers, Writing
  PROVE  Numbers'
<1>1. UNCHANGED <<reader, loaded>>
  BY DEF Writing, NewWriter, NewShallowWriter, NewDeepWriter, AddSavedObject, AddSavedFile, Save,
         SaveCrashes, DropWriter
<1>2. reader # NULL => Numbered(loaded)' /\ reader'.maxId = loaded'.maxId
  BY <1>1 DEF Numbers, Numbered
<1>3. (\A opened \in BOOLEAN : ~ Save(opened)) => disk' = disk
  BY DEF Writing, NewWriter, NewShallowWriter, NewDeepWriter, AddSavedObject, AddSavedFile,
         SaveCrashes, DropWriter
<1>4. ASSUME disk' = disk,
             writer' # NULL =>
               \A i \in DOMAIN writer'.objs :
                 /\ writer'.objs[i].id <= writer'.maxId
                 /\ \A j \in DOMAIN writer'.objs : writer'.objs[i].id = writer'.objs[j].id => i = j
      PROVE  Numbers'
  BY <1>1, <1>2, <1>4 DEF Numbers, Numbered
<1>5. CASE NewWriter
  <2>1. writer'.objs = <<>> /\ disk' = disk
    BY <1>5 DEF NewWriter, EmptyWriter
  <2> QED
    BY <1>4, <2>1
<1>6. CASE NewShallowWriter
  <2>1. /\ reader # NULL /\ reader \in Reader /\ DOMAIN reader.objs = DOMAIN loaded.objs
        /\ \A i \in DOMAIN loaded.objs : reader.objs[i].id = loaded.objs[i].id
        /\ Numbered(loaded) /\ reader.maxId = loaded.maxId
    BY <1>6, ReaderParts DEF NewShallowWriter, SInv, ReaderOK, Numbers
  <2>2. /\ writer'.maxId = reader.maxId /\ DOMAIN writer'.objs = DOMAIN reader.objs /\ disk' = disk
        /\ \A i \in DOMAIN reader.objs : writer'.objs[i].id = reader.objs[i].id
    BY <1>6 DEF NewShallowWriter, EmptyWriter
  <2> QED
    BY <1>4, <2>1, <2>2 DEF Numbered
<1>7. CASE NewDeepWriter
  <2>1. disk' = disk /\ reader # NULL
    BY <1>7 DEF NewDeepWriter
  <2>2. CASE writer' = writer
    BY <1>4, <2>1, <2>2 DEF Numbers
  <2>3. CASE writer' # writer
    <3>1. PICK order \in InOrder(ReaderObjects) :
            LET os == [k \in DOMAIN order |-> reader.objs[order[k]].ptr]
                ids == {0} \cup {GetID(o) : o \in ToSet(os)}
            IN \E maxId \in ids :
                 /\ \A id \in ids : id <= maxId
                 /\ writer' = AddedAll(EmptyWriter("deep"), os, maxId)
      BY <1>7, <2>3 DEF NewDeepWriter
    <3> DEFINE os == [k \in DOMAIN order |-> reader.objs[order[k]].ptr]
               ids == {0} \cup {GetID(o) : o \in ToSet(os)}
    <3>2. PICK maxId \in ids : /\ \A id \in ids : id <= maxId
                               /\ writer' = AddedAll(EmptyWriter("deep"), os, maxId)
      BY <3>1
    <3>3. \A k \in DOMAIN os : GetID(os[k]) \in ids
      BY DEF ToSet
    <3> HIDE DEF os, ids
    <3>4. /\ writer'.maxId = maxId /\ writer'.kind = "deep" /\ DOMAIN writer'.objs = DOMAIN os
          /\ \A k \in DOMAIN os : writer'.objs[k].id = GetID(os[k])
      BY <3>2 DEF AddedAll, EmptyWriter, FileObject
    <3>5. \A i \in DOMAIN writer'.objs : writer'.objs[i].id <= writer'.maxId
      BY <3>2, <3>3, <3>4
    <3>6. writer' # NULL =>
            \A i, j \in DOMAIN writer'.objs : writer'.objs[i].id = writer'.objs[j].id => i = j
      BY <3>4 DEF SInv, WriterOK, WriterSound, Collected
    <3> QED
      BY <1>4, <2>1, <3>5, <3>6
  <2> QED
    BY <2>2, <2>3
<1>8. ASSUME NEW o \in Live, AddSavedObject(o)
      PROVE  Numbers'
  <2>1. /\ writer # NULL /\ writer \in Writer /\ writer.kind # "shallow" /\ disk' = disk
        /\ writer' = Added(writer, o)
    BY <1>8, WriterParts DEF AddSavedObject, SInv
  <2>2. /\ writer.objs \in Seq(WriterEntry) /\ writer.maxId \in Nat /\ writer.hash \in [Id -> Nat]
        /\ \A i \in DOMAIN writer.objs : writer.objs[i].id \in Nat
    BY <2>1, WriterParts DEF SInv, Writer, WriterEntry
  <2>3. GetID(o) \in Nat
    BY GetIDOf, SessionAssumption DEF SInv
  <2>4. CASE GetID(o) \in writer.mask
    <3>1. writer' = writer
      BY <2>1, <2>4 DEF Added
    <3> QED
      BY <1>4, <2>1, <3>1 DEF Numbers
  <2>5. CASE GetID(o) \notin writer.mask
    <3>1. /\ writer'.kind = writer.kind
          /\ writer'.maxId = IF GetID(o) > writer.maxId THEN GetID(o) ELSE writer.maxId
          /\ writer'.objs = Append(writer.objs, FileObject(o))
      BY <2>1, <2>2, <2>5 DEF Added, Writer
    <3>2. FileObject(o).id = GetID(o)
      BY DEF FileObject
    <3>3. /\ DOMAIN writer.objs = 1 .. Len(writer.objs) /\ Len(writer.objs) \in Nat
      BY <2>2, LenProperties
    <3> DEFINE e == FileObject(o)
    <3>4. \A i \in DOMAIN writer'.objs :
            (i \in DOMAIN writer.objs /\ writer'.objs[i] = writer.objs[i]) \/ writer'.objs[i] = e
      <4> HIDE DEF e
      <4>1. DOMAIN Append(writer.objs, e) = 1 .. Len(writer.objs) + 1
        BY <2>2, <3>3
      <4>2. \A i \in 1 .. Len(writer.objs) + 1 :
              Append(writer.objs, e)[i] = IF i <= Len(writer.objs) THEN writer.objs[i] ELSE e
        BY <2>2, <3>3
      <4> QED
        BY <3>1, <3>3, <4>1, <4>2 DEF e
    <3>5. \A i \in DOMAIN writer'.objs : writer'.objs[i].id <= writer'.maxId
      <4>1. \A i \in DOMAIN writer.objs : writer.objs[i].id <= writer.maxId
        BY <2>1 DEF Numbers
      <4> HIDE DEF e
      <4>2. writer.maxId <= writer'.maxId /\ e.id <= writer'.maxId /\ writer'.maxId \in Nat
        BY <2>2, <2>3, <3>1, <3>2 DEF e
      <4>3. \A i \in DOMAIN writer.objs : writer.objs[i].id <= writer'.maxId
        BY <2>2, <4>1, <4>2
      <4> QED
        BY <3>4, <4>2, <4>3
    <3>6. writer' # NULL =>
            \A i, j \in DOMAIN writer'.objs : writer'.objs[i].id = writer'.objs[j].id => i = j
      BY <2>1, <3>1 DEF SInv, WriterOK, WriterSound, Collected
    <3> QED
      BY <1>4, <2>1, <3>5, <3>6
  <2> QED
    BY <2>4, <2>5
<1>9. ASSUME NEW n \in Name, AddSavedFile(n)
      PROVE  Numbers'
  <2>1. writer \in Writer /\ writer # NULL /\ disk' = disk
    BY <1>9, WriterParts DEF AddSavedFile, SInv
  <2>2. writer'.objs = writer.objs /\ writer'.maxId = writer.maxId
    BY <1>9, <2>1 DEF AddSavedFile, Writer
  <2> QED
    BY <1>4, <2>1, <2>2 DEF Numbers
<1>10. ASSUME NEW opened \in BOOLEAN, Save(opened)
       PROVE  Numbers'
  <2>1. writer # NULL /\ writer \in Writer /\ \A i \in Saving : Readable(i)
    BY <1>10, WriterParts DEF Save, SInv
  <2>2. PICK order \in InOrder(Bitmaps) :
         /\ writer' = [writer EXCEPT !.objs = Released(WithChunks), !.included = WithFiles(order),
                                     !.done = opened]
         /\ disk' = IF opened THEN Document(WithChunks, writer.maxId, WithFiles(order))
                    ELSE IF disk = ABSENT THEN BROKEN ELSE disk
    BY <1>10 DEF Save
  <2>3. /\ WithChunks \in Seq(WriterEntry) /\ DOMAIN WithChunks = DOMAIN writer.objs
        /\ \A i \in DOMAIN writer.objs :
             WithChunks[i].data \in Data /\ WithChunks[i].id = writer.objs[i].id
    BY <2>1, ChunksMade DEF SInv
  <2>4. \A i \in DOMAIN writer.objs :
          /\ writer.objs[i].id <= writer.maxId
          /\ \A j \in DOMAIN writer.objs : writer.objs[i].id = writer.objs[j].id => i = j
    BY <2>1 DEF Numbers
  <2>5. writer'.maxId = writer.maxId /\ writer'.objs = Released(WithChunks)
    BY <2>1, <2>2 DEF Writer
  <2>6. DOMAIN writer'.objs = DOMAIN writer.objs
        /\ \A i \in DOMAIN writer.objs : writer'.objs[i].id = writer.objs[i].id
    <3>1. \A i \in DOMAIN WithChunks : WithChunks[i] \in WriterEntry
      BY <2>3, LenProperties
    <3>2. \A entry \in WriterEntry : [entry EXCEPT !.data = NULL].id = entry.id
      BY DEF WriterEntry
    <3>3. /\ DOMAIN Released(WithChunks) = DOMAIN WithChunks
          /\ \A i \in DOMAIN WithChunks : Released(WithChunks)[i] = [WithChunks[i] EXCEPT !.data = NULL]
      BY DEF Released
    <3>4. \A i \in DOMAIN WithChunks : Released(WithChunks)[i].id = WithChunks[i].id
      <4> SUFFICES ASSUME NEW i \in DOMAIN WithChunks
                   PROVE  Released(WithChunks)[i].id = WithChunks[i].id
        OBVIOUS
      <4>1. WithChunks[i] \in WriterEntry /\ Released(WithChunks)[i] = [WithChunks[i] EXCEPT !.data = NULL]
        BY <3>1, <3>3
      <4> QED
        BY <3>2, <4>1
    <3> QED
      BY <2>3, <2>5, <3>3, <3>4
  <2>7. Numbered(Document(WithChunks, writer.maxId, WithFiles(order)))
    <3> DEFINE doc == Document(WithChunks, writer.maxId, WithFiles(order))
    <3>1. \A i \in DOMAIN WithChunks : doc.objs[i].index = ReadPosition(doc)[i]
      BY <2>3, SamePositions
    <3>2. HasParts(doc, WithChunks, writer.maxId, WithFiles(order))
      BY DocumentIs
    <3> HIDE DEF doc
    <3> QED
      BY <2>3, <2>4, <3>1, <3>2 DEF HasParts, Numbered, doc
  <2>8. disk' \notin {ABSENT, BROKEN} => Numbered(disk')
    BY <2>2, <2>7 DEF Numbers
  <2>9. disk' \notin {ABSENT, BROKEN} => Numbered(disk)'
    BY <2>8 DEF Numbered
  <2> QED
    BY <1>1, <1>2, <2>4, <2>5, <2>6, <2>9 DEF Numbers
<1>11. CASE SaveCrashes \/ DropWriter
  <2>1. disk' = disk /\ (writer' = writer \/ writer' = NULL)
    BY <1>11 DEF SaveCrashes, DropWriter
  <2> QED
    BY <1>4, <2>1 DEF Numbers
<1> QED
  BY <1>5, <1>6, <1>7, <1>8, <1>9, <1>10, <1>11 DEF Writing

LEMMA NumbersInvariance ==
  Spec => []Numbers
<1>1. Init => Numbers
  BY SessionAssumption DEF Init, Numbers
<1>2. ASSUME SInv, SInv', Numbers, [Next]_vars
      PROVE  Numbers'
  <2>1. CASE ClearDocument
    <3>1. reader' = NULL /\ writer' = NULL /\ disk' = disk
      BY <2>1 DEF ClearDocument
    <3> QED
      BY <1>2, <3>1 DEF Numbers, Numbered
  <2>2. CASE Replace
    <3>1. disk' \in Originals /\ UNCHANGED <<reader, loaded, writer>>
      BY <2>2 DEF Replace
    <3> QED
      BY <1>2, <3>1, SessionAssumption DEF Numbers, Numbered
  <2>3. CASE \/ \E id \in Id, o \in Object, cls \in Registered : MakeObject(id, o, cls)
             \/ \E o \in Object, p \in Object \cup {NULL} : Link(o, p)
             \/ UNCHANGED vars
    <3>1. UNCHANGED <<disk, reader, loaded, writer>>
      BY <2>3 DEF MakeObject, Link, vars
    <3> QED
      BY <1>2, <3>1 DEF Numbers, Numbered
  <2> QED
    BY <1>2, <2>1, <2>2, <2>3, NumbersLoading, NumbersWriting DEF Next
<1> QED
  BY SessionInvariance, <1>1, <1>2, PTL DEF Spec

\* Every document Save leaves on the disk can be read again: identifiers that
\* are told apart and none above the largest, references that stay inside, and
\* chunks that are where the list of objects says (CKFileWriter.cpp, Save).
THEOREM ProperDocuments == Spec => []DocumentsProper
<1>1. SInv /\ Numbers => DocumentsProper
  BY ClosedParts DEF SInv, DiskOK, Numbers, DocumentsProper
<1> QED
  BY SessionInvariance, NumbersInvariance, <1>1, PTL

-----------------------------------------------------------------------------
(* A shallow session copies a document.                                     *)

\* A document with nothing but what the model of one has, that does not
\* include two files under one name.
Exact(doc) ==
  /\ doc = [maxId |-> doc.maxId, objs |-> doc.objs, included |-> doc.included]
  /\ \A i \in DOMAIN doc.objs :
       doc.objs[i] = [id |-> doc.objs[i].id, cls |-> doc.objs[i].cls,
                      index |-> doc.objs[i].index, data |-> doc.objs[i].data]
  /\ \A k \in DOMAIN doc.included :
       doc.included[k] = [name |-> doc.included[k].name, body |-> doc.included[k].body]
  /\ \A j, k \in DOMAIN doc.included :
       doc.included[j].name = doc.included[k].name => doc.included[j].body = doc.included[k].body

OriginalsExact == \A doc \in Originals : Exact(doc)

\* The included files of the document are in the temp folder while there is a
\* reader, and its chunks are in a shallow writer until they are written.
FilesUnpacked ==
  reader # NULL =>
    /\ Exact(loaded)
    /\ reader.included = [k \in DOMAIN loaded.included |-> loaded.included[k].name]
    /\ \A k \in DOMAIN loaded.included : temp[loaded.included[k].name] = loaded.included[k].body

ShallowCopy ==
  writer # NULL /\ writer.kind = "shallow" =>
    /\ reader # NULL
    /\ writer.maxId = loaded.maxId /\ writer.included = reader.included
    /\ DOMAIN writer.objs = DOMAIN loaded.objs
    /\ \A i \in DOMAIN loaded.objs :
         /\ writer.objs[i].id = loaded.objs[i].id /\ writer.objs[i].cls = loaded.objs[i].cls
         /\ writer.objs[i].data \in {NULL, loaded.objs[i].data}

Copies ==
  /\ disk \notin {ABSENT, BROKEN} => Exact(disk)
  /\ FilesUnpacked
  /\ ShallowCopy

LEMMA MaxOf ==
  ASSUME NEW n \in Nat, NEW S \in SUBSET (1 .. n), S # {}
  PROVE  Max(S) \in S
<1> DEFINE T == {n - k : k \in S}
<1>1. T \in SUBSET Nat /\ T # {}
  <2>1. PICK k : k \in S
    OBVIOUS
  <2>2. n - k \in T
    BY <2>1
  <2>3. \A j \in S : n - j \in Nat
    OBVIOUS
  <2> QED
    BY <2>2, <2>3
<1>2. PICK m \in T : \A t \in T : m <= t
  BY <1>1, Least
<1>3. PICK k \in S : m = n - k
  BY <1>2
<1>4. \A j \in S : k >= j
  <2> SUFFICES ASSUME NEW j \in S
               PROVE  k >= j
    OBVIOUS
  <2>1. n - j \in T
    OBVIOUS
  <2> HIDE DEF T
  <2>2. n - k <= n - j
    BY <1>2, <1>3, <2>1
  <2>3. \A a, b, c \in Int : c - a <= c - b => a >= b
    OBVIOUS
  <2>4. n \in Int /\ j \in Int /\ k \in Int
    BY <1>3
  <2> QED
    BY <2>2, <2>3, <2>4
<1> QED
  BY <1>3, <1>4 DEF Max

LEMMA UnpackedIs ==
  ASSUME NEW doc, Closed(doc), Exact(doc), NEW k \in DOMAIN doc.included
  PROVE  Unpacked(doc)[doc.included[k].name] = doc.included[k].body
<1> DEFINE name == doc.included[k].name
           files == {j \in DOMAIN doc.included : doc.included[j].name = name}
<1>1. k \in files /\ files \in SUBSET (1 .. Len(doc.included)) /\ Len(doc.included) \in Nat
  BY ClosedParts
<1>2. Max(files) \in files
  BY <1>1, MaxOf
<1>3. name \in Name
  BY DEF Closed
<1>4. Unpacked(doc)[name] = doc.included[Max(files)].body
  BY <1>1, <1>3 DEF Unpacked
<1> QED
  BY <1>2, <1>4 DEF Exact

\* A shallow writer is saved only with all its chunks, and then it adds no file.
LEMMA ShallowSave ==
  ASSUME SInv, Copies, writer # NULL, writer.kind = "shallow", \A i \in Saving : Readable(i)
  PROVE  /\ WithChunks = writer.objs /\ Bitmaps = {}
         /\ \A i \in DOMAIN loaded.objs : writer.objs[i].data = loaded.objs[i].data
         /\ \A order \in InOrder(Bitmaps) : WithFiles(order) = writer.included
<1>1. Chunks(writer) /\ writer.included \in Seq(Name)
  BY WriterParts DEF SInv, WriterOK, WriterSound
<1>2. Saving = {}
  <2> SUFFICES ASSUME NEW i \in Saving
               PROVE  FALSE
    OBVIOUS
  <2>1. writer.objs[i].ptr = NULL /\ writer.objs[i].ptr \in Live
    BY <1>1 DEF Saving, Chunks, Readable
  <2> QED
    BY <2>1, LiveObjects DEF SInv
<1>3. \A i \in DOMAIN writer.objs : writer.objs[i].data # NULL
  BY <1>2 DEF Saving
<1>4. WithChunks = writer.objs
  <2>1. WithChunks = [i \in DOMAIN writer.objs |-> writer.objs[i]]
    BY <1>3 DEF WithChunks
  <2>2. writer.objs \in Seq(WriterEntry)
    BY WriterParts DEF SInv
  <2>3. writer.objs = [i \in DOMAIN writer.objs |-> writer.objs[i]]
    BY <2>2
  <2> QED
    BY <2>1, <2>3
<1>5. Bitmaps = {}
  BY <1>2 DEF Bitmaps
<1>6. ASSUME NEW order \in InOrder(Bitmaps)
      PROVE  WithFiles(order) = writer.included
  <2>1. Enumerates(order, {})
    BY <1>5, InOrderIs
  <2>2. DOMAIN order = {} /\ Len(order) = 0
    BY <2>1 DEF Enumerates
  <2> DEFINE names == [k \in DOMAIN order |-> Includes[writer.objs[order[k]].cls]]
  <2>3. names = <<>>
    BY <2>2
  <2> HIDE DEF names
  <2>4. writer.included \o names = writer.included
    BY <1>1, <2>3
  <2> QED
    BY <2>4 DEF WithFiles, names
<1>7. \A i \in DOMAIN loaded.objs : writer.objs[i].data = loaded.objs[i].data
  BY <1>3 DEF Copies, ShallowCopy
<1> QED
  BY <1>4, <1>5, <1>6, <1>7

\* What Save writes is a document like the others.
LEMMA DocumentExact ==
  ASSUME NEW objs, NEW maxId, NEW files
  PROVE  Exact(Document(objs, maxId, files))
<1> DEFINE doc == Document(objs, maxId, files)
<1>1. /\ doc = [maxId |-> doc.maxId, objs |-> doc.objs, included |-> doc.included]
      /\ DOMAIN doc.objs = DOMAIN objs /\ DOMAIN doc.included = DOMAIN files
  BY DEF Document
<1>2. ASSUME NEW i \in DOMAIN objs
      PROVE  doc.objs[i] = [id |-> doc.objs[i].id, cls |-> doc.objs[i].cls,
                            index |-> doc.objs[i].index, data |-> doc.objs[i].data]
  <2> DEFINE e == [id |-> objs[i].id, cls |-> objs[i].cls, index |-> FileIndexes(objs)[i],
                   data |-> objs[i].data]
  <2>1. doc.objs[i] = e
    BY DEF Document
  <2>2. e = [id |-> e.id, cls |-> e.cls, index |-> e.index, data |-> e.data]
    OBVIOUS
  <2> HIDE DEF e, doc
  <2> QED
    BY <2>1, <2>2
<1>3. ASSUME NEW k \in DOMAIN files
      PROVE  doc.included[k].name = files[k] /\ doc.included[k].body = temp[files[k]]
             /\ doc.included[k] = [name |-> doc.included[k].name, body |-> doc.included[k].body]
  <2> DEFINE e == [name |-> files[k], body |-> temp[files[k]]]
  <2>1. doc.included[k] = e
    BY DEF Document
  <2>2. e = [name |-> e.name, body |-> e.body] /\ e.name = files[k] /\ e.body = temp[files[k]]
    OBVIOUS
  <2> HIDE DEF e, doc
  <2> QED
    BY <2>1, <2>2
<1>4. ASSUME NEW j \in DOMAIN files, NEW k \in DOMAIN files, doc.included[j].name = doc.included[k].name
      PROVE  doc.included[j].body = doc.included[k].body
  <2> HIDE DEF doc
  <2>1. /\ doc.included[j].name = files[j] /\ doc.included[j].body = temp[files[j]]
        /\ doc.included[k].name = files[k] /\ doc.included[k].body = temp[files[k]]
    BY <1>3
  <2>2. files[j] = files[k]
    BY <1>4, <2>1
  <2> QED
    BY <2>1, <2>2
<1>5. Exact(doc)
  <2> HIDE DEF doc
  <2> QED
    BY <1>1, <1>2, <1>3, <1>4 DEF Exact
<1> QED
  BY <1>5

LEMMA CopiesLoading ==
  ASSUME SInv, Copies, Loading
  PROVE  Copies'
<1>1. ASSUME NEW deep \in BOOLEAN, ShallowLoad(deep)
      PROVE  Copies'
  <2>1. /\ disk \notin {ABSENT, BROKEN} /\ loaded' = disk /\ temp' = Unpacked(disk)
        /\ reader'.included = [k \in DOMAIN disk.included |-> disk.included[k].name]
        /\ writer' = NULL /\ disk' = disk
    BY <1>1 DEF ShallowLoad
  <2>2. Exact(disk) /\ Closed(disk)
    BY <2>1 DEF SInv, DiskOK, Copies
  <2>3. \A k \in DOMAIN disk.included : temp'[disk.included[k].name] = disk.included[k].body
    BY <2>1, <2>2, UnpackedIs
  <2>4. Exact(disk)' /\ Exact(loaded)'
    BY <2>1, <2>2 DEF Exact
  <2> QED
    BY <2>1, <2>3, <2>4 DEF Copies, FilesUnpacked, ShallowCopy
<1>2. ASSUME \/ CreateSkipped
             \/ \E id \in Id, o \in Object : Create(id, o)
             \/ LoopEnd("create", "load", 1)
             \/ LoadSkipped
             \/ LoadObject
             \/ \E told \in SUBSET Object : LoadFails(told)
             \/ LoadFreed
             \/ LoopEnd("load", "finish", 0)
             \/ FinishLoad
      PROVE  Copies'
  <2>1. pc # "idle"
    BY <1>2 DEF CreateSkipped, Create, LoopEnd, LoadSkipped, LoadObject, LoadFails, LoadFreed,
                FinishLoad, Loads, Looping
  <2>2. reader \in Reader /\ reader # NULL /\ writer = NULL
    BY <2>1, WhileLoading DEF SInv, PhaseOK
  <2>3. UNCHANGED <<disk, temp, loaded, writer>>
    BY <1>2 DEF CreateSkipped, Create, LoopEnd, LoadSkipped, LoadObject, LoadFails, LoadFreed,
                FinishLoad, Advance
  <2>4. reader'.included = reader.included
    <3>1. ASSUME NEW id, NEW o, Create(id, o)
          PROVE  reader'.included = reader.included
      BY <2>2, <3>1 DEF Create, Reader
    <3>2. ASSUME NEW told, LoadFails(told)
          PROVE  reader'.included = reader.included
      BY <2>2, <3>2 DEF LoadFails, Reader
    <3>3. LoadObject \/ FinishLoad => reader'.included = reader.included
      BY <2>2 DEF LoadObject, FinishLoad, Reader
    <3>4. CreateSkipped \/ LoopEnd("create", "load", 1) \/ LoadSkipped \/ LoadFreed
            \/ LoopEnd("load", "finish", 0) => reader' = reader
      BY DEF CreateSkipped, LoopEnd, LoadSkipped, LoadFreed
    <3> QED
      BY <1>2, <3>1, <3>2, <3>3, <3>4
  <2>5. Exact(disk)' <=> Exact(disk)
    BY <2>3 DEF Exact
  <2>6. FilesUnpacked'
    BY <2>2, <2>3, <2>4 DEF Copies, FilesUnpacked, Exact
  <2> QED
    BY <2>2, <2>3, <2>5, <2>6 DEF Copies, ShallowCopy
<1> QED
  BY <1>1, <1>2 DEF Loading

LEMMA CopiesWriting ==
  ASSUME SInv, Numbers, Copies, Writing
  PROVE  Copies'
<1>1. UNCHANGED <<reader, loaded, temp>>
  BY DEF Writing, NewWriter, NewShallowWriter, NewDeepWriter, AddSavedObject, AddSavedFile, Save,
         SaveCrashes, DropWriter
<1>2. FilesUnpacked'
  BY <1>1 DEF Copies, FilesUnpacked, Exact
<1>3. (\A opened \in BOOLEAN : ~ Save(opened)) => disk' = disk
  BY DEF Writing, NewWriter, NewShallowWriter, NewDeepWriter, AddSavedObject, AddSavedFile,
         SaveCrashes, DropWriter
<1>4. ASSUME disk' = disk, ShallowCopy'
      PROVE  Copies'
  BY <1>2, <1>4 DEF Copies, Exact
<1>5. CASE NewWriter
  <2>1. writer'.kind = "plain" /\ disk' = disk
    BY <1>5 DEF NewWriter, EmptyWriter
  <2> QED
    BY <1>4, <2>1 DEF ShallowCopy
<1>6. CASE NewShallowWriter
  <2>1. reader # NULL /\ disk' = disk
    BY <1>6 DEF NewShallowWriter
  <2>2. /\ reader.maxId = loaded.maxId /\ DOMAIN reader.objs = DOMAIN loaded.objs
        /\ \A i \in DOMAIN loaded.objs :
             /\ reader.objs[i].id = loaded.objs[i].id /\ reader.objs[i].cls = loaded.objs[i].cls
             /\ reader.objs[i].data \in {NULL, loaded.objs[i].data}
    BY <2>1 DEF Numbers, SInv, ReaderOK
  <2>3. /\ writer'.maxId = reader.maxId /\ DOMAIN writer'.objs = DOMAIN reader.objs
        /\ writer'.included = reader.included
        /\ \A i \in DOMAIN reader.objs :
             /\ writer'.objs[i].id = reader.objs[i].id /\ writer'.objs[i].cls = reader.objs[i].cls
             /\ writer'.objs[i].data = reader.objs[i].data
    BY <1>6 DEF NewShallowWriter, EmptyWriter
  <2>4. ShallowCopy'
    BY <1>1, <2>1, <2>2, <2>3 DEF ShallowCopy
  <2> QED
    BY <1>4, <2>1, <2>4
<1>7. CASE NewDeepWriter
  <2>1. disk' = disk
    BY <1>7 DEF NewDeepWriter
  <2>2. writer' = writer \/ writer'.kind = "deep"
    BY <1>7 DEF NewDeepWriter, AddedAll, EmptyWriter
  <2>3. writer = NULL
    BY <1>7 DEF NewDeepWriter
  <2> QED
    BY <1>4, <2>1, <2>2, <2>3 DEF ShallowCopy
<1>8. ASSUME NEW o \in Live, AddSavedObject(o)
      PROVE  Copies'
  <2>1. writer \in Writer /\ writer.kind = "plain" /\ writer' = Added(writer, o) /\ disk' = disk
    BY <1>8, WriterParts DEF AddSavedObject, SInv
  <2>2. writer'.kind = "plain"
    BY <2>1 DEF Added, Writer
  <2> QED
    BY <1>4, <2>1, <2>2 DEF ShallowCopy
<1>9. ASSUME NEW n \in Name, AddSavedFile(n)
      PROVE  Copies'
  <2>1. writer \in Writer /\ writer.kind # "shallow" /\ disk' = disk
    BY <1>9, WriterParts DEF AddSavedFile, SInv
  <2>2. writer'.kind = writer.kind
    BY <1>9, <2>1 DEF AddSavedFile, Writer
  <2> QED
    BY <1>4, <2>1, <2>2 DEF ShallowCopy
<1>10. ASSUME NEW opened \in BOOLEAN, Save(opened)
       PROVE  Copies'
  <2>1. writer # NULL /\ writer \in Writer /\ \A i \in Saving : Readable(i)
    BY <1>10, WriterParts DEF Save, SInv
  <2>2. PICK order \in InOrder(Bitmaps) :
         /\ writer' = [writer EXCEPT !.objs = Released(WithChunks), !.included = WithFiles(order),
                                     !.done = opened]
         /\ disk' = IF opened THEN Document(WithChunks, writer.maxId, WithFiles(order))
                    ELSE IF disk = ABSENT THEN BROKEN ELSE disk
    BY <1>10 DEF Save
  <2>3. disk' \notin {ABSENT, BROKEN} => Exact(disk')
    BY <2>2, DocumentExact DEF Copies
  <2>4. disk' \notin {ABSENT, BROKEN} => Exact(disk)'
    BY <2>3 DEF Exact
  <2>5. /\ writer'.kind = writer.kind /\ writer'.maxId = writer.maxId
        /\ writer'.objs = Released(WithChunks) /\ writer'.included = WithFiles(order)
    BY <2>1, <2>2 DEF Writer
  <2>6. CASE writer.kind = "shallow"
    <3>1. WithChunks = writer.objs /\ WithFiles(order) = writer.included
      BY <2>1, <2>6, ShallowSave
    <3>2. writer.objs \in Seq(WriterEntry)
      BY <2>1 DEF Writer
    <3>3. \A entry \in WriterEntry :
            LET e == [entry EXCEPT !.data = NULL]
            IN e.id = entry.id /\ e.cls = entry.cls /\ e.data = NULL
      BY DEF WriterEntry
    <3>4. /\ DOMAIN writer'.objs = DOMAIN writer.objs
          /\ \A i \in DOMAIN writer.objs :
               writer.objs[i] \in WriterEntry /\ writer'.objs[i] = [writer.objs[i] EXCEPT !.data = NULL]
      BY <2>5, <3>1, <3>2, LenProperties DEF Released
    <3>5. ASSUME NEW i \in DOMAIN writer.objs
          PROVE  /\ writer'.objs[i].id = writer.objs[i].id /\ writer'.objs[i].cls = writer.objs[i].cls
                 /\ writer'.objs[i].data = NULL
      BY <3>3, <3>4
    <3>6. /\ reader # NULL
          /\ writer.maxId = loaded.maxId /\ writer.included = reader.included
          /\ DOMAIN writer.objs = DOMAIN loaded.objs
          /\ \A i \in DOMAIN loaded.objs :
               writer.objs[i].id = loaded.objs[i].id /\ writer.objs[i].cls = loaded.objs[i].cls
      BY <2>1, <2>6 DEF Copies, ShallowCopy
    <3>7. ShallowCopy'
      BY <1>1, <2>5, <3>1, <3>4, <3>5, <3>6 DEF ShallowCopy
    <3> QED
      BY <1>2, <2>4, <3>7 DEF Copies
  <2>7. CASE writer.kind # "shallow"
    BY <1>2, <2>4, <2>5, <2>7 DEF Copies, ShallowCopy
  <2> QED
    BY <2>6, <2>7
<1>11. CASE SaveCrashes \/ DropWriter
  <2>1. disk' = disk /\ (writer' = writer \/ writer' = NULL)
    BY <1>11 DEF SaveCrashes, DropWriter
  <2>2. ShallowCopy'
    BY <1>1, <2>1 DEF Copies, ShallowCopy
  <2> QED
    BY <1>4, <2>1, <2>2
<1> QED
  BY <1>5, <1>6, <1>7, <1>8, <1>9, <1>10, <1>11 DEF Writing

LEMMA CopiesInvariance ==
  ASSUME OriginalsExact
  PROVE  Spec => []Copies
<1>1. Init => Copies
  <2>1. ASSUME Init
        PROVE  Copies
    <3>1. disk \in Originals \cup {ABSENT, BROKEN} /\ reader = NULL /\ writer = NULL
      BY <2>1 DEF Init
    <3> QED
      BY <3>1 DEF OriginalsExact, Copies, FilesUnpacked, ShallowCopy
  <2> QED
    BY <2>1
<1>2. ASSUME SInv, Numbers, Copies, [Next]_vars
      PROVE  Copies'
  <2>1. CASE ClearDocument
    <3>1. reader' = NULL /\ writer' = NULL /\ disk' = disk
      BY <2>1 DEF ClearDocument
    <3> QED
      BY <1>2, <3>1 DEF Copies, FilesUnpacked, ShallowCopy, Exact
  <2>2. CASE Replace
    <3>1. disk' \in Originals /\ reader' = NULL /\ writer' = NULL
      BY <2>2 DEF Replace
    <3>2. Exact(disk')
      BY <3>1 DEF OriginalsExact
    <3> QED
      BY <3>1, <3>2 DEF Copies, FilesUnpacked, ShallowCopy, Exact
  <2>3. CASE \/ \E id \in Id, o \in Object, cls \in Registered : MakeObject(id, o, cls)
             \/ \E o \in Object, p \in Object \cup {NULL} : Link(o, p)
             \/ UNCHANGED vars
    <3>1. UNCHANGED <<disk, temp, reader, loaded, writer>>
      BY <2>3 DEF MakeObject, Link, vars
    <3> QED
      BY <1>2, <3>1 DEF Copies, FilesUnpacked, ShallowCopy, Exact
  <2> QED
    BY <1>2, <2>1, <2>2, <2>3, CopiesLoading, CopiesWriting DEF Next
<1> QED
  BY SessionInvariance, NumbersInvariance, <1>1, <1>2, PTL DEF Spec

\* A document is made of its parts.
LEMMA SameDocument ==
  ASSUME NEW objs \in Seq(WriterEntry), NEW files \in Seq(Name), NEW doc, Exact(doc), Closed(doc),
         DOMAIN objs = DOMAIN doc.objs, DOMAIN files = DOMAIN doc.included,
         \A i \in DOMAIN objs :
           /\ objs[i].id = doc.objs[i].id /\ objs[i].cls = doc.objs[i].cls
           /\ FileIndexes(objs)[i] = doc.objs[i].index /\ objs[i].data = doc.objs[i].data,
         \A k \in DOMAIN files : files[k] = doc.included[k].name /\ temp[files[k]] = doc.included[k].body
  PROVE  Document(objs, doc.maxId, files) = doc
<1> DEFINE new == Document(objs, doc.maxId, files)
<1>1. /\ new = [maxId |-> new.maxId, objs |-> new.objs, included |-> new.included]
      /\ new.maxId = doc.maxId
      /\ new.objs = [i \in DOMAIN objs |->
                       [id |-> objs[i].id, cls |-> objs[i].cls,
                        index |-> FileIndexes(objs)[i], data |-> objs[i].data]]
      /\ new.included = [k \in DOMAIN files |-> [name |-> files[k], body |-> temp[files[k]]]]
  BY DEF Document
<1>2. /\ doc.objs = [i \in DOMAIN doc.objs |-> doc.objs[i]]
      /\ doc.included = [k \in DOMAIN doc.included |-> doc.included[k]]
  BY DEF Closed
<1>3. new.objs = doc.objs
  <2>1. \A i \in DOMAIN doc.objs :
          [id |-> objs[i].id, cls |-> objs[i].cls,
           index |-> FileIndexes(objs)[i], data |-> objs[i].data] = doc.objs[i]
    BY DEF Exact
  <2> HIDE DEF new
  <2> QED
    BY <1>1, <1>2, <2>1
<1>4. new.included = doc.included
  <2>1. \A k \in DOMAIN doc.included : [name |-> files[k], body |-> temp[files[k]]] = doc.included[k]
    BY DEF Exact
  <2> HIDE DEF new
  <2> QED
    BY <1>1, <1>2, <2>1
<1>5. new = doc
  <2> HIDE DEF new
  <2> QED
    BY <1>1, <1>3, <1>4 DEF Exact
<1> QED
  BY <1>5

\* What Save computes as positions is what the document has.
LEMMA IndexesKept ==
  ASSUME NEW objs \in Seq(WriterEntry), NEW doc, Closed(doc), Numbered(doc),
         DOMAIN objs = DOMAIN doc.objs, \A i \in DOMAIN objs : objs[i].data = doc.objs[i].data
  PROVE  \A i \in DOMAIN objs : FileIndexes(objs)[i] = doc.objs[i].index
<1> DEFINE n == Len(objs)
<1>1. /\ DOMAIN objs = 1 .. n /\ n \in Nat /\ DOMAIN doc.objs = 1 .. n /\ Len(doc.objs) = n
      /\ \A i \in 1 .. n : objs[i].data \in Data \cup {NULL}
  <2>1. DOMAIN objs = 1 .. n /\ n \in Nat /\ \A i \in 1 .. n : objs[i] \in WriterEntry
    BY LenProperties
  <2>2. Len(doc.objs) \in Nat /\ DOMAIN doc.objs = 1 .. Len(doc.objs)
    BY ClosedParts
  <2>3. ASSUME NEW a \in Nat, NEW b \in Nat, 1 .. a = 1 .. b
        PROVE  a = b
    BY <2>3
  <2>4. Len(doc.objs) = n
    BY <2>1, <2>2, <2>3
  <2> QED
    BY <2>1, <2>2, <2>4 DEF WriterEntry
<1> HIDE DEF n
<1>2. Sizes(objs) = Sizes(doc.objs)
  BY <1>1 DEF Sizes
<1>3. FileIndexes(objs) = FileIndexes(doc.objs)
  BY <1>1, <1>2, FileIndexesWalk, WalkUnique, SizesAre
<1>4. ReadPosition(doc) = FileIndexes(doc.objs)
  BY <1>1, ReadPositionWalk
<1> QED
  BY <1>1, <1>3, <1>4 DEF Numbered

LEMMA ShallowSaveWrites ==
  ASSUME SInv, Numbers, Copies, Save(TRUE), writer.kind = "shallow"
  PROVE  disk' = loaded
<1>1. writer # NULL /\ writer \in Writer /\ \A i \in Saving : Readable(i)
  BY WriterParts DEF Save, SInv
<1>2. PICK order \in InOrder(Bitmaps) : disk' = Document(WithChunks, writer.maxId, WithFiles(order))
  BY DEF Save
<1>3. /\ WithChunks = writer.objs /\ WithFiles(order) = writer.included
      /\ \A i \in DOMAIN loaded.objs : writer.objs[i].data = loaded.objs[i].data
  BY <1>1, ShallowSave
<1>4. writer.objs \in Seq(WriterEntry) /\ writer.included \in Seq(Name)
  BY <1>1 DEF Writer
<1>5. /\ reader # NULL
      /\ writer.maxId = loaded.maxId /\ writer.included = reader.included
      /\ DOMAIN writer.objs = DOMAIN loaded.objs
      /\ \A i \in DOMAIN loaded.objs :
           writer.objs[i].id = loaded.objs[i].id /\ writer.objs[i].cls = loaded.objs[i].cls
  BY <1>1 DEF Copies, ShallowCopy
<1>6. Exact(loaded) /\ Closed(loaded) /\ Numbered(loaded)
  BY <1>5 DEF Copies, FilesUnpacked, SInv, ReaderOK, Numbers
<1>7. /\ DOMAIN writer.included = DOMAIN loaded.included
      /\ \A k \in DOMAIN loaded.included :
           /\ writer.included[k] = loaded.included[k].name
           /\ temp[writer.included[k]] = loaded.included[k].body
  BY <1>5 DEF Copies, FilesUnpacked
<1>8. \A i \in DOMAIN writer.objs : FileIndexes(writer.objs)[i] = loaded.objs[i].index
  BY <1>3, <1>4, <1>5, <1>6, IndexesKept
<1>9. Document(writer.objs, loaded.maxId, writer.included) = loaded
  BY <1>3, <1>4, <1>5, <1>6, <1>7, <1>8, SameDocument
<1> QED
  BY <1>2, <1>3, <1>5, <1>9

\* A shallow writer that reports success has reproduced the loaded document:
\* identifiers, chunks, positions and included files (CKFileWriter::Save after
\* CKFileReader::ShallowLoad).  The documents of other programs are taken to
\* have no two contents for one included name, which one folder cannot keep.
THEOREM CopiesFaithful ==
  ASSUME OriginalsExact
  PROVE  Spec => ShallowSaveSame
<1>1. ASSUME SInv, Numbers, Copies, [Next]_vars
      PROVE  Succeeds /\ writer.kind = "shallow" => disk' = loaded
  BY <1>1, OnlySaveSucceeds, ShallowSaveWrites
<1>2. Copies /\ SInv /\ Numbers /\ [Next]_vars =>
        [Succeeds /\ writer.kind = "shallow" => disk' = loaded]_vars
  BY <1>1
<1>3. Spec => []Copies
  BY CopiesInvariance
<1> QED
  BY SessionInvariance, NumbersInvariance, <1>2, <1>3, PTL DEF Spec, ShallowSaveSame
=============================================================================
