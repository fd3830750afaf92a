----------------------------- MODULE StateChunk -----------------------------
(***************************************************************************)
(* CKStateChunk (LibCmo/CK2/CKStateChunk*.cpp): the buffer of double words *)
(* an object saves itself into and loads itself from.                      *)
(*                                                                         *)
(* The buffer is a chain of sections.  A section is an identifier, a link  *)
(* to the next section (0 in the last one) and the words that were written *)
(* after it.  A writer appends to a buffer that grows in steps; a reader   *)
(* seeks a section and takes the words back in the order they were         *)
(* written, with the same calls.  CKFileWriter turns the finished chunk    *)
(* into a byte buffer and CKFileReader makes a chunk of another context    *)
(* out of it, where references to objects are resolved through the table   *)
(* of the file.                                                            *)
(*                                                                         *)
(* A word is an integer; a piece of memory nobody wrote holds GARBAGE.     *)
(* What clients write is abstracted to items, one per calling pattern;     *)
(* `log` is the history of the items written and belongs to no component.  *)
(***************************************************************************)
EXTENDS Integers, Sequences, FiniteSets, SequencesExt

CONSTANTS
  Ident,        \* the section identifiers in use
  Item,         \* the items a client writes
  Saved,        \* identifiers of the objects of the file, by index
  Created,      \* identifiers the loading context gave them
  MinGrowth,    \* words a growing buffer is enlarged by, 512 in the code
  MaxSections,  \* bound: sections of a chunk
  MaxItems,     \* bound: items of a chunk
  GARBAGE       \* a word that was never written

ItemKinds ==
  [k : {"struct", "man"}, v : Int] \cup [k : {"id"}, v : Nat]
    \cup [k : {"ids", "idseq"}, v : Seq(Nat)] \cup [k : {"mans"}, v : Seq(Int)]
    \cup [k : {"buf", "raw"}, n : Nat] \cup [k : {"vtx"}, n : Nat, mask : Nat]

ASSUME ChunkAssumption ==
  /\ Item \subseteq ItemKinds
  /\ Ident \subseteq Nat \ {0}
  /\ Saved \in Seq(Nat \ {0}) /\ IsInjective(Saved)
  /\ Created \in Seq(Nat) /\ Len(Created) = Len(Saved)
  /\ MinGrowth \in Nat
  /\ MaxSections \in Nat /\ MaxItems \in Nat
  /\ GARBAGE \in Int

VARIABLES
  status,       \* m_Parser.m_Status
  buf,          \* m_pData, m_Parser.m_CurrentPos
  prev,         \* m_Parser.m_PrevIdentifierPos
  dwSize,       \* m_DataDwSize
  objectList,   \* m_ObjectList
  managerList,  \* m_ManagerList
  bound,        \* m_BindFile # nullptr
  wire,         \* the byte buffer of the file, or <<>>
  loading,      \* the chunk is that of the loading context
  log,          \* history: the sections written, with their items
  place,        \* the section and the item the reader has come to
  last,         \* the last item read and the outcome
  overrun       \* a write went past the end of the buffer

chunkVars == <<status, buf, prev, dwSize, objectList, managerList, bound>>
clientVars == <<log, place, last>>
vars == <<chunkVars, wire, loading, clientVars, overrun>>

-----------------------------------------------------------------------------
(* The growing buffer. *)

Larger(m, n) == IF m >= n THEN m ELSE n

ResizeBuffer(b, n) ==
  [b EXCEPT !.data = [i \in 1 .. n |-> IF i <= Len(@) THEN @[i] ELSE GARBAGE]]

EnsureWriteSpace(b, n) ==
  IF b.cur + n > Len(b.data) THEN ResizeBuffer(b, b.cur + Larger(n, MinGrowth)) ELSE b

\* Memory written from the cursor on; what lies past the end is lost.
Filled(b, ws) ==
  [b EXCEPT !.data = [i \in 1 .. Len(@) |->
     IF i \in (b.cur + 1) .. (b.cur + Len(ws)) THEN ws[i - b.cur] ELSE @[i]]]

\* LockWriteBuffer for n words, the words written, UnLockWriteBuffer.
LockedWrite(b, n, ws) ==
  LET unlocked == EnsureWriteSpace(Filled(EnsureWriteSpace(b, n), ws), Len(ws))
  IN [unlocked EXCEPT !.cur = @ + Len(ws)]

WriteByteData(b, ws) == LockedWrite(b, Len(ws), ws)

WriteAll(b, pieces) ==
  LET after[i \in 0 .. Len(pieces)] ==
        IF i = 0 THEN b ELSE WriteByteData(after[i - 1], pieces[i])
  IN after[Len(pieces)]

-----------------------------------------------------------------------------
(* Items: what a client asks to be written, and the pieces it becomes.     *)
(*   struct  v         WriteStruct of one word                             *)
(*   id      v         WriteObjectID, WriteObjectPointer; 0 for no object  *)
(*   ids     v         WriteXObjectArray, read with ReadXObjectArray       *)
(*   idseq   v         the same, read with ReadObjectIDSequence            *)
(*   man     v         WriteManagerInt                                     *)
(*   mans    v         WriteManagerIntSequence                             *)
(*   buf     n         WriteBuffer or WriteString of n bytes               *)
(*   raw     n         WriteBufferNoSize of n bytes                        *)
(*   vtx     n, mask   CKMesh's vertex block                               *)

GetCeilDwordSize(n) == (n + 3) \div 4

IndexOf(id) == IF id \in ToSet(Saved)
                 THEN (CHOOSE i \in DOMAIN Saved : Saved[i] = id) - 1
                 ELSE -1

\* WriteObjectID and WriteObjectIDSequence: the index in the file, or the
\* identifier itself when the chunk belongs to none.
Reference(file, id) == IF file THEN IndexOf(id) ELSE id

Payload(n) == [i \in 1 .. GetCeilDwordSize(n) |-> 70 + i]

Guid == <<50, 51>>

Single(s) == [i \in DOMAIN s |-> <<s[i]>>]

\* The words of CKMesh's vertex block behind its length, by VertexSaveFlags.
Has(mask, flag) == (mask \div flag) % 2 = 1

VertexWords(n, mask) ==
  LET position == IF Has(mask, 16) THEN 0 ELSE 3 * n
      color    == IF Has(mask, 1)  THEN 1 ELSE n
      specular == IF Has(mask, 2)  THEN 1 ELSE n
      normal   == IF Has(mask, 4)  THEN 0 ELSE 3 * n
      uv       == IF Has(mask, 8)  THEN 2 ELSE 2 * n
  IN position + color + specular + normal + uv

VertexBlock(n, mask) ==
  LET m == VertexWords(n, mask) IN <<m + 1>> \o [i \in 1 .. m |-> 80 + (i % 10)]

\* What CKMesh::Save reserves for it.
Reserved(n) == (3 + 1 + 1 + 3 + 2) * n

Pieces(file, it) ==
  CASE it.k = "struct" -> <<<<it.v>>>>
    [] it.k = "id"     -> <<<<Reference(file, it.v)>>>>
    [] it.k \in {"ids", "idseq"} ->
         <<<<Len(it.v)>>>> \o Single([i \in DOMAIN it.v |-> Reference(file, it.v[i])])
    [] it.k = "man"    -> <<Guid, <<it.v>>>>
    [] it.k = "mans"   -> <<<<Len(it.v)>>, Guid>> \o Single(it.v)
    [] it.k = "buf"    -> <<<<it.n>>, Payload(it.n)>>
    [] it.k = "raw"    -> <<Payload(it.n)>>
    [] it.k = "vtx"    -> <<<<it.n>>, <<it.mask>>, VertexBlock(it.n, it.mask)>>

ItemWords(file, it) == FlattenSeq(Pieces(file, it))

-----------------------------------------------------------------------------
(* Writing. *)

StartWrite ==
  /\ status = "IDLE" /\ wire = <<>> /\ log = <<>>
  /\ status' = "WRITE"
  /\ buf' = [data |-> <<>>, cur |-> 0]
  /\ prev' = 0
  /\ dwSize' = 0
  /\ UNCHANGED <<objectList, managerList, bound, wire, loading, clientVars, overrun>>

\* The first header has no predecessor to link it to.
HasPredecessor(b) == prev < b.cur

\* Faulty variant: the header stays the one before.
PrevKept(b) == prev

HeaderAt(b) == b.cur

WriteIdentifierDword(ident) ==
  /\ status = "WRITE"
  /\ Len(log) < MaxSections
  /\ LET b == EnsureWriteSpace(buf, 2)
         linked == IF HasPredecessor(b) THEN [b.data EXCEPT ![prev + 2] = b.cur] ELSE b.data
     IN /\ buf' = [data |-> [linked EXCEPT ![b.cur + 1] = ident, ![b.cur + 2] = 0],
                   cur |-> b.cur + 2]
        /\ prev' = HeaderAt(b)
  /\ log' = Append(log, [ident |-> ident, items |-> <<>>])
  /\ UNCHANGED <<status, dwSize, objectList, managerList, bound, wire, loading,
                 place, last, overrun>>

\* AddEntry and AddEntries: where the references of a chunk without a file,
\* and the manager integers, are.
ObjectEntries(it) ==
  CASE ~ bound /\ it.k = "id" -> <<buf.cur>>
    [] ~ bound /\ it.k \in {"ids", "idseq"} /\ it.v # <<>> -> <<-1, buf.cur>>
    [] OTHER -> <<>>

ManagerEntries(it) ==
  CASE it.k = "man"  -> <<buf.cur>>
    [] it.k = "mans" -> <<-1, buf.cur>>
    [] OTHER -> <<>>

\* The three pieces of the vertex block: the count and the flags, and the
\* block itself, for which CKMesh::Save locks the buffer.
WithVertices(b, it) ==
  LET counted == WriteAll(b, SubSeq(Pieces(bound, it), 1, 2))
      block == VertexBlock(it.n, it.mask)
  IN [after |-> LockedWrite(counted, Reserved(it.n), block),
      beyond |-> counted.cur + Len(block) > Len(EnsureWriteSpace(counted, Reserved(it.n)).data)]

Total(counts) ==
  LET sum[i \in 0 .. Len(counts)] == IF i = 0 THEN 0 ELSE sum[i - 1] + counts[i]
  IN sum[Len(counts)]

ItemCount == Total([s \in DOMAIN log |-> Len(log[s].items)])

WriteItem(it) ==
  /\ status = "WRITE"
  /\ log # <<>>
  /\ ItemCount < MaxItems
  /\ IF it.k = "vtx"
       THEN LET written == WithVertices(buf, it)
            IN buf' = written.after /\ overrun' = (overrun \/ written.beyond)
       ELSE buf' = WriteAll(buf, Pieces(bound, it)) /\ UNCHANGED overrun
  /\ objectList' = objectList \o ObjectEntries(it)
  /\ managerList' = managerList \o ManagerEntries(it)
  /\ log' = [log EXCEPT ![Len(log)].items = Append(@, it)]
  /\ UNCHANGED <<status, prev, dwSize, bound, wire, loading, place, last>>

\* Faulty variant: the spare words at the end stay part of the chunk.
NotShrunk == Len(buf.data)

WrittenSize == buf.cur

StopWrite ==
  /\ status = "WRITE"
  /\ status' = "IDLE"
  /\ dwSize' = WrittenSize
  /\ buf' = [ResizeBuffer(buf, WrittenSize) EXCEPT !.cur = 0]
  /\ prev' = 0
  /\ UNCHANGED <<objectList, managerList, bound, wire, loading, clientVars, overrun>>

-----------------------------------------------------------------------------
(* The byte buffer of a chunk in the file: the option bits, the size, the  *)
(* words and the lists that are not empty, each behind its size.           *)

Counted(list) == IF list = <<>> THEN <<>> ELSE <<Len(list)>> \o list

ConvertToBuffer ==
  /\ status = "IDLE" /\ ~ loading /\ wire = <<>>
  /\ wire' = <<[ids  |-> objectList # <<>>, man  |-> managerList # <<>>, file |-> bound],
               <<dwSize>> \o buf.data \o Counted(objectList) \o Counted(managerList)>>
  /\ UNCHANGED <<chunkVars, loading, clientVars, overrun>>

\* Faulty variant: the option bits of the two lists are mixed up.
ListsSwapped(options, words, pos) ==
  LET List(p) == SubSeq(words, p + 1, p + words[p])
      ids == IF options.man THEN List(pos) ELSE <<>>
      behind == IF options.man THEN pos + 1 + Len(ids) ELSE pos
  IN <<ids, IF options.ids THEN List(behind) ELSE <<>>>>

\* The object list and the manager list, from position pos of the words on.
ReadLists(options, words, pos) ==
  LET List(p) == SubSeq(words, p + 1, p + words[p])
      ids == IF options.ids THEN List(pos) ELSE <<>>
      behind == IF options.ids THEN pos + 1 + Len(ids) ELSE pos
  IN <<ids, IF options.man THEN List(behind) ELSE <<>>>>

\* The chunk of the reader starts with the visitor of the file it is read
\* from and loses it when the chunk was written without one.
ConvertFromBuffer ==
  /\ wire # <<>> /\ ~ loading
  /\ LET options == wire[1]
         words == wire[2]
         lists == ReadLists(options, words, words[1] + 2)
     IN /\ dwSize' = words[1]
        /\ buf' = [data |-> SubSeq(words, 2, words[1] + 1), cur |-> 0]
        /\ objectList' = lists[1]
        /\ managerList' = lists[2]
        /\ bound' = options.file
  /\ status' = "IDLE"
  /\ prev' = 0
  /\ loading' = TRUE
  /\ UNCHANGED <<wire, clientVars, overrun>>

-----------------------------------------------------------------------------
(* Reading. *)

StartRead ==
  /\ status = "IDLE" /\ loading
  /\ status' = "READ"
  /\ buf' = [buf EXCEPT !.cur = 0]
  /\ prev' = 0
  /\ UNCHANGED <<dwSize, objectList, managerList, bound, wire, loading, clientVars, overrun>>

StopRead ==
  /\ status = "READ"
  /\ status' = "IDLE"
  /\ buf' = [buf EXCEPT !.cur = 0]
  /\ prev' = 0
  /\ place' = <<0, 0>>
  /\ UNCHANGED <<dwSize, objectList, managerList, bound, wire, loading, log, last, overrun>>

\* The positions the search of SeekIdentifierDword visits: it stops at a
\* link that is 0 or leads out of the buffer.
Follows(data, pos) ==
  LET link == data[pos + 2]
  IN IF link = 0 \/ link + 1 >= Len(data) THEN pos ELSE link

Visited(data) ==
  LET hop[n \in Nat] == IF n = 0 THEN 0 ELSE Follows(data, hop[n - 1])
  IN [n \in 0 .. Len(data) |-> hop[n]]

\* A buffer of less than two words has no section.
Matches(data, ident) ==
  IF Len(data) < 2 THEN {}
  ELSE {n \in 0 .. Len(data) : data[Visited(data)[n] + 1] = ident}

\* Faulty variant: the search goes on after a match.
LastMatch(data, ident) ==
  Visited(data)[CHOOSE n \in Matches(data, ident) : \A m \in Matches(data, ident) : n >= m]

FirstMatch(data, ident) ==
  Visited(data)[CHOOSE n \in Matches(data, ident) : \A m \in Matches(data, ident) : n <= m]

SectionsOf(ident) == {s \in DOMAIN log : log[s].ident = ident}

Seek(ident) ==
  /\ status = "READ"
  /\ Matches(buf.data, ident) # {}
  /\ prev' = FirstMatch(buf.data, ident)
  /\ buf' = [buf EXCEPT !.cur = FirstMatch(buf.data, ident) + 2]
  \* A client that looks for a section expects the first one of that name.
  /\ place' = <<IF SectionsOf(ident) = {} THEN 0
                ELSE CHOOSE s \in SectionsOf(ident) : \A t \in SectionsOf(ident) : s <= t, 0>>
  /\ UNCHANGED <<status, dwSize, objectList, managerList, bound, wire, loading,
                 log, last, overrun>>

EnsureReadSpace(c, n) == c + n <= Len(buf.data)

Took(ok, value, c) == [ok |-> ok, v |-> value, cur |-> c]

\* n words from c on; nothing is consumed when there are fewer.  Calls made of
\* several such steps are merged where only the place of a failure differs,
\* and no call fails for want of words (ReadBack).
ReadWords(c, n) ==
  IF EnsureReadSpace(c, n) THEN Took(TRUE, SubSeq(buf.data, c + 1, c + n), c + n)
                           ELSE Took(FALSE, <<>>, c)

\* Faulty variant: the identifier of the saving context is taken.
SavedIdentifier(w) == IF ~ bound THEN w ELSE IF w < 0 THEN 0 ELSE Saved[w + 1]

\* An index of the file becomes the identifier its object was created with.
Resolve(w) == IF ~ bound THEN w ELSE IF w < 0 THEN 0 ELSE Created[w + 1]

ReadObjectID(c) ==
  LET r == ReadWords(c, 1)
  IN IF ~ r.ok THEN Took(FALSE, 0, c)
     ELSE Took(~ bound \/ r.v[1] >= 0, Resolve(r.v[1]), r.cur)

\* ReadXObjectArray, one word per reference, none refused.
ReadXObjectArray(c) ==
  LET count == ReadWords(c, 1)
      refs == ReadWords(count.cur, count.v[1])
  IN IF ~ count.ok THEN count
     ELSE IF ~ refs.ok THEN Took(FALSE, <<>>, Len(buf.data))
     ELSE Took(TRUE, [i \in DOMAIN refs.v |-> Resolve(refs.v[i])], refs.cur)

\* ReadObjectIDSequence gives up at the first reference ReadObjectID refuses.
ReadObjectIDSequence(c) ==
  LET whole == ReadXObjectArray(c)
      refused == {i \in DOMAIN whole.v : bound /\ buf.data[c + 1 + i] < 0}
  IN IF ~ whole.ok \/ refused = {} THEN whole
     ELSE Took(FALSE, <<>>, c + 1 + (CHOOSE i \in refused : \A j \in refused : i <= j))

ReadManagerInt(c) ==
  LET r == ReadWords(c, 3) IN IF r.ok THEN Took(TRUE, r.v[3], r.cur) ELSE Took(FALSE, 0, r.cur)

\* ReadManagerIntSequence, and the size of the sequence before the GUID.
ReadManagerIntSequence(c) ==
  LET head == ReadWords(c, 3)
  IN IF head.ok THEN ReadWords(head.cur, head.v[1]) ELSE head

\* ReadBuffer, ReadString, ReadAndFillBuffer: a size in bytes and the words.
ReadBuffer(c) ==
  LET size == ReadWords(c, 1)
  IN IF size.ok THEN ReadWords(size.cur, GetCeilDwordSize(size.v[1])) ELSE size

\* CKMesh::Load: the count, the flags, the length of the block and the block.
ReadVertices(c) ==
  LET head == ReadWords(c, 3)
  IN IF head.ok THEN ReadWords(head.cur, head.v[3] - 1) ELSE head

Read(it, c) ==
  CASE it.k = "struct" -> ReadWords(c, 1)
    [] it.k = "id"     -> ReadObjectID(c)
    [] it.k = "ids"    -> ReadXObjectArray(c)
    [] it.k = "idseq"  -> ReadObjectIDSequence(c)
    [] it.k = "man"    -> ReadManagerInt(c)
    [] it.k = "mans"   -> ReadManagerIntSequence(c)
    [] it.k = "buf"    -> ReadBuffer(c)
    [] it.k = "raw"    -> ReadWords(c, GetCeilDwordSize(it.n))
    [] it.k = "vtx"    -> ReadVertices(c)

\* The client reads the items of a section in the order they were written;
\* after a refused sequence it does not know where it is and seeks again.
ReadItem ==
  /\ status = "READ"
  /\ place[1] # 0 /\ place[2] < Len(log[place[1]].items)
  /\ LET it == log[place[1]].items[place[2] + 1]
         r == Read(it, buf.cur)
     IN /\ buf' = [buf EXCEPT !.cur = r.cur]
        /\ last' = <<it, r.ok, r.v>>
        /\ place' = IF it.k = "idseq" /\ ~ r.ok THEN <<0, 0>>
                                                ELSE <<place[1], place[2] + 1>>
  /\ UNCHANGED <<status, prev, dwSize, objectList, managerList, bound, wire,
                 loading, log, overrun>>

-----------------------------------------------------------------------------
Init ==
  /\ status = "IDLE"
  /\ buf = [data |-> <<>>, cur |-> 0]
  /\ prev = 0
  /\ dwSize = 0
  /\ objectList = <<>>
  /\ managerList = <<>>
  /\ bound \in BOOLEAN
  /\ wire = <<>>
  /\ loading = FALSE
  /\ log = <<>>
  /\ place = <<0, 0>>
  /\ last = <<>>
  /\ overrun = FALSE

Next ==
  \/ StartWrite
  \/ \E ident \in Ident : WriteIdentifierDword(ident)
  \/ \E it \in Item : WriteItem(it)
  \/ StopWrite
  \/ ConvertToBuffer
  \/ ConvertFromBuffer
  \/ StartRead
  \/ \E ident \in Ident : Seek(ident)
  \/ ReadItem
  \/ StopRead

Spec == Init /\ [][Next]_vars

-----------------------------------------------------------------------------
(* Properties. *)

\* Where the header of section s and its item j are: behind all before them.
ItemStart(s, j) ==
  LET Words(t) == [i \in DOMAIN log[t].items |-> Len(ItemWords(bound, log[t].items[i]))]
  IN Total([t \in 1 .. (s - 1) |-> 2 + Total(Words(t))]) + 2 + Total(SubSeq(Words(s), 1, j - 1))

Start(s) == ItemStart(s, 1) - 2

End == IF log = <<>> THEN 0 ELSE ItemStart(Len(log), Len(Last(log).items) + 1)

\* Whatever was written is in the buffer, in its place and linked to the next
\* section, through every growth of the buffer, the shrinking of StopWrite and
\* the way through the file; and the finished chunk holds nothing else.
SectionsKept ==
  /\ \A s \in DOMAIN log :
       /\ buf.data[Start(s) + 1] = log[s].ident
       /\ buf.data[Start(s) + 2] = IF s = Len(log) THEN 0 ELSE Start(s + 1)
       /\ \A j \in DOMAIN log[s].items :
            LET ws == ItemWords(bound, log[s].items[j])
            IN SubSeq(buf.data, ItemStart(s, j) + 1, ItemStart(s, j) + Len(ws)) = ws
  /\ status = "WRITE" => buf.cur = End
  /\ status # "WRITE" => Len(buf.data) = End /\ dwSize = End

\* SeekIdentifierDword finds a section exactly when one of that name was
\* written, and then the first of them.
SeekFinds ==
  status = "READ" => \A ident \in Ident :
    IF SectionsOf(ident) = {} THEN Matches(buf.data, ident) = {}
    ELSE /\ Matches(buf.data, ident) # {}
         /\ FirstMatch(buf.data, ident) =
              Start(CHOOSE s \in SectionsOf(ident) : \A t \in SectionsOf(ident) : s <= t)

\* What the entries of a list stand for: a position for one value, behind
\* `gap` words, or -1 and the position of a sequence with its size.
Listed(list, gap) ==
  UNION {IF list[i] = -1 THEN {}
         ELSE IF i > 1 /\ list[i - 1] = -1
           THEN (list[i] + 1 + gap) .. (list[i] + gap + buf.data[list[i] + 1])
           ELSE {list[i] + gap} : i \in DOMAIN list}

\* Where the values of the items of the kinds `one` and `many` are.
Positions(one, many, gap) ==
  LET Of(it, at) ==
        CASE it.k = one    -> {at + gap}
          [] it.k \in many -> (at + 1 + gap) .. (at + gap + Len(it.v))
          [] OTHER         -> {}
  IN UNION {UNION {Of(log[s].items[j], ItemStart(s, j)) : j \in DOMAIN log[s].items} :
            s \in DOMAIN log}

\* The object list of a chunk without a file leads to every reference in it
\* and to nothing else, that of a chunk of a file is empty, and the manager
\* list leads to every manager integer: whoever renumbers objects or managers
\* through the lists changes the right words.
ReferencesListed ==
  /\ Listed(objectList, 0) = IF bound THEN {} ELSE Positions("id", {"ids", "idseq"}, 0)
  /\ Listed(managerList, 2) = Positions("man", {"mans"}, 2)

Known(id) == ~ bound \/ id \in ToSet(Saved)

\* The identifier in the loading context of the object an identifier named.
Renumbered(id) ==
  CASE ~ bound -> id
    [] bound /\ id \in ToSet(Saved) -> Created[CHOOSE i \in DOMAIN Saved : Saved[i] = id]
    [] OTHER -> 0

\* Each reading call gives back what the writing call at that place was given,
\* references renumbered for the loading context.  Only a null reference, or
\* one to an object outside the file, is reported as a failure by
\* ReadObjectID, and spoils a sequence for ReadObjectIDSequence alone.
ReadBack ==
  last # <<>> =>
    LET it == last[1]
        ok == last[2]
        value == last[3]
        Ids == [i \in DOMAIN it.v |-> Renumbered(it.v[i])]
    IN CASE it.k = "struct" -> ok /\ value = <<it.v>>
         [] it.k = "id"     -> ok = Known(it.v) /\ value = Renumbered(it.v)
         [] it.k = "ids"    -> ok /\ value = Ids
         [] it.k = "idseq"  -> IF \A i \in DOMAIN it.v : Known(it.v[i])
                                 THEN ok /\ value = Ids ELSE ~ ok /\ value = <<>>
         [] it.k = "man"    -> ok /\ value = it.v
         [] it.k = "mans"   -> ok /\ value = it.v
         [] it.k \in {"buf", "raw"} -> ok /\ value = Payload(it.n)
         [] it.k = "vtx"    -> ok /\ value = Tail(VertexBlock(it.n, it.mask))

\* A locked buffer is large enough for what is written into it ("reserve
\* enough space for full data written").
ReserveCovers == ~ overrun
=============================================================================
