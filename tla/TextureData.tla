---------------------------- MODULE TextureData -----------------------------
(***************************************************************************)
(* CKTexture with its CKBitmapData, the bitmap handlers and the blits they *)
(* use (LibCmo/CK2/ObjImpls/CKTexture.cpp, CK2/CKBitmapData.cpp,           *)
(* CK2/DataHandlers/CKBitmapHandler.cpp, VxMath/VxMath.cpp), as data in    *)
(* the form of EntityData, and the search for a file of CKPathManager.     *)
(*                                                                         *)
(* An image is a sequence of rows of pixels <<colour, alpha>>, the empty   *)
(* sequence one that is not valid.  A file name is [dir, base]; a relative *)
(* one has no dir, an empty one no base.  `disk` is a function from the    *)
(* directories to their files, a file the image that a decoder finds in    *)
(* it; the codecs, which are stb's, are lossless but for the alpha values. *)
(***************************************************************************)
EXTENDS EntityData

CONSTANTS
  TempFolder,  \* the directory of CKPathManager for included files
  ExtOf,       \* the extension of the last part of a file name
  GARBAGE      \* the colour of a pixel nobody wrote

NoImage == <<>>

NoName == [dir |-> "", base |-> ""]

Width(image) == IF image = NoImage THEN 0 ELSE Len(image[1])

Height(image) == Len(image)

-----------------------------------------------------------------------------
(* Blits. *)

UpsideDown(image) == Reverse(image)

\* An image of another size is scaled; which colours come out is stb's.
Blit(origin, w, h) ==
  IF Width(origin) = w /\ Height(origin) = h THEN origin
  ELSE [r \in 1 .. h |-> [c \in 1 .. w |->
          origin[((r - 1) * Height(origin)) \div h + 1][((c - 1) * Width(origin)) \div w + 1]]]

OpaqueAlpha == 255

AllOpaque(image) ==
  [r \in DOMAIN image |-> [c \in DOMAIN image[r] |-> <<image[r][c][1], OpaqueAlpha>>]]

\* The alpha values one after another, or the one value they all have.
AlphaList(image) ==
  LET all == FlattenSeq([r \in DOMAIN image |-> [c \in DOMAIN image[r] |-> image[r][c][2]]])
  IN IF \A k \in DOMAIN all : all[k] = all[1] THEN <<all[1]>> ELSE all

\* VxDoAlphaBlit.  A list that is too short is read past its end.
AlphaBlit(image, list) ==
  LET at(r, c) == (r - 1) * Width(image) + c
  IN [r \in DOMAIN image |-> [c \in DOMAIN image[r] |->
        << image[r][c][1],
           IF Len(list) = 1 THEN list[1]
           ELSE IF at(r, c) <= Len(list) THEN list[at(r, c)] ELSE GARBAGE>>]]

-----------------------------------------------------------------------------
(* Handlers, by their extension.  Each of them converts to three channels   *)
(* before it encodes, also those that say they can save alpha values.       *)

Handlers == {"bmp", "tga", "jpg", "png"}

HasHandler(ext) == ext \in Handlers

CanSaveAlpha(ext) == ext \in {"tga", "png"}

SaveMemory(image) == AllOpaque(image)

-----------------------------------------------------------------------------
(* CKPathManager. *)

\* Faulty variant: the extra paths are searched before the temp folder.
TempLast(name, disk, extra) ==
  Only(extra \o <<TempFolder>>, {d \in DOMAIN disk : name.base \in DOMAIN disk[d]})

\* The directories a relative name is found in, in the order of the search.
Holding(name, disk, extra) ==
  Only(<<TempFolder>> \o extra, {d \in DOMAIN disk : name.base \in DOMAIN disk[d]})

\* NoName stands for a search that failed; an absolute name is not looked up.
ResolveFileName(name, disk, extra) ==
  IF name.dir # "" THEN name
  ELSE IF Holding(name, disk, extra) = <<>> THEN NoName
  ELSE [name EXCEPT !.dir = Head(Holding(name, disk, extra))]

GetFileName(name) == [name EXCEPT !.dir = ""]

IsFile(name, disk) == name.dir \in DOMAIN disk /\ name.base \in DOMAIN disk[name.dir]

\* A file without a body is there to be found, but no handler reads it.
Readable(name, disk) ==
  /\ IsFile(name, disk) /\ disk[name.dir][name.base] # NoImage
  /\ HasHandler(ExtOf[name.base])

-----------------------------------------------------------------------------
(* The slots. *)

Slot == [image |-> NoImage, name |-> NoName]

ARGB1555 == 6

NewTexture ==
  Derived(NewObject("TEXTURE"),
    [slots |-> <<>>, current |-> 0, pick |-> 0, transparent |-> FALSE, transColor |-> 0,
     cube |-> FALSE, saveExt |-> "bmp", saveOptions |-> "USEGLOBAL", videoFormat |-> ARGB1555,
     useMipmap |-> FALSE, mipmaps |-> <<>>])

SetSlotCount(o, n) ==
  [o EXCEPT !.slots = [i \in 1 .. n |-> IF i <= Len(@) THEN @[i] ELSE Slot]]

\* Slots are numbered from 0.
SetCurrentSlot(o, slot) == IF slot < Len(o.slots) THEN [o EXCEPT !.current = slot] ELSE o

CreateImage(o, i, w, h) ==
  [o EXCEPT !.slots[i].image = [r \in 1 .. h |-> [c \in 1 .. w |-> <<GARBAGE, OpaqueAlpha>>]]]

\* What is drawn through the pointer GetImageDesc returns.
DrawImage(o, i, image) == [o EXCEPT !.slots[i].image = image]

ReleaseImage(o, i) == [o EXCEPT !.slots[i].image = NoImage]

SetSlotFileName(o, i, name) == [o EXCEPT !.slots[i].name = name]

\* CKBitmapData::LoadImage: `failed` is the slot when no handler reads the file.
SlotFromFile(path, disk, failed) ==
  IF path = NoName \/ ~ Readable(path, disk) THEN failed
  ELSE [image |-> disk[path.dir][path.base], name |-> path]

\* CKTexture::LoadImage: a file that cannot be found or read changes nothing.
LoadImage(o, i, name, disk, extra) ==
  [o EXCEPT !.slots[i] = SlotFromFile(ResolveFileName(name, disk, extra), disk, @)]

\* CKBitmapData::SaveImage, which writes over a file that is there.
SaveImage(o, i, name, disk) ==
  IF o.slots[i].image = NoImage \/ ~ HasHandler(ExtOf[name.base]) THEN disk
  ELSE [disk EXCEPT ![name.dir] = Entry(name.base, SaveMemory(o.slots[i].image)) ++ @]

\* The size of the first valid image.
FirstImage(o) ==
  LET valid == {i \in DOMAIN o.slots : o.slots[i].image # NoImage}
  IN IF valid = {} THEN NoImage
     ELSE o.slots[CHOOSE i \in valid : \A k \in valid : i <= k].image

BitmapFields == {"pick", "transparent", "transColor", "cube", "saveExt", "saveOptions"}

TextureFields == BitmapFields \cup {"videoFormat"}

UseMipmap(o, use) == [o EXCEPT !.useMipmap = use, !.mipmaps = IF use THEN @ ELSE <<>>]

SetMipmapLevel(o, n) ==
  [o EXCEPT !.mipmaps = [i \in 1 .. n |-> IF i <= Len(@) THEN @[i] ELSE NoImage]]

-----------------------------------------------------------------------------
(* Save.  `global` holds the options and the format of the context. *)

\* WriteRawBitmap, over an image turned upside down; <<>> is the single zero.
RawEntry(image, external) ==
  IF external \/ image = NoImage THEN <<>> ELSE <<UpsideDown(image)>>

\* WriteSpecificFormatBitmap: the alpha values apart when the format has none.
FormatEntry(image, ext) ==
  IF image = NoImage \/ ~ HasHandler(ext) THEN <<>>
  ELSE <<ext, SaveMemory(image), IF CanSaveAlpha(ext) THEN <<>> ELSE AlphaList(image)>>

\* The slots that count on a file, and what is left of the option: raw data
\* when one of them cannot.
FileSlots(o, opt) ==
  IF opt \in {"EXTERNAL", "INCLUDEORIGINALFILE"}
  THEN {i \in DOMAIN o.slots : o.slots[i].name # NoName} ELSE {}

EffectiveOption(o, opt) ==
  IF opt \in {"EXTERNAL", "INCLUDEORIGINALFILE"} /\ FileSlots(o, opt) # DOMAIN o.slots
  THEN "RAWDATA" ELSE opt

OptionOf(o, global) == IF o.saveOptions = "USEGLOBAL" THEN global.options ELSE o.saveOptions

DumpToChunk(o, global) ==
  LET wanted == OptionOf(o, global)
      opt == EffectiveOption(o, wanted)
      ext == IF o.saveOptions = "USEGLOBAL" THEN global.ext ELSE o.saveExt
  IN Entry("FILENAMES", [i \in DOMAIN o.slots |-> GetFileName(o.slots[i].name)])
       ++ (IF opt # "RAWDATA" THEN NoSections
           ELSE Entry("RAW", [i \in DOMAIN o.slots |->
                  RawEntry(o.slots[i].image, i \in FileSlots(o, wanted))]))
       ++ (IF opt # "IMAGEFORMAT" THEN NoSections
           ELSE Entry("READER", << Width(FirstImage(o)), Height(FirstImage(o)),
                  [i \in DOMAIN o.slots |-> FormatEntry(o.slots[i].image, ext)]>>))

\* The files AddSavedFile puts into the document, in the order of the slots.
SavedFiles(o, global) ==
  LET names == [i \in DOMAIN o.slots |-> o.slots[i].name]
  IN IF OptionOf(o, global) # "INCLUDEORIGINALFILE" THEN <<>>
     ELSE Only(names, ToSet(names) \ {NoName})

\* The flags and the optional words of the main section; the file is read
\* again by the number of its words.
OldTexOnly(o) ==
  << [options |-> o.saveOptions, transparent |-> o.transparent, video |-> o.videoFormat # 0,
      cube |-> o.cube, mipmap |-> o.useMipmap],
     o.transColor>>
    \o (IF Len(o.slots) > 1 THEN <<o.current>> ELSE <<>>)
    \o (IF o.videoFormat # 0 THEN <<o.videoFormat>> ELSE <<>>)

SaveTexture(o, global) ==
  SaveObject(o) ++ DumpToChunk(o, global)
    ++ Entry("OLDTEXONLY", OldTexOnly(o))
    ++ (IF o.mipmaps = <<>> THEN NoSections
        ELSE Entry("USERMIPMAP", [i \in DOMAIN o.mipmaps |-> RawEntry(o.mipmaps[i], FALSE)]))
    ++ (IF o.pick # 0 THEN Entry("PICKTHRESHOLD", <<o.pick>>) ELSE NoSections)
    ++ Entry("TEXSAVEFORMAT", <<o.saveExt>>)

-----------------------------------------------------------------------------
(* Load. *)

\* A slot that was written as a zero leaves the reader inside the next one:
\* no later slot is found, as no extension is known that it would read.
ReadFormats(entries, w, h) ==
  [i \in DOMAIN entries |->
     IF \E k \in 1 .. i : entries[k] = <<>> THEN NoImage
     ELSE LET image == Blit(entries[i][2], w, h)
          IN IF CanSaveAlpha(entries[i][1]) THEN image
             ELSE AlphaBlit(image, entries[i][3])]

\* Faulty variant: the rows stay in the order of the file.
ReadStraight(entries) ==
  [i \in DOMAIN entries |-> IF entries[i] = <<>> THEN NoImage ELSE entries[i][1]]

ReadRaw(entries) ==
  [i \in DOMAIN entries |-> IF entries[i] = <<>> THEN NoImage ELSE UpsideDown(entries[i][1])]

\* The images in the chunk, by slot.
ReadImages(chunk) ==
  IF Has(chunk, "READER")
  THEN LET s == chunk["READER"]
       IN IF s[1] > 0 /\ s[2] > 0 THEN ReadFormats(s[3], s[1], s[2])
          ELSE [i \in DOMAIN s[3] |-> NoImage]
  ELSE IF Has(chunk, "RAW") THEN ReadRaw(chunk["RAW"])
  ELSE <<>>

\* A slot without image in the chunk is read from the file of its name.
ReadSlot(image, name, disk, extra) ==
  IF name = NoName \/ image # NoImage THEN [image |-> image, name |-> name]
  ELSE SlotFromFile(ResolveFileName(name, disk, extra), disk, Slot)

ReadFromChunk(o, chunk, disk, extra) ==
  LET images == ReadImages(chunk)
      names == chunk["FILENAMES"]
      imageAt(i) == IF i <= Len(images) THEN images[i] ELSE NoImage
  IN IF Has(chunk, "FILENAMES")
       THEN [o EXCEPT !.slots = [i \in DOMAIN names |->
               ReadSlot(imageAt(i), names[i], disk, extra)]]
       ELSE [o EXCEPT !.slots = [i \in DOMAIN images |-> [image |-> images[i], name |-> NoName]]]

\* Faulty variant: two words are always the colour and the format.
TwoWordsFixed(o, words, hasVideo) ==
  [o EXCEPT !.transColor = words[1], !.videoFormat = words[2]]

\* With two optional words the colour is one of them unless both others are.
TwoWords(o, words, hasVideo) ==
  IF Len(o.slots) > 1 /\ hasVideo
  THEN [SetCurrentSlot(o, words[1]) EXCEPT !.videoFormat = words[2]]
  ELSE IF hasVideo THEN [o EXCEPT !.transColor = words[1], !.videoFormat = words[2]]
  ELSE IF Len(o.slots) > 1 THEN SetCurrentSlot([o EXCEPT !.transColor = words[1]], words[2])
  ELSE [o EXCEPT !.transColor = words[1]]

OneWord(o, word, hasVideo) ==
  IF hasVideo THEN [o EXCEPT !.videoFormat = word]
  ELSE IF Len(o.slots) <= 1 THEN [o EXCEPT !.transColor = word]
  ELSE SetCurrentSlot(o, word)

ReadOptional(o, words, hasVideo) ==
  CASE Len(words) = 3 ->
         [SetCurrentSlot([o EXCEPT !.transColor = words[1]], words[2]) EXCEPT
            !.videoFormat = words[3]]
    [] Len(words) = 2 -> TwoWords(o, words, hasVideo)
    [] Len(words) = 1 -> OneWord(o, words[1], hasVideo)
    [] OTHER -> o

\* _32_X8L8V8U8: a format beyond it is replaced.
LastFormat == 27

LoadProperties(o, s) ==
  ReadOptional([UseMipmap(o, s[1].mipmap) EXCEPT
                  !.transparent = s[1].transparent, !.cube = s[1].cube,
                  !.saveOptions = s[1].options],
               Tail(s), s[1].video)

\* A saved level that has an image cannot be loaded: the image it is copied
\* to was not created, which the blit refuses with an exception.
LevelRefused(chunk) ==
  Has(chunk, "USERMIPMAP") /\ \E i \in DOMAIN chunk["USERMIPMAP"] : chunk["USERMIPMAP"][i] # <<>>

LoadTexture(o, chunk, disk, extra) ==
  LET host == ReadFromChunk(LoadObject(o, chunk), chunk, disk, extra)
      props == IF Has(chunk, "OLDTEXONLY") THEN LoadProperties(host, chunk["OLDTEXONLY"]) ELSE host
      levels == IF Has(chunk, "USERMIPMAP") THEN SetMipmapLevel(props, Len(chunk["USERMIPMAP"]))
                ELSE props
  IN [levels EXCEPT
        !.pick = IF Has(chunk, "PICKTHRESHOLD") THEN chunk["PICKTHRESHOLD"][1] ELSE @,
        !.saveExt = IF Has(chunk, "TEXSAVEFORMAT") THEN chunk["TEXSAVEFORMAT"][1] ELSE @,
        !.videoFormat = IF @ > LastFormat THEN ARGB1555 ELSE @]
=============================================================================
