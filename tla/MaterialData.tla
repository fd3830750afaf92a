---------------------------- MODULE MaterialData ----------------------------
(***************************************************************************)
(* CKMaterial (LibCmo/CK2/ObjImpls/CKMaterial.cpp) as data, in the form of *)
(* EntityData.  Small enumerations share two words of the chunk: a word is *)
(* the sequence of its digits, in base 16 or 256, the highest first; the   *)
(* writer shifts digits in from below, the reader takes them from there.   *)
(***************************************************************************)
EXTENDS EntityData

NewMaterial ==
  Derived(NewObject("MATERIAL"),
    [diffuse |-> <<357, 357, 357, 510>>, ambient |-> <<153, 153, 153, 510>>,
     specular |-> <<255, 255, 255, 510>>, emissive |-> <<0, 0, 0, 510>>, specularPower |-> 0,
     textures |-> <<0, 0, 0, 0>>, borderColor |-> 0,
     textureBlend |-> 4, textureMin |-> 2, textureMag |-> 2, sourceBlend |-> 2, destBlend |-> 1,
     shade |-> 2, fill |-> 3, address |-> 1, alphaRef |-> 0, alphaFunc |-> 8, zFunc |-> 4,
     enabled |-> {"ZWRITE", "PERSPECTIVE"}, effect |-> 0])

Colours == {"diffuse", "ambient", "specular", "emissive"}

SurfaceFields == Colours \cup {"specularPower", "borderColor"}

SamplingFields == {"textureBlend", "textureMin", "textureMag", "address"}

RasterFields == {"sourceBlend", "destBlend", "fill", "shade"}

CompareFields == {"alphaRef", "alphaFunc", "zFunc", "effect"}

MaterialFields == SurfaceFields \cup SamplingFields \cup RasterFields \cup CompareFields

Switches == {"TWOSIDED", "ZWRITE", "PERSPECTIVE", "ALPHABLEND", "ALPHATEST"}

SwitchMaterial(o, flag, on) == [o EXCEPT !.enabled = IF on THEN @ \cup {flag} ELSE @ \ {flag}]

\* A call with an index outside is ignored.
SetTexture(o, id, idx) == IF idx \in 1 .. 4 THEN [o EXCEPT !.textures[idx] = id] ELSE o

-----------------------------------------------------------------------------
(* The shared words. *)

\* Faulty variant: two neighbours are written the wrong way round.
BlendsSwapped(o) ==
  <<o.address, o.fill, o.shade, o.sourceBlend, o.destBlend, o.textureMag, o.textureMin,
    o.textureBlend>>

Nibbles(o) ==
  [i \in 1 .. 8 |->
     <<o.address, o.fill, o.shade, o.destBlend, o.sourceBlend, o.textureMag, o.textureMin,
       o.textureBlend>>[i] % 16]

TakeNibbles(o, w) ==
  [o EXCEPT !.textureBlend = w[8], !.textureMin = w[7], !.textureMag = w[6],
     !.sourceBlend = w[5], !.destBlend = w[4], !.shade = w[3], !.fill = w[2], !.address = w[1]]

Bit(flag) ==
  CASE flag = "TWOSIDED" -> 1 [] flag = "ZWRITE" -> 2 [] flag = "PERSPECTIVE" -> 4
    [] flag = "ALPHABLEND" -> 8 [] flag = "ALPHATEST" -> 16

MixFlags(enabled) == MapThenSumSet(Bit, enabled)

Bytes(o) == <<o.alphaRef % 256, o.alphaFunc % 256, o.zFunc % 256, MixFlags(o.enabled)>>

TakeBytes(o, w) ==
  [o EXCEPT !.enabled = {f \in Switches : (w[4] \div Bit(f)) % 2 = 1},
     !.zFunc = w[3], !.alphaFunc = w[2], !.alphaRef = w[1]]

-----------------------------------------------------------------------------
(* Save and Load. *)

\* Extra textures are written only together with an effect.
ExtraTextures(o) == o.effect # 0 /\ \E i \in 2 .. 4 : o.textures[i] # 0

SaveMaterial(o) ==
  SaveObject(o)
    ++ Entry("MATDATA",
         <<ToARGB(o.diffuse), ToARGB(o.ambient), ToARGB(o.specular), ToARGB(o.emissive),
           o.specularPower, o.textures[1], o.borderColor, Nibbles(o), Bytes(o)>>)
    ++ (IF o.effect # 0 THEN Entry("MATDATA3", <<o.effect>>) ELSE NoSections)
    ++ (IF ExtraTextures(o) THEN Entry("MATDATA2", Tail(o.textures)) ELSE NoSections)

\* Faulty variant: any object is taken for a texture.
AnyTexture(id, ClassAt) == id

TextureAt(id, ClassAt) == IF id # 0 /\ ClassAt[id] = "TEXTURE" THEN id ELSE 0

LoadMainData(o, s, ClassAt) ==
  LET basic == [o EXCEPT
        !.diffuse = FromARGB(s[1]), !.ambient = FromARGB(s[2]), !.specular = FromARGB(s[3]),
        !.emissive = FromARGB(s[4]), !.specularPower = s[5],
        !.textures[1] = TextureAt(s[6], ClassAt), !.borderColor = s[7]]
  IN TakeBytes(TakeNibbles(basic, s[8]), s[9])

\* Virtools writes an effect with a parameter to MATDATA5, whose identifier is
\* dropped.
LoadMaterial(o, chunk, ClassAt) ==
  LET bare == [LoadObject(o, chunk) EXCEPT !.textures = <<0, 0, 0, 0>>]
      main == IF Has(chunk, "MATDATA") THEN LoadMainData(bare, chunk["MATDATA"], ClassAt) ELSE bare
      extra == IF ~ Has(chunk, "MATDATA2") THEN main
               ELSE [main EXCEPT !.textures = [i \in 1 .. 4 |->
                       IF i = 1 THEN @[1] ELSE TextureAt(chunk["MATDATA2"][i - 1], ClassAt)]]
      plain == IF Has(chunk, "MATDATA3") THEN [extra EXCEPT !.effect = chunk["MATDATA3"][1]]
               ELSE extra
  IN IF Has(chunk, "MATDATA5") THEN [plain EXCEPT !.effect = chunk["MATDATA5"][2]] ELSE plain
=============================================================================
