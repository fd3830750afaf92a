-------------------------- MODULE RoundTripProofs --------------------------
(***************************************************************************)
(* What an object is saved as is what it is loaded from: theorems about    *)
(* every class of ObjectData, for every scene that fits the two            *)
(* invariants of ObjectDataProofs, with the images of a texture in the     *)
(* file that belongs to them.                                              *)
(***************************************************************************)
EXTENDS ObjectDataProofs

-----------------------------------------------------------------------------
(* Chunks.                                                                  *)

LEMMA HasBoth ==
  ASSUME NEW a, NEW b, NEW s
  PROVE  /\ Has(a ++ b, s) <=> Has(a, s) \/ Has(b, s)
         /\ Has(a, s) => (a ++ b)[s] = a[s]
         /\ ~ Has(a, s) /\ Has(b, s) => (a ++ b)[s] = b[s]
BY DEF Has, ++, Derived

LEMMA HasOne ==
  ASSUME NEW k, NEW v, NEW s
  PROVE  (Has(Entry(k, v), s) <=> s = k) /\ Entry(k, v)[k] = v
BY DEF Has, Entry

LEMMA HasNone ==
  ASSUME NEW s
  PROVE  ~ Has(NoSections, s)
BY DEF Has, NoSections

\* An object's copy is what is loaded from its chunk.
LEMMA CopyIs ==
  ASSUME Inv, DataInv, Loaded, NEW id \in Living
  PROVE  /\ Proper(objs, objs[id]) /\ WellMade(objs[id])
         /\ copy[id] = LoadOf(objs[id].class, doc.chunks[id], disk, extra)
         /\ ChunkOf(foreign, objs[id].class, SaveOf(objs[id], global), doc.chunks[id])
         /\ Pointers(objs[id]) \subseteq Living /\ AfterSave(objs[id]) = objs[id]
<1>1. copy # NONE /\ doc # NONE
  BY DEF Loaded, Inv, DocumentThere
<1>2. id \in DOMAIN doc.chunks
  BY <1>1 DEF Inv, DocumentThere, Living
<1>3. copy[id] = LoadOf(objs[id].class, doc.chunks[id], disk, extra)
  BY <1>1, <1>2 DEF DataInv, CopyMade, Reloaded
<1> QED
  BY <1>1, <1>3 DEF DataInv, DocumentMade, ChunksSaved, SceneSaved, Dangling, Inv, SceneInv, TypeInv,
                    ObjectsMade

\* The sections with the visibility are those of SaveObject.
SameMarks(o, c) ==
  /\ Has(c, "OBJECTHIERAHIDDEN") <=> "HIERARCHICALHIDE" \in o.flags
  /\ Has(c, "OBJECTHIDDEN") <=> "HIERARCHICALHIDE" \notin o.flags /\ "VISIBLE" \notin o.flags

LEMMA ObjectChunk ==
  ASSUME NEW o
  PROVE  /\ SameMarks(o, SaveObject(o))
         /\ \A s : Has(SaveObject(o), s) => s \in {"OBJECTHIERAHIDDEN", "OBJECTHIDDEN"}
BY HasOne, HasNone DEF SaveObject, SameMarks

\* What is loaded of them, whatever else a class loads after it.
LEMMA MarksLoaded ==
  ASSUME NEW o, NEW n, n.flags = {"VISIBLE"}, "flags" \in DOMAIN n, NEW c, SameMarks(o, c)
  PROVE  MarksKept(LoadObject(n, c), o)
<1>1. LoadObject(n, c).flags =
        ({"VISIBLE"} \ {"VISIBLE", "HIERARCHICALHIDE"}) \cup
          (IF Has(c, "OBJECTHIDDEN") THEN {}
           ELSE IF Has(c, "OBJECTHIERAHIDDEN") THEN {"HIERARCHICALHIDE"}
           ELSE {"VISIBLE"})
  BY DEF LoadObject
<1> QED
  BY <1>1 DEF SameMarks, MarksKept, Marks

-----------------------------------------------------------------------------
(* Materials.                                                               *)

\* A channel loses less than one step.
LEMMA ColourKept ==
  ASSUME NEW c \in [1 .. 4 -> 0 .. 510]
  PROVE  NearColour(FromARGB(ToARGB(c)), c, 4) /\ DOMAIN FromARGB(ToARGB(c)) = 1 .. 4
<1>1. \A i \in 1 .. 4 : FromARGB(ToARGB(c))[i] = 2 * (c[i] \div 2)
  BY DEF FromARGB, ToARGB
<1>2. ASSUME NEW x \in 0 .. 510
      PROVE  2 * (x \div 2) - x \in {-1, 0}
  OBVIOUS
<1>3. ASSUME NEW i \in 1 .. 4
      PROVE  Near(FromARGB(ToARGB(c))[i], c[i])
  <2>1. c[i] \in 0 .. 510
    OBVIOUS
  <2>2. 2 * (c[i] \div 2) - c[i] \in {-1, 0}
    BY <1>2, <2>1
  <2> QED
    BY <1>1, <2>2 DEF Near, Absolute
<1> QED
  BY <1>3 DEF NearColour, FromARGB, ToARGB

\* The switches as the digits of one number.
BitIf(f, T) == IF f \in T THEN Bit(f) ELSE 0

SumOfBits(T) ==
  BitIf("TWOSIDED", T) + BitIf("ZWRITE", T) + BitIf("PERSPECTIVE", T) + BitIf("ALPHABLEND", T)
    + BitIf("ALPHATEST", T)

LEMMA MixIs ==
  ASSUME NEW E \in SUBSET Switches
  PROVE  MixFlags(E) = SumOfBits(E)
<1> DEFINE Walk(h) == [T \in SUBSET E |-> IF T = {} THEN 0
                                          ELSE Bit(CHOOSE x \in T : TRUE) + h[T \ {CHOOSE x \in T : TRUE}]]
           iter == CHOOSE h : h = Walk(h)
           g == [T \in SUBSET E |-> SumOfBits(T)]
           pick == [T \in SUBSET E |-> CHOOSE x \in T : TRUE]
<1>1. MixFlags(E) = iter[E]
  BY DEF MixFlags, MapThenSumSet, MapThenFoldSet
<1>2. ASSUME NEW T \in SUBSET E, NEW x \in T
      PROVE  SumOfBits(T) = Bit(x) + SumOfBits(T \ {x})
  <2>1. x \in Switches
    OBVIOUS
  <2>2. \A f : f # x => BitIf(f, T \ {x}) = BitIf(f, T)
    BY DEF BitIf
  <2>3. BitIf(x, T) = Bit(x) /\ BitIf(x, T \ {x}) = 0
    BY DEF BitIf
  <2>4. \A f \in Switches : Bit(f) \in Nat /\ BitIf(f, T) \in Nat
    BY DEF Switches, Bit, BitIf
  <2>5. x = "TWOSIDED" \/ x = "ZWRITE" \/ x = "PERSPECTIVE" \/ x = "ALPHABLEND" \/ x = "ALPHATEST"
    BY <2>1 DEF Switches
  <2>6. /\ "TWOSIDED" \in Switches /\ "ZWRITE" \in Switches /\ "PERSPECTIVE" \in Switches
        /\ "ALPHABLEND" \in Switches /\ "ALPHATEST" \in Switches
    BY DEF Switches
  <2> DEFINE v(f) == BitIf(f, T)
             w(f) == BitIf(f, T \ {x})
  <2>7. \A f \in Switches : v(f) \in Nat /\ w(f) = IF f = x THEN 0 ELSE v(f)
    BY <2>2, <2>3, <2>4
  <2>8. v(x) = Bit(x)
    BY <2>3
  <2>9. /\ SumOfBits(T) = v("TWOSIDED") + v("ZWRITE") + v("PERSPECTIVE") + v("ALPHABLEND") + v("ALPHATEST")
        /\ SumOfBits(T \ {x}) =
             w("TWOSIDED") + w("ZWRITE") + w("PERSPECTIVE") + w("ALPHABLEND") + w("ALPHATEST")
    BY DEF SumOfBits
  <2> HIDE DEF v, w
  <2>10. CASE x = "TWOSIDED"
    BY <2>6, <2>7, <2>8, <2>9, <2>10
  <2>11. CASE x = "ZWRITE"
    BY <2>6, <2>7, <2>8, <2>9, <2>11
  <2>12. CASE x = "PERSPECTIVE"
    BY <2>6, <2>7, <2>8, <2>9, <2>12
  <2>13. CASE x = "ALPHABLEND"
    BY <2>6, <2>7, <2>8, <2>9, <2>13
  <2>14. CASE x = "ALPHATEST"
    BY <2>6, <2>7, <2>8, <2>9, <2>14
  <2> QED
    BY <2>5, <2>10, <2>11, <2>12, <2>13, <2>14
<1>3. \A T \in SUBSET E : T # {} => pick[T] \in T /\ pick[T] = CHOOSE x \in T : TRUE
  OBVIOUS
<1>4. SumOfBits({}) = 0
  BY DEF SumOfBits, BitIf
<1>5. ASSUME NEW T \in SUBSET E, T # {}
      PROVE  g[T] = Bit(pick[T]) + g[T \ {pick[T]}]
  BY <1>2, <1>3, <1>5
<1>6. g[{}] = 0
  BY <1>4
<1> HIDE DEF g
<1>7. g = Walk(g)
  <2>1. \A T \in SUBSET E : g[T] = IF T = {} THEN 0
                                   ELSE Bit(CHOOSE x \in T : TRUE) + g[T \ {CHOOSE x \in T : TRUE}]
    BY <1>3, <1>5, <1>6
  <2>2. g = [T \in SUBSET E |-> g[T]]
    BY DEF g
  <2> QED
    BY <2>1, <2>2
<1>8. iter = Walk(iter)
  BY <1>7
<1> HIDE DEF iter
<1>9. iter[{}] = 0 /\ \A T \in SUBSET E : T # {} => iter[T] = Bit(pick[T]) + iter[T \ {pick[T]}]
  BY <1>3, <1>8
<1> HIDE DEF pick
<1>10. SameWay(iter, g, E, pick)
  BY <1>3, <1>5, <1>6, <1>9 DEF SameWay
<1>11. IsFiniteSet(Switches)
  <2>1. /\ IsFiniteSet({"TWOSIDED"}) /\ IsFiniteSet({"ZWRITE"}) /\ IsFiniteSet({"PERSPECTIVE"})
        /\ IsFiniteSet({"ALPHABLEND"}) /\ IsFiniteSet({"ALPHATEST"})
    BY FS_Singleton
  <2>2. IsFiniteSet({"TWOSIDED"} \cup {"ZWRITE"})
    BY <2>1, FS_Union
  <2>3. IsFiniteSet(({"TWOSIDED"} \cup {"ZWRITE"}) \cup {"PERSPECTIVE"})
    BY <2>1, <2>2, FS_Union
  <2>4. IsFiniteSet({"ALPHABLEND"} \cup {"ALPHATEST"})
    BY <2>1, FS_Union
  <2>5. IsFiniteSet((({"TWOSIDED"} \cup {"ZWRITE"}) \cup {"PERSPECTIVE"})
                      \cup ({"ALPHABLEND"} \cup {"ALPHATEST"}))
    BY <2>3, <2>4, FS_Union
  <2>6. Switches = (({"TWOSIDED"} \cup {"ZWRITE"}) \cup {"PERSPECTIVE"})
                      \cup ({"ALPHABLEND"} \cup {"ALPHATEST"})
    BY DEF Switches
  <2> QED
    BY <2>5, <2>6
<1>12. IsFiniteSet(E)
  BY <1>11, FS_Subset
<1>13. iter[E] = g[E]
  BY <1>10, <1>12, SameFold
<1> QED
  BY <1>1, <1>13 DEF g

LEMMA SwitchesRead ==
  ASSUME NEW E \in SUBSET Switches
  PROVE  {f \in Switches : (MixFlags(E) \div Bit(f)) % 2 = 1} = E
<1> DEFINE m == MixFlags(E)
           a == BitIf("TWOSIDED", E)
           b == BitIf("ZWRITE", E)
           c == BitIf("PERSPECTIVE", E)
           d == BitIf("ALPHABLEND", E)
           e == BitIf("ALPHATEST", E)
<1>1. m = a + b + c + d + e
  BY MixIs DEF SumOfBits
<1>2. /\ a \in {0, 1} /\ (a = 1 <=> "TWOSIDED" \in E)
      /\ b \in {0, 2} /\ (b = 2 <=> "ZWRITE" \in E)
      /\ c \in {0, 4} /\ (c = 4 <=> "PERSPECTIVE" \in E)
      /\ d \in {0, 8} /\ (d = 8 <=> "ALPHABLEND" \in E)
      /\ e \in {0, 16} /\ (e = 16 <=> "ALPHATEST" \in E)
  BY DEF BitIf, Bit
<1>3. /\ Bit("TWOSIDED") = 1 /\ Bit("ZWRITE") = 2 /\ Bit("PERSPECTIVE") = 4
      /\ Bit("ALPHABLEND") = 8 /\ Bit("ALPHATEST") = 16
  BY DEF Bit
<1> HIDE DEF m, a, b, c, d, e
<1>4. (m \div 1) % 2 = 1 <=> a = 1
  BY <1>1, <1>2
<1>5. (m \div 2) % 2 = 1 <=> b = 2
  BY <1>1, <1>2
<1>6. (m \div 4) % 2 = 1 <=> c = 4
  BY <1>1, <1>2
<1>7. (m \div 8) % 2 = 1 <=> d = 8
  BY <1>1, <1>2
<1>8. (m \div 16) % 2 = 1 <=> e = 16
  BY <1>1, <1>2
<1>9. \A f \in Switches : (m \div Bit(f)) % 2 = 1 <=> f \in E
  BY <1>2, <1>3, <1>4, <1>5, <1>6, <1>7, <1>8 DEF Switches
<1> QED
  BY <1>9 DEF m

\* The textures of a material in a chunk.
LoadedTextures(c) ==
  [i \in 1 .. 4 |-> IF i = 1 THEN TextureAt(c["MATDATA"][6], ClassAt)
                    ELSE IF Has(c, "MATDATA2") THEN TextureAt(c["MATDATA2"][i - 1], ClassAt)
                    ELSE 0]

\* The members of a material that is read from a chunk.
LEMMA MaterialLoaded ==
  ASSUME NEW n, DOMAIN n = MaterialMembers, NEW c, Has(c, "MATDATA")
  PROVE  LET p == LoadMaterial(n, c, ClassAt)
             s == c["MATDATA"]
         IN /\ DOMAIN p = MaterialMembers /\ p.class = n.class /\ p.flags = LoadObject(n, c).flags
            /\ p.diffuse = FromARGB(s[1]) /\ p.ambient = FromARGB(s[2])
            /\ p.specular = FromARGB(s[3]) /\ p.emissive = FromARGB(s[4])
            /\ p.specularPower = s[5] /\ p.borderColor = s[7]
            /\ p.textureBlend = s[8][8] /\ p.textureMin = s[8][7] /\ p.textureMag = s[8][6]
            /\ p.sourceBlend = s[8][5] /\ p.destBlend = s[8][4] /\ p.shade = s[8][3]
            /\ p.fill = s[8][2] /\ p.address = s[8][1]
            /\ p.enabled = {f \in Switches : (s[9][4] \div Bit(f)) % 2 = 1}
            /\ p.zFunc = s[9][3] /\ p.alphaFunc = s[9][2] /\ p.alphaRef = s[9][1]
            /\ p.effect = (IF Has(c, "MATDATA5") THEN c["MATDATA5"][2]
                           ELSE IF Has(c, "MATDATA3") THEN c["MATDATA3"][1] ELSE n.effect)
            /\ p.textures = LoadedTextures(c)
<1> DEFINE s == c["MATDATA"]
           seen == LoadObject(n, c)
           bare == [seen EXCEPT !.textures = <<0, 0, 0, 0>>]
           basic == [bare EXCEPT
             !.diffuse = FromARGB(s[1]), !.ambient = FromARGB(s[2]), !.specular = FromARGB(s[3]),
             !.emissive = FromARGB(s[4]), !.specularPower = s[5],
             !.textures[1] = TextureAt(s[6], ClassAt), !.borderColor = s[7]]
           nibbled == TakeNibbles(basic, s[8])
           main == TakeBytes(nibbled, s[9])
           extra2 == IF ~ Has(c, "MATDATA2") THEN main
                     ELSE [main EXCEPT !.textures = [i \in 1 .. 4 |->
                             IF i = 1 THEN @[1] ELSE TextureAt(c["MATDATA2"][i - 1], ClassAt)]]
           plain == IF Has(c, "MATDATA3") THEN [extra2 EXCEPT !.effect = c["MATDATA3"][1]] ELSE extra2
           p == IF Has(c, "MATDATA5") THEN [plain EXCEPT !.effect = c["MATDATA5"][2]] ELSE plain
<1>1. LoadMaterial(n, c, ClassAt) = p
  BY DEF LoadMaterial, LoadMainData
<1> DEFINE M == MaterialMembers
<1>2. {"class", "flags", "textures", "diffuse", "ambient", "specular", "emissive", "specularPower",
       "borderColor", "textureBlend", "textureMin", "textureMag", "sourceBlend", "destBlend", "shade",
       "fill", "address", "enabled", "zFunc", "alphaFunc", "alphaRef", "effect"} \subseteq M
  BY DEF MaterialMembers, MaterialFields, SurfaceFields, Colours, SamplingFields, RasterFields,
         CompareFields, ObjectMembers
<1>3. /\ DOMAIN seen = M /\ seen.class = n.class /\ seen.effect = n.effect
  BY <1>2 DEF LoadObject
<1> HIDE DEF seen
<1>4. /\ DOMAIN bare = M /\ bare.class = n.class /\ bare.effect = n.effect /\ bare.flags = seen.flags
      /\ bare.textures = <<0, 0, 0, 0>>
  BY <1>2, <1>3
<1> HIDE DEF bare
<1>5. /\ DOMAIN basic = M /\ basic.class = n.class /\ basic.effect = n.effect /\ basic.flags = seen.flags
      /\ basic.diffuse = FromARGB(s[1]) /\ basic.ambient = FromARGB(s[2])
      /\ basic.specular = FromARGB(s[3]) /\ basic.emissive = FromARGB(s[4])
      /\ basic.specularPower = s[5] /\ basic.borderColor = s[7]
      /\ basic.textures = [<<0, 0, 0, 0>> EXCEPT ![1] = TextureAt(s[6], ClassAt)]
  BY <1>2, <1>4
<1> HIDE DEF basic
<1>6. /\ DOMAIN nibbled = M
      /\ \A m \in M \ {"textureBlend", "textureMin", "textureMag", "sourceBlend", "destBlend", "shade",
                       "fill", "address"} : nibbled[m] = basic[m]
      /\ nibbled.textureBlend = s[8][8] /\ nibbled.textureMin = s[8][7] /\ nibbled.textureMag = s[8][6]
      /\ nibbled.sourceBlend = s[8][5] /\ nibbled.destBlend = s[8][4] /\ nibbled.shade = s[8][3]
      /\ nibbled.fill = s[8][2] /\ nibbled.address = s[8][1]
  BY <1>2, <1>5 DEF TakeNibbles
<1> HIDE DEF nibbled
<1>7. /\ DOMAIN main = M
      /\ \A m \in M \ {"enabled", "zFunc", "alphaFunc", "alphaRef"} : main[m] = nibbled[m]
      /\ main.enabled = {f \in Switches : (s[9][4] \div Bit(f)) % 2 = 1}
      /\ main.zFunc = s[9][3] /\ main.alphaFunc = s[9][2] /\ main.alphaRef = s[9][1]
  BY <1>2, <1>6 DEF TakeBytes
<1> HIDE DEF main
<1>8. /\ DOMAIN p = M /\ \A m \in M \ {"textures", "effect"} : p[m] = main[m]
      /\ p.effect = (IF Has(c, "MATDATA5") THEN c["MATDATA5"][2]
                     ELSE IF Has(c, "MATDATA3") THEN c["MATDATA3"][1] ELSE main.effect)
  BY <1>2, <1>7
<1>9. p.textures = extra2.textures
  BY <1>2, <1>7
<1>10. main.textures = [<<0, 0, 0, 0>> EXCEPT ![1] = TextureAt(s[6], ClassAt)]
  BY <1>2, <1>5, <1>6, <1>7
<1>11. extra2.textures = LoadedTextures(c)
  <2>1. CASE ~ Has(c, "MATDATA2")
    <3>1. extra2.textures = [<<0, 0, 0, 0>> EXCEPT ![1] = TextureAt(s[6], ClassAt)]
      BY <1>10, <2>1
    <3>2. LoadedTextures(c) = [i \in 1 .. 4 |-> IF i = 1 THEN TextureAt(s[6], ClassAt) ELSE 0]
      BY <2>1 DEF LoadedTextures
    <3> QED
      BY <3>1, <3>2
  <2>2. CASE Has(c, "MATDATA2")
    <3>1. extra2.textures = [i \in 1 .. 4 |-> IF i = 1 THEN main.textures[1]
                                             ELSE TextureAt(c["MATDATA2"][i - 1], ClassAt)]
      BY <1>2, <1>7, <2>2
    <3>2. main.textures[1] = TextureAt(s[6], ClassAt)
      BY <1>10
    <3> QED
      BY <2>2, <3>1, <3>2 DEF LoadedTextures
  <2> QED
    BY <2>1, <2>2
<1> HIDE DEF p, extra2
<1>12. /\ main.class = n.class /\ main.effect = n.effect /\ main.flags = seen.flags
       /\ main.diffuse = FromARGB(s[1]) /\ main.ambient = FromARGB(s[2])
       /\ main.specular = FromARGB(s[3]) /\ main.emissive = FromARGB(s[4])
       /\ main.specularPower = s[5] /\ main.borderColor = s[7]
       /\ main.textureBlend = s[8][8] /\ main.textureMin = s[8][7] /\ main.textureMag = s[8][6]
       /\ main.sourceBlend = s[8][5] /\ main.destBlend = s[8][4] /\ main.shade = s[8][3]
       /\ main.fill = s[8][2] /\ main.address = s[8][1]
  BY <1>2, <1>5, <1>6, <1>7
<1>13. seen.flags = LoadObject(n, c).flags
  BY DEF seen
<1> QED
  BY <1>1, <1>2, <1>7, <1>8, <1>9, <1>11, <1>12, <1>13

\* The sections of a material.
LEMMA MaterialChunk ==
  ASSUME NEW o
  PROVE  LET c == SaveMaterial(o)
         IN /\ SameMarks(o, c)
            /\ Has(c, "MATDATA")
            /\ c["MATDATA"] =
                 <<ToARGB(o.diffuse), ToARGB(o.ambient), ToARGB(o.specular), ToARGB(o.emissive),
                   o.specularPower, o.textures[1], o.borderColor, Nibbles(o), Bytes(o)>>
            /\ Has(c, "MATDATA3") <=> o.effect # 0
            /\ o.effect # 0 => c["MATDATA3"] = <<o.effect>>
            /\ Has(c, "MATDATA2") <=> ExtraTextures(o)
            /\ ExtraTextures(o) => c["MATDATA2"] = Tail(o.textures)
            /\ ~ Has(c, "MATDATA5")
            /\ \A s : Has(c, s) => s \in {"OBJECTHIERAHIDDEN", "OBJECTHIDDEN", "MATDATA", "MATDATA2",
                                          "MATDATA3"}
<1> DEFINE a == SaveObject(o)
           d == <<ToARGB(o.diffuse), ToARGB(o.ambient), ToARGB(o.specular), ToARGB(o.emissive),
                  o.specularPower, o.textures[1], o.borderColor, Nibbles(o), Bytes(o)>>
           e == IF o.effect # 0 THEN Entry("MATDATA3", <<o.effect>>) ELSE NoSections
           x == IF ExtraTextures(o) THEN Entry("MATDATA2", Tail(o.textures)) ELSE NoSections
           c == SaveMaterial(o)
<1>1. c = ((a ++ Entry("MATDATA", d)) ++ e) ++ x
  BY DEF SaveMaterial
<1>2. \A s : /\ (Has(e, s) <=> s = "MATDATA3" /\ o.effect # 0)
             /\ (Has(x, s) <=> s = "MATDATA2" /\ ExtraTextures(o))
  BY HasOne, HasNone
<1>3. /\ o.effect # 0 => e["MATDATA3"] = <<o.effect>>
      /\ ExtraTextures(o) => x["MATDATA2"] = Tail(o.textures)
  BY HasOne
<1>4. SameMarks(o, a) /\ \A s : Has(a, s) => s \in {"OBJECTHIERAHIDDEN", "OBJECTHIDDEN"}
  BY ObjectChunk
<1> HIDE DEF a, d, e, x, c
<1>5. \A s : Has(c, s) <=> Has(a, s) \/ s = "MATDATA" \/ Has(e, s) \/ Has(x, s)
  BY <1>1, HasBoth, HasOne
<1>6. c["MATDATA"] = d
  BY <1>1, <1>2, <1>4, HasBoth, HasOne
<1>7. o.effect # 0 => c["MATDATA3"] = e["MATDATA3"]
  BY <1>1, <1>2, <1>4, HasBoth, HasOne
<1>8. ExtraTextures(o) => c["MATDATA2"] = x["MATDATA2"]
  BY <1>1, <1>2, <1>4, HasBoth, HasOne
<1>9. SameMarks(o, c)
  BY <1>2, <1>4, <1>5 DEF SameMarks
<1> QED
  BY <1>2, <1>3, <1>4, <1>5, <1>6, <1>7, <1>8, <1>9 DEF c, d

\* What a material of these types becomes in a document.
MaterialTypes(o) ==
  /\ \A f \in Colours : o[f] \in [1 .. 4 -> 0 .. 510]
  /\ \A f \in SamplingFields \cup RasterFields : o[f] \in 0 .. 15
  /\ \A f \in {"alphaRef", "alphaFunc", "zFunc"} : o[f] \in 0 .. 255
  /\ o.enabled \subseteq Switches
  /\ \E T : o.textures \in [1 .. 4 -> T]

LEMMA MaterialNew ==
  /\ DOMAIN NewMaterial = MaterialMembers /\ NewMaterial.flags = {"VISIBLE"} /\ NewMaterial.effect = 0
  /\ NewMaterial.class = "MATERIAL"
<1>1. NewMaterial.flags = {"VISIBLE"} /\ NewMaterial.effect = 0
  BY DEF NewMaterial, Derived, NewObject
<1> QED
  BY <1>1, MaterialIs

LEMMA NibblesIs ==
  ASSUME NEW o, MaterialTypes(o)
  PROVE  /\ Nibbles(o)[8] = o.textureBlend /\ Nibbles(o)[7] = o.textureMin
         /\ Nibbles(o)[6] = o.textureMag /\ Nibbles(o)[5] = o.sourceBlend
         /\ Nibbles(o)[4] = o.destBlend /\ Nibbles(o)[3] = o.shade /\ Nibbles(o)[2] = o.fill
         /\ Nibbles(o)[1] = o.address
<1>1. \A x \in 0 .. 15 : x % 16 = x
  OBVIOUS
<1>2. \A f \in {"textureBlend", "textureMin", "textureMag", "address", "sourceBlend", "destBlend",
               "fill", "shade"} : o[f] % 16 = o[f]
  BY <1>1 DEF MaterialTypes, SamplingFields, RasterFields
<1> DEFINE w == <<o.address, o.fill, o.shade, o.destBlend, o.sourceBlend, o.textureMag, o.textureMin,
                  o.textureBlend>>
<1>3. \A i \in 1 .. 8 : Nibbles(o)[i] = w[i] % 16
  BY DEF Nibbles
<1> QED
  BY <1>2, <1>3

LEMMA BytesIs ==
  ASSUME NEW o, MaterialTypes(o)
  PROVE  /\ Bytes(o)[1] = o.alphaRef /\ Bytes(o)[2] = o.alphaFunc /\ Bytes(o)[3] = o.zFunc
         /\ {f \in Switches : (Bytes(o)[4] \div Bit(f)) % 2 = 1} = o.enabled
<1>1. \A x \in 0 .. 255 : x % 256 = x
  OBVIOUS
<1>2. /\ o.alphaRef % 256 = o.alphaRef /\ o.alphaFunc % 256 = o.alphaFunc
      /\ o.zFunc % 256 = o.zFunc
  BY <1>1 DEF MaterialTypes
<1>3. Bytes(o)[4] = MixFlags(o.enabled)
  BY DEF Bytes
<1>4. {f \in Switches : (MixFlags(o.enabled) \div Bit(f)) % 2 = 1} = o.enabled
  BY SwitchesRead DEF MaterialTypes
<1> QED
  BY <1>2, <1>3, <1>4 DEF Bytes

LEMMA ListIs ==
  ASSUME NEW T, NEW n \in Nat, NEW s \in [1 .. n -> T]
  PROVE  s \in Seq(T) /\ Len(s) = n
<1>1. s \in Seq(T)
  BY SeqDef
<1>2. Len(s) \in Nat /\ DOMAIN s = 1 .. Len(s)
  BY <1>1, LenProperties
<1> DEFINE k == Len(s)
<1>3. k \in Nat /\ 1 .. k = 1 .. n
  BY <1>2
<1> HIDE DEF k
<1>4. k = n
  <2>1. \A j \in Nat : j \in 1 .. k <=> j \in 1 .. n
    BY <1>3
  <2>2. n <= k
    BY <1>3, <2>1
  <2>3. k <= n
    BY <1>3, <2>1
  <2> QED
    BY <1>3, <2>2, <2>3
<1> QED
  BY <1>1, <1>4 DEF k

LEMMA MaterialTrip ==
  ASSUME NEW o, MaterialTypes(o)
  PROVE  LET p == LoadMaterial(NewMaterial, SaveMaterial(o), ClassAt)
         IN /\ DOMAIN p = MaterialMembers /\ p.class = "MATERIAL"
            /\ p.flags = LoadObject(NewMaterial, SaveMaterial(o)).flags /\ MarksKept(p, o)
            /\ \A f \in Colours : p[f] = FromARGB(ToARGB(o[f]))
            /\ \A f \in MaterialFields \ Colours : p[f] = o[f]
            /\ p.enabled = o.enabled
            /\ p.textures = [i \in 1 .. 4 |->
                 IF i = 1 \/ ExtraTextures(o)
                 THEN TextureAt(o.textures[i], ClassAt) ELSE 0]
<1> DEFINE n == NewMaterial
           c == SaveMaterial(o)
           p == LoadMaterial(n, c, ClassAt)
           seen == LoadObject(n, c)
           s == c["MATDATA"]
<1>1. /\ DOMAIN n = MaterialMembers /\ n.flags = {"VISIBLE"} /\ n.effect = 0 /\ n.class = "MATERIAL"
      /\ "flags" \in DOMAIN n
  BY MaterialNew DEF MaterialMembers, ObjectMembers
<1>2. /\ SameMarks(o, c)
      /\ Has(c, "MATDATA")
      /\ s = <<ToARGB(o.diffuse), ToARGB(o.ambient), ToARGB(o.specular), ToARGB(o.emissive),
               o.specularPower, o.textures[1], o.borderColor, Nibbles(o), Bytes(o)>>
      /\ Has(c, "MATDATA3") <=> o.effect # 0
      /\ o.effect # 0 => c["MATDATA3"] = <<o.effect>>
      /\ Has(c, "MATDATA2") <=> ExtraTextures(o)
      /\ ExtraTextures(o) => c["MATDATA2"] = Tail(o.textures)
      /\ ~ Has(c, "MATDATA5")
  BY MaterialChunk
<1> HIDE DEF n, c
<1>3. /\ DOMAIN p = MaterialMembers /\ p.class = n.class /\ p.flags = seen.flags
      /\ p.diffuse = FromARGB(s[1]) /\ p.ambient = FromARGB(s[2])
      /\ p.specular = FromARGB(s[3]) /\ p.emissive = FromARGB(s[4])
      /\ p.specularPower = s[5] /\ p.borderColor = s[7]
      /\ p.textureBlend = s[8][8] /\ p.textureMin = s[8][7] /\ p.textureMag = s[8][6]
      /\ p.sourceBlend = s[8][5] /\ p.destBlend = s[8][4] /\ p.shade = s[8][3]
      /\ p.fill = s[8][2] /\ p.address = s[8][1]
      /\ p.enabled = {f \in Switches : (s[9][4] \div Bit(f)) % 2 = 1}
      /\ p.zFunc = s[9][3] /\ p.alphaFunc = s[9][2] /\ p.alphaRef = s[9][1]
      /\ p.effect = (IF Has(c, "MATDATA5") THEN c["MATDATA5"][2]
                     ELSE IF Has(c, "MATDATA3") THEN c["MATDATA3"][1] ELSE n.effect)
      /\ p.textures = LoadedTextures(c)
  BY <1>1, <1>2, MaterialLoaded
<1>4. MarksKept(seen, o)
  BY <1>1, <1>2, MarksLoaded
<1> HIDE DEF p, s, seen
<1>5. /\ s[1] = ToARGB(o.diffuse) /\ s[2] = ToARGB(o.ambient) /\ s[3] = ToARGB(o.specular)
      /\ s[4] = ToARGB(o.emissive) /\ s[5] = o.specularPower /\ s[6] = o.textures[1]
      /\ s[7] = o.borderColor /\ s[8] = Nibbles(o) /\ s[9] = Bytes(o)
  BY <1>2
<1>6. MarksKept(p, o)
  BY <1>3, <1>4 DEF MarksKept
<1>7. \A f \in Colours : p[f] = FromARGB(ToARGB(o[f]))
  BY <1>3, <1>5 DEF Colours
<1>8. p.effect = o.effect
  BY <1>1, <1>2, <1>3
<1>9. \A f \in MaterialFields \ Colours : p[f] = o[f]
  <2>1. /\ p.textureBlend = o.textureBlend /\ p.textureMin = o.textureMin
        /\ p.textureMag = o.textureMag /\ p.sourceBlend = o.sourceBlend
        /\ p.destBlend = o.destBlend /\ p.shade = o.shade /\ p.fill = o.fill
        /\ p.address = o.address
    BY <1>3, <1>5, NibblesIs
  <2>2. p.zFunc = o.zFunc /\ p.alphaFunc = o.alphaFunc /\ p.alphaRef = o.alphaRef
    BY <1>3, <1>5, BytesIs
  <2>3. p.specularPower = o.specularPower /\ p.borderColor = o.borderColor
    BY <1>3, <1>5
  <2> QED
    BY <1>8, <2>1, <2>2, <2>3
    DEF MaterialFields, SurfaceFields, SamplingFields, RasterFields, CompareFields
<1>10. p.enabled = o.enabled
  BY <1>3, <1>5, BytesIs
<1>11. p.textures = [i \in 1 .. 4 |->
         IF i = 1 \/ ExtraTextures(o)
         THEN TextureAt(o.textures[i], ClassAt) ELSE 0]
  <2>1. PICK T : o.textures \in [1 .. 4 -> T]
    BY DEF MaterialTypes
  <2>2. \A i \in 2 .. 4 : Tail(o.textures)[i - 1] = o.textures[i]
    <3>1. o.textures \in Seq(T) /\ Len(o.textures) = 4
      BY <2>1, ListIs
    <3>2. \A i \in 1 .. Len(o.textures) - 1 : Tail(o.textures)[i] = o.textures[i + 1]
      BY <3>1, HeadTailProperties
    <3> QED
      BY <3>1, <3>2
  <2>3. Has(c, "MATDATA2") => \A i \in 2 .. 4 : c["MATDATA2"][i - 1] = o.textures[i]
    BY <1>2, <2>2
  <2>4. c["MATDATA"][6] = o.textures[1]
    BY <1>5 DEF s
  <2>5. \A i \in 1 .. 4 : LoadedTextures(c)[i] =
          IF i = 1 \/ ExtraTextures(o)
          THEN TextureAt(o.textures[i], ClassAt) ELSE 0
    <3>1. \A i \in 1 .. 4 : i = 1 \/ i \in 2 .. 4
      OBVIOUS
    <3> QED
      BY <1>2, <2>3, <2>4, <3>1 DEF LoadedTextures
  <2> QED
    BY <1>3, <2>5 DEF LoadedTextures
<1> QED
  BY <1>1, <1>3, <1>6, <1>7, <1>9, <1>10, <1>11 DEF p, n, c, seen

\* A material comes back as it was (the property MaterialsKept).
LEMMA MaterialsComeBack ==
  ASSUME Inv, DataInv
  PROVE  MaterialsKept
<1> SUFFICES ASSUME Loaded, foreign \in {"none", "hierarchy", "temp"}, NEW id \in Of({"MATERIAL"})
             PROVE  LET o == objs[id] c == copy[id]
                    IN /\ MarksKept(c, o)
                       /\ \A f \in Colours : NearColour(c[f], o[f], 4)
                       /\ \A f \in MaterialFields \ Colours : c[f] = o[f]
                       /\ c.enabled = o.enabled
                       /\ c.textures = IF o.effect # 0 THEN o.textures ELSE <<o.textures[1], 0, 0, 0>>
  BY DEF MaterialsKept
<1> DEFINE o == objs[id]
           c == copy[id]
<1>1. id \in Living /\ o.class = "MATERIAL"
  BY DEF Of
<1>2. /\ Proper(objs, o) /\ WellMade(o) /\ Pointers(o) \subseteq Living
      /\ c = LoadOf(o.class, doc.chunks[id], disk, extra)
      /\ ChunkOf(foreign, o.class, SaveOf(o, global), doc.chunks[id])
  BY <1>1, CopyIs
<1>3. doc.chunks[id] = SaveMaterial(o)
  <2>1. "MATERIAL" \notin Entities
    BY DEF Entities, Lights, Cameras
  <2>2. doc.chunks[id] = SaveOf(o, global)
    BY <1>1, <1>2, <2>1 DEF ChunkOf
  <2> QED
    BY <1>1, <2>2 DEF SaveOf
<1>4. c = LoadMaterial(NewMaterial, SaveMaterial(o), ClassAt)
  BY <1>1, <1>2, <1>3 DEF LoadOf, NewOf
<1>5. \A t \in Living : objs[t].class = "TEXTURE" => TextureAt(t, ClassAt) = t
  BY DEF TextureAt, ClassAt
<1>6. 0 \notin DOMAIN objs
  BY DEF Inv, SceneInv
<1>7. o.textures \in [1 .. 4 -> At(objs, {"TEXTURE"})] /\ DOMAIN o = MaterialMembers
  BY <1>1, <1>2, ProperMembers DEF Proper
<1> HIDE DEF o, c
<1>8. \A i \in 1 .. 4 : TextureAt(o.textures[i], ClassAt) = o.textures[i]
  <2> SUFFICES ASSUME NEW i \in 1 .. 4
               PROVE  TextureAt(o.textures[i], ClassAt) = o.textures[i]
    OBVIOUS
  <2>1. o.textures[i] \in At(objs, {"TEXTURE"})
    BY <1>7
  <2>2. o.textures[i] = 0 => TextureAt(o.textures[i], ClassAt) = 0
    BY DEF TextureAt
  <2>3. o.class \notin Entities
    BY <1>1 DEF Entities, Lights, Cameras
  <2>4. o.textures[i] # 0 => o.textures[i] \in Living
    BY <1>1, <1>2, <1>7, <2>3 DEF Pointers, ToSet
  <2>5. o.textures[i] # 0 => objs[o.textures[i]].class = "TEXTURE"
    BY <2>1, <2>4 DEF At, Living
  <2> QED
    BY <1>5, <2>2, <2>4, <2>5
<1>9. MaterialTypes(o)
  <2>1. \A m \in DOMAIN o \cap TypedMembers : o[m] \in ValueType(m)
    BY <1>1, <1>2 DEF WellMade
  <2>2. \A m \in Colours \cup SamplingFields \cup RasterFields \cup {"alphaRef", "alphaFunc", "zFunc"} :
          o[m] \in ValueType(m)
    BY <1>7, <2>1 DEF TypedMembers, MaterialMembers, MaterialFields, SurfaceFields, CompareFields
  <2>3. \A m \in Colours : ValueType(m) = [1 .. 4 -> 0 .. 510]
    <3>1. \A m \in Colours :
            /\ m # "matrix" /\ m # "type" /\ m \notin {"width", "height", "videoFormat"}
            /\ m \notin SamplingFields \cup RasterFields
            /\ m \notin {"alphaRef", "alphaFunc", "zFunc"}
      BY DEF Colours, SamplingFields, RasterFields
    <3> QED
      BY <3>1 DEF ValueType
  <2>4. \A m \in SamplingFields \cup RasterFields : ValueType(m) = 0 .. 15
    BY DEF ValueType, SamplingFields, RasterFields, Colours
  <2>5. \A m \in {"alphaRef", "alphaFunc", "zFunc"} : ValueType(m) = 0 .. 255
    BY DEF ValueType, SamplingFields, RasterFields, Colours
  <2>6. o.enabled \subseteq Switches
    BY <1>1, <1>2 DEF WellMade
  <2> QED
    BY <1>7, <2>2, <2>3, <2>4, <2>5, <2>6 DEF MaterialTypes
<1>10. /\ MarksKept(c, o)
       /\ \A f \in Colours : c[f] = FromARGB(ToARGB(o[f]))
       /\ \A f \in MaterialFields \ Colours : c[f] = o[f]
       /\ c.enabled = o.enabled
       /\ c.textures = [i \in 1 .. 4 |->
            IF i = 1 \/ ExtraTextures(o)
            THEN TextureAt(o.textures[i], ClassAt) ELSE 0]
  BY <1>4, <1>9, MaterialTrip
<1>11. \A f \in Colours : NearColour(c[f], o[f], 4)
  BY <1>9, <1>10, ColourKept DEF MaterialTypes
<1>12. c.textures = IF o.effect # 0 THEN o.textures ELSE <<o.textures[1], 0, 0, 0>>
  <2>1. CASE o.effect # 0
    <3>1. \A i \in 1 .. 4 : c.textures[i] = o.textures[i]
      <4> SUFFICES ASSUME NEW i \in 1 .. 4
                   PROVE  c.textures[i] = o.textures[i]
        OBVIOUS
      <4>1. i = 1 \/ i \in 2 .. 4
        OBVIOUS
      <4>2. c.textures[i] = IF i = 1 \/ ExtraTextures(o) THEN TextureAt(o.textures[i], ClassAt) ELSE 0
        BY <1>10
      <4>3. ~ ExtraTextures(o) /\ i # 1 => o.textures[i] = 0
        BY <2>1, <4>1 DEF ExtraTextures
      <4>4. TextureAt(o.textures[i], ClassAt) = o.textures[i]
        BY <1>8
      <4> QED
        BY <4>2, <4>3, <4>4
    <3>2. c.textures = [i \in 1 .. 4 |-> c.textures[i]]
      BY <1>10
    <3>3. o.textures = [i \in 1 .. 4 |-> o.textures[i]]
      BY <1>7
    <3> QED
      BY <2>1, <3>1, <3>2, <3>3
  <2>2. CASE o.effect = 0
    <3>1. c.textures = [i \in 1 .. 4 |-> IF i = 1 THEN TextureAt(o.textures[i], ClassAt) ELSE 0]
      <4>1. ~ ExtraTextures(o)
        BY <2>2 DEF ExtraTextures
      <4> QED
        BY <1>10, <4>1
    <3>2. TextureAt(o.textures[1], ClassAt) = o.textures[1]
      BY <1>8
    <3>3. c.textures = [i \in 1 .. 4 |-> IF i = 1 THEN o.textures[1] ELSE 0]
      BY <3>1, <3>2
    <3>4. <<o.textures[1], 0, 0, 0>> = [i \in 1 .. 4 |-> IF i = 1 THEN o.textures[1] ELSE 0]
      OBVIOUS
    <3> QED
      BY <2>2, <3>3, <3>4
  <2> QED
    BY <2>1, <2>2
<1> QED
  BY <1>10, <1>11, <1>12 DEF o, c

-----------------------------------------------------------------------------
(* Potential meshes.                                                        *)

\* What is read of the identifiers of the potential meshes.
NoDoubles(s) ==
  FoldLeft(LAMBDA list, id : IF id = 0 THEN list ELSE AddIfNotHere(list, id), <<>>, s)

OnceEach(s) == \A i, j \in DOMAIN s : s[i] = s[j] => i = j

Taken(list, id) == IF id = 0 THEN list ELSE AddIfNotHere(list, id)

LEMMA NoDoublesBy ==
  ASSUME NEW T, NEW s \in Seq(T)
  PROVE  \E f \in [0 .. Len(s) -> Seq(T)] :
           /\ f[0] = <<>> /\ f[Len(s)] = NoDoubles(s)
           /\ \A i \in 1 .. Len(s) : f[i] = Taken(f[i - 1], s[i])
<1> DEFINE n == Len(s)
           L == Seq(T)
           next(t, x) == IF x = 0 THEN t ELSE AddIfNotHere(t, x)
           step == [i \in 1 .. n |-> [t \in L |-> next(t, s[i])]]
           Walk(f) == [D \in SUBSET DOMAIN s |->
                         IF D = {} THEN <<>> ELSE next(f[D \ {Max(D)}], s[Max(D)])]
           iter == CHOOSE f : f = Walk(f)
<1>1. NoDoubles(s) = iter[DOMAIN s]
  BY DEF NoDoubles, FoldLeft, MapThenFoldSet
<1>2. n \in Nat /\ DOMAIN s = 1 .. n /\ \A i \in 1 .. n : s[i] \in T
  BY LenProperties
<1>3. <<>> \in L /\ step \in Steps(L, n)
  <2>1. ASSUME NEW t \in L, NEW x \in T
        PROVE  next(t, x) \in L
    BY AppendProperties DEF AddIfNotHere
  <2> QED
    BY <1>2, <2>1, EmptySeq DEF Steps
<1>4. \A i \in 1 .. n, t \in L : step[i][t] = next(t, s[i])
  OBVIOUS
<1> HIDE DEF n, step, L, next
<1>5. Folds(L, <<>>, n, step)
  BY <1>2, <1>3, Folding
<1>6. PICK g \in [SUBSET (1 .. n) -> L] : FoldsLeft(g, <<>>, n, step)
  BY <1>5 DEF Folds
<1>7. ASSUME NEW D \in SUBSET (1 .. n), D # {}
      PROVE  g[D] = next(g[D \ {Max(D)}], s[Max(D)])
  <2>1. Max(D) \in D /\ g[D] = step[Max(D)][g[D \ {Max(D)}]]
    BY <1>6, <1>7 DEF FoldsLeft
  <2>2. D \ {Max(D)} \in SUBSET (1 .. n) /\ Max(D) \in 1 .. n
    BY <2>1
  <2> QED
    BY <1>4, <1>6, <2>1, <2>2
<1>8. g[{}] = <<>>
  BY <1>6 DEF FoldsLeft
<1>9. g = Walk(g)
  BY <1>2, <1>6, <1>7, <1>8
<1>10. iter = Walk(iter)
  BY <1>9
<1> HIDE DEF iter
<1>11. iter[{}] = <<>> /\ \A D \in SUBSET (1 .. n) :
         D # {} => iter[D] = next(iter[D \ {Max(D)}], s[Max(D)])
  BY <1>2, <1>10
<1>12. \A D \in SUBSET (1 .. n) : D # {} => Max(D) \in 1 .. n
  BY <1>2, MaxIs
<1>13. GoesBy(iter, L, <<>>, n, step)
  BY <1>4, <1>11, <1>12 DEF GoesBy
<1>14. PICK f \in [0 .. n -> L] : Recurs(f, <<>>, n, step) /\ f[n] = iter[1 .. n]
  BY <1>2, <1>3, <1>13, Folded
<1>15. f[0] = <<>> /\ f[n] = NoDoubles(s)
  BY <1>1, <1>2, <1>14 DEF Recurs
<1>16. ASSUME NEW i \in 1 .. n
       PROVE  f[i] = next(f[i - 1], s[i])
  <2>1. i - 1 \in 0 .. n
    BY <1>2
  <2>2. f[i] = step[i][f[i - 1]] /\ f[i - 1] \in L
    BY <1>14, <2>1 DEF Recurs
  <2> QED
    BY <1>4, <2>2
<1> QED
  BY <1>14, <1>15, <1>16 DEF n, next, L, Taken

\* One more: what is in the list, each once.
LEMMA AddedIs ==
  ASSUME NEW T, NEW s \in Seq(T), NEW x \in T, OnceEach(s)
  PROVE  /\ AddIfNotHere(s, x) \in Seq(T) /\ OnceEach(AddIfNotHere(s, x))
         /\ ToSet(AddIfNotHere(s, x)) = ToSet(s) \cup {x}
<1>1. CASE x \in ToSet(s)
  BY <1>1 DEF AddIfNotHere
<1>2. CASE x \notin ToSet(s)
  <2> DEFINE t == Append(s, x)
             n == Len(s)
  <2>1. AddIfNotHere(s, x) = t
    BY <1>2 DEF AddIfNotHere
  <2>2. n \in Nat /\ DOMAIN s = 1 .. n
    BY LenProperties
  <2>3. /\ t \in Seq(T) /\ DOMAIN t = 1 .. n + 1
        /\ \A i \in 1 .. n : t[i] = s[i]
        /\ t[n + 1] = x
    BY <2>2, AppendProperties, LenProperties
  <2> HIDE DEF t, n
  <2>4. \A i \in 1 .. n : s[i] # x
    BY <1>2, <2>2 DEF ToSet
  <2>5. \A i \in 1 .. n + 1 : i \in 1 .. n \/ i = n + 1
    BY <2>2
  <2>6. OnceEach(t)
    BY <2>2, <2>3, <2>4, <2>5 DEF OnceEach
  <2>7. ToSet(t) = ToSet(s) \cup {x}
    <3>1. \A i \in 1 .. n : i \in 1 .. n + 1
      BY <2>2
    <3>2. n + 1 \in 1 .. n + 1
      BY <2>2
    <3>3. ToSet(t) \subseteq ToSet(s) \cup {x}
      BY <2>2, <2>3, <2>5 DEF ToSet
    <3>4. ToSet(s) \subseteq ToSet(t)
      BY <2>2, <2>3, <3>1 DEF ToSet
    <3>5. x \in ToSet(t)
      BY <2>3, <3>2 DEF ToSet
    <3> QED
      BY <3>3, <3>4, <3>5
  <2> QED
    BY <2>1, <2>3, <2>6, <2>7
<1> QED
  BY <1>1, <1>2

\* So it is with all of them; those that are each there once stay as they are.
LEMMA NoDoublesIs ==
  ASSUME NEW T, NEW s \in Seq(T)
  PROVE  /\ NoDoubles(s) \in Seq(T) /\ OnceEach(NoDoubles(s))
         /\ ToSet(NoDoubles(s)) = ToSet(s) \ {0}
         /\ OnceEach(s) /\ 0 \notin ToSet(s) => NoDoubles(s) = s
<1> DEFINE n == Len(s)
<1>1. n \in Nat /\ DOMAIN s = 1 .. n /\ \A i \in 1 .. n : s[i] \in T
  BY LenProperties
<1>2. PICK f \in [0 .. n -> Seq(T)] :
        /\ f[0] = <<>> /\ f[n] = NoDoubles(s)
        /\ \A i \in 1 .. n : f[i] = Taken(f[i - 1], s[i])
  BY NoDoublesBy
<1> HIDE DEF n
<1> DEFINE upto(i) == {s[j] : j \in 1 .. i} \ {0}
           clean == OnceEach(s) /\ 0 \notin ToSet(s)
           good(i) == /\ OnceEach(f[i]) /\ ToSet(f[i]) = upto(i)
                      /\ clean => Len(f[i]) = i /\ \A j \in 1 .. i : f[i][j] = s[j]
           S == {i \in Nat : i \in 0 .. n => good(i)}
<1>3. good(0)
  <2>1. f[0] = <<>> /\ DOMAIN <<>> = {} /\ Len(<<>>) = 0 /\ 1 .. 0 = {}
    BY <1>2
  <2>2. OnceEach(<<>>) /\ ToSet(<<>>) = {}
    BY <2>1 DEF OnceEach, ToSet
  <2> QED
    BY <2>1, <2>2
<1>4. ASSUME NEW i \in 0 .. n - 1, good(i)
      PROVE  good(i + 1)
  <2>1. /\ i + 1 \in 1 .. n /\ i \in Nat /\ (i + 1) - 1 = i /\ i \in 0 .. n /\ i + 1 \in 0 .. n
        /\ \A j \in 1 .. i + 1 : j \in 1 .. i \/ j = i + 1
        /\ \A j \in 1 .. i : j \in 1 .. i + 1 /\ j # i + 1 /\ j \in 1 .. n
        /\ i + 1 \in 1 .. i + 1
    BY <1>1
  <2> DEFINE x == s[i + 1]
             t == f[i]
  <2>2. f[i + 1] = Taken(t, x) /\ x \in T /\ t \in Seq(T) /\ OnceEach(t) /\ ToSet(t) = upto(i)
    BY <1>1, <1>2, <1>4, <2>1
  <2>3. upto(i + 1) = (upto(i) \cup {x}) \ {0}
    BY <2>1
  <2>4. 0 \notin upto(i)
    OBVIOUS
  <2>5. clean => /\ x # 0 /\ x \notin ToSet(t) /\ Len(t) = i
                 /\ \A j \in 1 .. i : t[j] = s[j]
    <3> SUFFICES ASSUME clean
                 PROVE  /\ x # 0 /\ x \notin ToSet(t) /\ Len(t) = i
                        /\ \A j \in 1 .. i : t[j] = s[j]
      OBVIOUS
    <3>1. x # 0
      BY <1>1, <2>1 DEF ToSet
    <3>2. Len(t) = i /\ \A j \in 1 .. i : t[j] = s[j]
      BY <1>4
    <3>3. DOMAIN t = 1 .. i
      BY <2>2, <3>2, LenProperties
    <3>4. \A j \in 1 .. i : s[j] # x
      BY <1>1, <2>1 DEF OnceEach
    <3> QED
      BY <3>1, <3>2, <3>3, <3>4 DEF ToSet
  <2> HIDE DEF upto, clean, t
  <2>6. CASE x = 0
    <3>1. f[i + 1] = t
      BY <2>2, <2>6 DEF Taken
    <3>2. upto(i + 1) = upto(i)
      BY <2>3, <2>4, <2>6
    <3> QED
      BY <2>2, <2>5, <2>6, <3>1, <3>2
  <2>7. CASE x # 0
    <3>1. f[i + 1] = AddIfNotHere(t, x)
      BY <2>2, <2>7 DEF Taken
    <3>2. OnceEach(f[i + 1]) /\ ToSet(f[i + 1]) = upto(i) \cup {x}
      <4>1. t \in Seq(T) /\ OnceEach(t) /\ x \in T
        BY <2>2
      <4> HIDE DEF x
      <4>2. /\ OnceEach(AddIfNotHere(t, x))
            /\ ToSet(AddIfNotHere(t, x)) = ToSet(t) \cup {x}
        BY <4>1, AddedIs
      <4> QED
        BY <2>2, <3>1, <4>2
    <3>3. upto(i + 1) = upto(i) \cup {x}
      BY <2>3, <2>4, <2>7
    <3>4. ASSUME clean
          PROVE  Len(f[i + 1]) = i + 1 /\ \A j \in 1 .. i + 1 : f[i + 1][j] = s[j]
      <4>1. f[i + 1] = Append(t, x) /\ Len(t) = i /\ \A j \in 1 .. i : t[j] = s[j]
        BY <2>5, <3>1, <3>4 DEF AddIfNotHere
      <4>2. /\ Len(Append(t, x)) = i + 1 /\ \A j \in 1 .. i : Append(t, x)[j] = t[j]
            /\ Append(t, x)[i + 1] = x
        BY <2>2, <4>1, AppendProperties
      <4> QED
        BY <2>1, <4>1, <4>2
    <3> QED
      BY <3>2, <3>3, <3>4
  <2> QED
    BY <2>6, <2>7
<1> HIDE DEF good
<1>5. 0 \in S
  BY <1>3
<1>6. \A i \in S : i + 1 \in S
  <2> SUFFICES ASSUME NEW i \in S, i + 1 \in 0 .. n
               PROVE  good(i + 1)
    OBVIOUS
  <2>1. i \in 0 .. n - 1 /\ i \in 0 .. n
    BY <1>1
  <2> QED
    BY <1>4, <2>1
<1>7. n \in S
  BY <1>1, <1>5, <1>6, Induction
<1>8. good(n)
  BY <1>1, <1>7
<1>9. upto(n) = ToSet(s) \ {0}
  BY <1>1 DEF ToSet
<1>10. NoDoubles(s) \in Seq(T)
  BY <1>1, <1>2
<1>11. clean => NoDoubles(s) = s
  <2> SUFFICES ASSUME clean
               PROVE  NoDoubles(s) = s
    OBVIOUS
  <2>1. Len(NoDoubles(s)) = n /\ \A j \in 1 .. n : NoDoubles(s)[j] = s[j]
    BY <1>2, <1>8 DEF good
  <2> QED
    BY <1>10, <2>1, SeqEqual DEF n
<1> QED
  BY <1>2, <1>8, <1>9, <1>10, <1>11 DEF good

-----------------------------------------------------------------------------
(* Entities.                                                                *)

\* An entity that was just made, of whatever class.
Fresh(n) ==
  /\ EntityMembers \subseteq DOMAIN n
  /\ n.flags = {"VISIBLE"} /\ n.potentials = <<>> /\ n.mesh = 0 /\ n.zorder = 0
  /\ "WORLDALIGNED" \notin n.moveable

LEMMA FreshEntity ==
  ASSUME NEW class
  PROVE  Fresh(NewEntity(class))
<1> DEFINE base == NewObject(class)
           more == [potentials |-> <<>>, mesh |-> 0, matrix |-> Identity, zorder |-> 0,
                    moveable |-> {"PICKABLE", "VISIBLE", "RENDERCHANNELS", "INVERSEWORLDMATVALID"},
                    entityFlags |-> {}]
           o == NewEntity(class)
<1>1. DOMAIN base = ObjectMembers /\ base.flags = {"VISIBLE"}
  BY DEF NewObject, ObjectMembers
<1>2. /\ DOMAIN more = {"potentials", "mesh", "matrix", "zorder", "moveable", "entityFlags"}
      /\ more.mesh = 0 /\ more.potentials = <<>> /\ more.zorder = 0
      /\ "WORLDALIGNED" \notin more.moveable
  OBVIOUS
<1>3. o = Derived(base, more)
  BY DEF NewEntity
<1> HIDE DEF base, more, o
<1>4. /\ DOMAIN o = DOMAIN base \cup DOMAIN more
      /\ \A m \in DOMAIN base : o[m] = base[m]
      /\ \A m \in DOMAIN more \ DOMAIN base : o[m] = more[m]
  BY <1>3 DEF Derived
<1>5. o.flags = base.flags /\ o.mesh = more.mesh /\ o.potentials = more.potentials
      /\ o.zorder = more.zorder /\ o.moveable = more.moveable
  BY <1>1, <1>2, <1>4 DEF ObjectMembers
<1>6. EntityMembers \subseteq DOMAIN o
  BY <1>1, <1>2, <1>4 DEF EntityMembers
<1> QED
  BY <1>1, <1>2, <1>5, <1>6 DEF Fresh, o

LEMMA FreshDerived ==
  ASSUME NEW base, Fresh(base), NEW more
  PROVE  Fresh(Derived(base, more))
<1> DEFINE o == Derived(base, more)
<1>1. DOMAIN o = DOMAIN base \cup DOMAIN more /\ \A m \in DOMAIN base : o[m] = base[m]
  BY DerivedIs
<1> HIDE DEF o
<1>2. \A m \in EntityMembers : m \in DOMAIN o /\ o[m] = base[m]
  BY <1>1 DEF Fresh
<1>3. {"flags", "potentials", "mesh", "zorder", "moveable"} \subseteq EntityMembers
  BY DEF EntityMembers, ObjectMembers
<1> QED
  BY <1>2, <1>3 DEF Fresh, o

LEMMA FreshNew ==
  ASSUME NEW class \in Entities
  PROVE  Fresh(NewOf(class))
<1>1. Fresh(NewEntity(class)) /\ Fresh(NewLight(class)) /\ Fresh(NewCamera(class))
  BY FreshEntity, FreshDerived DEF NewLight, NewCamera
<1>2. Fresh(NewTargetLight(class)) /\ Fresh(NewTargetCamera(class))
  BY <1>1, FreshDerived DEF NewTargetLight, NewTargetCamera
<1>3. NewOf(class) \in {NewEntity(class), NewLight(class), NewCamera(class), NewTargetLight(class),
                        NewTargetCamera(class)}
  BY DEF NewOf, Entities, Lights, Cameras
<1> QED
  BY <1>1, <1>2, <1>3

\* The mesh and the potential meshes in a chunk.
MeshOf(c) ==
  IF Has(c, "MESHS") /\ c["MESHS"][1] # 0 /\ ClassAt[c["MESHS"][1]] = "MESH" THEN c["MESHS"][1] ELSE 0

PotentialsOf(c) ==
  LET others == IF Has(c, "MESHS") THEN NoDoubles(c["MESHS"][2]) ELSE <<>>
  IN IF MeshOf(c) = 0 THEN others ELSE AddIfNotHere(others, MeshOf(c))

\* The matrix and the flags in the main section of an entity.
MatrixOf(t) == [i \in 1 .. 4 |-> Append(t[i + 2], Identity[i][4])]

FlagsOf(t) == t[1] \ VolatileEntity

\* What an entity gets out of a chunk.
EntityRead(c, p) ==
  LET t == c["3DENTITYNDATA"]
  IN /\ p.mesh = MeshOf(c) /\ p.potentials = PotentialsOf(c)
     /\ p.entityFlags = FlagsOf(t) \ {"PLACEVALID", "PARENTVALID"}
     /\ p.matrix = MatrixOf(t)
     /\ p.moveable = ((t[2] \ VolatileMoveable) \ {"INDIRECTMATRIX", "VISIBLE", "HIERARCHICALHIDE"})
                       \cup (IF Mirrored(MatrixOf(t)) THEN {"INDIRECTMATRIX"} ELSE {})
                       \cup (p.flags \cap Marks)
     /\ p.zorder = (IF "ZORDERVALID" \in FlagsOf(t) THEN t[WordsBeforeOrder(FlagsOf(t)) + 1]
                    ELSE IF "RENDERFIRST" \in t[2] THEN 10000 ELSE 0)

LEMMA EntityLoaded ==
  ASSUME NEW n, Fresh(n), NEW c, Has(c, "3DENTITYNDATA"), NEW p, p = LoadEntity(n, c, ClassAt)
  PROVE  /\ DOMAIN p = DOMAIN n /\ \A m \in DOMAIN n \ EntityMembers : p[m] = n[m]
         /\ p.class = n.class
         /\ p.flags = LoadObject(n, c).flags /\ EntityRead(c, p)
<1> DEFINE seen == LoadObject(n, c)
           meshed == IF Has(c, "MESHS") THEN LoadMeshes(seen, c["MESHS"], ClassAt) ELSE seen
           t == c["3DENTITYNDATA"]
           M == {"flags", "potentials", "mesh", "matrix", "zorder", "moveable", "entityFlags", "class"}
<1>1. M \subseteq DOMAIN n /\ M \subseteq EntityMembers
  BY DEF Fresh, EntityMembers, ObjectMembers
<1>2. p = LoadEntityData(meshed, t)
  BY DEF LoadEntity
<1>3. DOMAIN seen = DOMAIN n /\ \A m \in DOMAIN n \ {"flags"} : seen[m] = n[m]
  BY DEF LoadObject
<1> HIDE DEF seen
<1>4. /\ DOMAIN meshed = DOMAIN n
      /\ \A m \in DOMAIN n \ {"mesh", "potentials"} : meshed[m] = seen[m]
      /\ meshed.mesh = MeshOf(c) /\ meshed.potentials = PotentialsOf(c)
  <2>1. seen.mesh = 0 /\ seen.potentials = <<>>
    BY <1>1, <1>3 DEF Fresh
  <2>2. CASE ~ Has(c, "MESHS")
    BY <1>3, <2>1, <2>2 DEF MeshOf, PotentialsOf
  <2>3. CASE Has(c, "MESHS")
    <3> DEFINE s == c["MESHS"]
               mesh == IF s[1] # 0 /\ ClassAt[s[1]] = "MESH" THEN s[1] ELSE seen.mesh
               others == FoldLeft(LAMBDA list, id : IF id = 0 THEN list ELSE AddIfNotHere(list, id),
                                  <<>>, s[2])
               q == [seen EXCEPT !.potentials = others]
    <3>1. meshed = SetCurrentMesh(q, mesh)
      BY <2>3 DEF LoadMeshes
    <3>2. mesh = MeshOf(c) /\ others = NoDoubles(s[2])
      BY <2>1, <2>3 DEF MeshOf, NoDoubles
    <3> HIDE DEF mesh, others, meshed
    <3>3. /\ DOMAIN q = DOMAIN n /\ q.potentials = others
          /\ \A m \in DOMAIN n \ {"potentials"} : q[m] = seen[m]
      BY <1>1, <1>3
    <3> HIDE DEF q
    <3>4. CASE mesh = 0
      <4>1. meshed = [q EXCEPT !.mesh = 0]
        BY <3>1, <3>4 DEF SetCurrentMesh
      <4>2. PotentialsOf(c) = others
        BY <2>3, <3>2, <3>4 DEF PotentialsOf
      <4> QED
        BY <1>1, <3>2, <3>3, <3>4, <4>1, <4>2
    <3>5. CASE mesh # 0
      <4> DEFINE r == [q EXCEPT !.mesh = mesh]
      <4>1. meshed = [r EXCEPT !.potentials = AddIfNotHere(@, mesh)]
        BY <3>1, <3>5 DEF SetCurrentMesh, AddPotentialMesh
      <4>2. PotentialsOf(c) = AddIfNotHere(others, mesh)
        BY <2>3, <3>2, <3>5 DEF PotentialsOf
      <4>3. /\ DOMAIN r = DOMAIN n /\ r.mesh = mesh /\ r.potentials = others
            /\ \A m \in DOMAIN n \ {"mesh", "potentials"} : r[m] = seen[m]
        BY <1>1, <3>3
      <4> HIDE DEF r
      <4> QED
        BY <1>1, <3>2, <4>1, <4>2, <4>3
    <3> QED
      BY <3>4, <3>5
  <2> QED
    BY <2>2, <2>3
<1> HIDE DEF meshed, t
<1>5. /\ DOMAIN p = DOMAIN n
      /\ \A m \in DOMAIN n \ {"entityFlags", "moveable", "matrix", "zorder"} : p[m] = meshed[m]
      /\ p.entityFlags = FlagsOf(t) \ {"PLACEVALID", "PARENTVALID"}
      /\ p.moveable = LoadedMoveable(meshed, t[2], MatrixOf(t))
      /\ p.matrix = MatrixOf(t)
      /\ p.zorder = (IF "ZORDERVALID" \in FlagsOf(t) THEN t[WordsBeforeOrder(FlagsOf(t)) + 1]
                     ELSE IF "RENDERFIRST" \in t[2] THEN 10000 ELSE meshed.zorder)
  BY <1>1, <1>2, <1>4 DEF LoadEntityData, FlagsOf, MatrixOf
<1>6. /\ p.flags = seen.flags /\ p.class = n.class /\ p.mesh = MeshOf(c)
      /\ p.potentials = PotentialsOf(c)
  BY <1>1, <1>3, <1>4, <1>5
<1>7. meshed.zorder = 0 /\ meshed.moveable = n.moveable /\ meshed.flags = p.flags
  BY <1>1, <1>3, <1>4, <1>6 DEF Fresh
<1>8. n.moveable \cap {"WORLDALIGNED"} = {}
  BY DEF Fresh
<1>9. p.moveable = ((t[2] \ VolatileMoveable) \ {"INDIRECTMATRIX", "VISIBLE", "HIERARCHICALHIDE"})
                     \cup (IF Mirrored(MatrixOf(t)) THEN {"INDIRECTMATRIX"} ELSE {})
                     \cup (p.flags \cap Marks)
  BY <1>5, <1>7, <1>8 DEF LoadedMoveable, Marks
<1>10. \A m \in DOMAIN n \ EntityMembers : p[m] = n[m]
  BY <1>1, <1>3, <1>4, <1>5
<1> QED
  BY <1>5, <1>6, <1>7, <1>9, <1>10 DEF EntityRead, t, seen

\* The main section of an entity as it is saved.
EntityWords(o) ==
  << o.entityFlags, o.moveable, Spatial(o.matrix[1]), Spatial(o.matrix[2]),
     Spatial(o.matrix[3]), Spatial(o.matrix[4])>>
  \o (IF o.zorder # 0 THEN <<o.zorder>> ELSE <<>>)

\* What is in it, with the identifiers other programs may write into it.
MarkedIn(o, marks, t) ==
  /\ t[1] = o.entityFlags \cup marks /\ t[2] = o.moveable
  /\ \A i \in 1 .. 4 : t[i + 2] = Spatial(o.matrix[i])
  /\ o.zorder # 0 => t[7 + Cardinality(marks)] = o.zorder

DataOf(o, t) == \E marks \in SUBSET {"PLACEVALID", "PARENTVALID"} : MarkedIn(o, marks, t)

WordsIn(o, s, z) ==
  /\ s[1] = o.entityFlags /\ s[2] = o.moveable
  /\ s[3] = Spatial(o.matrix[1]) /\ s[4] = Spatial(o.matrix[2])
  /\ s[5] = Spatial(o.matrix[3]) /\ s[6] = Spatial(o.matrix[4])
  /\ Len(s) = (IF o.zorder # 0 THEN 7 ELSE 6)
  /\ o.zorder # 0 => s[7] = o.zorder

LEMMA WordsOf ==
  ASSUME NEW o
  PROVE  WordsIn(o, EntityWords(o), o.zorder) /\ \E T : EntityWords(o) \in Seq(T)
<1> DEFINE a == << o.entityFlags, o.moveable, Spatial(o.matrix[1]), Spatial(o.matrix[2]),
                   Spatial(o.matrix[3]), Spatial(o.matrix[4])>>
           b == IF o.zorder # 0 THEN <<o.zorder>> ELSE <<>>
           T == {o.entityFlags, o.moveable, Spatial(o.matrix[1]), Spatial(o.matrix[2]),
                 Spatial(o.matrix[3]), Spatial(o.matrix[4]), o.zorder}
<1>1. /\ a \in Seq(T) /\ Len(a) = 6 /\ a[1] = o.entityFlags /\ a[2] = o.moveable
      /\ a[3] = Spatial(o.matrix[1]) /\ a[4] = Spatial(o.matrix[2])
      /\ a[5] = Spatial(o.matrix[3]) /\ a[6] = Spatial(o.matrix[4])
  OBVIOUS
<1>2. b \in Seq(T) /\ Len(b) = (IF o.zorder # 0 THEN 1 ELSE 0) /\ (o.zorder # 0 => b[1] = o.zorder)
  <2>1. CASE o.zorder # 0
    <3>1. b = <<o.zorder>>
      BY <2>1
    <3>2. <<o.zorder>> \in Seq(T) /\ Len(<<o.zorder>>) = 1 /\ <<o.zorder>>[1] = o.zorder
      OBVIOUS
    <3> QED
      BY <2>1, <3>1, <3>2
  <2>2. CASE o.zorder = 0
    <3>1. b = <<>>
      BY <2>2
    <3> QED
      BY <2>2, <3>1, EmptySeq
  <2> QED
    BY <2>1, <2>2
<1>3. EntityWords(o) = a \o b
  BY DEF EntityWords
<1> HIDE DEF a, b, T
<1>4. /\ a \o b \in Seq(T) /\ Len(a \o b) = Len(a) + Len(b)
      /\ \A i \in 1 .. Len(a) + Len(b) : (a \o b)[i] = IF i <= Len(a) THEN a[i] ELSE b[i - Len(a)]
  BY <1>1, <1>2, ConcatProperties
<1>5. Len(a \o b) = (IF o.zorder # 0 THEN 7 ELSE 6)
  BY <1>1, <1>2, <1>4
<1>6. \A i \in 1 .. 6 : (a \o b)[i] = a[i]
  BY <1>1, <1>2, <1>4
<1>7. o.zorder # 0 => (a \o b)[7] = o.zorder
  BY <1>1, <1>2, <1>4
<1>8. WordsIn(o, a \o b, o.zorder)
  BY <1>1, <1>5, <1>6, <1>7 DEF WordsIn
<1> QED
  BY <1>3, <1>4, <1>8

\* The same with as many more identifiers.
LEMMA MarkedWords ==
  ASSUME NEW o, NEW T, NEW s \in Seq(T), WordsIn(o, s, o.zorder),
         NEW marks, marks \subseteq {"PLACEVALID", "PARENTVALID"}
  PROVE  MarkedIn(o, marks, WithMarks(s, marks))
<1> DEFINE U == T \cup {s[1] \cup marks, 77}
           k == Cardinality(marks)
           n == Len(s)
           a == <<s[1] \cup marks>>
           b == SubSeq(s, 2, 6)
           c == [j \in 1 .. k |-> 77]
           d == SubSeq(s, 7, n)
<1>1. k \in Nat
  <2>1. IsFiniteSet({"PLACEVALID", "PARENTVALID"})
    <3>1. IsFiniteSet({"PLACEVALID"}) /\ IsFiniteSet({"PARENTVALID"})
      BY FS_Singleton
    <3>2. IsFiniteSet({"PLACEVALID"} \cup {"PARENTVALID"})
      BY <3>1, FS_Union
    <3>3. {"PLACEVALID", "PARENTVALID"} = {"PLACEVALID"} \cup {"PARENTVALID"}
      OBVIOUS
    <3> QED
      BY <3>2, <3>3
  <2> QED
    BY <2>1, FS_Subset, FS_CardinalityType
<1>2. n \in Nat /\ n >= 6 /\ (o.zorder # 0 => n = 7) /\ \A i \in 1 .. n : s[i] \in U
  <2>1. n = (IF o.zorder # 0 THEN 7 ELSE 6)
    BY DEF WordsIn
  <2> QED
    BY <2>1, ElementOfSeq
<1> HIDE DEF k, n, U
<1>3. a \in Seq(U) /\ Len(a) = 1 /\ a[1] = s[1] \cup marks
  BY DEF U
<1>4. b \in Seq(U) /\ Len(b) = 5 /\ \A i \in 1 .. 5 : b[i] = s[i + 1]
  <2>1. \A i \in 2 .. 6 : s[i] \in U
    BY <1>2
  <2>2. /\ b \in Seq(U) /\ Len(b) = (IF 2 <= 6 THEN 6 - 2 + 1 ELSE 0)
        /\ \A i \in 1 .. 6 - 2 + 1 : b[i] = s[2 + i - 1]
    BY <2>1, SubSeqProperties
  <2>3. \A i \in 1 .. 5 : i \in 1 .. 6 - 2 + 1 /\ 2 + i - 1 = i + 1
    OBVIOUS
  <2> QED
    BY <2>2, <2>3
<1>5. c \in Seq(U) /\ Len(c) = k
  <2>1. c \in [1 .. k -> U]
    BY DEF U
  <2> QED
    BY <1>1, <2>1, ListIs
<1>6. d \in Seq(U) /\ Len(d) = n - 6 /\ (o.zorder # 0 => d[1] = s[7])
  <2>1. \A i \in 7 .. n : s[i] \in U
    BY <1>2
  <2>2. /\ d \in Seq(U) /\ Len(d) = (IF 7 <= n THEN n - 7 + 1 ELSE 0)
        /\ \A i \in 1 .. n - 7 + 1 : d[i] = s[7 + i - 1]
    BY <1>2, <2>1, SubSeqProperties
  <2> QED
    BY <1>2, <2>2
<1>7. WithMarks(s, marks) = ((a \o b) \o c) \o d
  BY DEF WithMarks, k, n
<1> HIDE DEF a, b, c, d
<1> DEFINE ab == a \o b
           abc == ab \o c
           t == abc \o d
<1>8. ab \in Seq(U) /\ Len(ab) = 6 /\ ab[1] = a[1] /\ \A i \in 1 .. 5 : ab[i + 1] = b[i]
  <2>1. /\ ab \in Seq(U) /\ Len(ab) = Len(a) + Len(b)
        /\ \A i \in 1 .. Len(a) + Len(b) : ab[i] = IF i <= Len(a) THEN a[i] ELSE b[i - Len(a)]
    <3>1. a \in Seq(U) /\ b \in Seq(U)
      BY <1>3, <1>4
    <3> QED
      BY <3>1, ConcatProperties
  <2>2. ab[1] = a[1]
    BY <1>3, <1>4, <2>1
  <2>3. \A i \in 1 .. 5 : ab[i + 1] = b[(i + 1) - 1] /\ (i + 1) - 1 = i
    BY <1>3, <1>4, <2>1
  <2> QED
    BY <1>3, <1>4, <2>1, <2>2, <2>3
<1> HIDE DEF ab
<1>9. abc \in Seq(U) /\ Len(abc) = 6 + k /\ \A i \in 1 .. 6 : abc[i] = ab[i]
  <2>1. /\ abc \in Seq(U) /\ Len(abc) = Len(ab) + Len(c)
        /\ \A i \in 1 .. Len(ab) + Len(c) : abc[i] = IF i <= Len(ab) THEN ab[i] ELSE c[i - Len(ab)]
    BY <1>5, <1>8, ConcatProperties
  <2> QED
    BY <1>1, <1>5, <1>8, <2>1
<1> HIDE DEF abc
<1>10. /\ \A i \in 1 .. 6 : t[i] = abc[i]
       /\ o.zorder # 0 => t[7 + k] = d[1]
  <2>1. /\ t \in Seq(U) /\ Len(t) = Len(abc) + Len(d)
        /\ \A i \in 1 .. Len(abc) + Len(d) : t[i] = IF i <= Len(abc) THEN abc[i] ELSE d[i - Len(abc)]
    BY <1>6, <1>9, ConcatProperties
  <2>2. \A i \in 1 .. 6 : t[i] = abc[i]
    BY <1>1, <1>2, <1>6, <1>9, <2>1
  <2>3. o.zorder # 0 => t[7 + k] = d[(7 + k) - (6 + k)] /\ (7 + k) - (6 + k) = 1
    BY <1>1, <1>2, <1>6, <1>9, <2>1
  <2> QED
    BY <2>2, <2>3
<1> HIDE DEF t
<1>11. t[1] = s[1] \cup marks /\ t[2] = s[2] /\ t[3] = s[3] /\ t[4] = s[4] /\ t[5] = s[5] /\ t[6] = s[6]
  <2>1. ab[2] = b[1] /\ ab[3] = b[2] /\ ab[4] = b[3] /\ ab[5] = b[4] /\ ab[6] = b[5]
    BY <1>8
  <2>2. b[1] = s[2] /\ b[2] = s[3] /\ b[3] = s[4] /\ b[4] = s[5] /\ b[5] = s[6]
    BY <1>4
  <2> QED
    BY <1>3, <1>8, <1>9, <1>10, <2>1, <2>2
<1>12. \A i \in 1 .. 4 : t[i + 2] = Spatial(o.matrix[i])
  <2>1. t[3] = Spatial(o.matrix[1]) /\ t[4] = Spatial(o.matrix[2]) /\ t[5] = Spatial(o.matrix[3])
        /\ t[6] = Spatial(o.matrix[4])
    BY <1>11 DEF WordsIn
  <2>2. \A i \in 1 .. 4 : i = 1 \/ i = 2 \/ i = 3 \/ i = 4
    OBVIOUS
  <2> QED
    BY <2>1, <2>2
<1>13. t[1] = o.entityFlags \cup marks /\ t[2] = o.moveable
  BY <1>11 DEF WordsIn
<1>14. o.zorder # 0 => t[7 + k] = o.zorder
  BY <1>6, <1>10 DEF WordsIn
<1> QED
  BY <1>7, <1>12, <1>13, <1>14 DEF t, abc, ab, k, MarkedIn

LEMMA WordsData ==
  ASSUME NEW o, NEW marks, marks \subseteq {"PLACEVALID", "PARENTVALID"}
  PROVE  DataOf(o, EntityWords(o)) /\ DataOf(o, WithMarks(EntityWords(o), marks))
<1> DEFINE s == EntityWords(o)
<1>1. WordsIn(o, s, o.zorder)
  BY WordsOf
<1>2. PICK T : s \in Seq(T)
  BY WordsOf
<1> HIDE DEF s
<1>3. DataOf(o, WithMarks(s, marks))
  <2> DEFINE t == WithMarks(s, marks)
  <2>1. MarkedIn(o, marks, t)
    BY <1>1, <1>2, MarkedWords
  <2> HIDE DEF t
  <2>2. marks \in SUBSET {"PLACEVALID", "PARENTVALID"}
    OBVIOUS
  <2>3. DataOf(o, t)
    BY <2>1, <2>2 DEF DataOf
  <2> QED
    BY <2>3 DEF t
<1>4. DataOf(o, s)
  <2>1. \A i \in 1 .. 4 : s[i + 2] = Spatial(o.matrix[i])
    <3>1. \A i \in 1 .. 4 : i = 1 \/ i = 2 \/ i = 3 \/ i = 4
      OBVIOUS
    <3> QED
      BY <1>1, <3>1 DEF WordsIn
  <2>2. Cardinality({}) = 0 /\ s[1] = o.entityFlags \cup {}
    BY <1>1, FS_EmptySet DEF WordsIn
  <2>3. {} \in SUBSET {"PLACEVALID", "PARENTVALID"} /\ 7 + Cardinality({}) = 7
    BY <2>2
  <2> QED
    BY <1>1, <2>1, <2>2, <2>3 DEF WordsIn, DataOf, MarkedIn
<1> QED
  BY <1>3, <1>4 DEF s

\* The sections of an entity, those of a light and those of a camera.
EntitySections == {"OBJECTHIERAHIDDEN", "OBJECTHIDDEN", "MESHS", "3DENTITYNDATA"}

MeshsOf(o, c) ==
  /\ Has(c, "MESHS") <=> o.mesh # 0 \/ o.potentials # <<>>
  /\ Has(c, "MESHS") => c["MESHS"] = <<o.mesh, o.potentials>>

EntityPart(o, c) ==
  /\ SameMarks(o, c) /\ MeshsOf(o, c)
  /\ Has(c, "3DENTITYNDATA") /\ DataOf(o, c["3DENTITYNDATA"])

LightWords(o) ==
  << <<o.lightFlags, o.type>>, [ToARGB(o.diffuse) EXCEPT ![4] = Opaque],
     o.attenuation0, o.attenuation1, o.attenuation2, o.range>> \o Cones(o)

LightPart(o, c) ==
  /\ Has(c, "LIGHTDATA") /\ c["LIGHTDATA"] = LightWords(o)
  /\ Has(c, "LIGHTDATA2") <=> o.power # 1
  /\ Has(c, "LIGHTDATA2") => c["LIGHTDATA2"] = <<o.power>>

CameraPart(o, c) ==
  Has(c, "CAMERAONLY")
    /\ c["CAMERAONLY"] =
         <<o.project, o.fov, o.zoom, <<o.width % Word, o.height % Word>>, o.front, o.back>>

TargetPart(o, section, c) == Has(c, section) /\ c[section] = WrittenTarget(o, Living)

LEMMA EntityChunk ==
  ASSUME NEW o, Regulated(o) = o, NEW c, c = SaveEntity(o)
  PROVE  /\ EntityPart(o, c) /\ c["3DENTITYNDATA"] = EntityWords(o)
         /\ \A s : Has(c, s) => s \in EntitySections
<1> DEFINE a == SaveObject(o)
           m == MeshSection(o)
           e == EntityData(o)
<1>1. c = (a ++ m) ++ e
  BY DEF SaveEntity
<1>2. \A s : Has(m, s) <=> s = "MESHS" /\ (o.mesh # 0 \/ o.potentials # <<>>)
  BY HasOne, HasNone DEF MeshSection
<1>3. o.mesh # 0 \/ o.potentials # <<>> => m["MESHS"] = <<o.mesh, o.potentials>>
  <2> DEFINE v == <<o.mesh, o.potentials>>
  <2>1. o.mesh # 0 \/ o.potentials # <<>> => m = Entry("MESHS", v)
    BY DEF MeshSection
  <2> HIDE DEF v, m
  <2>2. Entry("MESHS", v)["MESHS"] = v
    BY HasOne
  <2> QED
    BY <2>1, <2>2 DEF v
<1>4. e = Entry("3DENTITYNDATA", EntityWords(o))
  BY DEF EntityData, EntityWords
<1>5. SameMarks(o, a) /\ \A s : Has(a, s) => s \in {"OBJECTHIERAHIDDEN", "OBJECTHIDDEN"}
  BY ObjectChunk
<1>6. /\ \A s : Has(e, s) <=> s = "3DENTITYNDATA"
      /\ e["3DENTITYNDATA"] = EntityWords(o)
  BY <1>4, HasOne
<1>7. DataOf(o, EntityWords(o))
  BY WordsData
<1> HIDE DEF a, m, e
<1>8. \A s : Has(c, s) <=> Has(a, s) \/ Has(m, s) \/ Has(e, s)
  BY <1>1, HasBoth
<1>9. Has(m, "MESHS") => c["MESHS"] = m["MESHS"]
  BY <1>1, <1>5, HasBoth
<1>10. c["3DENTITYNDATA"] = e["3DENTITYNDATA"]
  BY <1>1, <1>2, <1>5, <1>6, HasBoth
<1>11. SameMarks(o, c)
  BY <1>2, <1>5, <1>6, <1>8 DEF SameMarks
<1>12. MeshsOf(o, c)
  BY <1>2, <1>3, <1>5, <1>6, <1>8, <1>9 DEF MeshsOf
<1>13. EntityPart(o, c)
  BY <1>6, <1>7, <1>8, <1>10, <1>11, <1>12 DEF EntityPart
<1>14. \A s : Has(c, s) => s \in EntitySections
  BY <1>2, <1>5, <1>6, <1>8 DEF EntitySections
<1> QED
  BY <1>6, <1>10, <1>13, <1>14

\* More sections behind them change nothing.
LEMMA PartsStay ==
  ASSUME NEW o, NEW c, NEW x, NEW d, d = c ++ x
  PROVE  /\ EntityPart(o, c) /\ (\A s \in EntitySections : ~ Has(x, s)) =>
              EntityPart(o, d) /\ d["3DENTITYNDATA"] = c["3DENTITYNDATA"]
         /\ LightPart(o, c) /\ ~ Has(x, "LIGHTDATA2") => LightPart(o, d)
         /\ CameraPart(o, c) => CameraPart(o, d)
<1>1. \A s : (Has(d, s) <=> Has(c, s) \/ Has(x, s)) /\ (Has(c, s) => d[s] = c[s])
  BY HasBoth
<1>2. EntityPart(o, c) /\ (\A s \in EntitySections : ~ Has(x, s)) =>
        EntityPart(o, d) /\ d["3DENTITYNDATA"] = c["3DENTITYNDATA"]
  BY <1>1 DEF EntityPart, EntitySections, SameMarks, MeshsOf
<1>3. LightPart(o, c) /\ ~ Has(x, "LIGHTDATA2") => LightPart(o, d)
  BY <1>1 DEF LightPart
<1>4. CameraPart(o, c) => CameraPart(o, d)
  BY <1>1 DEF CameraPart
<1> QED
  BY <1>2, <1>3, <1>4

LEMMA LightChunk ==
  ASSUME NEW o, Regulated(o) = o, NEW d, d = SaveLight(o)
  PROVE  /\ EntityPart(o, d) /\ d["3DENTITYNDATA"] = EntityWords(o) /\ LightPart(o, d)
         /\ ~ Has(d, "TLIGHTTARGET")
<1> DEFINE c == SaveEntity(o)
           x == Entry("LIGHTDATA", LightWords(o))
           y == IF o.power # 1 THEN Entry("LIGHTDATA2", <<o.power>>) ELSE NoSections
<1>1. d = (c ++ x) ++ y
  BY DEF SaveLight, LightWords
<1>2. /\ EntityPart(o, c) /\ c["3DENTITYNDATA"] = EntityWords(o)
      /\ \A s : Has(c, s) => s \in EntitySections
  BY EntityChunk
<1>3. (\A s : Has(x, s) <=> s = "LIGHTDATA") /\ x["LIGHTDATA"] = LightWords(o)
  BY HasOne
<1>4. /\ \A s : Has(y, s) <=> s = "LIGHTDATA2" /\ o.power # 1
      /\ o.power # 1 => y["LIGHTDATA2"] = <<o.power>>
  BY HasOne, HasNone
<1> HIDE DEF c, x, y
<1> DEFINE cx == c ++ x
<1>5. EntityPart(o, cx) /\ cx["3DENTITYNDATA"] = EntityWords(o)
  BY <1>2, <1>3, PartsStay DEF EntitySections
<1>6. /\ \A s : Has(cx, s) <=> Has(c, s) \/ s = "LIGHTDATA"
      /\ cx["LIGHTDATA"] = LightWords(o)
  BY <1>2, <1>3, HasBoth DEF EntitySections
<1> HIDE DEF cx
<1>7. EntityPart(o, cx ++ y) /\ (cx ++ y)["3DENTITYNDATA"] = EntityWords(o)
  BY <1>4, <1>5, PartsStay DEF EntitySections
<1>8. LightPart(o, cx ++ y)
  <2>1. ~ Has(c, "LIGHTDATA2")
    BY <1>2 DEF EntitySections
  <2>2. \A s : (Has(cx ++ y, s) <=> Has(cx, s) \/ Has(y, s))
    BY HasBoth
  <2>3. (cx ++ y)["LIGHTDATA"] = cx["LIGHTDATA"]
    BY <1>6, HasBoth
  <2>4. Has(y, "LIGHTDATA2") => (cx ++ y)["LIGHTDATA2"] = y["LIGHTDATA2"]
    BY <1>6, <2>1, HasBoth
  <2> QED
    BY <1>4, <1>6, <2>1, <2>2, <2>3, <2>4 DEF LightPart
<1>9. ~ Has(cx ++ y, "TLIGHTTARGET")
  BY <1>2, <1>4, <1>6, HasBoth DEF EntitySections
<1> QED
  BY <1>1, <1>7, <1>8, <1>9 DEF cx

LEMMA CameraChunk ==
  ASSUME NEW o, Regulated(o) = o, NEW d, d = SaveCamera(o)
  PROVE  /\ EntityPart(o, d) /\ d["3DENTITYNDATA"] = EntityWords(o) /\ CameraPart(o, d)
         /\ ~ Has(d, "TCAMERATARGET")
<1> DEFINE c == SaveEntity(o)
           x == Entry("CAMERAONLY",
                  <<o.project, o.fov, o.zoom, <<o.width % Word, o.height % Word>>, o.front, o.back>>)
<1>1. d = c ++ x
  BY DEF SaveCamera
<1>2. /\ EntityPart(o, c) /\ c["3DENTITYNDATA"] = EntityWords(o)
      /\ \A s : Has(c, s) => s \in EntitySections
  BY EntityChunk
<1>3. /\ \A s : Has(x, s) <=> s = "CAMERAONLY"
      /\ x["CAMERAONLY"] =
           <<o.project, o.fov, o.zoom, <<o.width % Word, o.height % Word>>, o.front, o.back>>
  BY HasOne
<1> HIDE DEF c, x
<1>4. EntityPart(o, d) /\ d["3DENTITYNDATA"] = EntityWords(o)
  BY <1>1, <1>2, <1>3, PartsStay DEF EntitySections
<1>5. Has(d, "CAMERAONLY") /\ d["CAMERAONLY"] = x["CAMERAONLY"]
  BY <1>1, <1>2, <1>3, HasBoth DEF EntitySections
<1>6. ~ Has(d, "TCAMERATARGET")
  BY <1>1, <1>2, <1>3, HasBoth DEF EntitySections
<1> QED
  BY <1>3, <1>4, <1>5, <1>6 DEF CameraPart

\* All the parts of an entity of a class.
PartsOf(o, class, c) ==
  /\ EntityPart(o, c)
  /\ class \in Lights => LightPart(o, c)
  /\ class \in Cameras => CameraPart(o, c)
  /\ class = "TARGETLIGHT" => TargetPart(o, "TLIGHTTARGET", c)
  /\ class = "TARGETCAMERA" => TargetPart(o, "TCAMERATARGET", c)

LEMMA TargetChunk ==
  ASSUME NEW o, NEW c, NEW section \in {"TLIGHTTARGET", "TCAMERATARGET"}, ~ Has(c, section),
         NEW d, d = c ++ Entry(section, WrittenTarget(o, Living)),
         EntityPart(o, c)
  PROVE  /\ EntityPart(o, d) /\ d["3DENTITYNDATA"] = c["3DENTITYNDATA"] /\ TargetPart(o, section, d)
         /\ LightPart(o, c) => LightPart(o, d)
         /\ CameraPart(o, c) => CameraPart(o, d)
<1> DEFINE x == Entry(section, WrittenTarget(o, Living))
<1>1. (\A s : Has(x, s) <=> s = section) /\ x[section] = WrittenTarget(o, Living)
  BY HasOne
<1>2. d = c ++ x
  OBVIOUS
<1> HIDE DEF x
<1>3. /\ \A s \in EntitySections : ~ Has(x, s)
      /\ ~ Has(x, "LIGHTDATA2")
  BY <1>1 DEF EntitySections
<1>4. Has(d, section) /\ d[section] = x[section]
  BY <1>1, <1>2, HasBoth
<1> QED
  BY <1>1, <1>2, <1>3, <1>4, PartsStay DEF TargetPart

\* The chunk of an entity of any class.
LEMMA PartsSaved ==
  ASSUME NEW o, Regulated(o) = o, o.class \in Entities, NEW options
  PROVE  /\ PartsOf(o, o.class, SaveOf(o, options))
         /\ SaveOf(o, options)["3DENTITYNDATA"] = EntityWords(o)
<1> DEFINE d == SaveOf(o, options)
<1>1. CASE o.class = "3DENTITY"
  <2>1. d = SaveEntity(o)
    BY <1>1 DEF SaveOf
  <2>2. EntityPart(o, d) /\ d["3DENTITYNDATA"] = EntityWords(o)
    BY <2>1, EntityChunk
  <2> QED
    BY <1>1, <2>2 DEF PartsOf, Lights, Cameras
<1>2. CASE o.class = "LIGHT"
  <2>1. d = SaveLight(o)
    BY <1>2 DEF SaveOf
  <2>2. EntityPart(o, d) /\ d["3DENTITYNDATA"] = EntityWords(o) /\ LightPart(o, d)
    BY <2>1, LightChunk
  <2> QED
    BY <1>2, <2>2 DEF PartsOf, Lights, Cameras
<1>3. CASE o.class = "CAMERA"
  <2>1. d = SaveCamera(o)
    BY <1>3 DEF SaveOf
  <2>2. EntityPart(o, d) /\ d["3DENTITYNDATA"] = EntityWords(o) /\ CameraPart(o, d)
    BY <2>1, CameraChunk
  <2> QED
    BY <1>3, <2>2 DEF PartsOf, Lights, Cameras
<1>4. CASE o.class = "TARGETLIGHT"
  <2> DEFINE c == SaveLight(o)
  <2>1. d = c ++ Entry("TLIGHTTARGET", WrittenTarget(o, Living))
    BY <1>4 DEF SaveOf, SaveTargetLight
  <2>2. EntityPart(o, c) /\ c["3DENTITYNDATA"] = EntityWords(o) /\ LightPart(o, c) /\ ~ Has(c, "TLIGHTTARGET")
    BY LightChunk
  <2> HIDE DEF c, d
  <2>3. /\ EntityPart(o, d) /\ d["3DENTITYNDATA"] = c["3DENTITYNDATA"]
        /\ TargetPart(o, "TLIGHTTARGET", d) /\ LightPart(o, d)
    BY <2>1, <2>2, TargetChunk
  <2> QED
    BY <1>4, <2>2, <2>3 DEF PartsOf, Lights, Cameras, d
<1>5. CASE o.class = "TARGETCAMERA"
  <2> DEFINE c == SaveCamera(o)
  <2>1. d = c ++ Entry("TCAMERATARGET", WrittenTarget(o, Living))
    BY <1>5 DEF SaveOf, SaveTargetCamera
  <2>2. EntityPart(o, c) /\ c["3DENTITYNDATA"] = EntityWords(o) /\ CameraPart(o, c) /\ ~ Has(c, "TCAMERATARGET")
    BY CameraChunk
  <2> HIDE DEF c, d
  <2>3. /\ EntityPart(o, d) /\ d["3DENTITYNDATA"] = c["3DENTITYNDATA"]
        /\ TargetPart(o, "TCAMERATARGET", d) /\ CameraPart(o, d)
    BY <2>1, <2>2, TargetChunk
  <2> QED
    BY <1>5, <2>2, <2>3 DEF PartsOf, Lights, Cameras, d
<1> QED
  BY <1>1, <1>2, <1>3, <1>4, <1>5 DEF Entities, Lights, Cameras

\* The same with the identifiers that other programs write.
LEMMA PartsMarked ==
  ASSUME NEW o, NEW class, NEW b, PartsOf(o, class, b), b["3DENTITYNDATA"] = EntityWords(o),
         NEW what \in {"none", "hierarchy", "temp"}, NEW c, ChunkOf(what, class, b, c)
  PROVE  PartsOf(o, class, c)
<1>1. CASE c = b
  BY <1>1
<1>2. CASE HierarchyOf(b, c)
  <2>1. PICK marks \in SUBSET {"PLACEVALID", "PARENTVALID"} :
          c = Entry("3DENTITYNDATA", WithMarks(EntityWords(o), marks)) ++ b
    BY <1>2 DEF HierarchyOf
  <2> DEFINE t == WithMarks(EntityWords(o), marks)
             x == Entry("3DENTITYNDATA", t)
  <2>2. DataOf(o, t)
    BY WordsData
  <2> HIDE DEF t
  <2>3. (\A s : Has(x, s) <=> s = "3DENTITYNDATA") /\ x["3DENTITYNDATA"] = t
    BY HasOne
  <2>4. c = x ++ b
    BY <2>1 DEF t
  <2> HIDE DEF x
  <2>5. /\ \A s : Has(c, s) <=> Has(b, s) \/ s = "3DENTITYNDATA"
        /\ \A s : s # "3DENTITYNDATA" /\ Has(b, s) => c[s] = b[s]
        /\ c["3DENTITYNDATA"] = t
    BY <2>3, <2>4, HasBoth
  <2>6. EntityPart(o, c)
    BY <2>2, <2>5 DEF PartsOf, EntityPart, SameMarks, MeshsOf
  <2>7. LightPart(o, b) => LightPart(o, c)
    BY <2>5 DEF LightPart
  <2>8. CameraPart(o, b) => CameraPart(o, c)
    BY <2>5 DEF CameraPart
  <2>9. /\ TargetPart(o, "TLIGHTTARGET", b) => TargetPart(o, "TLIGHTTARGET", c)
        /\ TargetPart(o, "TCAMERATARGET", b) => TargetPart(o, "TCAMERATARGET", c)
    BY <2>5 DEF TargetPart
  <2> QED
    BY <2>6, <2>7, <2>8, <2>9 DEF PartsOf
<1> QED
  BY <1>1, <1>2 DEF ChunkOf

EntityTypes(o) ==
  /\ o.potentials \in Seq(Nat \ {0})
  /\ o.entityFlags \cap {"PLACEVALID", "PARENTVALID"} = {}
  /\ "ZORDERVALID" \in o.entityFlags <=> o.zorder # 0
  /\ o.mesh = 0 \/ ClassAt[o.mesh] = "MESH"

\* Where an entity is, and what it looks like, comes back.
LEMMA SpaceComesBack ==
  ASSUME NEW o, EntityTypes(o), NEW c, EntityPart(o, c), NEW p, EntityRead(c, p)
  PROVE  SpaceKept(p, o)
<1> DEFINE t == c["3DENTITYNDATA"]
<1>1. /\ p.mesh = MeshOf(c) /\ p.potentials = PotentialsOf(c)
      /\ p.entityFlags = FlagsOf(t) \ {"PLACEVALID", "PARENTVALID"}
      /\ p.matrix = MatrixOf(t)
      /\ p.moveable = ((t[2] \ VolatileMoveable) \ {"INDIRECTMATRIX", "VISIBLE", "HIERARCHICALHIDE"})
                        \cup (IF Mirrored(MatrixOf(t)) THEN {"INDIRECTMATRIX"} ELSE {})
                        \cup (p.flags \cap Marks)
      /\ p.zorder = (IF "ZORDERVALID" \in FlagsOf(t) THEN t[WordsBeforeOrder(FlagsOf(t)) + 1]
                     ELSE IF "RENDERFIRST" \in t[2] THEN 10000 ELSE 0)
  BY DEF EntityRead
<1>2. PICK marks \in SUBSET {"PLACEVALID", "PARENTVALID"} : MarkedIn(o, marks, t)
  BY DEF EntityPart, DataOf
<1>3. /\ t[1] = o.entityFlags \cup marks /\ t[2] = o.moveable
      /\ \A i \in 1 .. 4 : t[i + 2] = Spatial(o.matrix[i])
      /\ o.zorder # 0 => t[7 + Cardinality(marks)] = o.zorder
  BY <1>2 DEF MarkedIn
<1> HIDE DEF t
<1>4. FlagsOf(t) = (o.entityFlags \ VolatileEntity) \cup marks
  BY <1>3 DEF FlagsOf, VolatileEntity
<1>5. \A i \in 1 .. 4 : p.matrix[i] = Append(Spatial(o.matrix[i]), Identity[i][4])
  BY <1>1, <1>3 DEF MatrixOf
<1>6. p.zorder = o.zorder \/ (o.zorder = 0 /\ "RENDERFIRST" \in o.moveable /\ p.zorder = 10000)
  <2>1. "ZORDERVALID" \in FlagsOf(t) <=> o.zorder # 0
    BY <1>4 DEF EntityTypes, VolatileEntity
  <2>2. FlagsOf(t) \cap {"PLACEVALID", "PARENTVALID"} = marks
    BY <1>4 DEF EntityTypes
  <2>3. WordsBeforeOrder(FlagsOf(t)) = 6 + Cardinality(marks)
    BY <2>2 DEF WordsBeforeOrder
  <2>4. Cardinality(marks) \in Nat
    <3>1. IsFiniteSet({"PLACEVALID"}) /\ IsFiniteSet({"PARENTVALID"})
      BY FS_Singleton
    <3>2. IsFiniteSet({"PLACEVALID"} \cup {"PARENTVALID"})
      BY <3>1, FS_Union
    <3>3. marks \subseteq {"PLACEVALID"} \cup {"PARENTVALID"}
      OBVIOUS
    <3> QED
      BY <3>2, <3>3, FS_Subset, FS_CardinalityType
  <2>5. (6 + Cardinality(marks)) + 1 = 7 + Cardinality(marks)
    BY <2>4
  <2> QED
    BY <1>1, <1>3, <2>1, <2>3, <2>5
<1>7. p.entityFlags = o.entityFlags \ VolatileEntity
  <2>1. marks \subseteq {"PLACEVALID", "PARENTVALID"}
    OBVIOUS
  <2>2. o.entityFlags \cap {"PLACEVALID", "PARENTVALID"} = {}
    BY DEF EntityTypes
  <2> QED
    BY <1>1, <1>4, <2>1, <2>2
<1>8. /\ p.moveable \cap Marks = p.flags \cap Marks
      /\ "INDIRECTMATRIX" \in p.moveable <=> Mirrored(p.matrix)
      /\ p.moveable \ (Marks \cup {"INDIRECTMATRIX"})
           = o.moveable \ (Marks \cup {"INDIRECTMATRIX"} \cup VolatileMoveable)
  <2> DEFINE ind == IF Mirrored(MatrixOf(t)) THEN {"INDIRECTMATRIX"} ELSE {}
             f == p.flags \cap Marks
             rest == (o.moveable \ VolatileMoveable) \ {"INDIRECTMATRIX", "VISIBLE", "HIERARCHICALHIDE"}
  <2>1. p.moveable = (rest \cup ind) \cup f
    BY <1>1, <1>3
  <2>2. /\ "INDIRECTMATRIX" \in ind <=> Mirrored(p.matrix)
        /\ ind \subseteq {"INDIRECTMATRIX"}
    BY <1>1
  <2>3. f \subseteq Marks /\ f = p.flags \cap Marks
    OBVIOUS
  <2>4. Marks = {"VISIBLE", "HIERARCHICALHIDE"}
    BY DEF Marks
  <2> HIDE DEF ind, f
  <2>5. p.moveable \cap Marks = f
    BY <2>1, <2>2, <2>3, <2>4
  <2>6. "INDIRECTMATRIX" \in p.moveable <=> "INDIRECTMATRIX" \in ind
    BY <2>1, <2>3, <2>4
  <2>7. p.moveable \ (Marks \cup {"INDIRECTMATRIX"})
           = o.moveable \ (Marks \cup {"INDIRECTMATRIX"} \cup VolatileMoveable)
    BY <2>1, <2>2, <2>3, <2>4
  <2> QED
    BY <2>2, <2>3, <2>5, <2>6, <2>7
<1>9. p.mesh = o.mesh /\ ToSet(p.potentials) = ToSet(o.potentials) \cup ({o.mesh} \ {0})
  <2>1. MeshOf(c) = o.mesh
    BY DEF EntityPart, MeshsOf, MeshOf, EntityTypes
  <2> DEFINE others == IF Has(c, "MESHS") THEN NoDoubles(c["MESHS"][2]) ELSE <<>>
  <2>2. /\ others \in Seq((Nat \ {0}) \cup {o.mesh}) /\ OnceEach(others)
        /\ ToSet(others) = ToSet(o.potentials)
    <3>1. o.potentials \in Seq(Nat \ {0})
      BY DEF EntityTypes
    <3>2. 0 \notin ToSet(o.potentials)
      BY <3>1, LenProperties DEF ToSet
    <3>3. o.potentials \in Seq((Nat \ {0}) \cup {o.mesh})
      BY <3>1, SeqMonotonic
    <3>4. CASE Has(c, "MESHS")
      <4>1. others = NoDoubles(o.potentials)
        BY <3>4 DEF EntityPart, MeshsOf
      <4> HIDE DEF others
      <4>2. /\ NoDoubles(o.potentials) \in Seq((Nat \ {0}) \cup {o.mesh}) /\ OnceEach(NoDoubles(o.potentials))
            /\ ToSet(NoDoubles(o.potentials)) = ToSet(o.potentials) \ {0}
        BY <3>3, NoDoublesIs
      <4> QED
        BY <3>2, <4>1, <4>2
    <3>5. CASE ~ Has(c, "MESHS")
      <4>1. others = <<>> /\ o.potentials = <<>>
        BY <3>5 DEF EntityPart, MeshsOf
      <4> HIDE DEF others
      <4>2. OnceEach(<<>>)
        BY DEF OnceEach
      <4> QED
        BY <3>3, <4>1, <4>2
    <3> QED
      BY <3>4, <3>5
  <2>3. PotentialsOf(c) = IF o.mesh = 0 THEN others ELSE AddIfNotHere(others, o.mesh)
    BY <2>1 DEF PotentialsOf
  <2> HIDE DEF others
  <2>4. CASE o.mesh = 0
    BY <1>1, <2>1, <2>2, <2>3, <2>4
  <2>5. CASE o.mesh # 0
    <3>1. o.mesh \in (Nat \ {0}) \cup {o.mesh}
      OBVIOUS
    <3>2. ToSet(AddIfNotHere(others, o.mesh)) = ToSet(others) \cup {o.mesh}
      BY <2>2, <3>1, AddedIs
    <3> QED
      BY <1>1, <2>1, <2>2, <2>3, <2>5, <3>2
  <2> QED
    BY <2>4, <2>5
<1> QED
  BY <1>5, <1>6, <1>7, <1>8, <1>9 DEF SpaceKept

-----------------------------------------------------------------------------
(* Lights and cameras.                                                      *)

\* What was set after the members of an entity leaves them alone.
LEMMA ReadOn ==
  ASSUME NEW p, NEW q, \A m \in EntityMembers : q[m] = p[m], NEW c, EntityRead(c, p)
  PROVE  EntityRead(c, q)
<1>1. q.mesh = p.mesh /\ q.potentials = p.potentials /\ q.entityFlags = p.entityFlags
      /\ q.matrix = p.matrix /\ q.moveable = p.moveable /\ q.zorder = p.zorder /\ q.flags = p.flags
  BY DEF EntityMembers, ObjectMembers
<1> QED
  BY <1>1 DEF EntityRead

LightRead(n, c, p) ==
  LET s == c["LIGHTDATA"]
  IN /\ p.lightFlags = s[1][1] /\ p.type = (IF s[1][2] \in LightTypes THEN s[1][2] ELSE "POINT")
     /\ p.diffuse = FromARGB(s[2]) /\ p.attenuation0 = s[3] /\ p.attenuation1 = s[4]
     /\ p.attenuation2 = s[5] /\ p.range = s[6]
     /\ IF s[1][2] = "SPOT" THEN p.outerCone = s[7] /\ p.innerCone = s[8] /\ p.falloff = s[9]
        ELSE p.outerCone = n.outerCone /\ p.innerCone = n.innerCone /\ p.falloff = n.falloff
     /\ p.power = (IF Has(c, "LIGHTDATA2") THEN c["LIGHTDATA2"][1] ELSE 1)

LEMMA LightLoaded ==
  ASSUME NEW n, Fresh(n), LightMembers \subseteq DOMAIN n, NEW c, Has(c, "3DENTITYNDATA"), Has(c, "LIGHTDATA"),
         NEW p, p = LoadLight(n, c, ClassAt)
  PROVE  /\ DOMAIN p = DOMAIN n /\ \A m \in DOMAIN n \ LightMembers : p[m] = n[m]
         /\ p.class = n.class /\ p.flags = LoadObject(n, c).flags
         /\ EntityRead(c, p) /\ LightRead(n, c, p)
<1> DEFINE entity == LoadEntity(n, c, ClassAt)
           s == c["LIGHTDATA"]
           basic == [entity EXCEPT
             !.lightFlags = s[1][1], !.type = s[1][2], !.diffuse = FromARGB(s[2]),
             !.attenuation0 = s[3], !.attenuation1 = s[4], !.attenuation2 = s[5], !.range = s[6]]
           coned == IF s[1][2] # "SPOT" THEN basic
                    ELSE [basic EXCEPT !.outerCone = s[7], !.innerCone = s[8], !.falloff = s[9]]
           L == LightMembers \ EntityMembers
<1>1. p = [coned EXCEPT
             !.power = IF Has(c, "LIGHTDATA2") THEN c["LIGHTDATA2"][1] ELSE 1,
             !.type = IF @ \in LightTypes THEN @ ELSE "POINT"]
  BY DEF LoadLight
<1>2. /\ DOMAIN entity = DOMAIN n /\ \A m \in DOMAIN n \ EntityMembers : entity[m] = n[m]
      /\ entity.class = n.class
      /\ entity.flags = LoadObject(n, c).flags /\ EntityRead(c, entity)
  BY EntityLoaded
<1>3. /\ {"lightFlags", "type", "diffuse", "attenuation0", "attenuation1", "attenuation2", "range",
          "outerCone", "innerCone", "falloff", "power"} \subseteq DOMAIN n
      /\ L = {"lightFlags", "type", "diffuse", "attenuation0", "attenuation1", "attenuation2", "range",
              "outerCone", "innerCone", "falloff", "power"}
      /\ {"class", "flags"} \subseteq EntityMembers /\ EntityMembers \subseteq LightMembers
  BY DEF LightMembers, EntityMembers, ObjectMembers
<1> HIDE DEF entity, L
<1>4. /\ DOMAIN basic = DOMAIN n
      /\ \A m \in DOMAIN n \ {"lightFlags", "type", "diffuse", "attenuation0", "attenuation1",
                              "attenuation2", "range"} : basic[m] = entity[m]
      /\ basic.lightFlags = s[1][1] /\ basic.type = s[1][2] /\ basic.diffuse = FromARGB(s[2])
      /\ basic.attenuation0 = s[3] /\ basic.attenuation1 = s[4] /\ basic.attenuation2 = s[5]
      /\ basic.range = s[6]
  BY <1>2, <1>3
<1> HIDE DEF basic
<1>5. /\ DOMAIN coned = DOMAIN n
      /\ \A m \in DOMAIN n \ {"outerCone", "innerCone", "falloff"} : coned[m] = basic[m]
      /\ IF s[1][2] = "SPOT" THEN coned.outerCone = s[7] /\ coned.innerCone = s[8] /\ coned.falloff = s[9]
         ELSE coned.outerCone = n.outerCone /\ coned.innerCone = n.innerCone /\ coned.falloff = n.falloff
  BY <1>2, <1>3, <1>4 DEF L
<1> HIDE DEF coned
<1>6. /\ DOMAIN p = DOMAIN n
      /\ \A m \in DOMAIN n \ {"power", "type"} : p[m] = coned[m]
      /\ p.power = (IF Has(c, "LIGHTDATA2") THEN c["LIGHTDATA2"][1] ELSE 1)
      /\ p.type = (IF coned.type \in LightTypes THEN coned.type ELSE "POINT")
  BY <1>1, <1>3, <1>5
<1>7. \A m \in DOMAIN n \ L : p[m] = entity[m]
  BY <1>3, <1>4, <1>5, <1>6
<1>8. \A m \in EntityMembers : m \in DOMAIN n \ L
  BY DEF L, Fresh
<1>9. EntityRead(c, p)
  BY <1>2, <1>7, <1>8, ReadOn
<1>10. p.class = n.class /\ p.flags = LoadObject(n, c).flags
  BY <1>2, <1>3, <1>7, <1>8
<1>11. \A m \in DOMAIN n \ LightMembers : p[m] = n[m]
  BY <1>2, <1>3, <1>7 DEF L
<1>12. LightRead(n, c, p)
  BY <1>3, <1>4, <1>5, <1>6 DEF LightRead
<1> QED
  BY <1>6, <1>9, <1>10, <1>11, <1>12

CameraRead(c, p) ==
  LET s == c["CAMERAONLY"]
  IN /\ p.project = s[1] /\ p.fov = s[2] /\ p.zoom = s[3] /\ p.width = s[4][1]
     /\ p.height = s[4][2] /\ p.front = s[5] /\ p.back = s[6]

LEMMA CameraLoaded ==
  ASSUME NEW n, Fresh(n), CameraMembers \subseteq DOMAIN n,
         NEW c, Has(c, "3DENTITYNDATA"), Has(c, "CAMERAONLY"),
         NEW p, p = LoadCamera(n, c, ClassAt)
  PROVE  /\ DOMAIN p = DOMAIN n /\ \A m \in DOMAIN n \ CameraMembers : p[m] = n[m]
         /\ p.class = n.class /\ p.flags = LoadObject(n, c).flags
         /\ EntityRead(c, p) /\ CameraRead(c, p)
<1> DEFINE entity == LoadEntity(n, c, ClassAt)
           s == c["CAMERAONLY"]
           L == {"project", "fov", "zoom", "width", "height", "front", "back"}
<1>1. p = [entity EXCEPT !.project = s[1], !.fov = s[2], !.zoom = s[3], !.width = s[4][1],
             !.height = s[4][2], !.front = s[5], !.back = s[6]]
  BY DEF LoadCamera
<1>2. /\ DOMAIN entity = DOMAIN n /\ \A m \in DOMAIN n \ EntityMembers : entity[m] = n[m]
      /\ entity.class = n.class
      /\ entity.flags = LoadObject(n, c).flags /\ EntityRead(c, entity)
  BY EntityLoaded
<1>3. L \subseteq DOMAIN n /\ {"class", "flags"} \subseteq EntityMembers /\ L \subseteq CameraMembers
      /\ EntityMembers \subseteq CameraMembers
  BY DEF CameraMembers, EntityMembers, ObjectMembers
<1> HIDE DEF entity
<1>4. DOMAIN p = DOMAIN n /\ \A m \in DOMAIN n \ L : p[m] = entity[m]
  BY <1>1, <1>2
<1>5. CameraRead(c, p)
  BY <1>1, <1>2, <1>3 DEF CameraRead
<1>6. \A m \in EntityMembers : m \in DOMAIN n \ L
  BY DEF Fresh, EntityMembers, ObjectMembers
<1>7. EntityRead(c, p)
  BY <1>2, <1>4, <1>6, ReadOn
<1>8. p.class = n.class /\ p.flags = LoadObject(n, c).flags
  BY <1>2, <1>3, <1>4, <1>6
<1>9. \A m \in DOMAIN n \ CameraMembers : p[m] = n[m]
  BY <1>2, <1>3, <1>4
<1> QED
  BY <1>4, <1>5, <1>7, <1>8, <1>9

\* What an entity of any class gets out of a chunk with all its parts.
PartsRead(n, class, c, p) ==
  /\ DOMAIN p = DOMAIN n /\ p.class = n.class /\ p.flags = LoadObject(n, c).flags
  /\ EntityRead(c, p)
  /\ class \in Lights => LightRead(n, c, p)
  /\ class \in Cameras => CameraRead(c, p)
  /\ class = "TARGETLIGHT" => p.target = c["TLIGHTTARGET"][1]
  /\ class = "TARGETCAMERA" => p.target = c["TCAMERATARGET"][1]

HasParts(class, c) ==
  /\ Has(c, "3DENTITYNDATA")
  /\ class \in Lights => Has(c, "LIGHTDATA")
  /\ class \in Cameras => Has(c, "CAMERAONLY")
  /\ class = "TARGETLIGHT" => Has(c, "TLIGHTTARGET")
  /\ class = "TARGETCAMERA" => Has(c, "TCAMERATARGET")

LEMMA PartsLoaded ==
  ASSUME NEW class \in Entities, NEW c, HasParts(class, c), NEW d, NEW paths
  PROVE  PartsRead(NewOf(class), class, c, LoadOf(class, c, d, paths))
<1> DEFINE n == NewOf(class)
           p == LoadOf(class, c, d, paths)
<1>1. Fresh(n)
  BY FreshNew
<1>2. DOMAIN n = MembersOf(class) /\ n.class = class
  BY NewIs DEF Classes
<1>3. CASE class = "3DENTITY"
  <2>1. p = LoadEntity(n, c, ClassAt)
    BY <1>3 DEF LoadOf
  <2> HIDE DEF n, p
  <2>2. /\ DOMAIN p = DOMAIN n /\ p.class = n.class
        /\ p.flags = LoadObject(n, c).flags /\ EntityRead(c, p)
    BY <1>1, <2>1, EntityLoaded DEF HasParts
  <2> QED
    BY <1>3, <2>2 DEF PartsRead, Lights, Cameras, n, p
<1>4. CASE class = "LIGHT"
  <2>1. p = LoadLight(n, c, ClassAt) /\ Has(c, "LIGHTDATA")
    BY <1>4 DEF LoadOf, HasParts, Lights
  <2>2. LightMembers \subseteq DOMAIN n
    BY <1>2, <1>4 DEF MembersOf
  <2> HIDE DEF n, p
  <2>3. /\ DOMAIN p = DOMAIN n /\ p.class = n.class
        /\ p.flags = LoadObject(n, c).flags /\ EntityRead(c, p) /\ LightRead(n, c, p)
    BY <1>1, <2>1, <2>2, LightLoaded DEF HasParts
  <2> QED
    BY <1>4, <2>3 DEF PartsRead, Lights, Cameras, n, p
<1>5. CASE class = "CAMERA"
  <2>1. p = LoadCamera(n, c, ClassAt) /\ Has(c, "CAMERAONLY")
    BY <1>5 DEF LoadOf, HasParts, Cameras
  <2>2. CameraMembers \subseteq DOMAIN n
    BY <1>2, <1>5 DEF MembersOf
  <2> HIDE DEF n, p
  <2>3. /\ DOMAIN p = DOMAIN n /\ p.class = n.class
        /\ p.flags = LoadObject(n, c).flags /\ EntityRead(c, p) /\ CameraRead(c, p)
    BY <1>1, <2>1, <2>2, CameraLoaded DEF HasParts
  <2> QED
    BY <1>5, <2>3 DEF PartsRead, Lights, Cameras, n, p
<1>6. CASE class = "TARGETLIGHT"
  <2> DEFINE q == LoadLight(n, c, ClassAt)
  <2>1. p = [q EXCEPT !.target = c["TLIGHTTARGET"][1]] /\ Has(c, "LIGHTDATA")
    BY <1>6 DEF LoadOf, LoadTargetLight, HasParts, Lights
  <2>2. LightMembers \subseteq DOMAIN n /\ "target" \in DOMAIN n
    BY <1>2, <1>6 DEF MembersOf
  <2> HIDE DEF n, p
  <2>3. /\ DOMAIN q = DOMAIN n /\ q.class = n.class
        /\ q.flags = LoadObject(n, c).flags /\ EntityRead(c, q) /\ LightRead(n, c, q)
    BY <1>1, <2>1, <2>2, LightLoaded DEF HasParts
  <2> HIDE DEF q
  <2>4. /\ DOMAIN p = DOMAIN n /\ p.target = c["TLIGHTTARGET"][1]
        /\ \A m \in DOMAIN n \ {"target"} : p[m] = q[m]
    BY <2>1, <2>2, <2>3
  <2>5. \A m \in LightMembers : m \in DOMAIN n \ {"target"}
    BY <2>2 DEF LightMembers, EntityMembers, ObjectMembers
  <2>6. EntityMembers \subseteq LightMembers
    BY DEF LightMembers
  <2>7. EntityRead(c, p)
    BY <2>3, <2>4, <2>5, <2>6, ReadOn
  <2>8. p.class = q.class /\ p.flags = q.flags
    BY <2>4, <2>5 DEF LightMembers, EntityMembers, ObjectMembers
  <2>9. /\ p.lightFlags = q.lightFlags /\ p.type = q.type /\ p.diffuse = q.diffuse
        /\ p.attenuation0 = q.attenuation0 /\ p.attenuation1 = q.attenuation1
        /\ p.attenuation2 = q.attenuation2 /\ p.range = q.range /\ p.outerCone = q.outerCone
        /\ p.innerCone = q.innerCone /\ p.falloff = q.falloff /\ p.power = q.power
    BY <2>4, <2>5 DEF LightMembers
  <2>10. LightRead(n, c, p)
    BY <2>3, <2>9 DEF LightRead
  <2> QED
    BY <1>6, <2>3, <2>4, <2>7, <2>8, <2>10 DEF PartsRead, Lights, Cameras, n, p
<1>7. CASE class = "TARGETCAMERA"
  <2> DEFINE q == LoadCamera(n, c, ClassAt)
  <2>1. p = [q EXCEPT !.target = c["TCAMERATARGET"][1]] /\ Has(c, "CAMERAONLY")
    BY <1>7 DEF LoadOf, LoadTargetCamera, HasParts, Cameras
  <2>2. CameraMembers \subseteq DOMAIN n /\ "target" \in DOMAIN n
    BY <1>2, <1>7 DEF MembersOf
  <2> HIDE DEF n, p
  <2>3. /\ DOMAIN q = DOMAIN n /\ q.class = n.class
        /\ q.flags = LoadObject(n, c).flags /\ EntityRead(c, q) /\ CameraRead(c, q)
    BY <1>1, <2>1, <2>2, CameraLoaded DEF HasParts
  <2> HIDE DEF q
  <2>4. /\ DOMAIN p = DOMAIN n /\ p.target = c["TCAMERATARGET"][1]
        /\ \A m \in DOMAIN n \ {"target"} : p[m] = q[m]
    BY <2>1, <2>2, <2>3
  <2>5. \A m \in CameraMembers : m \in DOMAIN n \ {"target"}
    BY <2>2 DEF CameraMembers, EntityMembers, ObjectMembers
  <2>6. EntityMembers \subseteq CameraMembers
    BY DEF CameraMembers
  <2>7. EntityRead(c, p)
    BY <2>3, <2>4, <2>5, <2>6, ReadOn
  <2>8. p.class = q.class /\ p.flags = q.flags
    BY <2>4, <2>5 DEF CameraMembers, EntityMembers, ObjectMembers
  <2>9. /\ p.project = q.project /\ p.fov = q.fov /\ p.zoom = q.zoom /\ p.width = q.width
        /\ p.height = q.height /\ p.front = q.front /\ p.back = q.back
    BY <2>4, <2>5 DEF CameraMembers
  <2>10. CameraRead(c, p)
    BY <2>3, <2>9 DEF CameraRead
  <2> QED
    BY <1>7, <2>3, <2>4, <2>7, <2>8, <2>10 DEF PartsRead, Lights, Cameras, n, p
<1> QED
  BY <1>3, <1>4, <1>5, <1>6, <1>7 DEF Entities, Lights, Cameras

LEMMA LightWordsIs ==
  ASSUME NEW o
  PROVE  LET s == LightWords(o)
         IN /\ s[1] = <<o.lightFlags, o.type>> /\ s[2] = [ToARGB(o.diffuse) EXCEPT ![4] = Opaque]
            /\ s[3] = o.attenuation0 /\ s[4] = o.attenuation1 /\ s[5] = o.attenuation2
            /\ s[6] = o.range
            /\ o.type = "SPOT" => s[7] = o.outerCone /\ s[8] = o.innerCone /\ s[9] = o.falloff
<1> DEFINE colour == [ToARGB(o.diffuse) EXCEPT ![4] = Opaque]
           first == <<o.lightFlags, o.type>>
           a == <<first, colour, o.attenuation0, o.attenuation1, o.attenuation2, o.range>>
           T == {first, colour, o.attenuation0, o.attenuation1, o.attenuation2, o.range,
                 o.outerCone, o.innerCone, o.falloff}
           b == Cones(o)
<1>1. LightWords(o) = a \o b
  BY DEF LightWords
<1> HIDE DEF colour, first
<1>2. /\ a \in Seq(T) /\ Len(a) = 6 /\ a[1] = first /\ a[2] = colour /\ a[3] = o.attenuation0
      /\ a[4] = o.attenuation1 /\ a[5] = o.attenuation2 /\ a[6] = o.range
  OBVIOUS
<1>3. b \in Seq(T) /\ Len(b) \in Nat
  <2>1. CASE o.type = "SPOT"
    <3>1. b = <<o.outerCone, o.innerCone, o.falloff>>
      BY <2>1 DEF Cones
    <3> QED
      BY <3>1
  <2>2. CASE o.type # "SPOT"
    <3>1. b = <<>>
      BY <2>2 DEF Cones
    <3> QED
      BY <3>1
  <2> QED
    BY <2>1, <2>2
<1>4. o.type = "SPOT" => Len(b) = 3 /\ b[1] = o.outerCone /\ b[2] = o.innerCone /\ b[3] = o.falloff
  BY DEF Cones
<1> HIDE DEF a, b, T
<1> DEFINE s == a \o b
<1>5. /\ s \in Seq(T) /\ Len(s) = Len(a) + Len(b)
      /\ \A i \in 1 .. Len(a) + Len(b) : s[i] = IF i <= Len(a) THEN a[i] ELSE b[i - Len(a)]
  BY <1>2, <1>3, ConcatProperties
<1> HIDE DEF s
<1>6. \A i \in 1 .. 6 : s[i] = a[i]
  BY <1>2, <1>3, <1>5
<1>7. o.type = "SPOT" => s[7] = b[1] /\ s[8] = b[2] /\ s[9] = b[3]
  <2> SUFFICES ASSUME o.type = "SPOT"
               PROVE  s[7] = b[1] /\ s[8] = b[2] /\ s[9] = b[3]
    OBVIOUS
  <2>1. Len(a) = 6 /\ Len(b) = 3
    BY <1>2, <1>4
  <2>2. \A i \in 1 .. 6 + 3 : s[i] = IF i <= 6 THEN a[i] ELSE b[i - 6]
    BY <1>5, <2>1
  <2>3. s[7] = b[7 - 6] /\ s[8] = b[8 - 6] /\ s[9] = b[9 - 6]
    BY <2>2
  <2> QED
    BY <2>3
<1>8. /\ s[1] = first /\ s[2] = colour /\ s[3] = o.attenuation0 /\ s[4] = o.attenuation1
      /\ s[5] = o.attenuation2 /\ s[6] = o.range
  BY <1>2, <1>6
<1>9. o.type = "SPOT" => s[7] = o.outerCone /\ s[8] = o.innerCone /\ s[9] = o.falloff
  BY <1>4, <1>7
<1> QED
  BY <1>1, <1>8, <1>9 DEF colour, first, s

LightTypesOf(o) == o.type \in LightTypes /\ o.diffuse \in [1 .. 4 -> 0 .. 510]

LEMMA LightComesBack ==
  ASSUME NEW o, LightTypesOf(o), NEW c, LightPart(o, c), NEW n, NEW p, LightRead(n, c, p)
  PROVE  /\ LightKept(p, o)
         /\ p.diffuse = [i \in 1 .. 4 |-> IF i = 4 THEN 510 ELSE FromARGB(ToARGB(o.diffuse))[i]]
         /\ o.type # "SPOT" =>
              p.outerCone = n.outerCone /\ p.innerCone = n.innerCone /\ p.falloff = n.falloff
<1> DEFINE s == c["LIGHTDATA"]
<1>1. /\ s[1] = <<o.lightFlags, o.type>> /\ s[2] = [ToARGB(o.diffuse) EXCEPT ![4] = Opaque]
      /\ s[3] = o.attenuation0 /\ s[4] = o.attenuation1 /\ s[5] = o.attenuation2
      /\ s[6] = o.range
      /\ o.type = "SPOT" => s[7] = o.outerCone /\ s[8] = o.innerCone /\ s[9] = o.falloff
  BY LightWordsIs DEF LightPart
<1>2. /\ p.lightFlags = s[1][1] /\ p.type = (IF s[1][2] \in LightTypes THEN s[1][2] ELSE "POINT")
      /\ p.diffuse = FromARGB(s[2]) /\ p.attenuation0 = s[3] /\ p.attenuation1 = s[4]
      /\ p.attenuation2 = s[5] /\ p.range = s[6]
      /\ IF s[1][2] = "SPOT" THEN p.outerCone = s[7] /\ p.innerCone = s[8] /\ p.falloff = s[9]
         ELSE p.outerCone = n.outerCone /\ p.innerCone = n.innerCone /\ p.falloff = n.falloff
      /\ p.power = (IF Has(c, "LIGHTDATA2") THEN c["LIGHTDATA2"][1] ELSE 1)
  BY DEF LightRead
<1> HIDE DEF s
<1>3. s[1][1] = o.lightFlags /\ s[1][2] = o.type
  BY <1>1
<1>4. p.power = o.power
  BY <1>2 DEF LightPart
<1>5. p.diffuse = [i \in 1 .. 4 |-> IF i = 4 THEN 510 ELSE FromARGB(ToARGB(o.diffuse))[i]]
  <2> DEFINE w == ToARGB(o.diffuse)
  <2>1. DOMAIN w = 1 .. 4 /\ FromARGB(w) = [i \in 1 .. 4 |-> 2 * w[i]]
    BY DEF LightTypesOf, ToARGB, FromARGB
  <2>2. p.diffuse = [i \in DOMAIN s[2] |-> 2 * s[2][i]]
    BY <1>2 DEF FromARGB
  <2>3. s[2] = [w EXCEPT ![4] = 255]
    BY <1>1 DEF Opaque
  <2> HIDE DEF w
  <2>4. DOMAIN s[2] = 1 .. 4 /\ \A i \in 1 .. 4 : s[2][i] = IF i = 4 THEN 255 ELSE w[i]
    BY <2>1, <2>3
  <2>5. \A i \in 1 .. 4 : 2 * s[2][i] = IF i = 4 THEN 510 ELSE FromARGB(w)[i]
    BY <2>1, <2>4
  <2> QED
    BY <2>2, <2>4, <2>5 DEF w
<1>6. NearColour(p.diffuse, o.diffuse, 3) /\ p.diffuse[4] = 510
  <2>1. NearColour(FromARGB(ToARGB(o.diffuse)), o.diffuse, 4)
    BY ColourKept DEF LightTypesOf
  <2>2. \A i \in 1 .. 3 : i \in 1 .. 4 /\ i # 4
    OBVIOUS
  <2>3. \A i \in 1 .. 3 : p.diffuse[i] = FromARGB(ToARGB(o.diffuse))[i]
    BY <1>5, <2>2
  <2>4. p.diffuse[4] = 510
    BY <1>5
  <2> QED
    BY <2>1, <2>2, <2>3, <2>4 DEF NearColour
<1>7. p.type = o.type /\ p.lightFlags = o.lightFlags
  BY <1>2, <1>3 DEF LightTypesOf
<1>8. /\ o.type = "SPOT" =>
           p.innerCone = o.innerCone /\ p.outerCone = o.outerCone /\ p.falloff = o.falloff
      /\ o.type # "SPOT" =>
           p.outerCone = n.outerCone /\ p.innerCone = n.innerCone /\ p.falloff = n.falloff
  BY <1>1, <1>2, <1>3
<1>9. \A f \in {"type", "attenuation0", "attenuation1", "attenuation2", "range", "lightFlags",
               "power"} : p[f] = o[f]
  BY <1>1, <1>2, <1>4, <1>7
<1> QED
  BY <1>5, <1>6, <1>8, <1>9 DEF LightKept

LEMMA CameraComesBack ==
  ASSUME NEW o, o.width \in Nat, o.height \in Nat, NEW c, CameraPart(o, c), NEW p, CameraRead(c, p)
  PROVE  CameraKept(p, o)
<1>1. /\ p.project = o.project /\ p.fov = o.fov /\ p.zoom = o.zoom /\ p.front = o.front
      /\ p.back = o.back /\ p.width = o.width % Word /\ p.height = o.height % Word
  BY DEF CameraPart, CameraRead
<1>2. \A x \in Nat : x < 65536 => x % 65536 = x
  OBVIOUS
<1> QED
  BY <1>1, <1>2 DEF CameraKept, Word

\* What the types of the members of an entity, a light and a camera are.
LEMMA EntityTyping ==
  ASSUME NEW o, Proper(objs, o), WellMade(o), o.class \in Entities
  PROVE  /\ o.potentials \in Seq(Nat \ {0})
         /\ o.matrix \in [1 .. 4 -> [1 .. 4 -> Int]]
         /\ o.class \in Lights => LightTypesOf(o)
         /\ o.class \in Cameras => o.width \in Nat /\ o.height \in Nat
<1>1. \A m \in DOMAIN o \cap TypedMembers : o[m] \in ValueType(m)
  BY DEF WellMade, Entities, Lights, Cameras
<1>2. /\ ValueType("matrix") = [1 .. 4 -> [1 .. 4 -> Int]]
      /\ ValueType("diffuse") = [1 .. 4 -> 0 .. 510]
      /\ ValueType("type") = LightTypes
      /\ ValueType("width") = Nat /\ ValueType("height") = Nat
  BY DEF ValueType, SamplingFields, RasterFields, Colours
<1>3. {"matrix", "diffuse", "type", "width", "height"} \subseteq TypedMembers
  BY DEF TypedMembers, Colours
<1>4. /\ EntityMembers \subseteq DOMAIN o
      /\ o.class \in Lights => LightMembers \subseteq DOMAIN o
      /\ o.class \in Cameras => CameraMembers \subseteq DOMAIN o
  BY ProperMembers DEF MembersOf, Lights, Cameras
<1>5. "matrix" \in EntityMembers /\ {"diffuse", "type"} \subseteq LightMembers
      /\ {"width", "height"} \subseteq CameraMembers
  BY DEF EntityMembers, LightMembers, CameraMembers
<1> QED
  BY <1>1, <1>2, <1>3, <1>4, <1>5 DEF WellMade, LightTypesOf

\* What was saved is as Save leaves it.
LEMMA RegulatedFlags ==
  ASSUME NEW o, Regulated(o) = o, "entityFlags" \in DOMAIN o
  PROVE  /\ o.entityFlags \cap {"PLACEVALID", "PARENTVALID"} = {}
         /\ "ZORDERVALID" \in o.entityFlags <=> o.zorder # 0
<1> DEFINE flags == (o.entityFlags \ {"PARENTVALID", "PLACEVALID", "ZORDERVALID"}) \cup
                      (IF o.zorder # 0 THEN {"ZORDERVALID"} ELSE {})
<1>1. o = [o EXCEPT !.entityFlags = flags]
  BY DEF Regulated
<1>2. [o EXCEPT !.entityFlags = flags].entityFlags = flags
  OBVIOUS
<1>3. o.entityFlags = flags
  BY <1>1, <1>2
<1> QED
  BY <1>3

\* What an entity is in a document, and when it is saved.
LEMMA EntityInDocument ==
  ASSUME Inv, DataInv, Loaded, NEW id \in Of(Entities), foreign \in {"none", "hierarchy", "temp"}
  PROVE  LET o == objs[id] c == doc.chunks[id]
         IN /\ id \in Living /\ o.class \in Entities /\ Proper(objs, o) /\ WellMade(o)
            /\ Regulated(o) = o /\ EntityTypes(o) /\ PartsOf(o, o.class, c)
            /\ copy[id] = LoadOf(o.class, c, disk, extra)
<1> DEFINE o == objs[id]
           c == doc.chunks[id]
<1>1. id \in Living /\ o.class \in Entities
  BY DEF Of
<1>2. /\ Proper(objs, o) /\ WellMade(o) /\ Pointers(o) \subseteq Living /\ AfterSave(o) = o
      /\ copy[id] = LoadOf(o.class, c, disk, extra)
      /\ ChunkOf(foreign, o.class, SaveOf(o, global), c)
  BY <1>1, CopyIs
<1>3. Regulated(o) = o
  BY <1>1, <1>2 DEF AfterSave, Entities, Lights, Cameras
<1>4. EntityMembers \subseteq DOMAIN o /\ o.mesh \in At(objs, {"MESH"})
  BY <1>1, <1>2, ProperMembers DEF Proper
<1> HIDE DEF o, c
<1>5. PartsOf(o, o.class, c)
  <2>1. /\ PartsOf(o, o.class, SaveOf(o, global))
        /\ SaveOf(o, global)["3DENTITYNDATA"] = EntityWords(o)
    BY <1>1, <1>3, PartsSaved
  <2> QED
    BY <1>2, <2>1, PartsMarked
<1>6. o.mesh = 0 \/ ClassAt[o.mesh] = "MESH"
  <2>1. o.mesh # 0 => o.mesh \in Living
    <3>1. o.class # "MATERIAL" /\ o.class # "MESH"
      BY <1>1 DEF Entities, Lights, Cameras
    <3>2. Pointers(o) = ({o.mesh} \cup ToSet(o.potentials)) \ {0}
      BY <1>1, <3>1 DEF Pointers
    <3> QED
      BY <1>2, <3>2
  <2>2. o.mesh # 0 => objs[o.mesh].class = "MESH"
    BY <1>4, <2>1 DEF At, Living
  <2> QED
    BY <2>1, <2>2 DEF ClassAt
<1>7. "entityFlags" \in DOMAIN o
  BY <1>4 DEF EntityMembers
<1>8. EntityTypes(o)
  <2>1. o.potentials \in Seq(Nat \ {0})
    BY <1>1, <1>2, EntityTyping
  <2>2. /\ o.entityFlags \cap {"PLACEVALID", "PARENTVALID"} = {}
        /\ "ZORDERVALID" \in o.entityFlags <=> o.zorder # 0
    BY <1>3, <1>7, RegulatedFlags
  <2> QED
    BY <1>6, <2>1, <2>2 DEF EntityTypes
<1> QED
  BY <1>1, <1>2, <1>3, <1>5, <1>8 DEF o, c

\* An entity comes back as it was (the property EntitiesKept).
LEMMA EntitiesComeBack ==
  ASSUME Inv, DataInv
  PROVE  EntitiesKept
<1> SUFFICES ASSUME Loaded, foreign \in {"none", "hierarchy", "temp"}, NEW id \in Of(Entities)
             PROVE  LET o == objs[id] c == copy[id]
                    IN /\ MarksKept(c, o) /\ SpaceKept(c, o)
                       /\ o.class \in Lights => LightKept(c, o)
                       /\ o.class \in Cameras => CameraKept(c, o)
                       /\ o.class \in Aiming => c.target = (IF o.target \in Living THEN o.target ELSE 0)
  BY DEF EntitiesKept
<1> DEFINE o == objs[id]
           p == copy[id]
           c == doc.chunks[id]
           n == NewOf(o.class)
<1>1. /\ id \in Living /\ o.class \in Entities /\ Proper(objs, o) /\ WellMade(o)
      /\ Regulated(o) = o /\ EntityTypes(o) /\ PartsOf(o, o.class, c)
      /\ p = LoadOf(o.class, c, disk, extra)
  BY EntityInDocument
<1>2. /\ o.class \in Lights => LightTypesOf(o)
      /\ o.class \in Cameras => o.width \in Nat /\ o.height \in Nat
  BY <1>1, EntityTyping
<1> HIDE DEF o, p, c
<1>3. HasParts(o.class, c)
  BY <1>1 DEF PartsOf, HasParts, EntityPart, LightPart, CameraPart, TargetPart
<1>4. PartsRead(n, o.class, c, p)
  BY <1>1, <1>3, PartsLoaded
<1>5. Fresh(n)
  BY <1>1, FreshNew
<1>6. MarksKept(LoadObject(n, c), o)
  <2>1. n.flags = {"VISIBLE"} /\ "flags" \in DOMAIN n
    BY <1>5 DEF Fresh, EntityMembers, ObjectMembers
  <2>2. SameMarks(o, c)
    BY <1>1 DEF PartsOf, EntityPart
  <2> HIDE DEF n
  <2> QED
    BY <2>1, <2>2, MarksLoaded
<1> HIDE DEF n
<1>7. MarksKept(p, o)
  BY <1>4, <1>6 DEF PartsRead, MarksKept
<1>8. SpaceKept(p, o)
  <2>1. EntityRead(c, p) /\ EntityPart(o, c) /\ EntityTypes(o)
    BY <1>1, <1>4 DEF PartsRead, PartsOf
  <2> QED
    BY <2>1, SpaceComesBack
<1>9. o.class \in Lights => LightKept(p, o)
  <2> SUFFICES ASSUME o.class \in Lights
               PROVE  LightKept(p, o)
    OBVIOUS
  <2>1. LightRead(n, c, p) /\ LightPart(o, c) /\ LightTypesOf(o)
    BY <1>1, <1>2, <1>4 DEF PartsRead, PartsOf
  <2> QED
    BY <2>1, LightComesBack
<1>10. o.class \in Cameras => CameraKept(p, o)
  <2> SUFFICES ASSUME o.class \in Cameras
               PROVE  CameraKept(p, o)
    OBVIOUS
  <2>1. CameraRead(c, p) /\ CameraPart(o, c) /\ o.width \in Nat /\ o.height \in Nat
    BY <1>1, <1>2, <1>4 DEF PartsRead, PartsOf
  <2> QED
    BY <2>1, CameraComesBack
<1>11. o.class \in Aiming => p.target = (IF o.target \in Living THEN o.target ELSE 0)
  BY <1>1, <1>4 DEF Aiming, PartsRead, PartsOf, TargetPart, WrittenTarget
<1> QED
  BY <1>7, <1>8, <1>9, <1>10, <1>11 DEF o, p

\* In every state that can be reached, an entity comes back as it was.
THEOREM EntitiesAlwaysKept == BMSpec => []EntitiesKept
<1>1. Inv /\ DataInv => EntitiesKept
  BY EntitiesComeBack
<1> QED
  BY <1>1, SceneInvariant, DataInvariant, PTL

\* ... and a material.
THEOREM MaterialsAlwaysKept == BMSpec => []MaterialsKept
<1>1. Inv /\ DataInv => MaterialsKept
  BY MaterialsComeBack
<1> QED
  BY <1>1, SceneInvariant, DataInvariant, PTL

-----------------------------------------------------------------------------
(* Textures.                                                                *)

\* What is first in a sequence stays first.
LEMMA HeadOnly ==
  ASSUME NEW T, NEW s \in Seq(T), s # <<>>, NEW S, s[1] \in S
  PROVE  Only(s, S) # <<>> /\ Head(Only(s, S)) = s[1]
<1> DEFINE n == Len(s)
<1>1. n \in Nat /\ n # 0 /\ DOMAIN s = 1 .. n /\ \A i \in 1 .. n : s[i] \in T
  BY LenProperties, EmptySeq
<1>2. PICK f \in [0 .. n -> Seq(T)] :
        /\ f[0] = <<>> /\ f[n] = Only(s, S)
        /\ \A i \in 1 .. n : f[i] = IF s[i] \in S THEN Append(f[i - 1], s[i]) ELSE f[i - 1]
  BY OnlyIs
<1> HIDE DEF n
<1> DEFINE good(i) == Len(f[i]) \in Nat \ {0} /\ f[i][1] = s[1]
           M == {m \in Nat : m + 1 <= n => good(m + 1)}
<1>3. 0 \in M
  <2>1. 1 \in 1 .. n /\ 1 - 1 = 0 /\ 0 + 1 = 1
    BY <1>1
  <2>2. f[1] = Append(<<>>, s[1])
    BY <1>2, <2>1
  <2>3. Len(f[1]) = 1 /\ f[1][1] = s[1]
    BY <2>2
  <2> QED
    BY <2>1, <2>3
<1>4. ASSUME NEW m \in M
      PROVE  m + 1 \in M
  <2> SUFFICES ASSUME m + 1 + 1 <= n
               PROVE  good(m + 1 + 1)
    OBVIOUS
  <2> DEFINE t == f[m + 1]
             x == s[m + 1 + 1]
  <2>1. m \in Nat /\ m + 1 + 1 \in 1 .. n /\ m + 1 + 1 - 1 = m + 1 /\ m + 1 <= n /\ m + 1 \in 0 .. n
    BY <1>1
  <2>2. good(m + 1) /\ t \in Seq(T) /\ x \in T
    BY <1>1, <1>2, <2>1
  <2>3. f[m + 1 + 1] = IF x \in S THEN Append(t, x) ELSE t
    BY <1>2, <2>1
  <2> HIDE DEF x
  <2>4. Len(t) \in Nat \ {0} /\ t[1] = s[1]
    BY <2>2
  <2> HIDE DEF t
  <2>5. Len(Append(t, x)) = Len(t) + 1 /\ Append(t, x)[1] = t[1]
    BY <2>2, <2>4, AppendProperties
  <2> QED
    BY <2>3, <2>4, <2>5
<1>5. M = Nat
  <2> HIDE DEF M
  <2>1. M \in SUBSET Nat
    BY DEF M
  <2> QED
    BY <1>3, <1>4, <2>1, Induction
<1>6. good(n)
  <2>1. n - 1 \in Nat /\ n - 1 + 1 = n
    BY <1>1
  <2> HIDE DEF M, good
  <2>2. n - 1 \in M
    BY <1>5, <2>1
  <2> QED
    BY <1>1, <2>1, <2>2 DEF M
<1>7. f[n] \in Seq(T)
  BY <1>1, <1>2
<1> HIDE DEF good
<1>8. Len(Only(s, S)) \in Nat \ {0} /\ Only(s, S)[1] = s[1] /\ Only(s, S) \in Seq(T)
  BY <1>2, <1>6, <1>7 DEF good
<1>9. Only(s, S) # <<>>
  BY <1>8
<1> QED
  BY <1>8, <1>9

\* The words of the main section of a texture.
WordsAre(o, s) ==
  LET more == Len(o.slots) > 1
      video == o.videoFormat # 0
  IN /\ s[1] = [options |-> o.saveOptions, transparent |-> o.transparent, video |-> video,
                cube |-> o.cube, mipmap |-> o.useMipmap]
     /\ \E T : Tail(s) \in Seq(T)
     /\ Tail(s)[1] = o.transColor
     /\ ~ more /\ ~ video => Len(Tail(s)) = 1
     /\ more /\ ~ video => Len(Tail(s)) = 2 /\ Tail(s)[2] = o.current
     /\ ~ more /\ video => Len(Tail(s)) = 2 /\ Tail(s)[2] = o.videoFormat
     /\ more /\ video => Len(Tail(s)) = 3 /\ Tail(s)[2] = o.current /\ Tail(s)[3] = o.videoFormat

LEMMA TextureWords ==
  ASSUME NEW o
  PROVE  WordsAre(o, OldTexOnly(o))
<1> DEFINE more == Len(o.slots) > 1
           video == o.videoFormat # 0
           r == [options |-> o.saveOptions, transparent |-> o.transparent, video |-> video,
                 cube |-> o.cube, mipmap |-> o.useMipmap]
           T == {r, o.transColor, o.current, o.videoFormat}
           a == <<r, o.transColor>>
           b == IF more THEN <<o.current>> ELSE <<>>
           c == IF video THEN <<o.videoFormat>> ELSE <<>>
           s == OldTexOnly(o)
<1>1. s = (a \o b) \o c
  BY DEF OldTexOnly
<1> HIDE DEF r, more, video
<1>2. a \in Seq(T) /\ Len(a) = 2 /\ a[1] = r /\ a[2] = o.transColor
  OBVIOUS
<1>3. /\ b \in Seq(T) /\ (more => Len(b) = 1 /\ b[1] = o.current) /\ (~ more => Len(b) = 0)
  <2>1. CASE more
    <3>1. b = <<o.current>>
      BY <2>1
    <3> QED
      BY <2>1, <3>1
  <2>2. CASE ~ more
    <3>1. b = <<>>
      BY <2>2
    <3> QED
      BY <2>2, <3>1
  <2> QED
    BY <2>1, <2>2
<1>4. /\ c \in Seq(T) /\ (video => Len(c) = 1 /\ c[1] = o.videoFormat) /\ (~ video => Len(c) = 0)
  <2>1. CASE video
    <3>1. c = <<o.videoFormat>>
      BY <2>1
    <3> QED
      BY <2>1, <3>1
  <2>2. CASE ~ video
    <3>1. c = <<>>
      BY <2>2
    <3> QED
      BY <2>2, <3>1
  <2> QED
    BY <2>1, <2>2
<1> HIDE DEF a, b, c, T, s
<1> DEFINE ab == a \o b
           t == ab \o c
<1>5. /\ ab \in Seq(T) /\ Len(ab) = Len(a) + Len(b)
      /\ \A i \in 1 .. Len(a) + Len(b) : ab[i] = IF i <= Len(a) THEN a[i] ELSE b[i - Len(a)]
  BY <1>2, <1>3, ConcatProperties
<1> HIDE DEF ab
<1>6. /\ t \in Seq(T) /\ Len(t) = Len(ab) + Len(c)
      /\ \A i \in 1 .. Len(ab) + Len(c) : t[i] = IF i <= Len(ab) THEN ab[i] ELSE c[i - Len(ab)]
  <2>1. ab \in Seq(T) /\ c \in Seq(T)
    BY <1>4, <1>5
  <2> QED
    BY <2>1, ConcatProperties
<1> HIDE DEF t
<1>7. /\ Len(ab) = 2 + Len(b) /\ Len(b) \in Nat /\ ab[1] = r /\ ab[2] = o.transColor
      /\ more => ab[3] = o.current
  <2>1. Len(b) \in Nat
    BY <1>3
  <2>2. \A i \in 1 .. 2 + Len(b) : ab[i] = IF i <= 2 THEN a[i] ELSE b[i - 2]
    BY <1>2, <1>5
  <2>3. more => ab[3] = b[3 - 2]
    BY <1>3, <2>2
  <2> QED
    BY <1>2, <1>3, <1>5, <2>1, <2>2, <2>3
<1>8. /\ Len(t) = 2 + Len(b) + Len(c) /\ t[1] = r /\ t[2] = o.transColor
      /\ more => t[3] = o.current
      /\ video => t[3 + Len(b)] = o.videoFormat
  <2>1. Len(b) \in Nat /\ Len(c) \in Nat /\ Len(ab) = 2 + Len(b)
    BY <1>4, <1>7
  <2>2. \A i \in 1 .. 2 + Len(b) : t[i] = ab[i]
    BY <1>6, <2>1
  <2>3. more => t[3] = ab[3]
    BY <1>3, <2>1, <2>2
  <2>4. ASSUME video
        PROVE  t[3 + Len(b)] = c[1]
    <3> DEFINE k == Len(b)
    <3>1. Len(c) = 1 /\ k \in Nat /\ Len(ab) = 2 + k
      BY <1>4, <2>1, <2>4
    <3>2. \A i \in 1 .. (2 + k) + 1 : t[i] = IF i <= 2 + k THEN ab[i] ELSE c[i - (2 + k)]
      BY <1>6, <3>1
    <3> HIDE DEF k
    <3>3. 3 + k \in 1 .. (2 + k) + 1 /\ ~ (3 + k <= 2 + k) /\ (3 + k) - (2 + k) = 1
      BY <3>1
    <3>4. t[3 + k] = c[(3 + k) - (2 + k)]
      BY <3>2, <3>3
    <3> QED
      BY <3>3, <3>4 DEF k
  <2>5. t[1] = ab[1] /\ t[2] = ab[2]
    BY <2>1, <2>2
  <2> QED
    BY <1>4, <1>6, <1>7, <2>1, <2>3, <2>4, <2>5
<1>9. /\ Tail(t) \in Seq(T) /\ Len(Tail(t)) = 1 + Len(b) + Len(c)
      /\ \A i \in 1 .. 1 + Len(b) + Len(c) : Tail(t)[i] = t[i + 1]
  <2>1. Len(b) \in Nat /\ Len(c) \in Nat
    BY <1>4, <1>7
  <2>2. t # <<>>
    BY <1>8, <2>1
  <2>3. /\ Tail(t) \in Seq(T) /\ Len(Tail(t)) = Len(t) - 1
        /\ \A i \in 1 .. Len(t) - 1 : Tail(t)[i] = t[i + 1]
    BY <1>6, <2>2, HeadTailProperties
  <2>4. Len(t) - 1 = 1 + Len(b) + Len(c)
    BY <1>8, <2>1
  <2> QED
    BY <2>3, <2>4
<1>10. Tail(t)[1] = o.transColor
  <2>1. 1 \in 1 .. 1 + Len(b) + Len(c) /\ 1 + 1 = 2
    BY <1>3, <1>4
  <2> QED
    BY <1>8, <1>9, <2>1
<1>11. more => Tail(t)[2] = o.current
  <2>1. more => 2 \in 1 .. 1 + Len(b) + Len(c)
    BY <1>3, <1>4
  <2> QED
    BY <1>8, <1>9, <2>1
<1>12. video => Tail(t)[2 + Len(b)] = o.videoFormat
  <2> SUFFICES ASSUME video
               PROVE  Tail(t)[2 + Len(b)] = o.videoFormat
    OBVIOUS
  <2>1. Len(c) = 1 /\ Len(b) \in Nat
    BY <1>4, <1>7
  <2>2. 2 + Len(b) \in 1 .. 1 + Len(b) + Len(c) /\ 2 + Len(b) + 1 = 3 + Len(b)
    BY <2>1
  <2> QED
    BY <1>8, <1>9, <2>2
<1>13. s = t
  BY <1>1 DEF t, ab
<1>14. /\ ~ more /\ ~ video => Len(Tail(t)) = 1
       /\ more /\ ~ video => Len(Tail(t)) = 2
       /\ ~ more /\ video => Len(Tail(t)) = 2 /\ Tail(t)[2] = o.videoFormat
       /\ more /\ video => Len(Tail(t)) = 3 /\ Tail(t)[3] = o.videoFormat
  <2>1. /\ more => Len(b) = 1
        /\ ~ more => Len(b) = 0
        /\ video => Len(c) = 1
        /\ ~ video => Len(c) = 0
    BY <1>3, <1>4
  <2>2. Len(Tail(t)) = 1 + Len(b) + Len(c)
    BY <1>9
  <2>3. Len(b) \in Nat /\ Len(c) \in Nat
    BY <1>3, <1>4
  <2>4. ASSUME ~ more, ~ video
        PROVE  Len(Tail(t)) = 1
    <3>1. Len(b) = 0 /\ Len(c) = 0
      BY <2>1, <2>4
    <3> QED
      BY <2>2, <3>1
  <2>5. ASSUME more, ~ video
        PROVE  Len(Tail(t)) = 2
    <3>1. Len(b) = 1 /\ Len(c) = 0
      BY <2>1, <2>5
    <3> QED
      BY <2>2, <3>1
  <2>6. ASSUME ~ more, video
        PROVE  Len(Tail(t)) = 2 /\ Tail(t)[2] = o.videoFormat
    <3>1. Len(b) = 0 /\ Len(c) = 1
      BY <2>1, <2>6
    <3>2. 1 + Len(b) + Len(c) = 2 /\ 2 + Len(b) = 2
      BY <3>1
    <3>3. Tail(t)[2 + Len(b)] = o.videoFormat
      BY <1>12, <2>6
    <3> QED
      BY <2>2, <3>2, <3>3
  <2>7. ASSUME more, video
        PROVE  Len(Tail(t)) = 3 /\ Tail(t)[3] = o.videoFormat
    <3>1. Len(b) = 1 /\ Len(c) = 1
      BY <2>1, <2>7
    <3>2. 1 + Len(b) + Len(c) = 3 /\ 2 + Len(b) = 3
      BY <3>1
    <3>3. Tail(t)[2 + Len(b)] = o.videoFormat
      BY <1>12, <2>7
    <3> QED
      BY <2>2, <3>2, <3>3
  <2> QED
    BY <2>4, <2>5, <2>6, <2>7
<1> QED
  BY <1>8, <1>9, <1>10, <1>11, <1>13, <1>14 DEF WordsAre, s, more, video, r

\* The sections of a texture.
NamesAt(o) == [i \in DOMAIN o.slots |-> GetFileName(o.slots[i].name)]

RawAt(o, wanted) ==
  [i \in DOMAIN o.slots |-> RawEntry(o.slots[i].image, i \in FileSlots(o, wanted))]

ReaderAt(o, ext) ==
  << Width(FirstImage(o)), Height(FirstImage(o)),
     [i \in DOMAIN o.slots |-> FormatEntry(o.slots[i].image, ext)]>>

ExtFor(o, options) == IF o.saveOptions = "USEGLOBAL" THEN options.ext ELSE o.saveExt

OptionFor(o, options) == EffectiveOption(o, OptionOf(o, options))

BitmapPart(o, options, c) ==
  /\ Has(c, "FILENAMES") /\ c["FILENAMES"] = NamesAt(o)
  /\ Has(c, "RAW") <=> OptionFor(o, options) = "RAWDATA"
  /\ Has(c, "RAW") => c["RAW"] = RawAt(o, OptionOf(o, options))
  /\ Has(c, "READER") <=> OptionFor(o, options) = "IMAGEFORMAT"
  /\ Has(c, "READER") => c["READER"] = ReaderAt(o, ExtFor(o, options))

LevelPart(o, c) ==
  /\ Has(c, "USERMIPMAP") <=> o.mipmaps # <<>>
  /\ Has(c, "USERMIPMAP") =>
       c["USERMIPMAP"] = [i \in DOMAIN o.mipmaps |-> RawEntry(o.mipmaps[i], FALSE)]

ChoicePart(o, c) ==
  /\ Has(c, "OLDTEXONLY") /\ c["OLDTEXONLY"] = OldTexOnly(o)
  /\ Has(c, "PICKTHRESHOLD") <=> o.pick # 0
  /\ Has(c, "PICKTHRESHOLD") => c["PICKTHRESHOLD"] = <<o.pick>>
  /\ Has(c, "TEXSAVEFORMAT") /\ c["TEXSAVEFORMAT"] = <<o.saveExt>>

BitmapSections == {"FILENAMES", "RAW", "READER"}

ChoiceSections == {"OLDTEXONLY", "USERMIPMAP", "PICKTHRESHOLD", "TEXSAVEFORMAT"}

MarkSections == {"OBJECTHIERAHIDDEN", "OBJECTHIDDEN"}

LEMMA BitmapChunk ==
  ASSUME NEW o, NEW options, NEW c, c = DumpToChunk(o, options)
  PROVE  BitmapPart(o, options, c) /\ \A s : Has(c, s) => s \in BitmapSections
<1> DEFINE wanted == OptionOf(o, options)
           opt == OptionFor(o, options)
           ext == ExtFor(o, options)
           x == Entry("FILENAMES", NamesAt(o))
           y == IF opt # "RAWDATA" THEN NoSections ELSE Entry("RAW", RawAt(o, wanted))
           z == IF opt # "IMAGEFORMAT" THEN NoSections ELSE Entry("READER", ReaderAt(o, ext))
<1>1. c = (x ++ y) ++ z
  BY DEF DumpToChunk, NamesAt, RawAt, ReaderAt, ExtFor, OptionFor
<1>2. (\A s : Has(x, s) <=> s = "FILENAMES") /\ x["FILENAMES"] = NamesAt(o)
  BY HasOne
<1> HIDE DEF wanted, opt, ext
<1>3. (\A s : Has(y, s) <=> s = "RAW" /\ opt = "RAWDATA") /\ (opt = "RAWDATA" => y["RAW"] = RawAt(o, wanted))
  BY HasOne, HasNone
<1>4. /\ \A s : Has(z, s) <=> s = "READER" /\ opt = "IMAGEFORMAT"
      /\ opt = "IMAGEFORMAT" => z["READER"] = ReaderAt(o, ext)
  BY HasOne, HasNone
<1> HIDE DEF x, y, z
<1>5. \A s : Has(c, s) <=> Has(x, s) \/ Has(y, s) \/ Has(z, s)
  BY <1>1, HasBoth
<1> DEFINE xy == x ++ y
<1>6. /\ \A s : Has(xy, s) <=> Has(x, s) \/ Has(y, s)
      /\ xy["FILENAMES"] = x["FILENAMES"]
      /\ Has(y, "RAW") => xy["RAW"] = y["RAW"]
  BY <1>2, HasBoth
<1> HIDE DEF xy
<1>7. c = xy ++ z
  BY <1>1 DEF xy
<1>8. /\ c["FILENAMES"] = xy["FILENAMES"]
      /\ Has(xy, "RAW") => c["RAW"] = xy["RAW"]
      /\ Has(z, "READER") => c["READER"] = z["READER"]
  BY <1>2, <1>3, <1>6, <1>7, HasBoth
<1>9. \A s : Has(c, s) => s \in BitmapSections
  BY <1>2, <1>3, <1>4, <1>5 DEF BitmapSections
<1>10. /\ Has(c, "FILENAMES") /\ c["FILENAMES"] = NamesAt(o)
       /\ Has(c, "RAW") <=> opt = "RAWDATA"
       /\ Has(c, "RAW") => c["RAW"] = RawAt(o, wanted)
       /\ Has(c, "READER") <=> opt = "IMAGEFORMAT"
       /\ Has(c, "READER") => c["READER"] = ReaderAt(o, ext)
  BY <1>2, <1>3, <1>4, <1>5, <1>6, <1>8
<1>11. BitmapPart(o, options, c)
  BY <1>10 DEF BitmapPart, wanted, opt, ext
<1> QED
  BY <1>9, <1>11

LEMMA TextureChunk ==
  ASSUME NEW o, NEW options, NEW c, c = SaveTexture(o, options)
  PROVE  /\ SameMarks(o, c) /\ BitmapPart(o, options, c) /\ LevelPart(o, c) /\ ChoicePart(o, c)
         /\ \A s : Has(c, s) => s \in MarkSections \cup BitmapSections \cup ChoiceSections
<1> DEFINE a == SaveObject(o)
           b == DumpToChunk(o, options)
           w == Entry("OLDTEXONLY", OldTexOnly(o))
           levels == [i \in DOMAIN o.mipmaps |-> RawEntry(o.mipmaps[i], FALSE)]
           x == IF o.mipmaps = <<>> THEN NoSections ELSE Entry("USERMIPMAP", levels)
           y == IF o.pick # 0 THEN Entry("PICKTHRESHOLD", <<o.pick>>) ELSE NoSections
           z == Entry("TEXSAVEFORMAT", <<o.saveExt>>)
           d == (((w ++ x) ++ y) ++ z)
<1>1. c = ((((a ++ b) ++ w) ++ x) ++ y) ++ z
  BY DEF SaveTexture
<1>2. SameMarks(o, a) /\ \A s : Has(a, s) => s \in MarkSections
  BY ObjectChunk DEF MarkSections
<1>3. BitmapPart(o, options, b) /\ \A s : Has(b, s) => s \in BitmapSections
  BY BitmapChunk
<1>4. (\A s : Has(w, s) <=> s = "OLDTEXONLY") /\ w["OLDTEXONLY"] = OldTexOnly(o)
  BY HasOne
<1> HIDE DEF levels
<1>5. /\ \A s : Has(x, s) <=> s = "USERMIPMAP" /\ o.mipmaps # <<>>
      /\ o.mipmaps # <<>> => x["USERMIPMAP"] = levels
  BY HasOne, HasNone
<1>6. /\ \A s : Has(y, s) <=> s = "PICKTHRESHOLD" /\ o.pick # 0
      /\ o.pick # 0 => y["PICKTHRESHOLD"] = <<o.pick>>
  BY HasOne, HasNone
<1>7. (\A s : Has(z, s) <=> s = "TEXSAVEFORMAT") /\ z["TEXSAVEFORMAT"] = <<o.saveExt>>
  BY HasOne
<1> HIDE DEF a, b, w, x, y, z
<1> DEFINE ab == a ++ b
           abw == ab ++ w
           abwx == abw ++ x
           abwxy == abwx ++ y
<1>8. /\ \A s : Has(ab, s) <=> Has(a, s) \/ Has(b, s)
      /\ \A s : s \in BitmapSections /\ Has(b, s) => ab[s] = b[s]
  BY <1>2, HasBoth DEF MarkSections, BitmapSections
<1> HIDE DEF ab
<1>9. /\ \A s : Has(abw, s) <=> Has(ab, s) \/ Has(w, s)
      /\ \A s : Has(ab, s) => abw[s] = ab[s]
      /\ abw["OLDTEXONLY"] = w["OLDTEXONLY"]
  BY <1>2, <1>3, <1>4, <1>8, HasBoth DEF MarkSections, BitmapSections
<1> HIDE DEF abw
<1>10. /\ \A s : Has(abwx, s) <=> Has(abw, s) \/ Has(x, s)
       /\ \A s : Has(abw, s) => abwx[s] = abw[s]
       /\ Has(x, "USERMIPMAP") => abwx["USERMIPMAP"] = x["USERMIPMAP"]
  BY <1>2, <1>3, <1>4, <1>8, <1>9, HasBoth DEF MarkSections, BitmapSections
<1> HIDE DEF abwx
<1>11. /\ \A s : Has(abwxy, s) <=> Has(abwx, s) \/ Has(y, s)
       /\ \A s : Has(abwx, s) => abwxy[s] = abwx[s]
       /\ Has(y, "PICKTHRESHOLD") => abwxy["PICKTHRESHOLD"] = y["PICKTHRESHOLD"]
  <2>1. ~ Has(abwx, "PICKTHRESHOLD")
    BY <1>2, <1>3, <1>4, <1>5, <1>8, <1>9, <1>10 DEF MarkSections, BitmapSections
  <2> QED
    BY <2>1, HasBoth
<1> HIDE DEF abwxy
<1>12. c = abwxy ++ z
  BY <1>1 DEF ab, abw, abwx, abwxy
<1>13. /\ \A s : Has(c, s) <=> Has(abwxy, s) \/ Has(z, s)
       /\ \A s : Has(abwxy, s) => c[s] = abwxy[s]
       /\ c["TEXSAVEFORMAT"] = z["TEXSAVEFORMAT"]
  <2>1. ~ Has(abwxy, "TEXSAVEFORMAT")
    BY <1>2, <1>3, <1>4, <1>5, <1>6, <1>8, <1>9, <1>10, <1>11 DEF MarkSections, BitmapSections
  <2> QED
    BY <1>7, <1>12, <2>1, HasBoth
<1>14. \A s : Has(c, s) <=> Has(a, s) \/ Has(b, s) \/ Has(w, s) \/ Has(x, s) \/ Has(y, s) \/ Has(z, s)
  BY <1>8, <1>9, <1>10, <1>11, <1>13
<1>15. \A s : Has(ab, s) => c[s] = ab[s]
  BY <1>9, <1>10, <1>11, <1>13
<1>16. SameMarks(o, c)
  BY <1>2, <1>3, <1>4, <1>5, <1>6, <1>7, <1>14 DEF SameMarks, BitmapSections
<1>17. BitmapPart(o, options, c)
  <2>1. \A s \in BitmapSections : (Has(c, s) <=> Has(b, s)) /\ (Has(b, s) => c[s] = b[s])
    BY <1>2, <1>4, <1>5, <1>6, <1>7, <1>8, <1>14, <1>15 DEF BitmapSections, MarkSections
  <2> QED
    BY <1>3, <2>1 DEF BitmapPart, BitmapSections
<1>18. LevelPart(o, c)
  <2>1. Has(c, "USERMIPMAP") <=> o.mipmaps # <<>>
    BY <1>2, <1>3, <1>4, <1>5, <1>6, <1>7, <1>14 DEF BitmapSections, MarkSections
  <2>2. Has(c, "USERMIPMAP") => c["USERMIPMAP"] = levels
    BY <1>5, <1>10, <1>11, <1>13, <2>1
  <2> QED
    BY <2>1, <2>2 DEF LevelPart, levels
<1>19. ChoicePart(o, c)
  <2>1. Has(c, "OLDTEXONLY") /\ c["OLDTEXONLY"] = OldTexOnly(o)
    BY <1>4, <1>9, <1>10, <1>11, <1>13
  <2>2. Has(c, "PICKTHRESHOLD") <=> o.pick # 0
    BY <1>2, <1>3, <1>4, <1>5, <1>6, <1>7, <1>14 DEF BitmapSections, MarkSections
  <2>3. Has(c, "PICKTHRESHOLD") => c["PICKTHRESHOLD"] = <<o.pick>>
    BY <1>6, <1>11, <1>13, <2>2
  <2>4. Has(c, "TEXSAVEFORMAT") /\ c["TEXSAVEFORMAT"] = <<o.saveExt>>
    BY <1>7, <1>13
  <2> QED
    BY <2>1, <2>2, <2>3, <2>4 DEF ChoicePart
<1>20. \A s : Has(c, s) => s \in MarkSections \cup BitmapSections \cup ChoiceSections
  BY <1>2, <1>3, <1>4, <1>5, <1>6, <1>7, <1>14 DEF ChoiceSections
<1> QED
  BY <1>16, <1>17, <1>18, <1>19, <1>20

\* Nobody but the library changes it.
LEMMA TextureSaved ==
  ASSUME Inv, DataInv, Loaded, NEW id \in Of({"TEXTURE"})
  PROVE  /\ id \in Living /\ Proper(objs, objs[id]) /\ WellMade(objs[id])
         /\ doc.chunks[id] = SaveTexture(objs[id], global)
         /\ copy[id] = LoadTexture(NewTexture, SaveTexture(objs[id], global), disk, extra)
<1> DEFINE o == objs[id]
           b == SaveTexture(o, global)
<1>1. id \in Living /\ o.class = "TEXTURE" /\ "TEXTURE" \notin Entities
  BY DEF Of, Entities, Lights, Cameras
<1>2. /\ Proper(objs, o) /\ WellMade(o)
      /\ copy[id] = LoadOf(o.class, doc.chunks[id], disk, extra)
      /\ ChunkOf(foreign, o.class, SaveOf(o, global), doc.chunks[id])
  BY <1>1, CopyIs
<1>3. SaveOf(o, global) = b
  BY <1>1 DEF SaveOf
<1>4. \A s : Has(b, s) => s \in MarkSections \cup BitmapSections \cup ChoiceSections
  BY TextureChunk
<1> HIDE DEF o, b
<1>5. /\ ~ Has(b, "MESHS") /\ ~ Has(b, "MATDATA") /\ ~ Has(b, "MATDATA2")
      /\ ~ Has(b, "MESHMATERIALS") /\ ~ Has(b, "LIGHTDATA")
  BY <1>4 DEF MarkSections, BitmapSections, ChoiceSections
<1>6. ~ OtherLinksOf(b, doc.chunks[id]) /\ ~ OtherDataOf(b, doc.chunks[id])
  BY <1>5 DEF OtherLinksOf, OtherDataOf
<1>7. doc.chunks[id] = b
  BY <1>1, <1>2, <1>3, <1>6 DEF ChunkOf
<1>8. copy[id] = LoadTexture(NewTexture, b, disk, extra)
  BY <1>1, <1>2, <1>7 DEF LoadOf, NewOf
<1> QED
  BY <1>1, <1>2, <1>7, <1>8 DEF o, b

\* The optional words are told apart by their number.
OptionalRead(o, q, r) ==
  /\ DOMAIN r = DOMAIN q
  /\ \A m \in DOMAIN q \ {"transColor", "current", "videoFormat"} : r[m] = q[m]
  /\ r.transColor = o.transColor
  /\ r.current = IF Len(o.slots) > 1 /\ o.current < Len(o.slots) THEN o.current ELSE q.current
  /\ r.videoFormat = IF o.videoFormat # 0 THEN o.videoFormat ELSE q.videoFormat

LEMMA CurrentIs ==
  ASSUME NEW q, "current" \in DOMAIN q, NEW slot, NEW r, r = SetCurrentSlot(q, slot)
  PROVE  /\ DOMAIN r = DOMAIN q /\ \A m \in DOMAIN q \ {"current"} : r[m] = q[m]
         /\ r.current = IF slot < Len(q.slots) THEN slot ELSE q.current
BY DEF SetCurrentSlot

LEMMA OptionalIs ==
  ASSUME NEW o, NEW q, {"slots", "transColor", "current", "videoFormat"} \subseteq DOMAIN q,
         Len(o.slots) \in Nat, Len(q.slots) = Len(o.slots), NEW t, t = Tail(OldTexOnly(o)), NEW hasVideo \in BOOLEAN,
         hasVideo <=> o.videoFormat # 0, NEW r, r = ReadOptional(q, t, hasVideo)
  PROVE  OptionalRead(o, q, r)
<1> DEFINE n == Len(o.slots)
           q1 == [q EXCEPT !.transColor = t[1]]
<1>1. WordsAre(o, OldTexOnly(o))
  BY TextureWords
<1>2. /\ t[1] = o.transColor
      /\ ~ (n > 1) /\ ~ (o.videoFormat # 0) => Len(t) = 1
      /\ n > 1 /\ ~ (o.videoFormat # 0) => Len(t) = 2 /\ t[2] = o.current
      /\ ~ (n > 1) /\ o.videoFormat # 0 => Len(t) = 2 /\ t[2] = o.videoFormat
      /\ n > 1 /\ o.videoFormat # 0 => Len(t) = 3 /\ t[2] = o.current /\ t[3] = o.videoFormat
  BY <1>1 DEF WordsAre
<1>3. /\ DOMAIN q1 = DOMAIN q /\ \A m \in DOMAIN q \ {"transColor"} : q1[m] = q[m]
      /\ q1.transColor = o.transColor /\ Len(q1.slots) = n
  BY <1>2
<1>4. n \in Nat /\ Len(q.slots) = n
  OBVIOUS
<1>5. CASE ~ (n > 1) /\ o.videoFormat = 0
  <2>1. ReadOptional(q, t, hasVideo) = OneWord(q, t[1], hasVideo)
    BY <1>2, <1>5 DEF ReadOptional
  <2>2. n <= 1
    BY <1>4, <1>5
  <2>3. r = q1
    BY <1>4, <1>5, <2>1, <2>2 DEF OneWord
  <2> HIDE DEF q1, n
  <2> QED
    BY <1>3, <1>5, <2>3 DEF OptionalRead, n
<1>6. CASE n > 1 /\ o.videoFormat = 0
  <2>9. Len(t) = 2
    BY <1>2, <1>6
  <2>0. Len(t) = 2 /\ Len(t) # 3
    BY ONLY <2>9
  <2>1. ReadOptional(q, t, hasVideo) = TwoWords(q, t, hasVideo)
    BY ONLY <2>0 DEF ReadOptional
  <2>2. r = SetCurrentSlot(q1, t[2])
    BY <1>4, <1>6, <2>1 DEF TwoWords
  <2>3. t[2] = o.current
    BY <1>2, <1>6
  <2> HIDE DEF q1, n
  <2>4. "current" \in DOMAIN q1
    BY <1>3
  <2> DEFINE slot == o.current
  <2>6. r = SetCurrentSlot(q1, slot)
    BY <2>2, <2>3
  <2> HIDE DEF slot
  <2>7. /\ DOMAIN r = DOMAIN q1 /\ \A m \in DOMAIN q1 \ {"current"} : r[m] = q1[m]
        /\ r.current = IF slot < Len(q1.slots) THEN slot ELSE q1.current
    BY ONLY <2>4, <2>6, CurrentIs
  <2>5. /\ DOMAIN r = DOMAIN q1 /\ \A m \in DOMAIN q1 \ {"current"} : r[m] = q1[m]
        /\ r.current = IF o.current < Len(q1.slots) THEN o.current ELSE q1.current
    BY <2>7 DEF slot
  <2> QED
    BY <1>3, <1>6, <2>5 DEF OptionalRead, n
<1>7. CASE ~ (n > 1) /\ o.videoFormat # 0
  <2>9. Len(t) = 2
    BY <1>2, <1>7
  <2>0. Len(t) = 2 /\ Len(t) # 3
    BY ONLY <2>9
  <2>1. ReadOptional(q, t, hasVideo) = TwoWords(q, t, hasVideo)
    BY ONLY <2>0 DEF ReadOptional
  <2>2. r = [q EXCEPT !.transColor = t[1], !.videoFormat = t[2]]
    BY <1>4, <1>7, <2>1 DEF TwoWords
  <2>3. t[2] = o.videoFormat /\ t[1] = o.transColor
    BY <1>2, <1>7
  <2> HIDE DEF q1, n
  <2> QED
    BY <1>7, <2>2, <2>3 DEF OptionalRead, n
<1>8. CASE n > 1 /\ o.videoFormat # 0
  <2> DEFINE q2 == SetCurrentSlot(q1, t[2])
  <2>0. Len(t) = 3
    BY <1>2, <1>8
  <2>9. ReadOptional(q, t, hasVideo) = [q2 EXCEPT !.videoFormat = t[3]]
    BY ONLY <2>0 DEF ReadOptional
  <2>1. r = [q2 EXCEPT !.videoFormat = t[3]]
    BY <2>9
  <2>2. t[2] = o.current /\ t[3] = o.videoFormat
    BY <1>2, <1>8
  <2> HIDE DEF q1, n
  <2>3. "current" \in DOMAIN q1
    BY <1>3
  <2>4. /\ DOMAIN q2 = DOMAIN q1 /\ \A m \in DOMAIN q1 \ {"current"} : q2[m] = q1[m]
        /\ q2.current = IF o.current < Len(q1.slots) THEN o.current ELSE q1.current
    BY <2>2, <2>3, CurrentIs
  <2> HIDE DEF q2
  <2>5. /\ DOMAIN r = DOMAIN q2 /\ \A m \in DOMAIN q2 \ {"videoFormat"} : r[m] = q2[m]
        /\ r.videoFormat = o.videoFormat
    BY <1>3, <2>1, <2>2, <2>4
  <2> QED
    BY <1>3, <1>8, <2>4, <2>5 DEF OptionalRead, n
<1> QED
  BY <1>5, <1>6, <1>7, <1>8

\* What a texture loads.
SlotsBack(c, d, x) ==
  [i \in DOMAIN c["FILENAMES"] |->
     ReadSlot(IF i <= Len(ReadImages(c)) THEN ReadImages(c)[i] ELSE NoImage, c["FILENAMES"][i], d, x)]

TextureRead(o, c, d, x, p) ==
  /\ DOMAIN p = TextureMembers /\ p.class = "TEXTURE" /\ p.flags = LoadObject(NewTexture, c).flags
  /\ p.slots = SlotsBack(c, d, x) /\ Len(p.slots) = Len(o.slots) /\ DOMAIN p.slots = DOMAIN o.slots
  /\ p.transparent = o.transparent /\ p.cube = o.cube /\ p.saveOptions = o.saveOptions
  /\ p.transColor = o.transColor /\ p.pick = o.pick /\ p.saveExt = o.saveExt
  /\ p.useMipmap = o.useMipmap
  /\ p.current = (IF Len(o.slots) > 1 /\ o.current < Len(o.slots) THEN o.current ELSE 0)
  /\ p.videoFormat = (IF o.videoFormat \in 1 .. LastFormat THEN o.videoFormat ELSE ARGB1555)
  /\ p.mipmaps = [i \in 1 .. Len(o.mipmaps) |-> NoImage]

LEMMA TextureNew ==
  /\ DOMAIN NewTexture = TextureMembers /\ NewTexture.class = "TEXTURE"
  /\ NewTexture.flags = {"VISIBLE"} /\ NewTexture.slots = <<>> /\ NewTexture.current = 0
  /\ NewTexture.pick = 0 /\ NewTexture.videoFormat = ARGB1555 /\ NewTexture.mipmaps = <<>>
<1>1. /\ NewTexture.class = "TEXTURE"
      /\ NewTexture.flags = {"VISIBLE"} /\ NewTexture.slots = <<>> /\ NewTexture.current = 0
      /\ NewTexture.pick = 0 /\ NewTexture.videoFormat = ARGB1555 /\ NewTexture.mipmaps = <<>>
  BY DEF NewTexture, Derived, NewObject
<1>2. DOMAIN NewTexture = TextureMembers
  BY DEF NewTexture, Derived, NewObject, TextureMembers, ObjectMembers, TextureFields, BitmapFields
<1> QED
  BY <1>1, <1>2

LEMMA TextureLoaded ==
  ASSUME NEW o, IsList(o.slots), IsList(o.mipmaps), o.videoFormat \in Nat, o.useMipmap \in BOOLEAN,
         NEW options, NEW c, BitmapPart(o, options, c), LevelPart(o, c), ChoicePart(o, c),
         NEW d, NEW x, NEW p, p = LoadTexture(NewTexture, c, d, x)
  PROVE  TextureRead(o, c, d, x, p)
<1> DEFINE n == NewTexture
           seen == LoadObject(n, c)
           read == SlotsBack(c, d, x)
           host == [seen EXCEPT !.slots = read]
           s == c["OLDTEXONLY"]
           mipped == UseMipmap(host, s[1].mipmap)
           q == [mipped EXCEPT !.transparent = s[1].transparent, !.cube = s[1].cube,
                               !.saveOptions = s[1].options]
           props == ReadOptional(q, Tail(s), s[1].video)
           levels == IF Has(c, "USERMIPMAP") THEN SetMipmapLevel(props, Len(c["USERMIPMAP"])) ELSE props
<1>1. p = [levels EXCEPT
             !.pick = IF Has(c, "PICKTHRESHOLD") THEN c["PICKTHRESHOLD"][1] ELSE @,
             !.saveExt = IF Has(c, "TEXSAVEFORMAT") THEN c["TEXSAVEFORMAT"][1] ELSE @,
             !.videoFormat = IF @ > LastFormat THEN ARGB1555 ELSE @]
  <2>1. ReadFromChunk(seen, c, d, x) = host
    BY DEF ReadFromChunk, SlotsBack, BitmapPart
  <2>2. Has(c, "OLDTEXONLY")
    BY DEF ChoicePart
  <2> HIDE DEF seen, host
  <2>3. LoadProperties(host, s) = props
    BY DEF LoadProperties
  <2> HIDE DEF props, s
  <2> QED
    BY <2>1, <2>2, <2>3 DEF LoadTexture, s, seen
<1>2. /\ DOMAIN n = TextureMembers /\ n.class = "TEXTURE"
      /\ n.current = 0 /\ n.pick = 0 /\ n.videoFormat = ARGB1555 /\ n.mipmaps = <<>>
  BY TextureNew
<1>3. TextureMembers = {"class", "flags", "pick", "transparent", "transColor", "cube", "saveExt",
                        "saveOptions", "videoFormat", "slots", "current", "useMipmap", "mipmaps"}
  BY DEF TextureMembers, ObjectMembers, TextureFields, BitmapFields
<1>4. /\ Len(o.slots) \in Nat /\ DOMAIN o.slots = 1 .. Len(o.slots)
      /\ DOMAIN read = DOMAIN o.slots /\ Len(read) = Len(o.slots)
  <2>1. Len(o.slots) \in Nat /\ DOMAIN o.slots = 1 .. Len(o.slots)
    BY DEF IsList
  <2>2. DOMAIN c["FILENAMES"] = DOMAIN o.slots
    BY DEF BitmapPart, NamesAt
  <2>3. DOMAIN read = DOMAIN o.slots
    BY <2>2 DEF SlotsBack
  <2> HIDE DEF read
  <2>4. DOMAIN read = 1 .. Len(o.slots)
    BY <2>1, <2>3
  <2>5. Len(read) = Len(o.slots)
    BY <2>1, <2>4
  <2> QED
    BY <2>1, <2>3, <2>5
<1> HIDE DEF n, read
<1>5. DOMAIN seen = DOMAIN n /\ \A m \in DOMAIN n \ {"flags"} : seen[m] = n[m]
  BY DEF LoadObject
<1> HIDE DEF seen
<1>6. DOMAIN host = DOMAIN n /\ host.slots = read /\ \A m \in DOMAIN n \ {"slots"} : host[m] = seen[m]
  BY <1>2, <1>3, <1>5
<1> HIDE DEF host
<1>7. /\ s[1].options = o.saveOptions /\ s[1].transparent = o.transparent /\ s[1].cube = o.cube
      /\ s[1].mipmap = o.useMipmap /\ s[1].video = (o.videoFormat # 0) /\ s = OldTexOnly(o)
  <2>1. s = OldTexOnly(o) /\ WordsAre(o, OldTexOnly(o))
    BY TextureWords DEF ChoicePart
  <2> DEFINE video == o.videoFormat # 0
  <2>2. s[1] = [options |-> o.saveOptions, transparent |-> o.transparent, video |-> video,
                cube |-> o.cube, mipmap |-> o.useMipmap]
    BY <2>1 DEF WordsAre
  <2> HIDE DEF video, s
  <2>3. /\ s[1].options = o.saveOptions /\ s[1].transparent = o.transparent /\ s[1].cube = o.cube
        /\ s[1].mipmap = o.useMipmap /\ s[1].video = video
    BY <2>2
  <2> QED
    BY <2>1, <2>3 DEF video
<1> HIDE DEF s
<1>8. /\ DOMAIN mipped = DOMAIN host /\ mipped.useMipmap = o.useMipmap /\ mipped.mipmaps = <<>>
      /\ \A m \in DOMAIN host \ {"useMipmap", "mipmaps"} : mipped[m] = host[m]
  <2>1. mipped = [host EXCEPT !.useMipmap = o.useMipmap, !.mipmaps = IF o.useMipmap THEN @ ELSE <<>>]
    BY <1>7 DEF UseMipmap
  <2>2. "useMipmap" \in DOMAIN host /\ "mipmaps" \in DOMAIN host /\ host.mipmaps = <<>>
    BY <1>2, <1>3, <1>5, <1>6
  <2> HIDE DEF mipped
  <2> QED
    BY <2>1, <2>2
<1> HIDE DEF mipped
<1>9. /\ DOMAIN q = DOMAIN mipped /\ q.transparent = o.transparent /\ q.cube = o.cube
      /\ q.saveOptions = o.saveOptions
      /\ \A m \in DOMAIN mipped \ {"transparent", "cube", "saveOptions"} : q[m] = mipped[m]
  <2>1. {"transparent", "cube", "saveOptions"} \subseteq DOMAIN mipped
    BY <1>2, <1>3, <1>6, <1>8
  <2> QED
    BY <1>7, <2>1
<1> HIDE DEF q
<1>10. DOMAIN q = TextureMembers
  BY <1>2, <1>6, <1>8, <1>9
<1>11. OptionalRead(o, q, props)
  <2>1. Len(q.slots) = Len(o.slots)
    BY <1>2, <1>3, <1>4, <1>6, <1>8, <1>9
  <2>2. {"slots", "transColor", "current", "videoFormat"} \subseteq DOMAIN q
    BY <1>3, <1>10
  <2> DEFINE hasVideo == s[1].video
             t == Tail(s)
  <2>3. hasVideo \in BOOLEAN /\ (hasVideo <=> o.videoFormat # 0) /\ t = Tail(OldTexOnly(o))
    BY <1>7
  <2>4. props = ReadOptional(q, t, hasVideo) /\ Len(o.slots) \in Nat
    BY <1>4
  <2> HIDE DEF hasVideo, t, props
  <2> QED
    BY <2>1, <2>2, <2>3, <2>4, OptionalIs
<1> HIDE DEF props
<1>12. /\ DOMAIN props = TextureMembers
       /\ \A m \in TextureMembers \ {"transColor", "current", "videoFormat"} : props[m] = q[m]
  BY <1>10, <1>11 DEF OptionalRead
<1>13. /\ DOMAIN levels = TextureMembers
       /\ \A m \in TextureMembers \ {"mipmaps"} : levels[m] = props[m]
       /\ levels.mipmaps = [i \in 1 .. Len(o.mipmaps) |-> NoImage]
  <2>1. props.mipmaps = <<>> /\ "mipmaps" \in TextureMembers
    BY <1>2, <1>3, <1>6, <1>8, <1>9, <1>12
  <2>2. Len(o.mipmaps) \in Nat /\ DOMAIN o.mipmaps = 1 .. Len(o.mipmaps)
    BY DEF IsList
  <2>3. CASE o.mipmaps = <<>>
    <3>1. levels = props
      BY <2>3 DEF LevelPart
    <3>2. [i \in 1 .. Len(o.mipmaps) |-> NoImage] = <<>>
      BY <2>3
    <3> HIDE DEF levels
    <3> QED
      BY <1>12, <2>1, <3>1, <3>2
  <2>4. CASE o.mipmaps # <<>>
    <3> DEFINE k == Len(c["USERMIPMAP"])
    <3>1. levels = SetMipmapLevel(props, k)
      BY <2>4 DEF LevelPart
    <3>2. k = Len(o.mipmaps)
      <4>1. c["USERMIPMAP"] = [i \in DOMAIN o.mipmaps |-> RawEntry(o.mipmaps[i], FALSE)]
        BY <2>4 DEF LevelPart
      <4>2. DOMAIN c["USERMIPMAP"] = 1 .. Len(o.mipmaps)
        BY <2>2, <4>1
      <4> QED
        BY <2>2, <4>1, <4>2
    <3> HIDE DEF levels, k
    <3>3. levels = [props EXCEPT !.mipmaps = [i \in 1 .. k |-> IF i <= Len(<<>>) THEN <<>>[i] ELSE NoImage]]
      BY <2>1, <3>1 DEF SetMipmapLevel
    <3>4. [i \in 1 .. k |-> IF i <= Len(<<>>) THEN <<>>[i] ELSE NoImage] = [i \in 1 .. k |-> NoImage]
      <4>1. \A i \in 1 .. k : ~ (i <= Len(<<>>))
        BY <2>2, <3>2
      <4> QED
        BY <4>1
    <3>5. levels = [props EXCEPT !.mipmaps = [i \in 1 .. k |-> NoImage]]
      BY <3>3, <3>4
    <3> QED
      BY <1>12, <2>1, <3>2, <3>5
  <2> QED
    BY <2>3, <2>4
<1> HIDE DEF levels
<1>14. /\ DOMAIN p = TextureMembers
       /\ \A m \in TextureMembers \ {"pick", "saveExt", "videoFormat"} : p[m] = levels[m]
       /\ p.pick = (IF Has(c, "PICKTHRESHOLD") THEN c["PICKTHRESHOLD"][1] ELSE levels.pick)
       /\ p.saveExt = (IF Has(c, "TEXSAVEFORMAT") THEN c["TEXSAVEFORMAT"][1] ELSE levels.saveExt)
       /\ p.videoFormat = (IF levels.videoFormat > LastFormat THEN ARGB1555 ELSE levels.videoFormat)
  <2>1. {"pick", "saveExt", "videoFormat"} \subseteq DOMAIN levels
    BY <1>3, <1>13
  <2> QED
    BY <1>1, <1>13, <2>1
<1>15. p.class = "TEXTURE" /\ p.flags = seen.flags
  BY <1>2, <1>3, <1>5, <1>6, <1>8, <1>9, <1>12, <1>13, <1>14
<1>16. p.slots = read
  BY <1>2, <1>3, <1>6, <1>8, <1>9, <1>12, <1>13, <1>14
<1>17. /\ p.transparent = o.transparent /\ p.cube = o.cube /\ p.saveOptions = o.saveOptions
       /\ p.useMipmap = o.useMipmap
  BY <1>2, <1>3, <1>6, <1>8, <1>9, <1>12, <1>13, <1>14
<1>18. p.transColor = o.transColor
  BY <1>3, <1>11, <1>13, <1>14 DEF OptionalRead
<1>19. p.pick = o.pick
  <2>1. levels.pick = 0
    BY <1>2, <1>3, <1>5, <1>6, <1>8, <1>9, <1>12, <1>13
  <2>2. Has(c, "PICKTHRESHOLD") => c["PICKTHRESHOLD"][1] = o.pick
    BY DEF ChoicePart
  <2>3. ~ Has(c, "PICKTHRESHOLD") => o.pick = 0
    BY DEF ChoicePart
  <2> QED
    BY <1>14, <2>1, <2>2, <2>3
<1>20. p.saveExt = o.saveExt
  BY <1>14 DEF ChoicePart
<1>21. p.current = (IF Len(o.slots) > 1 /\ o.current < Len(o.slots) THEN o.current ELSE 0)
  <2>1. q.current = 0
    BY <1>2, <1>3, <1>5, <1>6, <1>8, <1>9
  <2>2. p.current = props.current
    BY <1>3, <1>13, <1>14
  <2> QED
    BY <1>11, <2>1, <2>2 DEF OptionalRead
<1>22. p.videoFormat = (IF o.videoFormat \in 1 .. LastFormat THEN o.videoFormat ELSE ARGB1555)
  <2>1. q.videoFormat = ARGB1555
    BY <1>2, <1>3, <1>5, <1>6, <1>8, <1>9
  <2>2. levels.videoFormat = IF o.videoFormat # 0 THEN o.videoFormat ELSE ARGB1555
    BY <1>3, <1>11, <1>13, <2>1 DEF OptionalRead
  <2>3. ~ (ARGB1555 > LastFormat)
    BY DEF ARGB1555, LastFormat
  <2>4. CASE o.videoFormat = 0
    BY <1>14, <2>2, <2>3, <2>4
  <2>5. CASE o.videoFormat # 0
    <3>1. o.videoFormat \in 1 .. LastFormat <=> ~ (o.videoFormat > LastFormat)
      BY <2>5 DEF LastFormat
    <3> QED
      BY <1>14, <2>2, <2>5, <3>1
  <2> QED
    BY <2>4, <2>5
<1> QED
  BY <1>4, <1>13, <1>14, <1>15, <1>16, <1>17, <1>18, <1>19, <1>20, <1>21, <1>22,
     <1>3 DEF TextureRead, read, seen, n

\* The places of the elements of rows of one length that stand one after
\* another.
LEMMA Within ==
  ASSUME NEW m \in Nat, NEW w \in Nat, NEW r \in 1 .. m, NEW c \in 1 .. w
  PROVE  /\ (r - 1) * w + c \in 1 .. m * w
         /\ m * w \in Nat
<1> DEFINE q == (r - 1) * w
           rest == (m - r) * w
<1>1. q \in Nat /\ rest \in Nat /\ m * w \in Nat
  OBVIOUS
<1>2. m * w = q + w + rest
  OBVIOUS
<1> HIDE DEF q, rest
<1>3. q + c \in 1 .. m * w
  BY <1>1, <1>2
<1> QED
  BY <1>1, <1>3 DEF q

RowsIn(s, seqs, n, w) ==
  /\ Len(s) = n * w
  /\ \A r \in 1 .. n, c \in 1 .. w : s[(r - 1) * w + c] = seqs[r][c]

EvenRows(seqs, n, w) == \A i \in 1 .. n : Len(seqs[i]) = w

LEMMA FlattenEven ==
  ASSUME NEW T, NEW n \in Nat, NEW w \in Nat, NEW seqs \in [1 .. n -> Seq(T)], EvenRows(seqs, n, w)
  PROVE  FlattenSeq(seqs) \in Seq(T) /\ RowsIn(FlattenSeq(seqs), seqs, n, w)
<1>0. \A i \in 1 .. n : Len(seqs[i]) = w
  BY DEF EvenRows
<1>1. PICK f \in [0 .. n -> Seq(T)] : Joins(f, seqs, n)
  BY Flattening
<1>2. /\ f[0] = <<>> /\ f[n] = FlattenSeq(seqs)
      /\ \A m \in Nat : m < n => f[m + 1] = f[m] \o seqs[m + 1]
  BY <1>1 DEF Joins
<1> DEFINE Good(m) ==
             /\ Len(f[m]) = m * w
             /\ \A r \in 1 .. m, c \in 1 .. w : f[m][(r - 1) * w + c] = seqs[r][c]
           M == {m \in Nat : m <= n => Good(m)}
<1>3. 0 \in M
  <2>1. Len(f[0]) = 0 * w
    BY <1>2
  <2>2. 1 .. 0 = {}
    OBVIOUS
  <2> QED
    BY <2>1, <2>2
<1>4. ASSUME NEW m \in M
      PROVE  m + 1 \in M
  <2> SUFFICES ASSUME m + 1 <= n
               PROVE  Good(m + 1)
    OBVIOUS
  <2> DEFINE a == f[m]
             b == seqs[m + 1]
  <2>1. m \in Nat /\ m <= n /\ m < n /\ m + 1 \in 1 .. n /\ m + 1 - 1 = m /\ m \in 0 .. n
    OBVIOUS
  <2>2. Good(m)
    BY <2>1
  <2>3. a \in Seq(T) /\ b \in Seq(T) /\ Len(a) = m * w /\ Len(b) = w
    BY <1>0, <2>1, <2>2
  <2>4. f[m + 1] = a \o b
    <3> HIDE DEF M, Good
    <3> QED
      BY <1>2, <2>1
  <2>5. \A r \in 1 .. m, c \in 1 .. w : a[(r - 1) * w + c] = seqs[r][c]
    BY <2>2
  <2> HIDE DEF M, Good, a, b
  <2>6. /\ Len(a \o b) = Len(a) + Len(b)
        /\ \A i \in 1 .. Len(a) + Len(b) : (a \o b)[i] = IF i <= Len(a) THEN a[i] ELSE b[i - Len(a)]
    BY <2>3, ConcatProperties
  <2>7. m * w \in Nat /\ (m + 1) * w = m * w + w
    BY <2>1
  <2>8. ASSUME NEW r \in 1 .. m + 1, NEW c \in 1 .. w
        PROVE  (a \o b)[(r - 1) * w + c] = seqs[r][c]
    <3>1. CASE r \in 1 .. m
      <4> DEFINE k == (r - 1) * w + c
      <4>1. k \in 1 .. m * w
        BY <2>1, <3>1, Within
      <4> HIDE DEF k
      <4>2. (a \o b)[k] = a[k]
        BY <2>3, <2>6, <2>7, <4>1
      <4> QED
        BY <2>5, <3>1, <4>2 DEF k
    <3>2. CASE r = m + 1
      <4> DEFINE p == m * w
      <4>1. (r - 1) * w + c = p + c
        BY <2>1, <3>2
      <4>2. p \in Nat /\ Len(a) = p /\ Len(b) = w
        BY <2>3, <2>7
      <4> HIDE DEF p
      <4>3. p + c \in 1 .. p + w /\ ~ (p + c <= p) /\ (p + c) - p = c
        BY <4>2
      <4>4. (a \o b)[p + c] = b[c]
        BY <2>6, <4>2, <4>3
      <4> QED
        BY <3>2, <4>1, <4>4 DEF b
    <3>3. r \in 1 .. m \/ r = m + 1
      BY <2>1
    <3> QED
      BY <3>1, <3>2, <3>3
  <2>9. Len(a \o b) = (m + 1) * w
    BY <2>3, <2>6, <2>7
  <2> QED
    BY <2>4, <2>8, <2>9 DEF Good
<1>5. M = Nat
  <2> HIDE DEF M
  <2>1. M \in SUBSET Nat
    BY DEF M
  <2> QED
    BY <1>3, <1>4, <2>1, Induction
<1> HIDE DEF Good, M
<1>6. Good(n)
  <2>1. n \in M
    BY <1>5
  <2> QED
    BY <2>1 DEF M
<1>7. f[n] \in Seq(T)
  OBVIOUS
<1> QED
  BY <1>2, <1>6, <1>7 DEF Good, RowsIn

\* The alpha values that are written apart are put back where they were.
LEMMA AlphaIs ==
  ASSUME NEW image, IsImage(image), NEW all,
         all = FlattenSeq([r \in DOMAIN image |-> [c \in DOMAIN image[r] |-> image[r][c][2]]])
  PROVE  /\ Len(all) = Height(image) * Width(image) /\ DOMAIN all = 1 .. Len(all) /\ Len(all) \in Nat
         /\ \A r \in 1 .. Height(image), c \in 1 .. Width(image) :
              all[(r - 1) * Width(image) + c] = image[r][c][2]
<1> DEFINE h == Height(image)
           w == Width(image)
           rows == [r \in DOMAIN image |-> [c \in DOMAIN image[r] |-> image[r][c][2]]]
           T == {image[i[1]][i[2]][2] : i \in (1 .. h) \X (1 .. w)}
<1>1. Sized(image, h, w)
  BY ImageHas
<1> HIDE DEF h, w
<1>2. /\ h \in Nat \ {0} /\ w \in Nat \ {0} /\ DOMAIN image = 1 .. h
      /\ \A r \in 1 .. h : DOMAIN image[r] = 1 .. w
  BY <1>1 DEF Sized
<1>3. /\ DOMAIN rows = 1 .. h
      /\ \A r \in 1 .. h : rows[r] = [c \in 1 .. w |-> image[r][c][2]]
  BY <1>2
<1>4. \A r \in 1 .. h, c \in 1 .. w : image[r][c][2] \in T
  <2> SUFFICES ASSUME NEW r \in 1 .. h, NEW c \in 1 .. w
               PROVE  image[r][c][2] \in T
    OBVIOUS
  <2>1. <<r, c>> \in (1 .. h) \X (1 .. w)
    OBVIOUS
  <2> QED
    BY <2>1
<1>11. rows = [r \in 1 .. h |-> rows[r]]
  BY <1>2
<1> HIDE DEF T, rows
<1>5. \A r \in 1 .. h : rows[r] \in [1 .. w -> T]
  BY <1>3, <1>4
<1>6. \A r \in 1 .. h : rows[r] \in Seq(T) /\ Len(rows[r]) = w
  BY <1>2, <1>5, ListIs
<1>7. rows \in [1 .. h -> Seq(T)] /\ h \in Nat /\ w \in Nat
  BY <1>2, <1>6, <1>11
<1>8. FlattenSeq(rows) \in Seq(T) /\ RowsIn(FlattenSeq(rows), rows, h, w)
  <2>1. EvenRows(rows, h, w)
    BY <1>6 DEF EvenRows
  <2> QED
    BY <1>7, <2>1, FlattenEven
<1>9. all = FlattenSeq(rows)
  BY DEF rows
<1>10. \A r \in 1 .. h, c \in 1 .. w : rows[r][c] = image[r][c][2]
  <2> SUFFICES ASSUME NEW r \in 1 .. h, NEW c \in 1 .. w
               PROVE  rows[r][c] = image[r][c][2]
    OBVIOUS
  <2>1. rows[r] = [k \in 1 .. w |-> image[r][k][2]]
    BY <1>3
  <2> QED
    BY <2>1
<1> QED
  BY <1>8, <1>9, <1>10, LenProperties DEF RowsIn, h, w

LEMMA AlphaBack ==
  ASSUME NEW image, IsImage(image)
  PROVE  AlphaBlit(AllOpaque(image), AlphaList(image)) = image
<1> DEFINE h == Height(image)
           w == Width(image)
           all == FlattenSeq([r \in DOMAIN image |-> [c \in DOMAIN image[r] |-> image[r][c][2]]])
           list == AlphaList(image)
           p == AllOpaque(image)
           place(r, c) == (r - 1) * w + c
           alpha(r, c) == IF Len(list) = 1 THEN list[1]
                          ELSE IF place(r, c) <= Len(list) THEN list[place(r, c)] ELSE GARBAGE
<1>1. Sized(image, h, w)
  BY ImageHas
<1>2. /\ Len(all) = h * w /\ DOMAIN all = 1 .. Len(all) /\ Len(all) \in Nat
      /\ \A r \in 1 .. h, c \in 1 .. w : all[place(r, c)] = image[r][c][2]
  BY AlphaIs
<1>3. list = IF \A k \in DOMAIN all : all[k] = all[1] THEN <<all[1]>> ELSE all
  BY DEF AlphaList
<1>4. /\ IsImage(p) /\ Sized(p, h, w)
      /\ \A r \in 1 .. h : \A c \in 1 .. w : p[r][c][1] = image[r][c][1]
  BY <1>1, OpaqueIs DEF Sized
<1>5. AlphaBlit(p, list) =
        [r \in DOMAIN p |-> [c \in DOMAIN p[r] |->
           << p[r][c][1],
              IF Len(list) = 1 THEN list[1]
              ELSE IF (r - 1) * Width(p) + c <= Len(list) THEN list[(r - 1) * Width(p) + c] ELSE GARBAGE>>]]
  BY DEF AlphaBlit
<1> HIDE DEF h, w, all, list, p
<1>6. h \in Nat /\ w \in Nat /\ Width(p) = w /\ DOMAIN p = 1 .. h /\ \A r \in 1 .. h : DOMAIN p[r] = 1 .. w
  BY <1>1, <1>4 DEF Sized
<1>7. AlphaBlit(p, list) = [r \in 1 .. h |-> [c \in 1 .. w |-> <<p[r][c][1], alpha(r, c)>>]]
  BY <1>5, <1>6
<1>8. ASSUME NEW r \in 1 .. h, NEW c \in 1 .. w
      PROVE  alpha(r, c) = image[r][c][2]
  <2> DEFINE k == place(r, c)
  <2>1. k \in 1 .. h * w
    BY <1>6, Within
  <2>2. all[k] = image[r][c][2]
    BY <1>2
  <2> HIDE DEF place, k
  <2>3. k \in DOMAIN all /\ k \in 1 .. Len(all)
    BY <1>2, <2>1
  <2>4. CASE \A i \in DOMAIN all : all[i] = all[1]
    <3>1. Len(list) = 1 /\ list[1] = all[1]
      BY <1>3, <2>4
    <3> QED
      BY <2>2, <2>3, <2>4, <3>1
  <2>5. CASE ~ \A i \in DOMAIN all : all[i] = all[1]
    <3>1. list = all
      BY <1>3, <2>5
    <3>2. Len(all) # 1
      <4> SUFFICES ASSUME Len(all) = 1
                   PROVE  FALSE
        OBVIOUS
      <4>1. \A i \in DOMAIN all : i = 1
        BY <1>2
      <4> QED
        BY <2>5, <4>1
    <3>3. k <= Len(list)
      BY <2>3, <3>1
    <3> QED
      BY <2>2, <3>1, <3>2, <3>3 DEF k
  <2> QED
    BY <2>4, <2>5
<1> HIDE DEF alpha
<1>9. image = [r \in 1 .. h |-> [c \in 1 .. w |-> <<image[r][c][1], image[r][c][2]>>]]
  BY DEF IsImage, h, w
<1>10. \A r \in 1 .. h : [c \in 1 .. w |-> <<p[r][c][1], alpha(r, c)>>]
                            = [c \in 1 .. w |-> <<image[r][c][1], image[r][c][2]>>]
  BY <1>4, <1>8
<1>11. [r \in 1 .. h |-> [c \in 1 .. w |-> <<p[r][c][1], alpha(r, c)>>]]
         = [r \in 1 .. h |-> [c \in 1 .. w |-> <<image[r][c][1], image[r][c][2]>>]]
  BY <1>10
<1> QED
  BY <1>7, <1>9, <1>11 DEF p, list

\* Turning an image upside down twice.
LEMMA UprightAgain ==
  ASSUME NEW image, IsImage(image)
  PROVE  /\ UpsideDown(UpsideDown(image)) = image
         /\ UpsideDown(image) # <<>>
<1> DEFINE h == Height(image)
           up == UpsideDown(image)
<1>1. h \in Nat \ {0} /\ DOMAIN image = 1 .. h /\ Len(image) = h
  <2>1. Sized(image, h, Width(image))
    BY ImageHas
  <2>2. Len(image) = h
    BY DEF Height
  <2> QED
    BY <2>1, <2>2 DEF Sized
<1>2. image = [r \in 1 .. h |-> image[r]]
  BY DEF IsImage
<1> HIDE DEF h
<1>3. up = [r \in 1 .. h |-> image[(h - r) + 1]]
  BY <1>1 DEF UpsideDown, Reverse
<1>4. Len(up) = h /\ DOMAIN up = 1 .. h
  BY <1>1, <1>3
<1>5. \A r \in 1 .. h : up[r] = image[(h - r) + 1]
  BY <1>3
<1> HIDE DEF up
<1>6. UpsideDown(up) = [r \in 1 .. h |-> up[(h - r) + 1]]
  BY <1>4 DEF UpsideDown, Reverse
<1>7. \A r \in 1 .. h : up[(h - r) + 1] = image[r]
  <2> SUFFICES ASSUME NEW r \in 1 .. h
               PROVE  up[(h - r) + 1] = image[r]
    OBVIOUS
  <2> DEFINE k == (h - r) + 1
  <2>1. k \in 1 .. h /\ (h - k) + 1 = r
    BY <1>1
  <2> HIDE DEF k
  <2>2. up[k] = image[r]
    BY <1>5, <2>1
  <2> QED
    BY <2>2 DEF k
<1>8. UpsideDown(up) = image
  BY <1>2, <1>6, <1>7
<1>9. up # <<>>
  BY <1>1, <1>4
<1> QED
  BY <1>8, <1>9 DEF up

\* What is read of a raw image.
LEMMA RawBack ==
  ASSUME NEW image, image = NoImage \/ IsImage(image), NEW external \in BOOLEAN,
         NEW e, e = RawEntry(image, external)
  PROVE  (IF e = <<>> THEN NoImage ELSE UpsideDown(e[1])) = IF external THEN NoImage ELSE image
<1>1. CASE external \/ image = NoImage
  BY <1>1 DEF RawEntry
<1>2. CASE ~ external /\ image # NoImage
  <2>1. e = <<UpsideDown(image)>>
    BY <1>2 DEF RawEntry
  <2>2. e # <<>> /\ e[1] = UpsideDown(image)
    BY <2>1
  <2>3. UpsideDown(UpsideDown(image)) = image
    BY <1>2, UprightAgain
  <2> QED
    BY <1>2, <2>2, <2>3
<1> QED
  BY <1>1, <1>2

\* The first valid image of a texture.
LEMMA FirstImageIs ==
  ASSUME NEW o, IsList(o.slots)
  PROVE  \/ (\A i \in DOMAIN o.slots : o.slots[i].image = NoImage) /\ FirstImage(o) = NoImage
         \/ \E i \in DOMAIN o.slots : o.slots[i].image # NoImage /\ FirstImage(o) = o.slots[i].image
<1> DEFINE valid == {i \in DOMAIN o.slots : o.slots[i].image # NoImage}
<1>1. FirstImage(o) = IF valid = {} THEN NoImage
                      ELSE o.slots[CHOOSE i \in valid : \A k \in valid : i <= k].image
  BY DEF FirstImage
<1>2. valid \in SUBSET Nat
  BY DEF IsList
<1>3. CASE valid = {}
  BY <1>1, <1>3
<1>4. CASE valid # {}
  <2> HIDE DEF valid
  <2>1. \E i \in valid : \A k \in valid : i <= k
    BY <1>2, <1>4, Least
  <2> DEFINE first == CHOOSE i \in valid : \A k \in valid : i <= k
  <2>2. first \in valid
    BY <2>1
  <2> HIDE DEF first
  <2>3. FirstImage(o) = o.slots[first].image
    BY <1>1, <1>4 DEF first
  <2> QED
    BY <2>2, <2>3 DEF valid
<1> QED
  BY <1>3, <1>4

\* The images are of one size.
Even(o) ==
  \A i \in DOMAIN o.slots : o.slots[i].image # NoImage => SizeOf(o.slots[i].image) = SizeOf(FirstImage(o))

LEMMA UniformIsEven ==
  ASSUME NEW o, IsList(o.slots), Uniform(o)
  PROVE  Even(o)
<1>1. \A i, k \in DOMAIN o.slots : SizeOf(o.slots[i].image) = SizeOf(o.slots[k].image)
  BY DEF Uniform
<1> QED
  BY <1>1, FirstImageIs DEF Even

\* The images in the chunk as they are read: raw ones ...
RawImage(o, wanted, i) == IF i \in FileSlots(o, wanted) THEN NoImage ELSE o.slots[i].image

LEMMA RawImages ==
  ASSUME NEW o, TextureWellMade(o), NEW options, NEW c, BitmapPart(o, options, c),
         OptionFor(o, options) = "RAWDATA"
  PROVE  ReadImages(c) = [i \in DOMAIN o.slots |-> RawImage(o, OptionOf(o, options), i)]
<1> DEFINE wanted == OptionOf(o, options)
           entry(i) == RawEntry(o.slots[i].image, i \in FileSlots(o, wanted))
           read == [i \in DOMAIN o.slots |-> IF entry(i) = <<>> THEN NoImage ELSE UpsideDown(entry(i)[1])]
<1>1. c["RAW"] = [i \in DOMAIN o.slots |-> entry(i)] /\ Has(c, "RAW") /\ ~ Has(c, "READER")
  BY DEF BitmapPart, RawAt
<1>2. ReadImages(c) = ReadRaw(c["RAW"])
  BY <1>1 DEF ReadImages
<1>3. ReadRaw(c["RAW"]) = read
  <2> DEFINE entries == [i \in DOMAIN o.slots |-> entry(i)]
  <2>1. DOMAIN entries = DOMAIN o.slots /\ \A i \in DOMAIN o.slots : entries[i] = entry(i)
    OBVIOUS
  <2>2. c["RAW"] = entries
    BY <1>1
  <2> HIDE DEF entries, entry
  <2> QED
    BY <2>1, <2>2 DEF ReadRaw
<1>4. ASSUME NEW i \in DOMAIN o.slots
      PROVE  (IF entry(i) = <<>> THEN NoImage ELSE UpsideDown(entry(i)[1])) = RawImage(o, wanted, i)
  <2> DEFINE image == o.slots[i].image
             external == i \in FileSlots(o, wanted)
  <2>1. image = NoImage \/ IsImage(image)
    BY DEF TextureWellMade, SlotWellMade
  <2>2. external \in BOOLEAN /\ entry(i) = RawEntry(image, external)
    OBVIOUS
  <2> HIDE DEF image, external, entry
  <2>3. (IF entry(i) = <<>> THEN NoImage ELSE UpsideDown(entry(i)[1]))
          = IF external THEN NoImage ELSE image
    BY ONLY <2>1, <2>2, RawBack
  <2> QED
    BY <2>3 DEF RawImage, image, external
<1> HIDE DEF entry
<1> QED
  BY <1>2, <1>3, <1>4

\* ... and those in a format of files.
AsWritten(image, ext) == IF CanSaveAlpha(ext) THEN AllOpaque(image) ELSE image

FormatImage(o, ext, i) ==
  IF \E k \in 1 .. i : o.slots[k].image = NoImage THEN NoImage ELSE AsWritten(o.slots[i].image, ext)

LEMMA FormatImages ==
  ASSUME NEW o, TextureWellMade(o), NEW options, NEW c, BitmapPart(o, options, c), Even(o),
         OptionFor(o, options) = "IMAGEFORMAT", HasHandler(ExtFor(o, options))
  PROVE  ReadImages(c) = [i \in DOMAIN o.slots |-> FormatImage(o, ExtFor(o, options), i)]
<1> DEFINE ext == ExtFor(o, options)
           first == FirstImage(o)
           w == Width(first)
           h == Height(first)
           entries == [i \in DOMAIN o.slots |-> FormatEntry(o.slots[i].image, ext)]
           s == c["READER"]
<1>1. s = <<w, h, entries>> /\ Has(c, "READER")
  BY DEF BitmapPart, ReaderAt
<1>2. IsList(o.slots) /\ \A i \in DOMAIN o.slots : o.slots[i].image = NoImage \/ IsImage(o.slots[i].image)
  BY DEF TextureWellMade, SlotWellMade
<1>3. \A i \in DOMAIN o.slots : o.slots[i].image = NoImage => FormatEntry(o.slots[i].image, ext) = <<>>
  BY DEF FormatEntry
<1>4. ASSUME NEW i \in DOMAIN o.slots, o.slots[i].image # NoImage
      PROVE  FormatEntry(o.slots[i].image, ext) =
               <<ext, AllOpaque(o.slots[i].image),
                 IF CanSaveAlpha(ext) THEN <<>> ELSE AlphaList(o.slots[i].image)>>
  BY <1>4 DEF FormatEntry, SaveMemory
<1>5. /\ DOMAIN entries = DOMAIN o.slots
      /\ \A i \in DOMAIN o.slots : entries[i] = FormatEntry(o.slots[i].image, ext)
  OBVIOUS
<1>6. CASE \A i \in DOMAIN o.slots : o.slots[i].image = NoImage
  <2>1. w = 0
    BY <1>2, <1>6, FirstImageIs DEF Width
  <2> HIDE DEF w, h, entries, s
  <2>2. s[1] = 0 /\ s[3] = entries
    BY <1>1, <2>1
  <2>3. ReadImages(c) = [i \in DOMAIN entries |-> NoImage]
    BY <1>1, <2>2 DEF ReadImages, s
  <2>4. \A i \in DOMAIN o.slots : FormatImage(o, ext, i) = NoImage
    <3>1. \A i \in DOMAIN o.slots : i \in 1 .. i
      BY <1>2 DEF IsList
    <3> QED
      BY <1>6, <3>1 DEF FormatImage
  <2> QED
    BY <1>5, <2>3, <2>4
<1>7. CASE \E i \in DOMAIN o.slots : o.slots[i].image # NoImage
  <2>1. IsImage(first)
    BY <1>2, <1>7, FirstImageIs
  <2>2. Sized(first, h, w)
    BY <2>1, ImageHas
  <2> HIDE DEF first
  <2>3. w > 0 /\ h > 0
    BY <2>2 DEF Sized
  <2> HIDE DEF w, h, entries
  <2>4. s[1] = w /\ s[2] = h /\ s[3] = entries
    BY <1>1
  <2>5. ReadImages(c) = ReadFormats(entries, w, h)
    BY <1>1, <2>3, <2>4 DEF ReadImages
  <2>6. ASSUME NEW i \in DOMAIN o.slots
        PROVE  (\E k \in 1 .. i : entries[k] = <<>>) <=> (\E k \in 1 .. i : o.slots[k].image = NoImage)
    <3>1. \A k \in 1 .. i : k \in DOMAIN o.slots
      BY <1>2 DEF IsList
    <3>2. \A k \in DOMAIN o.slots : entries[k] = <<>> <=> o.slots[k].image = NoImage
      <4> SUFFICES ASSUME NEW k \in DOMAIN o.slots
                   PROVE  entries[k] = <<>> <=> o.slots[k].image = NoImage
        OBVIOUS
      <4> DEFINE last == IF CanSaveAlpha(ext) THEN <<>> ELSE AlphaList(o.slots[k].image)
      <4>1. o.slots[k].image # NoImage => entries[k] = <<ext, AllOpaque(o.slots[k].image), last>>
        BY <1>4, <1>5
      <4> HIDE DEF last
      <4>2. <<ext, AllOpaque(o.slots[k].image), last>> # <<>>
        OBVIOUS
      <4> QED
        BY <1>3, <1>5, <4>1, <4>2
    <3> QED
      BY <3>1, <3>2
  <2>7. ASSUME NEW i \in DOMAIN o.slots, ~ \E k \in 1 .. i : o.slots[k].image = NoImage
        PROVE  (LET image == Blit(entries[i][2], w, h)
                IN IF CanSaveAlpha(entries[i][1]) THEN image ELSE AlphaBlit(image, entries[i][3]))
                 = AsWritten(o.slots[i].image, ext)
    <3> DEFINE image == o.slots[i].image
               last == IF CanSaveAlpha(ext) THEN <<>> ELSE AlphaList(image)
    <3>1. image # NoImage /\ IsImage(image)
      <4>1. i \in 1 .. i
        BY <1>2 DEF IsList
      <4> QED
        BY <1>2, <2>7, <4>1
    <3>2. entries[i] = <<ext, AllOpaque(image), last>>
      BY <1>4, <1>5, <3>1
    <3>3. SizeOf(image) = SizeOf(first)
      BY <3>1 DEF Even, first
    <3>4. Width(image) = w /\ Height(image) = h
      BY <3>3 DEF SizeOf, w, h
    <3>5. ~ CanSaveAlpha(ext) => last = AlphaList(image)
      OBVIOUS
    <3> HIDE DEF image, last
    <3>6. Width(AllOpaque(image)) = w /\ Height(AllOpaque(image)) = h
      BY <3>1, <3>4, OpaqueIs DEF Sized
    <3>7. Blit(AllOpaque(image), w, h) = AllOpaque(image)
      BY <3>6 DEF Blit
    <3>8. entries[i][1] = ext /\ entries[i][2] = AllOpaque(image) /\ entries[i][3] = last
      BY <3>2
    <3>9. AlphaBlit(AllOpaque(image), AlphaList(image)) = image
      BY <3>1, AlphaBack
    <3>10. CASE CanSaveAlpha(ext)
      BY <3>7, <3>8, <3>10 DEF AsWritten, image
    <3>11. CASE ~ CanSaveAlpha(ext)
      BY <3>5, <3>7, <3>8, <3>9, <3>11 DEF AsWritten, image
    <3> QED
      BY <3>10, <3>11
  <2>8. ReadFormats(entries, w, h) =
          [i \in DOMAIN entries |->
             IF \E k \in 1 .. i : entries[k] = <<>> THEN NoImage
             ELSE LET image == Blit(entries[i][2], w, h)
                  IN IF CanSaveAlpha(entries[i][1]) THEN image ELSE AlphaBlit(image, entries[i][3])]
    BY DEF ReadFormats
  <2>9. \A i \in DOMAIN o.slots :
          (IF \E k \in 1 .. i : entries[k] = <<>> THEN NoImage
           ELSE LET image == Blit(entries[i][2], w, h)
                IN IF CanSaveAlpha(entries[i][1]) THEN image ELSE AlphaBlit(image, entries[i][3]))
            = FormatImage(o, ext, i)
    BY <2>6, <2>7 DEF FormatImage
  <2> QED
    BY <1>5, <2>5, <2>8, <2>9
<1> QED
  BY <1>6, <1>7

\* What is known of a texture and of what came back of it.
LEMMA TextureKnown ==
  ASSUME Inv, DataInv, Loaded, NEW id \in Of({"TEXTURE"})
  PROVE  LET o == objs[id] c == SaveTexture(objs[id], global)
         IN /\ TextureWellMade(o) /\ o.videoFormat \in Nat
            /\ SameMarks(o, c) /\ BitmapPart(o, global, c)
            /\ TextureRead(o, c, disk, extra, copy[id])
<1> DEFINE o == objs[id]
           c == SaveTexture(o, global)
           p == copy[id]
<1>1. /\ id \in Living /\ Proper(objs, o) /\ WellMade(o) /\ o.class = "TEXTURE"
      /\ p = LoadTexture(NewTexture, c, disk, extra)
  BY TextureSaved DEF Of
<1>2. SameMarks(o, c) /\ BitmapPart(o, global, c) /\ LevelPart(o, c) /\ ChoicePart(o, c)
  BY TextureChunk
<1> HIDE DEF o, c, p
<1>3. TextureWellMade(o)
  BY <1>1 DEF WellMade
<1>4. o.videoFormat \in Nat
  <2>1. "videoFormat" \in DOMAIN o
    BY <1>1, ProperMembers DEF MembersOf, TextureMembers, TextureFields
  <2>2. "videoFormat" \in TypedMembers
    BY DEF TypedMembers
  <2>3. ValueType("videoFormat") = Nat
    BY DEF ValueType, SamplingFields, RasterFields, Colours
  <2> QED
    BY <1>1, <2>1, <2>2, <2>3 DEF WellMade
<1>5. IsList(o.slots) /\ IsList(o.mipmaps) /\ o.useMipmap \in BOOLEAN
  BY <1>3 DEF TextureWellMade
<1>6. TextureRead(o, c, disk, extra, p)
  BY <1>1, <1>2, <1>4, <1>5, TextureLoaded
<1> QED
  BY <1>2, <1>3, <1>4, <1>6 DEF o, c, p

\* A slot that comes back with the image in the document.
LEMMA SlotInside ==
  ASSUME NEW o, NEW options, NEW c, BitmapPart(o, options, c), NEW d, NEW x, NEW p,
         TextureRead(o, c, d, x, p), NEW i \in DOMAIN o.slots, IsList(o.slots),
         NEW image, image # NoImage, Len(ReadImages(c)) = Len(o.slots), ReadImages(c)[i] = image
  PROVE  p.slots[i].image = image
<1>1. c["FILENAMES"] = NamesAt(o)
  BY DEF BitmapPart
<1>2. i \in DOMAIN c["FILENAMES"]
  BY <1>1 DEF NamesAt
<1>3. i <= Len(ReadImages(c))
  BY DEF IsList
<1>4. p.slots[i] = ReadSlot(image, c["FILENAMES"][i], d, x)
  BY <1>2, <1>3 DEF TextureRead, SlotsBack
<1> QED
  BY <1>4 DEF ReadSlot

\* The images that are in the document.
LEMMA ImagesComeBack ==
  ASSUME NEW o, TextureWellMade(o), NEW c, BitmapPart(o, global, c), NEW d, NEW x, NEW p,
         TextureRead(o, c, d, x, p)
  PROVE  ImagesInside(p, o)
<1> DEFINE wanted == OptionOf(o, global)
           ext == WrittenExt(o)
<1>1. IsList(o.slots) /\ \A i \in DOMAIN o.slots : o.slots[i].image = NoImage \/ IsImage(o.slots[i].image)
  BY DEF TextureWellMade, SlotWellMade
<1>2. ASSUME EffectiveOption(o, wanted) = "RAWDATA", NEW i \in DOMAIN o.slots \ FileSlots(o, wanted),
             o.slots[i].image # NoImage
      PROVE  p.slots[i].image = o.slots[i].image
  <2>1. OptionFor(o, global) = "RAWDATA"
    BY <1>2 DEF OptionFor
  <2>2. ReadImages(c) = [k \in DOMAIN o.slots |-> RawImage(o, wanted, k)]
    BY <2>1, RawImages
  <2>3. Len(ReadImages(c)) = Len(o.slots)
    BY <1>1, <2>2 DEF IsList
  <2>4. ReadImages(c)[i] = o.slots[i].image
    BY <1>2, <2>2 DEF RawImage
  <2> QED
    BY <1>1, <1>2, <2>3, <2>4, SlotInside
<1>3. ASSUME wanted = "IMAGEFORMAT", Uniform(o), HasHandler(ext), NEW i \in DOMAIN o.slots
      PROVE  /\ Picture(p.slots[i].image) = Picture(o.slots[i].image)
             /\ ~ CanSaveAlpha(ext) => p.slots[i].image = o.slots[i].image
  <2>1. OptionFor(o, global) = "IMAGEFORMAT"
    BY <1>3 DEF OptionFor, EffectiveOption
  <2>2. ext = ExtFor(o, global)
    BY DEF WrittenExt, ExtFor
  <2>3. Even(o)
    BY <1>1, <1>3, UniformIsEven
  <2>4. ReadImages(c) = [k \in DOMAIN o.slots |-> FormatImage(o, ext, k)]
    BY <1>3, <2>1, <2>2, <2>3, FormatImages
  <2>5. Len(ReadImages(c)) = Len(o.slots)
    BY <1>1, <2>4 DEF IsList
  <2>6. \A k \in DOMAIN o.slots : o.slots[k].image # NoImage
    BY <1>3 DEF Uniform
  <2>7. \A k \in 1 .. i : k \in DOMAIN o.slots
    BY <1>1 DEF IsList
  <2>8. ReadImages(c)[i] = AsWritten(o.slots[i].image, ext)
    BY <2>4, <2>6, <2>7 DEF FormatImage
  <2> DEFINE image == o.slots[i].image
  <2>9. IsImage(image) /\ image # NoImage
    BY <1>1, <2>6
  <2> HIDE DEF ext, image
  <2>10. AllOpaque(image) # NoImage /\ Picture(AllOpaque(image)) = Picture(image)
    <3>1. /\ IsImage(AllOpaque(image)) /\ Sized(AllOpaque(image), Height(image), Width(image))
          /\ AllOpaque(image) # NoImage
          /\ \A r \in DOMAIN image : \A k \in DOMAIN image[r] :
               AllOpaque(image)[r][k][1] = image[r][k][1]
      BY <2>9, OpaqueIs
    <3>2. DOMAIN AllOpaque(image) = DOMAIN image
          /\ \A r \in DOMAIN image : DOMAIN AllOpaque(image)[r] = DOMAIN image[r]
      BY DEF AllOpaque
    <3> QED
      BY <3>1, <3>2 DEF Picture
  <2>11. AsWritten(image, ext) # NoImage
    BY <2>9, <2>10 DEF AsWritten
  <2>12. p.slots[i].image = AsWritten(image, ext)
    BY <1>1, <2>5, <2>8, <2>11, SlotInside DEF image
  <2> QED
    BY <2>10, <2>12 DEF AsWritten, image
<1>4. EffectiveOption(o, wanted) = "RAWDATA" =>
        \A i \in DOMAIN o.slots \ FileSlots(o, wanted) :
          o.slots[i].image # NoImage => p.slots[i].image = o.slots[i].image
  BY <1>2
<1>5. wanted = "IMAGEFORMAT" /\ Uniform(o) /\ HasHandler(ext) =>
        \A i \in DOMAIN o.slots :
          /\ Picture(p.slots[i].image) = Picture(o.slots[i].image)
          /\ ~ CanSaveAlpha(ext) => p.slots[i].image = o.slots[i].image
  BY <1>3
<1>6. wanted = "IMAGEFORMAT" => EffectiveOption(o, wanted) # "RAWDATA"
  BY DEF EffectiveOption
<1> HIDE DEF wanted, ext
<1> DEFINE a == EffectiveOption(o, wanted) = "RAWDATA"
           b == wanted = "IMAGEFORMAT" /\ Uniform(o) /\ HasHandler(ext)
           e == \A i \in DOMAIN o.slots \ FileSlots(o, wanted) :
                  o.slots[i].image # NoImage => p.slots[i].image = o.slots[i].image
           f == \A i \in DOMAIN o.slots :
                  /\ Picture(p.slots[i].image) = Picture(o.slots[i].image)
                  /\ ~ CanSaveAlpha(ext) => p.slots[i].image = o.slots[i].image
<1>7. (a => e) /\ (b => f) /\ ~ (a /\ b)
  BY <1>4, <1>5, <1>6
<1>8. ImagesInside(p, o) = CASE a -> e [] b -> f [] OTHER -> TRUE
  BY DEF ImagesInside, wanted, ext
<1> HIDE DEF a, b, e, f
<1> QED
  BY <1>7, <1>8

\* A texture comes back (the property ImagesKept).
LEMMA TexturesComeBack ==
  ASSUME Inv, DataInv
  PROVE  ImagesKept
<1> SUFFICES ASSUME Loaded, NEW id \in Of({"TEXTURE"})
             PROVE  LET o == objs[id] c == copy[id]
                    IN /\ MarksKept(c, o)
                       /\ Len(c.slots) = Len(o.slots)
                       /\ ImagesInside(c, o)
                       /\ \A f \in BitmapFields \cup {"useMipmap"} : c[f] = o[f]
                       /\ c.current = (IF o.current < Len(o.slots) THEN o.current ELSE 0)
                       /\ c.videoFormat = (IF o.videoFormat \in 1 .. LastFormat THEN o.videoFormat ELSE ARGB1555)
  BY DEF ImagesKept
<1> DEFINE o == objs[id]
           p == copy[id]
           c == SaveTexture(o, global)
<1>1. /\ TextureWellMade(o) /\ o.videoFormat \in Nat
      /\ SameMarks(o, c) /\ BitmapPart(o, global, c)
      /\ TextureRead(o, c, disk, extra, p)
  BY TextureKnown
<1> HIDE DEF o, p, c
<1>2. MarksKept(p, o)
  <2>1. MarksKept(LoadObject(NewTexture, c), o)
    BY <1>1, TextureNew, MarksLoaded DEF TextureMembers, ObjectMembers
  <2> QED
    BY <1>1, <2>1 DEF MarksKept, TextureRead
<1>3. ImagesInside(p, o)
  BY <1>1, ImagesComeBack
<1>4. \A f \in BitmapFields \cup {"useMipmap"} : p[f] = o[f]
  BY <1>1 DEF TextureRead, BitmapFields
<1>5. p.current = (IF o.current < Len(o.slots) THEN o.current ELSE 0)
  <2>1. Len(o.slots) \in Nat /\ o.current \in Nat
    BY <1>1 DEF TextureWellMade, IsList
  <2>2. p.current = (IF Len(o.slots) > 1 /\ o.current < Len(o.slots) THEN o.current ELSE 0)
    BY <1>1 DEF TextureRead
  <2> QED
    BY <2>1, <2>2
<1> QED
  BY <1>1, <1>2, <1>3, <1>4, <1>5 DEF TextureRead, o, p

\* ... and a texture.
THEOREM ImagesAlwaysKept == BMSpec => []ImagesKept
<1>1. Inv /\ DataInv => ImagesKept
  BY TexturesComeBack
<1> QED
  BY <1>1, SceneInvariant, DataInvariant, PTL

\* The name of a file without its directory.
Relative(b) == [dir |-> "", base |-> b]

LEMMA WithoutDirectory ==
  ASSUME NEW d, NEW b, NEW name, name = [dir |-> d, base |-> b]
  PROVE  GetFileName(name) = Relative(b)
<1> DEFINE p == [name EXCEPT !.dir = ""]
           q == [dir |-> "", base |-> b]
<1>1. DOMAIN p = {"dir", "base"} /\ p.dir = "" /\ p.base = b
  OBVIOUS
<1>2. DOMAIN q = {"dir", "base"} /\ q.dir = "" /\ q.base = b
  OBVIOUS
<1>3. p = [m \in DOMAIN p |-> p[m]] /\ q = [m \in DOMAIN q |-> q[m]]
  OBVIOUS
<1> HIDE DEF p, q
<1>4. DOMAIN p = DOMAIN q /\ \A m \in DOMAIN p : p[m] = q[m]
  BY <1>1, <1>2
<1>5. p = q
  BY <1>3, <1>4
<1> QED
  BY <1>5 DEF p, q, GetFileName, Relative

LEMMA RelativeIs ==
  ASSUME NEW name, IsName(name)
  PROVE  GetFileName(name) = Relative(name.base) /\ name.base # "" /\ name # NoName
<1> DEFINE d == name.dir
           b == name.base
<1>1. name = [dir |-> d, base |-> b] /\ b # ""
  BY DEF IsName
<1> HIDE DEF d, b
<1>2. GetFileName(name) = Relative(b)
  BY ONLY <1>1, WithoutDirectory
<1>3. name # NoName
  BY <1>1 DEF NoName
<1>4. GetFileName(name) = Relative(b) /\ b # "" /\ name # NoName
  BY <1>1, <1>2, <1>3
<1> QED
  BY ONLY <1>4 DEF b

\* A file that was unpacked is found in the temp folder, whatever the other
\* directories hold.
LEMMA TempFirst ==
  ASSUME NEW T, NEW x \in Seq(T), NEW d, TempFolder \in DOMAIN d,
         NEW b, b \in DOMAIN d[TempFolder]
  PROVE  ResolveFileName(Relative(b), d, x) = [dir |-> TempFolder, base |-> b]
<1> DEFINE s == <<TempFolder>> \o x
           name == Relative(b)
           S == {y \in DOMAIN d : name.base \in DOMAIN d[y]}
           U == T \cup {TempFolder}
<1>0. name.dir = "" /\ name.base = b
  BY DEF Relative
<1>1. s \in Seq(U) /\ s # <<>> /\ s[1] = TempFolder
  <2> DEFINE one == <<TempFolder>>
  <2>1. one \in Seq(U) /\ x \in Seq(U) /\ Len(one) = 1 /\ one[1] = TempFolder
    OBVIOUS
  <2> HIDE DEF one, U
  <2>2. one \o x \in Seq(U) /\ Len(one \o x) = Len(one) + Len(x)
        /\ \A i \in 1 .. Len(one) + Len(x) : (one \o x)[i] = IF i <= Len(one) THEN one[i] ELSE x[i - Len(one)]
    BY <2>1, ConcatProperties
  <2>3. Len(x) \in Nat
    BY LenProperties
  <2>4. 1 \in 1 .. Len(one) + Len(x) /\ 1 <= Len(one) /\ Len(one) + Len(x) # 0
    BY <2>1, <2>3
  <2>5. (one \o x)[1] = TempFolder
    BY <2>1, <2>2, <2>4
  <2>6. one \o x # <<>>
    BY <2>2, <2>4
  <2> QED
    BY <2>2, <2>5, <2>6 DEF one
<1>2. TempFolder \in S
  BY <1>0
<1>3. Holding(name, d, x) = Only(s, S)
  BY DEF Holding
<1> HIDE DEF s, S, U
<1>4. Only(s, S) # <<>> /\ Head(Only(s, S)) = TempFolder
  BY <1>1, <1>2, HeadOnly
<1>5. ResolveFileName(name, d, x) = [name EXCEPT !.dir = TempFolder]
  <2> HIDE DEF name
  <2> QED
    BY <1>0, <1>3, <1>4 DEF ResolveFileName
<1> QED
  BY <1>5 DEF Relative

\* A slot whose image is in such a file.
LEMMA SlotFound ==
  ASSUME NEW T, NEW x \in Seq(T), NEW d, TempFolder \in DOMAIN d,
         NEW b, b # "", b \in DOMAIN d[TempFolder], HasHandler(ExtOf[b])
  PROVE  ReadSlot(NoImage, Relative(b), d, x).image = d[TempFolder][b]
<1> DEFINE path == [dir |-> TempFolder, base |-> b]
           read == ReadSlot(NoImage, Relative(b), d, x)
<1>1. ResolveFileName(Relative(b), d, x) = path
  BY TempFirst
<1>2. path # NoName /\ Relative(b) # NoName
  BY DEF NoName, Relative
<1>3. path.dir = TempFolder /\ path.base = b
  OBVIOUS
<1> HIDE DEF path
<1>4. read = SlotFromFile(path, d, Slot)
  BY <1>1, <1>2 DEF ReadSlot
<1> HIDE DEF read
<1>5. Readable(path, d) <=> d[TempFolder][b] # NoImage
  BY <1>3 DEF Readable, IsFile
<1>6. CASE d[TempFolder][b] # NoImage
  <2>1. read = [image |-> d[path.dir][path.base], name |-> path]
    BY <1>2, <1>4, <1>5, <1>6 DEF SlotFromFile
  <2>2. read.image = d[TempFolder][b]
    BY <1>3, <2>1
  <2> QED
    BY ONLY <2>2 DEF read
<1>7. CASE d[TempFolder][b] = NoImage
  <2>1. read = Slot
    BY <1>4, <1>5, <1>7 DEF SlotFromFile
  <2>2. read.image = d[TempFolder][b]
    BY <1>7, <2>1 DEF Slot
  <2> QED
    BY ONLY <2>2 DEF read
<1> QED
  BY <1>6, <1>7

\* The files of the document in the temp folder.
LEMMA FilesThere ==
  ASSUME Inv, DataInv, Loaded
  PROVE  /\ Len(doc.files) \in Nat /\ DOMAIN doc.files = 1 .. Len(doc.files)
         /\ TempFolder \in DOMAIN disk
         /\ \E t : TempAfter(doc.files, t, Len(doc.files), disk[TempFolder])
<1> DEFINE files == doc.files
<1>1. doc # NONE
  BY DEF Loaded, Inv, DocumentThere
<1>2. PICK d : FilesMade(d) /\ files = Included(objs, global, d)
  BY <1>1 DEF DataInv, DocumentMade, FilesSaved
<1>3. IsFiles(files)
  BY <1>2, IncludedIs DEF DataInv
<1>4. PICK F : files \in Seq(F)
  BY <1>3 DEF IsFiles
<1>5. PICK e : FilesMade(e) /\ TempFolder \in DOMAIN e /\ disk = Unpacked(files, e)
  BY DEF DataInv, CopyMade, Loaded
<1> HIDE DEF files
<1>6. UnpackedAs(files, e, Len(files), disk)
  BY <1>4, <1>5, UnpackedIs
<1>7. Len(files) \in Nat /\ DOMAIN files = 1 .. Len(files)
  BY <1>4, LenProperties
<1>8. TempFolder \in DOMAIN disk /\ TempAfter(files, e, Len(files), disk[TempFolder])
  BY <1>5, <1>6 DEF UnpackedAs
<1> QED
  BY <1>7, <1>8 DEF files

\* An image whose file went into the document comes from it (the property
\* FilesFound).
LEMMA FilesComeBack ==
  ASSUME Inv, DataInv
  PROVE  FilesFound
<1> SUFFICES ASSUME Loaded, NEW id \in Of({"TEXTURE"}), NEW i \in DOMAIN objs[id].slots,
                    EffectiveOption(objs[id], OptionOf(objs[id], global)) = "INCLUDEORIGINALFILE",
                    Cardinality(IncludedAt(id, i)) = 1,
                    HasHandler(ExtOf[objs[id].slots[i].name.base])
             PROVE  copy[id].slots[i].image
                      = doc.files[CHOOSE k \in IncludedAt(id, i) : TRUE].image
  BY DEF FilesFound
<1> DEFINE o == objs[id]
           p == copy[id]
           c == SaveTexture(o, global)
           wanted == OptionOf(o, global)
           full == o.slots[i].name
           name == GetFileName(full)
           b == full.base
           files == doc.files
           n == Len(files)
           held == disk[TempFolder]
           At1 == IncludedAt(id, i)
<1>1. TextureWellMade(o) /\ BitmapPart(o, global, c) /\ TextureRead(o, c, disk, extra, p)
  BY TextureKnown
<1>2. wanted = "INCLUDEORIGINALFILE" /\ FileSlots(o, wanted) = DOMAIN o.slots
  BY DEF EffectiveOption
<1>3. full # NoName
  BY <1>2 DEF FileSlots
<1>4. IsName(full)
  BY <1>1, <1>3 DEF TextureWellMade, SlotWellMade
<1>5. name = Relative(b) /\ b # ""
  BY <1>4, RelativeIs
<1>6. p.slots[i] = ReadSlot(NoImage, name, disk, extra)
  <2>1. OptionFor(o, global) = "INCLUDEORIGINALFILE"
    BY DEF OptionFor
  <2>2. ~ Has(c, "RAW") /\ ~ Has(c, "READER") /\ c["FILENAMES"] = NamesAt(o)
    BY <1>1, <2>1 DEF BitmapPart
  <2>3. ReadImages(c) = <<>>
    BY <2>2 DEF ReadImages
  <2>4. i \in Nat \ {0}
    BY <1>1 DEF TextureWellMade, IsList
  <2>5. ~ i <= Len(ReadImages(c))
    BY <2>3, <2>4
  <2>6. i \in DOMAIN c["FILENAMES"] /\ c["FILENAMES"][i] = name
    BY <2>2 DEF NamesAt
  <2>7. p.slots = SlotsBack(c, disk, extra)
    BY <1>1 DEF TextureRead
  <2> HIDE DEF p, c, name
  <2> QED
    BY <2>5, <2>6, <2>7 DEF SlotsBack
<1>7. n \in Nat /\ DOMAIN files = 1 .. n /\ TempFolder \in DOMAIN disk
  BY FilesThere
<1>8. PICK t : TempAfter(files, t, n, held)
  BY FilesThere
<1>9. At1 = {k \in 1 .. n : files[k].base = b}
  BY <1>7 DEF IncludedAt
<1>10. extra \in Seq({m.dir : m \in Name})
  BY DEF DataInv, PathsMade
<1>11. HasHandler(ExtOf[b]) /\ Cardinality(At1) = 1
  OBVIOUS
<1>13. p.slots[i].image = files[CHOOSE k \in At1 : TRUE].image
  <2> HIDE DEF o, p, c, wanted, full, name, b, files, n, held, At1
  <2>1. PICK k : At1 = {k}
    <3>1. IsFiniteSet(1 .. n)
      <4>1. 1 \in Int /\ n \in Int
        BY <1>7
      <4> QED
        BY <4>1, FS_Interval
    <3>2. IsFiniteSet(At1)
      <4>1. At1 \subseteq 1 .. n
        BY <1>9
      <4> QED
        BY <3>1, <4>1, FS_Subset
    <3> QED
      BY <1>11, <3>2, FS_Singleton
  <2>2. (CHOOSE j \in At1 : TRUE) = k
    BY <2>1
  <2>3. k \in 1 .. n /\ files[k].base = b /\ \A j \in 1 .. n : files[j].base = b => j = k
    BY <1>9, <2>1
  <2>4. b \in DOMAIN held /\ held[b] = files[k].image
    <3>1. b \in DOMAIN held
      BY <1>8, <2>3 DEF TempAfter
    <3>2. \/ \E j \in 1 .. n : files[j].base = b /\ held[b] = files[j].image
          \/ \A j \in 1 .. n : files[j].base # b
      BY <1>8, <3>1 DEF TempAfter
    <3> QED
      BY <2>3, <3>1, <3>2
  <2>5. ReadSlot(NoImage, Relative(b), disk, extra).image = held[b]
    <3> DEFINE T == {m.dir : m \in Name}
    <3>1. extra \in Seq(T) /\ TempFolder \in DOMAIN disk /\ b # "" /\ HasHandler(ExtOf[b])
      BY <1>5, <1>7, <1>10, <1>11
    <3>2. b \in DOMAIN disk[TempFolder]
      BY <2>4 DEF held
    <3> HIDE DEF T
    <3>3. ReadSlot(NoImage, Relative(b), disk, extra).image = disk[TempFolder][b]
      BY ONLY <3>1, <3>2, SlotFound
    <3> QED
      BY <3>3 DEF held
  <2> QED
    BY <1>5, <1>6, <2>2, <2>4, <2>5
<1> QED
  BY <1>13 DEF o, p, files, At1

\* ... and so does the image of a file in the document.
THEOREM FilesAlwaysFound == BMSpec => []FilesFound
<1>1. Inv /\ DataInv => FilesFound
  BY FilesComeBack
<1> QED
  BY <1>1, SceneInvariant, DataInvariant, PTL

-----------------------------------------------------------------------------
(* Meshes.                                                                  *)

\* The sum of the differences of two lists of vectors.
DriftBetween(a, b) ==
  FoldLeft(LAMBDA sum, v : Plus(sum, AbsoluteVector(Minus(a[v], b[v]))), Zero, [v \in DOMAIN a |-> v])

LEMMA NoDifference ==
  ASSUME NEW a \in Vector
  PROVE  Plus(Zero, AbsoluteVector(Minus(a, a))) = Zero
<1>1. Minus(a, a) = Zero
  <2>1. \A i \in 1 .. 3 : a[i] - a[i] = 0
    BY DEF Vector
  <2>2. Minus(a, a) = [i \in 1 .. 3 |-> 0]
    BY <2>1 DEF Minus
  <2>3. Zero = [i \in 1 .. 3 |-> 0]
    BY DEF Zero
  <2> QED
    BY <2>2, <2>3
<1>2. Zero = [i \in 1 .. 3 |-> 0]
  BY DEF Zero
<1>3. Plus(Zero, AbsoluteVector(Zero)) = Zero
  <2>1. AbsoluteVector(Zero) = Zero
    BY <1>2 DEF AbsoluteVector, Absolute
  <2>2. Plus(Zero, Zero) = Zero
    BY <1>2 DEF Plus
  <2> QED
    BY <2>1, <2>2
<1> QED
  BY <1>1, <1>3

LEMMA NoDrift ==
  ASSUME NEW a, IsList(a), \A v \in DOMAIN a : a[v] \in Vector
  PROVE  DriftBetween(a, a) = Zero
<1> DEFINE n == Len(a)
           seq == [v \in DOMAIN a |-> v]
           step == [i \in 1 .. n |-> [acc \in {Zero} |-> Zero]]
           Add(sum, v) == Plus(sum, AbsoluteVector(Minus(a[v], a[v])))
           Walk(f) == [D \in SUBSET DOMAIN seq |->
                         IF D = {} THEN Zero ELSE Add(f[D \ {Max(D)}], seq[Max(D)])]
           iter == CHOOSE f : f = Walk(f)
<1>1. DriftBetween(a, a) = iter[DOMAIN seq]
  BY DEF DriftBetween, FoldLeft, MapThenFoldSet
<1>2. n \in Nat /\ DOMAIN a = 1 .. n /\ DOMAIN seq = 1 .. n /\ \A i \in 1 .. n : seq[i] = i
  BY DEF IsList
<1>3. \A v \in 1 .. n : Add(Zero, v) = Zero
  BY <1>2, NoDifference
<1>4. Zero \in {Zero} /\ step \in Steps({Zero}, n)
  BY DEF Steps
<1>5. \A i \in 1 .. n : step[i][Zero] = Zero
  OBVIOUS
<1> HIDE DEF n, step, Add, seq
<1>6. Folds({Zero}, Zero, n, step)
  BY ONLY <1>2, <1>4, Folding
<1>7. PICK g \in [SUBSET (1 .. n) -> {Zero}] : TRUE
  BY <1>6 DEF Folds
<1>8. \A D \in SUBSET (1 .. n) : D # {} => Max(D) \in D /\ D \ {Max(D)} \in SUBSET (1 .. n)
  BY <1>2, MaxIs
<1>9. g = Walk(g)
  BY <1>2, <1>3, <1>7, <1>8
<1>10. iter = Walk(iter)
  BY <1>9
<1> HIDE DEF iter
<1>11. iter[{}] = Zero /\ \A D \in SUBSET (1 .. n) :
         D # {} => iter[D] = Add(iter[D \ {Max(D)}], Max(D))
  BY <1>2, <1>8, <1>10
<1>12. GoesBy(iter, {Zero}, Zero, n, step)
  BY <1>3, <1>5, <1>8, <1>11 DEF GoesBy
<1>13. \E f \in [0 .. n -> {Zero}] : Recurs(f, Zero, n, step) /\ f[n] = iter[1 .. n]
  BY ONLY <1>2, <1>4, <1>12, Folded
<1>14. iter[1 .. n] = Zero
  BY <1>2, <1>13
<1> QED
  BY <1>1, <1>2, <1>14

\* What the normals of the faces in `order` give a vertex.
CornersOf(faces, normals, v, first, order) ==
  FoldLeft(LAMBDA sum, f : FoldLeft(LAMBDA s, c :
              IF faces[f][c] + 1 = v THEN Plus(s, normals[f]) ELSE s,
              sum, <<1, 2, 3>>),
           first, order)

GatheredBy(faces, normals, start) ==
  [v \in DOMAIN start |-> CornersOf(faces, normals, v, start[v], [f \in DOMAIN faces |-> f])]

LEMMA GatheredIs ==
  ASSUME NEW o, NEW start
  PROVE  Gathered(o, start) = GatheredBy(o.faces, o.faceNormals, start)
BY DEF Gathered, GatheredBy, CornersOf, FoldLeft, MapThenFoldSet

\* Without faces there is nothing to add.
LEMMA NoCorners ==
  ASSUME NEW first, NEW faces, NEW normals, NEW v
  PROVE  CornersOf(faces, normals, v, first, <<>>) = first
<1> DEFINE Add(sum, f) == FoldLeft(LAMBDA s, c : IF faces[f][c] + 1 = v THEN Plus(s, normals[f]) ELSE s,
                                   sum, <<1, 2, 3>>)
           Walk(f) == [D \in SUBSET DOMAIN <<>> |->
                         IF D = {} THEN first ELSE Add(f[D \ {Max(D)}], <<>>[Max(D)])]
           iter == CHOOSE f : f = Walk(f)
<1>1. CornersOf(faces, normals, v, first, <<>>) = iter[DOMAIN <<>>]
  BY DEF CornersOf, FoldLeft, MapThenFoldSet
<1> HIDE DEF Add
<1>2. DOMAIN <<>> = {}
  OBVIOUS
<1> DEFINE g == [D \in {{}} |-> first]
<1>3. g = Walk(g)
  BY <1>2
<1>4. iter = Walk(iter)
  BY <1>3
<1> HIDE DEF iter
<1>5. iter[{}] = first
  BY <1>2, <1>4
<1> QED
  BY <1>1, <1>2, <1>5

\* The sections of a mesh.
MeshPart(o, c) ==
  /\ SameMarks(o, c)
  /\ Has(c, "MESHFLAGS") /\ c["MESHFLAGS"] = <<o.meshFlags>>
  /\ Has(c, "MESHMATERIALS") /\ c["MESHMATERIALS"] = SavedSlots(o)
  /\ Has(c, "MESHFACES") <=> o.faces # <<>>
  /\ Has(c, "MESHFACES") => c["MESHFACES"] = <<o.faces, o.faceSlots>>
  /\ Has(c, "MESHLINES") <=> o.lines # <<>>
  /\ Has(c, "MESHLINES") => c["MESHLINES"] = o.lines
  /\ Has(c, "MESHVERTICES") <=> o.positions # <<>>
  /\ Has(c, "MESHVERTICES") => c["MESHVERTICES"] = VertexSection(o)

LEMMA MeshChunk ==
  ASSUME NEW o, NEW c, c = SaveMesh(o)
  PROVE  MeshPart(o, c)
<1> DEFINE a == SaveObject(o)
           u == Entry("MESHFLAGS", <<o.meshFlags>>)
           v == Entry("MESHMATERIALS", SavedSlots(o))
           w == IF o.faces # <<>> THEN Entry("MESHFACES", <<o.faces, o.faceSlots>>) ELSE NoSections
           x == IF o.lines # <<>> THEN Entry("MESHLINES", o.lines) ELSE NoSections
           y == IF o.positions # <<>> THEN Entry("MESHVERTICES", VertexSection(o)) ELSE NoSections
<1>1. c = ((((a ++ u) ++ v) ++ w) ++ x) ++ y
  BY DEF SaveMesh
<1>2. SameMarks(o, a) /\ \A s : Has(a, s) => s \in {"OBJECTHIERAHIDDEN", "OBJECTHIDDEN"}
  BY ObjectChunk
<1>3. (\A s : Has(u, s) <=> s = "MESHFLAGS") /\ u["MESHFLAGS"] = <<o.meshFlags>>
  BY HasOne
<1>4. (\A s : Has(v, s) <=> s = "MESHMATERIALS") /\ v["MESHMATERIALS"] = SavedSlots(o)
  BY HasOne
<1>5. /\ \A s : Has(w, s) <=> s = "MESHFACES" /\ o.faces # <<>>
      /\ o.faces # <<>> => w["MESHFACES"] = <<o.faces, o.faceSlots>>
  BY HasOne, HasNone
<1>6. /\ \A s : Has(x, s) <=> s = "MESHLINES" /\ o.lines # <<>>
      /\ o.lines # <<>> => x["MESHLINES"] = o.lines
  BY HasOne, HasNone
<1>7. /\ \A s : Has(y, s) <=> s = "MESHVERTICES" /\ o.positions # <<>>
      /\ o.positions # <<>> => y["MESHVERTICES"] = VertexSection(o)
  BY HasOne, HasNone
<1> HIDE DEF a, u, v, w, x, y
<1>8. \A s : Has(c, s) <=> Has(a, s) \/ Has(u, s) \/ Has(v, s) \/ Has(w, s) \/ Has(x, s) \/ Has(y, s)
  BY <1>1, HasBoth
<1> DEFINE c1 == a ++ u
           c2 == c1 ++ v
           c3 == c2 ++ w
           c4 == c3 ++ x
<1>9. /\ \A s : Has(c1, s) <=> Has(a, s) \/ Has(u, s)
      /\ \A s : ~ Has(a, s) /\ Has(u, s) => c1[s] = u[s]
  BY HasBoth
<1>10. /\ \A s : Has(c2, s) <=> Has(c1, s) \/ Has(v, s)
       /\ \A s : Has(c1, s) => c2[s] = c1[s]
       /\ \A s : ~ Has(c1, s) /\ Has(v, s) => c2[s] = v[s]
  BY HasBoth
<1>11. /\ \A s : Has(c3, s) <=> Has(c2, s) \/ Has(w, s)
       /\ \A s : Has(c2, s) => c3[s] = c2[s]
       /\ \A s : ~ Has(c2, s) /\ Has(w, s) => c3[s] = w[s]
  BY HasBoth
<1>12. /\ \A s : Has(c4, s) <=> Has(c3, s) \/ Has(x, s)
       /\ \A s : Has(c3, s) => c4[s] = c3[s]
       /\ \A s : ~ Has(c3, s) /\ Has(x, s) => c4[s] = x[s]
  BY HasBoth
<1>13. /\ \A s : Has(c, s) <=> Has(c4, s) \/ Has(y, s)
       /\ \A s : Has(c4, s) => c[s] = c4[s]
       /\ \A s : ~ Has(c4, s) /\ Has(y, s) => c[s] = y[s]
  BY <1>1, HasBoth
<1> HIDE DEF c1, c2, c3, c4
<1>14. SameMarks(o, c)
  BY <1>2, <1>3, <1>4, <1>5, <1>6, <1>7, <1>8 DEF SameMarks
<1>15. Has(c, "MESHFLAGS") /\ c["MESHFLAGS"] = <<o.meshFlags>>
  BY <1>2, <1>3, <1>9, <1>10, <1>11, <1>12, <1>13
<1>16. Has(c, "MESHMATERIALS") /\ c["MESHMATERIALS"] = SavedSlots(o)
  BY <1>2, <1>3, <1>4, <1>9, <1>10, <1>11, <1>12, <1>13
<1>17. /\ Has(c, "MESHFACES") <=> o.faces # <<>>
       /\ Has(c, "MESHFACES") => c["MESHFACES"] = <<o.faces, o.faceSlots>>
  BY <1>2, <1>3, <1>4, <1>5, <1>6, <1>7, <1>8, <1>9, <1>10, <1>11, <1>12, <1>13
<1>18. /\ Has(c, "MESHLINES") <=> o.lines # <<>>
       /\ Has(c, "MESHLINES") => c["MESHLINES"] = o.lines
  BY <1>2, <1>3, <1>4, <1>5, <1>6, <1>7, <1>8, <1>9, <1>10, <1>11, <1>12, <1>13
<1>19. /\ Has(c, "MESHVERTICES") <=> o.positions # <<>>
       /\ Has(c, "MESHVERTICES") => c["MESHVERTICES"] = VertexSection(o)
  BY <1>2, <1>3, <1>4, <1>5, <1>6, <1>7, <1>8, <1>9, <1>10, <1>11, <1>12, <1>13
<1> QED
  BY <1>14, <1>15, <1>16, <1>17, <1>18, <1>19 DEF MeshPart

\* What a mesh is that is loaded.
LEMMA MeshNew ==
  /\ DOMAIN NewMesh = MeshMembers /\ NewMesh.class = "MESH" /\ NewMesh.flags = {"VISIBLE"}
  /\ \A a \in VertexArrays \cup FaceArrays \cup {"lines", "slots", "faceNormals"} : NewMesh[a] = <<>>
<1>1. NewMesh.class = "MESH" /\ NewMesh.flags = {"VISIBLE"}
  BY DEF NewMesh, Derived, NewObject
<1>2. \A a \in VertexArrays \cup FaceArrays \cup {"lines", "slots", "faceNormals"} : NewMesh[a] = <<>>
  BY DEF NewMesh, Derived, NewObject, VertexArrays, FaceArrays
<1>3. DOMAIN NewMesh = MeshMembers
  BY DEF NewMesh, Derived, NewObject, MeshMembers, ObjectMembers
<1> QED
  BY <1>1, <1>2, <1>3

LEMMA SaveFlagsIs ==
  ASSUME NEW o
  PROVE  LET saved == GenerateSaveFlags(o)
         IN /\ "NoPos" \in saved <=> "PROCEDURALPOS" \in o.meshFlags
            /\ "SingleUV" \in saved <=> "PROCEDURALUV" \in o.meshFlags \/ AllAlike(o.uvs)
            /\ "SingleColor" \in saved <=> AllAlike(o.colors)
            /\ "SingleSpecularColor" \in saved <=> AllAlike(o.specular)
            /\ "NoNormal" \in saved <=> \/ o.meshFlags \cap {"NORMAL_CHANGED", "PROCEDURALPOS"} # {}
                                        \/ NormalsFollow(o)
BY DEF GenerateSaveFlags

\* A list that is empty, a list that is begun, and one that was written as one
\* value.
LEMMA EmptyList ==
  ASSUME NEW s, IsList(s), Len(s) = 0
  PROVE  s = <<>>
BY DEF IsList

LEMMA NoneLeft ==
  ASSUME NEW default
  PROVE  Resized(<<>>, 0, default) = <<>>
<1>1. Resized(<<>>, 0, default) = [i \in 1 .. 0 |-> IF i <= Len(<<>>) THEN <<>>[i] ELSE default]
  BY DEF Resized
<1>2. 1 .. 0 = {}
  OBVIOUS
<1> QED
  BY <1>1, <1>2

LEMMA Begun ==
  ASSUME NEW n \in Nat, NEW default
  PROVE  /\ Resized(<<>>, n, default) = [i \in 1 .. n |-> default]
         /\ IsList(Resized(<<>>, n, default)) /\ Len(Resized(<<>>, n, default)) = n
<1> DEFINE r == Resized(<<>>, n, default)
<1>1. \A i \in 1 .. n : ~ i <= Len(<<>>)
  OBVIOUS
<1>2. r = [i \in 1 .. n |-> default]
  BY <1>1 DEF Resized
<1> HIDE DEF r
<1>3. Len(r) = n /\ r = [i \in 1 .. n |-> r[i]]
  BY <1>2
<1> QED
  BY <1>2, <1>3 DEF IsList, r

LEMMA SpreadBack ==
  ASSUME NEW s, IsList(s), Len(s) # 0, NEW single \in BOOLEAN, single => AllAlike(s)
  PROVE  Spread(OneOrAll(s, single), Len(s)) = s
<1> DEFINE n == Len(s)
           r == OneOrAll(s, single)
<1>1. n \in Nat \ {0} /\ s = [i \in 1 .. n |-> s[i]] /\ DOMAIN s = 1 .. n /\ 1 \in 1 .. n
  BY DEF IsList
<1>2. Spread(r, n) = [i \in 1 .. n |-> IF Len(r) = n THEN r[i] ELSE r[1]]
  BY DEF Spread
<1>3. CASE single
  <2>1. r = <<s[1]>> /\ \A i \in 1 .. n : s[i] = s[1]
    BY <1>1, <1>3 DEF OneOrAll, AllAlike
  <2> HIDE DEF r, n
  <2>2. Len(r) = 1 /\ r[1] = s[1]
    BY <2>1
  <2>3. \A i \in 1 .. n : (IF Len(r) = n THEN r[i] ELSE r[1]) = s[i]
    <3> SUFFICES ASSUME NEW i \in 1 .. n
                 PROVE  (IF Len(r) = n THEN r[i] ELSE r[1]) = s[i]
      OBVIOUS
    <3>1. s[i] = s[1]
      BY <2>1
    <3>2. Len(r) = n => i = 1
      BY <2>2
    <3> QED
      BY <2>2, <3>1, <3>2
  <2> QED
    BY <1>1, <1>2, <2>3 DEF n, r
<1>4. CASE ~ single
  <2>1. r = s
    BY <1>4 DEF OneOrAll
  <2> HIDE DEF r
  <2>2. Spread(r, n) = [i \in 1 .. n |-> s[i]]
    BY <1>2, <2>1
  <2> QED
    BY <1>1, <2>2 DEF r
<1> QED
  BY <1>3, <1>4

\* The vertices as they are read.
VerticesRead(o, p) ==
  /\ Len(p.positions) = Len(o.positions) /\ Len(p.normals) = Len(o.normals)
  /\ p.colors = o.colors /\ p.specular = o.specular
  /\ "PROCEDURALPOS" \notin o.meshFlags => p.positions = o.positions
  /\ "PROCEDURALUV" \notin o.meshFlags => p.uvs = o.uvs
  /\ p.normals = IF o.positions # <<>> /\ "NoNormal" \in GenerateSaveFlags(o)
                 THEN [v \in 1 .. Len(o.positions) |-> Zero] ELSE o.normals

LEMMA VerticesLoaded ==
  ASSUME NEW o, MeshWellMade(o), o.positions # <<>>,
         NEW q, VertexArrays \subseteq DOMAIN q, \A a \in VertexArrays : q[a] = <<>>,
         NEW p, p = LoadVertices(q, VertexSection(o))
  PROVE  /\ DOMAIN p = DOMAIN q /\ \A m \in DOMAIN q \ VertexArrays : p[m] = q[m]
         /\ VerticesRead(o, p)
<1> DEFINE n == Len(o.positions)
           saved == GenerateSaveFlags(o)
           s == VertexSection(o)
           sized == SetVertexCount(q, n)
<1>1. \A a \in VertexArrays : IsList(o[a]) /\ Len(o[a]) = n
  BY DEF MeshWellMade, ArrayOf
<1>2. /\ {"positions", "normals", "uvs", "colors", "specular"} = VertexArrays
      /\ IsList(o.positions) /\ IsList(o.normals) /\ IsList(o.uvs) /\ IsList(o.colors) /\ IsList(o.specular)
      /\ Len(o.normals) = n /\ Len(o.uvs) = n /\ Len(o.colors) = n /\ Len(o.specular) = n
  BY <1>1 DEF VertexArrays
<1>3. n \in Nat /\ n # 0
  BY <1>2, EmptyList DEF IsList
<1>4. /\ s[1] = n /\ s[2] = saved
      /\ s[3] = (IF "NoPos" \in saved THEN <<>> ELSE o.positions)
      /\ s[4] = OneOrAll(o.colors, "SingleColor" \in saved)
      /\ s[5] = OneOrAll(o.specular, "SingleSpecularColor" \in saved)
      /\ s[6] = (IF "NoNormal" \in saved THEN <<>> ELSE o.normals)
      /\ s[7] = OneOrAll(o.uvs, "SingleUV" \in saved)
  BY DEF VertexSection
<1>5. /\ DOMAIN sized = DOMAIN q /\ \A m \in DOMAIN q \ VertexArrays : sized[m] = q[m]
      /\ sized.positions = Resized(<<>>, n, Zero) /\ sized.normals = Resized(<<>>, n, Zero)
  BY <1>2 DEF SetVertexCount
<1> HIDE DEF n, saved, s
<1>6. p = [sized EXCEPT
             !.positions = IF "NoPos" \in s[2] THEN @ ELSE s[3],
             !.colors = Spread(s[4], s[1]), !.specular = Spread(s[5], s[1]),
             !.normals = IF "NoNormal" \in s[2] THEN @ ELSE s[6],
             !.uvs = Spread(s[7], s[1])]
  BY <1>3, <1>4 DEF LoadVertices, s
<1> HIDE DEF sized
<1>7. /\ DOMAIN p = DOMAIN q /\ \A m \in DOMAIN q \ VertexArrays : p[m] = q[m]
      /\ p.positions = (IF "NoPos" \in saved THEN Resized(<<>>, n, Zero) ELSE o.positions)
      /\ p.normals = (IF "NoNormal" \in saved THEN Resized(<<>>, n, Zero) ELSE o.normals)
      /\ p.colors = Spread(s[4], n) /\ p.specular = Spread(s[5], n) /\ p.uvs = Spread(s[7], n)
  <2>1. {"positions", "normals", "uvs", "colors", "specular"} \subseteq DOMAIN sized
    BY <1>2, <1>5
  <2> QED
    BY <1>2, <1>4, <1>5, <1>6, <2>1
<1>8. p.colors = o.colors
  <2> DEFINE single == "SingleColor" \in saved
  <2>1. single \in BOOLEAN /\ (single => AllAlike(o.colors))
    BY SaveFlagsIs DEF saved
  <2> HIDE DEF single
  <2>2. Spread(OneOrAll(o.colors, single), Len(o.colors)) = o.colors
    BY <1>2, <1>3, <2>1, SpreadBack
  <2> QED
    BY <1>2, <1>4, <1>7, <2>2 DEF single
<1>9. p.specular = o.specular
  <2> DEFINE single == "SingleSpecularColor" \in saved
  <2>1. single \in BOOLEAN /\ (single => AllAlike(o.specular))
    BY SaveFlagsIs DEF saved
  <2> HIDE DEF single
  <2>2. Spread(OneOrAll(o.specular, single), Len(o.specular)) = o.specular
    BY <1>2, <1>3, <2>1, SpreadBack
  <2> QED
    BY <1>2, <1>4, <1>7, <2>2 DEF single
<1>10. ASSUME "PROCEDURALUV" \notin o.meshFlags
       PROVE  p.uvs = o.uvs
  <2> DEFINE single == "SingleUV" \in saved
  <2>1. single \in BOOLEAN /\ (single => AllAlike(o.uvs))
    BY <1>10, SaveFlagsIs DEF saved
  <2> HIDE DEF single
  <2>2. Spread(OneOrAll(o.uvs, single), Len(o.uvs)) = o.uvs
    BY <1>2, <1>3, <2>1, SpreadBack
  <2> QED
    BY <1>2, <1>4, <1>7, <2>2 DEF single
<1>11. Len(p.positions) = n /\ ("PROCEDURALPOS" \notin o.meshFlags => p.positions = o.positions)
  <2>1. "NoPos" \in saved <=> "PROCEDURALPOS" \in o.meshFlags
    BY SaveFlagsIs DEF saved
  <2>2. Len(Resized(<<>>, n, Zero)) = n
    BY <1>3, Begun
  <2> QED
    BY <1>7, <2>1, <2>2 DEF n
<1>12. /\ Len(p.normals) = Len(o.normals)
       /\ p.normals = IF "NoNormal" \in saved THEN [v \in 1 .. n |-> Zero] ELSE o.normals
  <2>1. Resized(<<>>, n, Zero) = [v \in 1 .. n |-> Zero] /\ Len(Resized(<<>>, n, Zero)) = n
    BY <1>3, Begun
  <2> QED
    BY <1>2, <1>7, <2>1
<1> QED
  BY <1>7, <1>8, <1>9, <1>10, <1>11, <1>12 DEF VerticesRead, n, saved

\* A mesh before its normals are built.
ArraysRead(o, c, p) ==
  /\ DOMAIN p = MeshMembers /\ p.flags = LoadObject(NewMesh, c).flags
  /\ p.meshFlags = o.meshFlags \ VolatileMesh /\ p.slots = SavedSlots(o)
  /\ p.faces = o.faces /\ p.faceSlots = o.faceSlots /\ p.lines = o.lines
  /\ VerticesRead(o, p)

\* A mesh that is emptied.
LEMMA Cleaned ==
  ASSUME NEW o, DOMAIN o = MeshMembers,
         \A a \in VertexArrays \cup FaceArrays \cup {"lines", "slots", "faceNormals"} : o[a] = <<>>
  PROVE  LET p == CleanMesh(o)
         IN /\ DOMAIN p = MeshMembers /\ p.flags = o.flags
            /\ \A a \in VertexArrays \cup FaceArrays \cup {"lines", "slots"} : p[a] = <<>>
<1> DEFINE a == SetVertexCount(o, 0)
           b == SetMaterialSlotCount(a, 0)
           e == SetFaceCount(b, 0)
           p == SetLineCount(e, 0)
<1>1. CleanMesh(o) = p
  BY DEF CleanMesh
<1>2. \A d : Resized(<<>>, 0, d) = <<>>
  BY NoneLeft
<1>3. /\ o.positions = <<>> /\ o.normals = <<>> /\ o.uvs = <<>> /\ o.colors = <<>> /\ o.specular = <<>>
      /\ o.faces = <<>> /\ o.faceSlots = <<>> /\ o.faceNormals = <<>> /\ o.lines = <<>> /\ o.slots = <<>>
  BY DEF VertexArrays, FaceArrays
<1>4. /\ DOMAIN a = MeshMembers /\ a.flags = o.flags
      /\ a.positions = <<>> /\ a.normals = <<>> /\ a.uvs = <<>> /\ a.colors = <<>> /\ a.specular = <<>>
      /\ a.faces = <<>> /\ a.faceSlots = <<>> /\ a.faceNormals = <<>> /\ a.lines = <<>> /\ a.slots = <<>>
  BY <1>2, <1>3 DEF SetVertexCount, MeshMembers, ObjectMembers
<1> HIDE DEF a
<1>5. /\ DOMAIN b = MeshMembers /\ b.flags = o.flags
      /\ b.positions = <<>> /\ b.normals = <<>> /\ b.uvs = <<>> /\ b.colors = <<>> /\ b.specular = <<>>
      /\ b.faces = <<>> /\ b.faceSlots = <<>> /\ b.faceNormals = <<>> /\ b.lines = <<>> /\ b.slots = <<>>
  BY <1>2, <1>4 DEF SetMaterialSlotCount, MeshMembers, ObjectMembers
<1> HIDE DEF b
<1>6. /\ DOMAIN e = MeshMembers /\ e.flags = o.flags
      /\ e.positions = <<>> /\ e.normals = <<>> /\ e.uvs = <<>> /\ e.colors = <<>> /\ e.specular = <<>>
      /\ e.faces = <<>> /\ e.faceSlots = <<>> /\ e.lines = <<>> /\ e.slots = <<>>
  BY <1>2, <1>5 DEF SetFaceCount, MeshMembers, ObjectMembers
<1> HIDE DEF e
<1>7. /\ DOMAIN p = MeshMembers /\ p.flags = o.flags
      /\ p.positions = <<>> /\ p.normals = <<>> /\ p.uvs = <<>> /\ p.colors = <<>> /\ p.specular = <<>>
      /\ p.faces = <<>> /\ p.faceSlots = <<>> /\ p.lines = <<>> /\ p.slots = <<>>
  BY <1>2, <1>6 DEF SetLineCount, MeshMembers, ObjectMembers
<1> HIDE DEF p
<1> QED
  BY <1>1, <1>7 DEF VertexArrays, FaceArrays

LEMMA ArraysLoaded ==
  ASSUME NEW o, MeshWellMade(o), NEW c, MeshPart(o, c), IsList(SavedSlots(o)), NEW C,
         \A i \in DOMAIN SavedSlots(o) : MaterialAt(SavedSlots(o)[i], C) = SavedSlots(o)[i],
         NEW p, p = LoadArrays(NewMesh, c, C)
  PROVE  ArraysRead(o, c, p)
<1> DEFINE seen == LoadObject(NewMesh, c)
           clean == CleanMesh(seen)
           flagged == IF ~ Has(c, "MESHFLAGS") THEN clean
                      ELSE [clean EXCEPT !.meshFlags = c["MESHFLAGS"][1] \ VolatileMesh]
           slotted == IF ~ Has(c, "MESHMATERIALS") THEN flagged
                      ELSE [flagged EXCEPT !.slots = [i \in DOMAIN c["MESHMATERIALS"] |->
                              MaterialAt(c["MESHMATERIALS"][i], C)]]
           filled == IF Has(c, "MESHVERTICES") THEN LoadVertices(slotted, c["MESHVERTICES"])
                     ELSE slotted
           sized == SetFaceCount(filled, Len(c["MESHFACES"][1]))
           faced == IF ~ Has(c, "MESHFACES") THEN filled
                    ELSE [sized EXCEPT !.faces = c["MESHFACES"][1], !.faceSlots = c["MESHFACES"][2]]
           long == SetLineCount(faced, Len(c["MESHLINES"]))
           kept == {"class", "flags", "meshFlags", "slots"}
<1>1. p = IF Has(c, "MESHLINES") THEN [long EXCEPT !.lines = c["MESHLINES"]] ELSE faced
  BY DEF LoadArrays
<1>2. /\ DOMAIN seen = MeshMembers
      /\ \A a \in VertexArrays \cup FaceArrays \cup {"lines", "slots", "faceNormals"} : seen[a] = <<>>
  BY MeshNew DEF LoadObject, VertexArrays, FaceArrays, MeshMembers, ObjectMembers
<1>3. /\ Has(c, "MESHFLAGS") /\ c["MESHFLAGS"] = <<o.meshFlags>>
      /\ Has(c, "MESHMATERIALS") /\ c["MESHMATERIALS"] = SavedSlots(o)
      /\ Has(c, "MESHFACES") <=> o.faces # <<>>
      /\ Has(c, "MESHFACES") => c["MESHFACES"][1] = o.faces /\ c["MESHFACES"][2] = o.faceSlots
      /\ Has(c, "MESHLINES") <=> o.lines # <<>>
      /\ Has(c, "MESHLINES") => c["MESHLINES"] = o.lines
      /\ Has(c, "MESHVERTICES") <=> o.positions # <<>>
      /\ Has(c, "MESHVERTICES") => c["MESHVERTICES"] = VertexSection(o)
  BY DEF MeshPart
<1> HIDE DEF seen
<1>4. /\ DOMAIN clean = MeshMembers /\ clean.flags = seen.flags
      /\ \A a \in VertexArrays \cup FaceArrays \cup {"lines", "slots"} : clean[a] = <<>>
  BY <1>2, Cleaned
<1> HIDE DEF clean
<1>5. /\ DOMAIN flagged = MeshMembers /\ flagged.flags = seen.flags
      /\ flagged.meshFlags = o.meshFlags \ VolatileMesh
      /\ \A a \in VertexArrays \cup FaceArrays \cup {"lines"} : flagged[a] = <<>>
  BY <1>3, <1>4 DEF MeshMembers, ObjectMembers, VertexArrays, FaceArrays
<1> HIDE DEF flagged
<1>6. /\ DOMAIN slotted = MeshMembers /\ slotted.flags = seen.flags
      /\ slotted.meshFlags = o.meshFlags \ VolatileMesh /\ slotted.slots = SavedSlots(o)
      /\ \A a \in VertexArrays \cup FaceArrays \cup {"lines"} : slotted[a] = <<>>
  <2> DEFINE t == SavedSlots(o)
             r == [i \in DOMAIN t |-> MaterialAt(t[i], C)]
  <2>1. slotted = [flagged EXCEPT !.slots = r]
    BY <1>3
  <2>2. r = t
    BY DEF IsList
  <2> HIDE DEF r, t
  <2>3. slotted = [flagged EXCEPT !.slots = t]
    BY <2>1, <2>2
  <2> HIDE DEF slotted
  <2>4. DOMAIN slotted = MeshMembers /\ slotted.slots = t
    BY <1>5, <2>3 DEF MeshMembers
  <2>5. \A m \in MeshMembers \ {"slots"} : slotted[m] = flagged[m]
    BY <1>5, <2>3
  <2> QED
    BY <1>5, <2>4, <2>5 DEF t, MeshMembers, ObjectMembers, VertexArrays, FaceArrays
<1> HIDE DEF slotted
<1>7. /\ VertexArrays \subseteq MeshMembers /\ VertexArrays \cap FaceArrays = {}
      /\ FaceArrays \cup {"lines", "flags", "meshFlags", "slots"} \subseteq MeshMembers \ VertexArrays
  BY DEF MeshMembers, ObjectMembers, VertexArrays, FaceArrays
<1>8. /\ DOMAIN filled = MeshMembers /\ \A m \in MeshMembers \ VertexArrays : filled[m] = slotted[m]
      /\ VerticesRead(o, filled)
  <2>1. CASE o.positions # <<>>
    <3>1. filled = LoadVertices(slotted, VertexSection(o))
      BY <1>3, <2>1
    <3>2. VertexArrays \subseteq DOMAIN slotted /\ \A a \in VertexArrays : slotted[a] = <<>>
      BY <1>6, <1>7
    <3> HIDE DEF filled
    <3>3. /\ DOMAIN filled = DOMAIN slotted /\ \A m \in DOMAIN slotted \ VertexArrays : filled[m] = slotted[m]
          /\ VerticesRead(o, filled)
      BY ONLY MeshWellMade(o), <2>1, <3>1, <3>2, VerticesLoaded
    <3> QED
      BY <1>6, <3>3
  <2>2. CASE o.positions = <<>>
    <3>1. filled = slotted
      BY <1>3, <2>2
    <3>2. \A a \in VertexArrays : IsList(o[a]) /\ Len(o[a]) = Len(o.positions)
      BY DEF MeshWellMade, ArrayOf
    <3>3. Len(o.positions) = 0
      BY <2>2
    <3>4. \A a \in VertexArrays : o[a] = <<>>
      BY <3>2, <3>3, EmptyList
    <3>5. \A a \in VertexArrays : filled[a] = o[a]
      BY <1>6, <3>1, <3>4
    <3> HIDE DEF filled
    <3>6. /\ filled.positions = o.positions /\ filled.normals = o.normals /\ filled.uvs = o.uvs
          /\ filled.colors = o.colors /\ filled.specular = o.specular
      BY <3>5 DEF VertexArrays
    <3>7. VerticesRead(o, filled)
      BY <2>2, <3>6 DEF VerticesRead
    <3> QED
      BY <1>6, <3>1, <3>7
  <2> QED
    BY <2>1, <2>2
<1> HIDE DEF filled
<1>9. /\ DOMAIN faced = MeshMembers /\ \A m \in VertexArrays \cup {"flags", "meshFlags", "slots", "lines"} : faced[m] = filled[m]
      /\ faced.faces = o.faces /\ faced.faceSlots = o.faceSlots
  <2>1. CASE o.faces # <<>>
    <3>1. faced = [sized EXCEPT !.faces = o.faces, !.faceSlots = o.faceSlots]
      BY <1>3, <2>1
    <3>2. /\ DOMAIN sized = MeshMembers
          /\ \A m \in MeshMembers \ {"faces", "faceSlots", "faceNormals"} : sized[m] = filled[m]
      BY <1>8 DEF SetFaceCount
    <3> HIDE DEF sized, faced
    <3>3. /\ DOMAIN faced = MeshMembers /\ \A m \in MeshMembers \ {"faces", "faceSlots"} : faced[m] = sized[m]
          /\ faced.faces = o.faces /\ faced.faceSlots = o.faceSlots
      BY <3>1, <3>2 DEF MeshMembers
    <3> QED
      BY <3>2, <3>3 DEF MeshMembers, ObjectMembers, VertexArrays
  <2>2. CASE o.faces = <<>>
    <3>1. faced = filled
      BY <1>3, <2>2
    <3>2. \A a \in FaceArrays : IsList(o[a]) /\ Len(o[a]) = Len(o.faces)
      BY DEF MeshWellMade, ArrayOf
    <3>3. Len(o.faces) = 0
      BY <2>2
    <3>4. \A a \in FaceArrays : o[a] = <<>>
      BY <3>2, <3>3, EmptyList
    <3>5. filled.faces = <<>> /\ filled.faceSlots = <<>>
      BY <1>6, <1>7, <1>8 DEF FaceArrays
    <3> QED
      BY <1>8, <3>1, <3>4, <3>5 DEF FaceArrays
  <2> QED
    BY <2>1, <2>2
<1> HIDE DEF faced
<1>10. /\ DOMAIN p = MeshMembers /\ \A m \in MeshMembers \ {"lines"} : p[m] = faced[m]
       /\ p.lines = o.lines
  <2>1. CASE o.lines # <<>>
    <3>1. p = [long EXCEPT !.lines = o.lines]
      BY <1>1, <1>3, <2>1
    <3>2. DOMAIN long = MeshMembers /\ \A m \in MeshMembers \ {"lines"} : long[m] = faced[m]
      BY <1>9 DEF SetLineCount
    <3> HIDE DEF long
    <3> QED
      BY <3>1, <3>2 DEF MeshMembers
  <2>2. CASE o.lines = <<>>
    <3>1. p = faced
      BY <1>1, <1>3, <2>2
    <3>2. faced.lines = <<>>
      BY <1>6, <1>7, <1>8, <1>9
    <3> QED
      BY <1>9, <2>2, <3>1, <3>2
  <2> QED
    BY <2>1, <2>2
<1>11. VerticesRead(o, p)
  <2>1. \A a \in VertexArrays : p[a] = filled[a]
    BY <1>9, <1>10 DEF MeshMembers, VertexArrays
  <2>2. /\ p.positions = filled.positions /\ p.normals = filled.normals /\ p.uvs = filled.uvs
        /\ p.colors = filled.colors /\ p.specular = filled.specular
    BY <2>1 DEF VertexArrays
  <2> QED
    BY <1>8, <2>2 DEF VerticesRead
<1>12. p.flags = seen.flags /\ p.meshFlags = o.meshFlags \ VolatileMesh /\ p.slots = SavedSlots(o)
  BY <1>6, <1>7, <1>8, <1>9, <1>10
<1>13. p.faces = o.faces /\ p.faceSlots = o.faceSlots
  BY <1>9, <1>10 DEF MeshMembers
<1> QED
  BY <1>10, <1>11, <1>12, <1>13 DEF ArraysRead, seen

\* The normals of the faces, which follow from the positions and the faces.
LEMMA FaceNormalsBuilt ==
  ASSUME NEW o, "faceNormals" \in DOMAIN o
  PROVE  LET b == BuildFaceNormals(o)
         IN /\ DOMAIN b = DOMAIN o /\ \A m \in DOMAIN o \ {"faceNormals"} : b[m] = o[m]
            /\ o.faces # <<>> /\ o.positions # <<>> =>
                 b.faceNormals = [f \in DOMAIN o.faces |-> FaceNormal(o, f)]
BY DEF BuildFaceNormals

LEMMA FaceNormalsAlike ==
  ASSUME NEW o, NEW p, p.faces = o.faces, p.positions = o.positions, o.faces # <<>>, o.positions # <<>>,
         "faceNormals" \in DOMAIN o, "faceNormals" \in DOMAIN p
  PROVE  BuildFaceNormals(p).faceNormals = BuildFaceNormals(o).faceNormals
<1>1. \A f : FaceNormal(p, f) = FaceNormal(o, f)
  BY DEF FaceNormal
<1>2. BuildFaceNormals(p).faceNormals = [f \in DOMAIN p.faces |-> FaceNormal(p, f)]
  BY FaceNormalsBuilt
<1>3. BuildFaceNormals(o).faceNormals = [f \in DOMAIN o.faces |-> FaceNormal(o, f)]
  BY FaceNormalsBuilt
<1> QED
  BY <1>1, <1>2, <1>3

\* The normals of the vertices, made of those of the faces.
MadeNormals(o, n) ==
  NormalizedAll(GatheredBy(o.faces, BuildFaceNormals(o).faceNormals, [v \in 1 .. n |-> Zero]))

LEMMA NormalsBuilt ==
  ASSUME NEW o, {"normals", "faceNormals"} \subseteq DOMAIN o, NEW n \in Nat,
         o.normals = [v \in 1 .. n |-> Zero], "faces" \in DOMAIN o, "positions" \in DOMAIN o
  PROVE  LET b == BuildNormals(o)
         IN /\ DOMAIN b = DOMAIN o /\ \A m \in DOMAIN o \ {"normals", "faceNormals"} : b[m] = o[m]
            /\ b.normals = IF o.faces = <<>> \/ o.positions = <<>> THEN o.normals ELSE MadeNormals(o, n)
<1> DEFINE b == BuildFaceNormals(o)
<1>1. DOMAIN b = DOMAIN o /\ \A m \in DOMAIN o \ {"faceNormals"} : b[m] = o[m]
  BY FaceNormalsBuilt
<1>2. b.faces = o.faces /\ b.normals = [v \in 1 .. n |-> Zero]
  BY <1>1
<1>3. Gathered(b, b.normals) = GatheredBy(o.faces, b.faceNormals, [v \in 1 .. n |-> Zero])
  BY <1>2, GatheredIs
<1>4. BuildNormals(o) =
        IF o.faces = <<>> \/ o.positions = <<>> THEN o
        ELSE [b EXCEPT !.normals = NormalizedAll(Gathered(b, b.normals))]
  BY DEF BuildNormals
<1>5. MadeNormals(o, n) = NormalizedAll(Gathered(b, b.normals))
  BY <1>3 DEF MadeNormals
<1> HIDE DEF b
<1> QED
  BY <1>1, <1>4, <1>5

\* The drift the writer computes, and the one of two lists.
LEMMA DriftIs ==
  ASSUME NEW o, {"normals", "faceNormals", "faces", "positions"} \subseteq DOMAIN o, NEW n \in Nat, DOMAIN o.normals = 1 .. n
  PROVE  /\ o.faces # <<>> /\ o.positions # <<>> =>
              NormalDrift(o) = DriftBetween(o.normals, MadeNormals(o, n))
         /\ o.faces = <<>> => NormalDrift(o) = DriftBetween(o.normals, [v \in 1 .. n |-> Zero])
<1> DEFINE b == BuildFaceNormals(o)
           start == [v \in DOMAIN o.normals |-> Zero]
           made == NormalizedAll(Gathered(b, start))
<1>1. NormalDrift(o) = DriftBetween(o.normals, made)
  BY DEF NormalDrift, DriftBetween, FoldLeft, MapThenFoldSet
<1>2. b.faces = o.faces
  BY FaceNormalsBuilt
<1>3. Gathered(b, start) = GatheredBy(o.faces, b.faceNormals, [v \in 1 .. n |-> Zero])
  BY <1>2, GatheredIs
<1>4. made = MadeNormals(o, n)
  BY <1>3 DEF MadeNormals
<1>5. ASSUME o.faces = <<>> PROVE MadeNormals(o, n) = [v \in 1 .. n |-> Zero]
  <2> DEFINE z == [v \in 1 .. n |-> Zero]
             g == GatheredBy(o.faces, b.faceNormals, z)
  <2>1. DOMAIN o.faces = {} /\ [f \in DOMAIN o.faces |-> f] = <<>>
    BY <1>5
  <2>2. g = [v \in 1 .. n |-> CornersOf(o.faces, b.faceNormals, v, Zero, <<>>)]
    BY <2>1 DEF GatheredBy
  <2>3. \A v \in 1 .. n : CornersOf(o.faces, b.faceNormals, v, Zero, <<>>) = Zero
    BY NoCorners
  <2>4. g = z
    BY <2>2, <2>3
  <2>5. NormalizedAll(z) = z
    BY DEF NormalizedAll, Normalized
  <2> QED
    BY <2>4, <2>5 DEF MadeNormals
<1> HIDE DEF made
<1> QED
  BY <1>1, <1>4, <1>5

\* The normals are near by the drift that is between them.
LEMMA NearIs ==
  ASSUME NEW c, NEW o
  PROVE  NormalsNear(c, o) <=>
           LET d == DriftBetween(o.normals, c.normals)
           IN DotProduct(d, d) <= Len(o.normals) * Len(o.normals)
BY DEF NormalsNear, DriftBetween, FoldLeft, MapThenFoldSet

\* What a mesh that is not found outside itself becomes in a document.
LEMMA MeshTrip ==
  ASSUME NEW o, MeshWellMade(o), DOMAIN o = MeshMembers, NEW c, MeshPart(o, c), IsList(SavedSlots(o)), NEW C,
         \A i \in DOMAIN SavedSlots(o) : MaterialAt(SavedSlots(o)[i], C) = SavedSlots(o)[i],
         NEW q, q = LoadMesh(NewMesh, c, C)
  PROVE  /\ MarksKept(q, o)
         /\ q.meshFlags = o.meshFlags \ VolatileMesh
         /\ q.slots = SavedSlots(o)
         /\ \A a \in {"faces", "faceSlots", "lines", "colors", "specular"} : q[a] = o[a]
         /\ Len(q.positions) = Len(o.positions) /\ Len(q.normals) = Len(o.normals)
         /\ "PROCEDURALPOS" \notin o.meshFlags => q.positions = o.positions
         /\ "PROCEDURALUV" \notin o.meshFlags => q.uvs = o.uvs
         /\ o.meshFlags \cap {"PROCEDURALPOS", "NORMAL_CHANGED"} = {} => NormalsNear(q, o)
<1> DEFINE p == LoadArrays(NewMesh, c, C)
           n == Len(o.positions)
           saved == GenerateSaveFlags(o)
           generated == o.positions # <<>> /\ "NoNormal" \in saved
           zeros == [v \in 1 .. n |-> Zero]
<1>1. ArraysRead(o, c, p)
  BY ArraysLoaded
<1>2. Has(c, "MESHVERTICES") /\ "NoNormal" \in c["MESHVERTICES"][2] <=> generated
  <2>1. /\ Has(c, "MESHVERTICES") <=> o.positions # <<>>
        /\ Has(c, "MESHVERTICES") => c["MESHVERTICES"] = VertexSection(o)
    BY DEF MeshPart
  <2>2. VertexSection(o)[2] = saved
    BY DEF VertexSection
  <2> QED
    BY <2>1, <2>2
<1>3. q = IF generated THEN BuildNormals(p) ELSE BuildFaceNormals(p)
  BY <1>2 DEF LoadMesh
<1> HIDE DEF p
<1>4. /\ DOMAIN p = MeshMembers /\ p.flags = LoadObject(NewMesh, c).flags
      /\ p.meshFlags = o.meshFlags \ VolatileMesh /\ p.slots = SavedSlots(o)
      /\ p.faces = o.faces /\ p.faceSlots = o.faceSlots /\ p.lines = o.lines
      /\ Len(p.positions) = n /\ Len(p.normals) = Len(o.normals)
      /\ p.colors = o.colors /\ p.specular = o.specular
      /\ "PROCEDURALPOS" \notin o.meshFlags => p.positions = o.positions
      /\ "PROCEDURALUV" \notin o.meshFlags => p.uvs = o.uvs
      /\ p.normals = IF generated THEN zeros ELSE o.normals
  BY <1>1 DEF ArraysRead, VerticesRead
<1>5. /\ n \in Nat /\ IsList(o.normals) /\ Len(o.normals) = n /\ DOMAIN o.normals = 1 .. n
      /\ \A v \in DOMAIN o.normals : o.normals[v] \in Vector
  <2>1. \A a \in {"positions", "normals"} : ArrayOf(a, o[a]) /\ Len(o[a]) = Len(o.positions)
    BY DEF MeshWellMade, VertexArrays
  <2> QED
    BY <2>1 DEF ArrayOf, IsList
<1>6. {"normals", "faceNormals", "faces", "positions"} \subseteq MeshMembers
  BY DEF MeshMembers
<1> HIDE DEF generated, saved
<1>7. /\ DOMAIN q = MeshMembers /\ \A m \in MeshMembers \ {"normals", "faceNormals"} : q[m] = p[m]
      /\ q.normals = IF generated /\ o.faces # <<>> /\ p.positions # <<>> THEN MadeNormals(p, n) ELSE p.normals
  <2>1. CASE generated
    <3>1. p.normals = zeros
      BY <1>4, <2>1
    <3>2. {"normals", "faceNormals"} \subseteq DOMAIN p /\ "faces" \in DOMAIN p /\ "positions" \in DOMAIN p
      BY <1>4, <1>6
    <3>3. LET b == BuildNormals(p)
          IN /\ DOMAIN b = DOMAIN p /\ \A m \in DOMAIN p \ {"normals", "faceNormals"} : b[m] = p[m]
             /\ b.normals = IF p.faces = <<>> \/ p.positions = <<>> THEN p.normals ELSE MadeNormals(p, n)
      BY <1>5, <3>1, <3>2, NormalsBuilt
    <3> QED
      BY <1>3, <1>4, <2>1, <3>3
  <2>2. CASE ~ generated
    <3>1. "faceNormals" \in DOMAIN p
      BY <1>4, <1>6
    <3>2. LET b == BuildFaceNormals(p)
          IN DOMAIN b = DOMAIN p /\ \A m \in DOMAIN p \ {"faceNormals"} : b[m] = p[m]
      BY <3>1, FaceNormalsBuilt
    <3>3. "normals" \in MeshMembers \ {"faceNormals"}
      BY <1>6
    <3> QED
      BY <1>3, <1>4, <2>2, <3>2, <3>3
  <2> QED
    BY <2>1, <2>2
<1> DEFINE r == {"flags", "meshFlags", "slots", "faces", "faceSlots", "lines", "colors", "specular",
                 "positions", "uvs"}
<1>8. \A m \in r : q[m] = p[m]
  <2>1. r \subseteq MeshMembers \ {"normals", "faceNormals"}
    BY DEF MeshMembers, ObjectMembers
  <2> QED
    BY <1>7, <2>1
<1>9. MarksKept(q, o)
  <2>1. SameMarks(o, c)
    BY DEF MeshPart
  <2>2. MarksKept(LoadObject(NewMesh, c), o)
    BY <2>1, MeshNew, MarksLoaded DEF MeshMembers, ObjectMembers
  <2> QED
    BY <1>4, <1>8, <2>2 DEF MarksKept
<1>10. Len(q.normals) = Len(o.normals)
  <2>1. DOMAIN MadeNormals(p, n) = 1 .. n
    BY DEF MadeNormals, NormalizedAll, GatheredBy
  <2>2. MadeNormals(p, n) = [v \in 1 .. n |-> MadeNormals(p, n)[v]]
    BY DEF MadeNormals, NormalizedAll, GatheredBy
  <2>3. Len(MadeNormals(p, n)) = n
    <3> DEFINE m == MadeNormals(p, n)
    <3> HIDE DEF m
    <3>1. m = [v \in 1 .. n |-> m[v]]
      BY <2>2 DEF m
    <3>2. Len(m) = n
      BY <1>5, <3>1
    <3> QED
      BY <3>2 DEF m
  <2> QED
    BY <1>4, <1>5, <1>7, <2>3
<1>11. ASSUME o.meshFlags \cap {"PROCEDURALPOS", "NORMAL_CHANGED"} = {}
       PROVE  NormalsNear(q, o)
  <2>1. p.positions = o.positions /\ o.meshFlags \cap {"NORMAL_CHANGED", "PROCEDURALPOS"} = {}
    BY <1>4, <1>11
  <2>2. CASE generated
    <3>1. NormalsFollow(o) /\ o.positions # <<>>
      BY <2>1, <2>2, SaveFlagsIs DEF generated, saved
    <3>2. NormalDrift(o) = DriftBetween(o.normals, q.normals)
      <4>1. CASE o.faces = <<>>
        <5>1. q.normals = zeros
          BY <1>4, <1>7, <2>2, <4>1
        <5>2. NormalDrift(o) = DriftBetween(o.normals, zeros)
          BY <1>5, <1>6, <4>1, DriftIs
        <5> QED
          BY <5>1, <5>2
      <4>2. CASE o.faces # <<>>
        <5>1. BuildFaceNormals(p).faceNormals = BuildFaceNormals(o).faceNormals
          BY <1>4, <1>6, <2>1, <3>1, <4>2, FaceNormalsAlike
        <5>2. q.normals = MadeNormals(p, n)
          BY <1>7, <2>1, <2>2, <3>1, <4>2
        <5>3. MadeNormals(p, n) = MadeNormals(o, n)
          BY <1>4, <5>1 DEF MadeNormals
        <5>4. NormalDrift(o) = DriftBetween(o.normals, MadeNormals(o, n))
          BY <1>5, <1>6, <3>1, <4>2, DriftIs
        <5> QED
          BY <5>2, <5>3, <5>4
      <4> QED
        BY <4>1, <4>2
    <3>3. DotProduct(NormalDrift(o), NormalDrift(o)) <= n * n
      BY <3>1 DEF NormalsFollow
    <3> QED
      BY <1>5, <3>2, <3>3, NearIs
  <2>3. CASE ~ generated
    <3>1. q.normals = o.normals
      BY <1>4, <1>7, <2>3
    <3>2. DriftBetween(o.normals, q.normals) = Zero
      BY <1>5, <3>1, NoDrift
    <3>3. DotProduct(Zero, Zero) <= n * n
      <4>1. 0 <= n * n
        BY <1>5
      <4>2. DotProduct(Zero, Zero) = 0
        BY DEF DotProduct, Zero
      <4> QED
        BY <4>1, <4>2
    <3> QED
      BY <1>5, <3>2, <3>3, NearIs
  <2> QED
    BY <2>2, <2>3
<1> QED
  BY <1>4, <1>8, <1>9, <1>10, <1>11

\* A mesh comes back (the property MeshesKept).
LEMMA MeshesComeBack ==
  ASSUME Inv, DataInv
  PROVE  MeshesKept
<1> SUFFICES ASSUME Loaded, foreign \in {"none", "hierarchy", "temp"}, NEW id \in Of({"MESH"})
             PROVE  LET o == objs[id] c == copy[id]
                    IN /\ MarksKept(c, o)
                       /\ c.meshFlags = o.meshFlags \ VolatileMesh
                       /\ c.slots = SavedSlots(o)
                       /\ \A a \in {"faces", "faceSlots", "lines", "colors", "specular"} : c[a] = o[a]
                       /\ Len(c.positions) = Len(o.positions) /\ Len(c.normals) = Len(o.normals)
                       /\ "PROCEDURALPOS" \notin o.meshFlags => c.positions = o.positions
                       /\ "PROCEDURALUV" \notin o.meshFlags => c.uvs = o.uvs
                       /\ o.meshFlags \cap {"PROCEDURALPOS", "NORMAL_CHANGED"} = {} => NormalsNear(c, o)
  BY DEF MeshesKept
<1> DEFINE o == objs[id]
           q == copy[id]
           c == SaveMesh(o)
           s == SavedSlots(o)
<1>1. id \in Living /\ o.class = "MESH"
  BY DEF Of
<1>2. /\ Proper(objs, o) /\ WellMade(o) /\ Pointers(o) \subseteq Living
      /\ q = LoadOf(o.class, doc.chunks[id], disk, extra)
      /\ ChunkOf(foreign, o.class, SaveOf(o, global), doc.chunks[id])
  BY <1>1, CopyIs
<1>3. "MESH" \notin Entities
  BY DEF Entities, Lights, Cameras
<1>4. doc.chunks[id] = c
  <2>1. doc.chunks[id] = SaveOf(o, global)
    BY <1>1, <1>2, <1>3 DEF ChunkOf
  <2> QED
    BY <1>1, <2>1 DEF SaveOf
<1>5. q = LoadMesh(NewMesh, c, ClassAt)
  BY <1>1, <1>2, <1>4 DEF LoadOf, NewOf
<1>6. MeshWellMade(o) /\ DOMAIN o = MeshMembers /\ o.slots \in Seq(At(objs, {"MATERIAL"}))
  BY <1>1, <1>2, ProperMembers DEF WellMade, Proper
<1>7. Pointers(o) = ToSet(o.slots) \ {0}
  BY <1>1, <1>3 DEF Pointers
<1>8. MeshPart(o, c)
  BY MeshChunk
<1>9. 0 \notin DOMAIN objs /\ ClassAt = [t \in Living |-> objs[t].class]
  BY DEF Inv, SceneInv, ClassAt
<1> HIDE DEF o, c, q
<1>10. \A i \in DOMAIN o.slots : MaterialAt(o.slots[i], ClassAt) = o.slots[i]
  <2> SUFFICES ASSUME NEW i \in DOMAIN o.slots
               PROVE  MaterialAt(o.slots[i], ClassAt) = o.slots[i]
    OBVIOUS
  <2>1. o.slots[i] \in At(objs, {"MATERIAL"})
    BY <1>6, ElementOfSeq
  <2>2. o.slots[i] = 0 => MaterialAt(o.slots[i], ClassAt) = 0
    BY DEF MaterialAt
  <2>3. o.slots[i] # 0 => o.slots[i] \in Living
    BY <1>2, <1>7 DEF ToSet
  <2>4. o.slots[i] # 0 => objs[o.slots[i]].class = "MATERIAL"
    BY <2>1, <2>3 DEF At, Living
  <2> QED
    BY <1>9, <2>2, <2>3, <2>4 DEF MaterialAt
<1>11. IsList(s) /\ \A i \in DOMAIN s : MaterialAt(s[i], ClassAt) = s[i]
  <2>1. CASE o.slots = <<>>
    <3>1. s = <<0>>
      BY <2>1 DEF SavedSlots
    <3> HIDE DEF s
    <3>2. IsList(s)
      BY <3>1 DEF IsList
    <3>3. \A i \in DOMAIN s : s[i] = 0
      BY <3>1
    <3>4. MaterialAt(0, ClassAt) = 0
      BY DEF MaterialAt
    <3> QED
      BY <3>2, <3>3, <3>4 DEF s
  <2>2. CASE o.slots # <<>>
    <3>1. s = o.slots
      BY <2>2 DEF SavedSlots
    <3> QED
      BY <1>6, <1>10, <3>1 DEF IsList
  <2> QED
    BY <2>1, <2>2
<1>12. IsList(SavedSlots(o)) /\ \A i \in DOMAIN SavedSlots(o) : MaterialAt(SavedSlots(o)[i], ClassAt) = SavedSlots(o)[i]
  BY <1>11
<1>13. /\ MarksKept(q, o)
       /\ q.meshFlags = o.meshFlags \ VolatileMesh
       /\ q.slots = SavedSlots(o)
       /\ \A a \in {"faces", "faceSlots", "lines", "colors", "specular"} : q[a] = o[a]
       /\ Len(q.positions) = Len(o.positions) /\ Len(q.normals) = Len(o.normals)
       /\ "PROCEDURALPOS" \notin o.meshFlags => q.positions = o.positions
       /\ "PROCEDURALUV" \notin o.meshFlags => q.uvs = o.uvs
       /\ o.meshFlags \cap {"PROCEDURALPOS", "NORMAL_CHANGED"} = {} => NormalsNear(q, o)
  BY ONLY <1>5, <1>6, <1>8, <1>12, MeshTrip
<1> QED
  BY <1>13 DEF o, q

\* ... and a mesh.
THEOREM MeshesAlwaysKept == BMSpec => []MeshesKept
<1>1. Inv /\ DataInv => MeshesKept
  BY MeshesComeBack
<1> QED
  BY <1>1, SceneInvariant, DataInvariant, PTL
=============================================================================
