---------------------------- MODULE MCObjectData ----------------------------
(* Nine scenes, one for each group of classes that touch one another, and   *)
(* from each every pair of calls.  A value a setter is given is none that   *)
(* another member has.                                                      *)
EXTENDS BMapCalls

MCFreed == [freed |-> TRUE]

Turned == << <<0, 1, 0, 9>>, <<1, 0, 0, 0>>, <<0, 0, 1, 0>>, <<7, 8, 9, 1>> >>

MCValues ==
  [matrix |-> {Turned}, zorder |-> {5}, moveable |-> {{"RENDERFIRST", "UPTODATE", "VISIBLE"}},
   entityFlags |-> {{"FRAME", "UPDATELASTFRAME"}},
   type |-> {"SPOT"}, diffuse |-> {<<1, 103, 205, 307>>}, attenuation0 |-> {21},
   attenuation1 |-> {22}, attenuation2 |-> {23}, range |-> {24}, innerCone |-> {25},
   outerCone |-> {26}, falloff |-> {27}, power |-> {28},
   project |-> {"ORTHO"}, fov |-> {31}, zoom |-> {32}, width |-> {33, 65537}, height |-> {34},
   front |-> {35}, back |-> {36},
   ambient |-> {<<3, 105, 207, 309>>}, specular |-> {<<5, 107, 209, 311>>},
   emissive |-> {<<7, 109, 211, 313>>}, specularPower |-> {41}, borderColor |-> {42},
   textureBlend |-> {5}, textureMin |-> {6}, textureMag |-> {7}, sourceBlend |-> {8},
   destBlend |-> {9}, shade |-> {10}, fill |-> {11}, address |-> {12}, alphaRef |-> {13},
   alphaFunc |-> {14}, zFunc |-> {15}, effect |-> {0, 3},
   pick |-> {51}, transparent |-> {TRUE}, transColor |-> {52}, cube |-> {TRUE},
   saveOptions |-> {"RAWDATA", "EXTERNAL", "IMAGEFORMAT", "INCLUDEORIGINALFILE"},
   saveExt |-> {"bmp", "png"}, videoFormat |-> {0, 4, 28},
   meshFlags |-> {{"VISIBLE"}, {"NORMAL_CHANGED"}, {"PROCEDURALUV", "OPTIMIZED"}, {"PROCEDURALPOS"}}]

MCArrays ==
  [a \in VertexArrays \cup FaceArrays \cup {"lines"} |->
     CASE a = "positions" -> {<< <<0, 0, 0>>, <<0, 2, 0>>, <<0, 0, 2>> >>, << <<1, 2, 3>> >>}
       [] a = "normals" -> {<< <<0, 0, Unit>>, <<0, 0, Unit>>, <<0, 0, Unit - 3>> >>,
                            << <<0, Unit, 0>>, <<0, 0, Unit>>, <<0, 0, Unit>> >>}
       [] a \in {"uvs", "colors", "specular"} -> {<<61, 61, 62>>, <<61, 61, 61>>}
       [] a = "faces" -> {<< <<0, 2, 1>> >>, << <<0, 1, 1>>, <<0, 1, 2>> >>}
       [] a = "faceSlots" -> {<<1>>}
       [] a = "lines" -> {<< <<0, 1>> >>}]

\* Two pixels over each other, and one.
MCImage == {<< << <<71, 255>> >>, << <<72, 5>> >> >>, << << <<73, 255>> >> >>}

MCName ==
  {[dir |-> "here", base |-> "a.bmp"], [dir |-> "there", base |-> "a.bmp"],
   [dir |-> "here", base |-> "b.png"]}

MCExtOf == [b \in {"a.bmp", "b.png"} |-> IF b = "a.bmp" THEN "bmp" ELSE "png"]

MCDisk ==
  [d \in {"temp", "here", "there"} |->
     CASE d = "here" -> "a.bmp" :> << << <<81, 255>> >> >>
       [] d = "there" -> ("a.bmp" :> << << <<82, 255>> >> >>) @@ ("b.png" :> << << <<83, 6>> >> >>)
       [] OTHER -> [b \in {} |-> NoImage]]

Spot == [NewTargetLight("TARGETLIGHT") EXCEPT !.type = "SPOT"]

Aimed == [NewTargetCamera("TARGETCAMERA") EXCEPT !.mesh = 4, !.potentials = <<4>>]

Coated ==
  [NewMaterial EXCEPT !.textures = <<2, 2, 0, 0>>, !.effect = 1]

Triangle ==
  LET sized == SetMaterialSlotCount(SetLineCount(SetFaceCount(SetVertexCount(NewMesh, 3), 1), 1), 1)
  IN [sized EXCEPT
        !.positions = << <<0, 0, 0>>, <<2, 0, 0>>, <<0, 2, 0>> >>,
        !.faces = << <<0, 1, 2>> >>, !.slots = <<2>>]

Painted(n) ==
  [SetSlotCount(NewTexture, n) EXCEPT
     !.slots = [i \in 1 .. n |-> [Slot EXCEPT !.image = CHOOSE im \in MCImage : Height(im) = 2]]]

Filed(dir) ==
  LET name == [dir |-> dir, base |-> "a.bmp"]
  IN [NewTexture EXCEPT !.slots = <<[image |-> MCDisk[dir]["a.bmp"], name |-> name]>>,
        !.saveOptions = "INCLUDEORIGINALFILE"]

\* Released after the name was set: the image is found again when it is loaded.
Sought ==
  [NewTexture EXCEPT !.slots = <<[image |-> NoImage, name |-> [dir |-> "there", base |-> "b.png"]]>>,
     !.saveOptions = "IMAGEFORMAT", !.saveExt = "bmp"]

MCScene ==
  {<< [NewEntity("3DENTITY") EXCEPT !.mesh = 2, !.potentials = <<2>>], NewMesh, NewMesh>>,
   <<Spot, NewEntity("3DENTITY")>>,
   SetTarget(<<Aimed, Aimed, [NewEntity("3DENTITY") EXCEPT !.mesh = 4, !.potentials = <<4>>], NewMesh>>, 1, 3),
   <<NewLight("LIGHT"), NewCamera("CAMERA")>>,
   <<Coated, NewTexture, [NewMesh EXCEPT !.slots = <<1>>]>>,
   <<Triangle, NewMaterial>>,
   <<[Painted(2) EXCEPT !.useMipmap = TRUE, !.mipmaps = <<NoImage>>]>>,
   <<Filed("here"), Filed("there")>>,
   <<Sought>>}
=============================================================================
