----------------------------- MODULE ImageTool -----------------------------
(***************************************************************************)
(* The plans and answers of the ImageMagick tool                            *)
(* (tools/rex-tool-imagemagick).  Settings and operations are [is, value]:  *)
(* most become one or two words; those that read another stored object have *)
(* its hash as their value.                                                 *)
(***************************************************************************)
EXTENDS MediaTool

ImageInput(hash) == Input(hash, "Blob")
WithFile(hash) == Cat(<<Words(1), ImageInput(hash)>>)
Option2(v) == Cat(<<Words(1), Texts(<<v>>)>>)

FormatName(f) == Needs(f # "invalid")

-----------------------------------------------------------------------------
(* Settings, operations and sources.                                         *)

ImageSetting(s) == IF s.is = "Font" THEN WithFile(s.value) ELSE Option2(s.value)

DrawStyle(s) == IF s.is = "Font" THEN WithFile(s.value) ELSE Option2(s.value)
\* A primitive is the number of its points, or <<>> where it has a fixed one.
DrawProgram(primitives) ==
  Cat(<<Needs(primitives # <<>> /\ \A i \in DOMAIN primitives : primitives[i] # 0),
        Words(2)>>)

\* What an operation adds to the command line: most a name and one value, the
\* ones of Bare only a name, some several options.  The value of an operation
\* of Free is a text of the request.
Bare == {"AutoGamma", "AutoLevel", "AutoOrient", "Trim", "Flip", "Flop", "Transpose",
         "Transverse", "Despeckle", "Enhance", "Clamp", "Normalize", "Equalize",
         "Contrast", "Negate", "SeparateChannels", "ForwardFft", "InverseFft",
         "Integral", "Monochrome", "WhiteBalance", "UniqueColors", "StripMetadata"}
Free == {"AutoThreshold", "BilateralBlur", "Clahe", "Level", "ContrastStretch",
         "LinearStretch", "Threshold", "BlackThreshold", "WhiteThreshold", "SepiaTone",
         "Solarize", "ColorThreshold", "HoughLines", "Kmeans", "LocalAdaptiveThreshold",
         "LocalContrast", "MeanShift", "Deskew", "OrderedDither", "RandomThreshold",
         "RangeThreshold", "Raise", "Reshape", "Segment", "Unsharp", "Vignette",
         "DeleteProperty", "RemoveProfile", "FxExpression", "Shadow", "Define"}
PlainOperation(o) ==
  IF o.is \in Bare THEN Words(1) ELSE IF o.is \in Free THEN Option2(o.value) ELSE Words(2)

GeometryOperation(o) ==
  IF o.is = "Extent" THEN Cat(<<Words(3), Texts(<<o.value>>), Words(2)>>)
  ELSE PlainOperation(o)
NoiseOperation(o) == IF o.is = "AddNoise" THEN Words(4) ELSE PlainOperation(o)
ColorOperation(o) ==
  CASE o.is \in {"Colorize", "Transparent", "Opaque"} ->
         Cat(<<Option2(o.value), Option2(o.value)>>)
    [] o.is = "FloodFill" -> Cat(<<Option2(o.value), Words(2)>>)
    [] o.is = "CombineChannels" -> Words(3)
    [] OTHER -> PlainOperation(o)
EffectOperation(o) ==
  CASE o.is = "Morphology" -> Cat(<<Words(2), Texts(<<o.value>>)>>)
    [] o.is = "Distort" -> Words(3 + (IF o.value = "best_fit" THEN 2 ELSE 0))
    [] o.is = "Posterize" -> Words(2 + (IF o.value = "dither" THEN 0 ELSE 1))
    [] o.is = "Quantize" -> Words(4)
    [] o.is = "Statistic" -> Cat(<<Words(1), Texts(<<o.value, o.value>>)>>)
    [] OTHER -> PlainOperation(o)
PropertyOperation(o) ==
  CASE o.is = "Annotate" -> Cat(<<Words(2), Texts(<<o.value>>)>>)
    [] o.is = "SetProperty" -> Cat(<<Words(1), Texts(<<o.value, o.value>>)>>)
    [] o.is = "Evaluate" -> Words(3)
    [] o.is = "Border" -> Cat(<<Option2(o.value), Words(2)>>)
    [] o.is = "Frame" -> Cat(<<Option2(o.value), Option2(o.value)>>)
    [] OTHER -> PlainOperation(o)
MaskOperation(o) == WithFile(o.value)
ProfileOperation(o) == WithFile(o.value)
Draw(o) ==
  Cat([i \in DOMAIN o.styles |-> DrawStyle(o.styles[i])] \o <<DrawProgram(o.value)>>)

ImageOperation(o) ==
  CASE o.is \in {"Clut", "HaldClut", "ReadMask", "WriteMask"} -> MaskOperation(o)
    [] o.is \in {"ApplyProfile", "ColorDecisionList"} -> ProfileOperation(o)
    [] o.is = "Draw" -> Draw(o)
    [] o.is \in {"AutoGamma", "AutoLevel", "AutoOrient", "AutoThreshold", "Resize",
                  "Crop", "Extent", "Trim", "Rotate"} -> GeometryOperation(o)
    [] o.is \in {"Blur", "BilateralBlur", "Clahe", "Despeckle", "AddNoise"} ->
         NoiseOperation(o)
    [] o.is \in {"Morphology", "Kmeans", "Distort", "Posterize", "Quantize",
                  "Statistic", "Vignette"} -> EffectOperation(o)
    [] o.is \in {"Annotate", "StripMetadata", "SetProperty", "DeleteProperty",
                  "RemoveProfile", "Evaluate", "FxExpression", "Border", "Frame",
                  "Define"} -> PropertyOperation(o)
    [] OTHER -> ColorOperation(o)
Operations(os) == Cat([i \in DOMAIN os |-> ImageOperation(os[i])])

\* A profile read option takes a slot before the image does.
ReadOption(o) ==
  CASE o.is = "Profile" -> WithFile(o.value)
    [] o.is = "FormatHint" -> FormatName(o.value)
    [] OTHER -> Option2(o.value)
ImageSource(s) ==
  IF s.is = "Stored"
  THEN Cat([i \in DOMAIN s.options |-> ReadOption(s.options[i])]
           \o <<DecoratedInput(s.image, "Blob")>>)
  ELSE Cat(<<Words(2), Texts(<<s.text>>)>>)

SequenceOperation(o) == Option2(o.value)
ImageInstruction(i) ==
  CASE i.is = "Read" -> ImageSource(i.value)
    [] i.is = "Setting" -> ImageSetting(i.value)
    [] i.is = "Operation" -> ImageOperation(i.value)
    [] i.is = "Group" -> Cat(<<Words(1), Operations(i.value), Words(1)>>)
    [] OTHER -> SequenceOperation(i.value)

-----------------------------------------------------------------------------
(* Plans.                                                                    *)

ImageWriteOptions(vs) == Texts(vs)
ImageEncoding(e) ==
  Cat(<<FormatName(e.format), ImageWriteOptions(e.options),
        [Output(IF e.mode = "Adjoin" THEN "Single" ELSE "Numbered")
         EXCEPT !.args = <<Joined(<<Literal, Slot("Output", 0)>>)>>]>>)

ImageRender(r) ==
  Cat([i \in DOMAIN r.instructions |-> ImageInstruction(r.instructions[i])]
      \o <<ImageEncoding(r.encoding)>>)
ImageTransform(r) ==
  Cat(<<ImageSource(r.source), Operations(r.operations), ImageEncoding(r.encoding)>>)
TransformMany(r) ==
  Cat(<<Needs(r.images # <<>> /\ r.encoding.mode = "Adjoin"),
        FormatName(r.encoding.format), Operations(r.operations),
        ImageWriteOptions(r.encoding.options), Words(3), Output("Directory")>>
      \o [i \in DOMAIN r.images |-> ImageInput(r.images[i])])
Identify(r) == Cat(<<Words(2), ImageInput(r.image)>>)
Compare(r) ==
  Cat(<<Texts(r.options), Words(2), ImageInput(r.first), ImageInput(r.second),
        [Output("Single") EXCEPT !.args = <<Joined(<<Literal, Slot("Output", 0)>>)>>]>>)
\* The overlay comes first.
Composite(r) ==
  Cat(<<Words(2), Texts(r.options), ImageInput(r.overlay), ImageInput(r.background),
        When(r.mask # <<>>, ImageInput(r.mask[1])), ImageEncoding(r.encoding)>>)
Montage(r) ==
  Cat(<<Needs(r.images # <<>>), Words(1)>>
      \o [i \in DOMAIN r.options |-> ImageSetting(r.options[i])]
      \o [i \in DOMAIN r.images |-> ImageInput(r.images[i])]
      \o <<ImageEncoding(r.encoding)>>)
ExtractPixels(r) ==
  Cat(<<Needs(r.channels # <<>>), Words(4), ImageInput(r.image), Output("Single")>>)
ImageVersion == Words(1)
ImageList == Words(2)

ImagePlan(r) ==
  CASE r.op \in {"render", "generate"} -> ImageRender(r)
    [] r.op = "transform" -> ImageTransform(r)
    [] r.op = "transform_many" -> TransformMany(r)
    [] r.op = "identify" -> Identify(r)
    [] r.op = "compare" -> Compare(r)
    [] r.op = "composite" -> Composite(r)
    [] r.op = "montage" -> Montage(r)
    [] r.op = "extract_pixels" -> ExtractPixels(r)
    [] r.op = "version" -> ImageVersion
    [] OTHER -> ImageList

-----------------------------------------------------------------------------
(* Answers.                                                                  *)

ImageOutput(e) == IF e.exit = 0 THEN Several(e.outputs[1]) ELSE ProcessFailed
TransformManyAnswer(e) == ImageOutput(e)
FirstOf(files) == IF files = <<>> THEN <<>> ELSE <<files[1]>>
PixelsAnswer(e) == IF e.exit = 0 THEN Several(FirstOf(e.outputs[1])) ELSE ProcessFailed
\* Exit code 1 says that the images differ; the difference image is optional.
CompareAnswer(e) ==
  IF e.exit \notin {0, 1} THEN ProcessFailed
  ELSE IF e.stdout # "good" THEN EngineFailed
  ELSE Ok(FirstOf(e.outputs[1]))
IdentifyAnswer(e) ==
  IF e.exit # 0 THEN ProcessFailed
  ELSE IF e.stdout = "good" THEN Ok(<<>>) ELSE UnexpectedOutput
ImageVersionAnswer(e) ==
  IF e.exit # 0 THEN ProcessFailed
  ELSE IF e.stdout = "good" THEN Ok(<<>>) ELSE UnexpectedOutput
ImageListAnswer(e) == IF e.exit = 0 THEN Ok(<<>>) ELSE ProcessFailed

ImageAnswer(r, e) ==
  CASE r.op \in {"render", "generate", "transform", "composite", "montage"} -> ImageOutput(e)
    [] r.op = "transform_many" -> TransformManyAnswer(e)
    [] r.op = "extract_pixels" -> PixelsAnswer(e)
    [] r.op = "compare" -> CompareAnswer(e)
    [] r.op = "identify" -> IdentifyAnswer(e)
    [] r.op = "version" -> ImageVersionAnswer(e)
    [] OTHER -> ImageListAnswer(e)
=============================================================================
