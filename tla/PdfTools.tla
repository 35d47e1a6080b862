----------------------------- MODULE PdfTools ------------------------------
(***************************************************************************)
(* The plans of the qpdf and poppler tools (tools/rex-tool-qpdf and         *)
(* tools/rex-tool-poppler, compile.rs) and their answers (tool.rs).         *)
(***************************************************************************)
EXTENDS ToolWorkspace

-----------------------------------------------------------------------------
(* qpdf.  A write option is [is, value]; the plain ones only add a word.     *)

QpdfInput(pdf) == Input(pdf, "Blob")
Password(p) == Texts(p)

Rotation(r) ==
  Cat(<<Needs(r.angle \in (IF r.relative THEN {-270, -180, -90, 0, 90, 180, 270}
                           ELSE {0, 90, 180, 270})),
        IF r.pages = <<>> THEN Words(1) ELSE Checked(r.pages)>>)

\* The owner password is mandatory; the section ends with its own `--'.
Encryption(spec) ==
  Cat(<<Needs(spec.owner \notin {<<>>, <<"empty">>}), Words(1), Texts(spec.user),
        Texts(spec.owner), Words(IF spec.method = "Aes128" THEN 2 ELSE 1), Words(7),
        Words(IF spec.cleartext THEN 1 ELSE 0), Words(1)>>)

WriteOption(o) ==
  CASE o.is = "CompressionLevel" -> Cat(<<Needs(o.value <= 9), Words(1)>>)
    [] o.is = "Rotate" -> Rotation(o.value)
    [] o.is \in {"MinimumVersion", "ForceVersion"} -> Checked(<<o.value>>)
    [] o.is = "Encrypt" -> Encryption(o.value)
    [] OTHER -> Words(1)

\* One Encrypt at most, and not with a Decrypt on either side of it.
WriteOptions(os) ==
  LET at(name) == {i \in DOMAIN os : os[i].is = name}
  IN Cat(<<Needs(Cardinality(at("Encrypt")) <= 1
                 /\ (at("Encrypt") = {} \/ at("Decrypt") = {}))>>
         \o [i \in DOMAIN os |-> WriteOption(os[i])])

QpdfQuery(r) == Cat(<<Words(1), Password(r.password), QpdfInput(r.pdf)>>)

QpdfJson(r) ==
  Cat(<<Words(1 + Len(r.keys)), Checked(r.objects), Words(2), Password(r.password),
        QpdfInput(r.pdf), Output("Single")>>)

QpdfTransform(r) ==
  Cat(<<WriteOptions(r.options), Password(r.password), QpdfInput(r.pdf),
        Output("Single")>>)

\* Without a primary document its password is not used.
QpdfPages(r) ==
  LET Source(s) == Cat(<<DecoratedInput(s.pdf, "Blob"), Checked(<<s.range>>),
                         Password(s.password)>>)
  IN Cat(<<Needs(r.sources # <<>>), WriteOptions(r.options),
           IF r.primary = <<>> THEN Words(1)
           ELSE Cat(<<Password(r.password), QpdfInput(r.primary[1])>>),
           When(r.collate # <<>>,
                Cat(<<Needs(r.collate[1] # <<>> /\ 0 \notin ToSet(r.collate[1])),
                      Words(1)>>)),
           Words(1)>>
         \o [i \in DOMAIN r.sources |-> Source(r.sources[i])]
         \o <<Words(1), Output("Single")>>)

QpdfSplitPages(r) ==
  Cat(<<Needs(r.pages_per_file > 0), WriteOptions(r.options), Words(1),
        Password(r.password), QpdfInput(r.pdf), SuffixedOutput("Directory")>>)

QpdfOverlay(r) ==
  Cat(<<WriteOptions(r.options), Password(r.password), QpdfInput(r.pdf), Words(1),
        QpdfInput(r.other), Password(r.spec.password), Checked(r.spec.to),
        Checked(r.spec.from), Checked(r.spec.repeat), Words(1), Output("Single")>>)

QpdfVersion == Words(1)

QpdfPlan(r) ==
  CASE r.op \in {"check", "show_npages"} -> QpdfQuery(r)
    [] r.op = "json" -> QpdfJson(r)
    [] r.op = "transform" -> QpdfTransform(r)
    [] r.op = "pages" -> QpdfPages(r)
    [] r.op = "split_pages" -> QpdfSplitPages(r)
    [] r.op \in {"overlay", "underlay"} -> QpdfOverlay(r)
    [] OTHER -> QpdfVersion

-----------------------------------------------------------------------------
(* poppler.  Pages and scales are Option numbers; a resolution is "fine" or  *)
(* "invalid" (not positive).  _xy stands for each of the two fields _x and   *)
(* _y; crop, page selection and antialiasing only add words and are left out.*)

ValidPageRange(first, last) ==
  /\ first # <<0>> /\ last # <<0>>
  /\ first = <<>> \/ last = <<>> \/ first[1] <= last[1]
Pages(r) == Words(2 * (Len(r.first) + Len(r.last)))
ValidPositive(v) == v # <<"invalid">>
OptionText(v) == Cat(<<Words(Len(v)), Texts(v)>>)
Passwords(r) == Cat(<<OptionText(r.owner), OptionText(r.user)>>)
PopplerInput(pdf) == Input(pdf, "Blob")

PdfInfo(r) ==
  Cat(<<Needs(ValidPageRange(r.first, r.last)), Words(2), Pages(r), Passwords(r),
        PopplerInput(r.pdf)>>)

PdfToText(r) ==
  Cat(<<Needs(ValidPageRange(r.first, r.last) /\ ValidPositive(r.resolution)
              /\ ValidPositive(r.spacing)),
        Pages(r), Words(IF r.format = "Plain" THEN 0 ELSE 1),
        Words(2 * Len(r.resolution) + 2 * Len(r.spacing)), Words(4), Passwords(r),
        PopplerInput(r.pdf), Output("Single")>>)

Raster(format) == format \in {"Png", "Jpeg", "Tiff"}
Given(v) == v # <<>>

CairoAccepts(r) ==
  /\ ValidPageRange(r.first, r.last)
  /\ ValidPositive(r.resolution) /\ ValidPositive(r.resolution_xy)
  /\ ~(Given(r.resolution) /\ Given(r.resolution_xy))
  /\ r.scale_to # <<0>>
  /\ Given(r.scale_to_xy) => r.scale_to_xy[1] >= -1 /\ r.scale_to_xy[1] # 0
  /\ ~(Given(r.scale_to) /\ Given(r.scale_to_xy))
  /\ r.single_file => Raster(r.format)
  /\ r.format \in {"Svg", "Eps"} => Given(r.first) /\ r.first = r.last
  /\ r.transparent => r.format = "Png"
  /\ r.color # "Color" => r.format \in {"Png", "Jpeg"}
  /\ r.jpeg_options # <<>> => r.format = "Jpeg"
  /\ Given(r.tiff_compression) => r.format = "Tiff"

\* Raster formats write page-N files into a directory, the others one file.
PdfToCairo(r) ==
  Cat(<<Needs(CairoAccepts(r)), Words(1), Pages(r),
        Words(IF r.single_file THEN 1 ELSE 0),
        Words(2 * (Len(r.resolution) + Len(r.resolution_xy) + Len(r.scale_to)
                   + Len(r.scale_to_xy))),
        Words((IF r.color = "Color" THEN 0 ELSE 1) + (IF r.transparent THEN 1 ELSE 0)),
        Words(2), When(r.jpeg_options # <<>>, Cat(<<Words(1), AsOne(Checked(r.jpeg_options))>>)),
        When(Given(r.tiff_compression), Cat(<<Words(1), Checked(r.tiff_compression)>>)),
        Passwords(r), PopplerInput(r.pdf),
        IF Raster(r.format) THEN SuffixedOutput("Tree") ELSE Output("Single")>>)

ImagesOptions(r) ==
  Cat(<<Needs(ValidPageRange(r.first, r.last)), Pages(r),
        Words(IF r.format = "Default" THEN 0 ELSE 1), Passwords(r)>>)
PdfImages(r) == Cat(<<ImagesOptions(r), PopplerInput(r.pdf), SuffixedOutput("Tree")>>)
PdfImagesList(r) == Cat(<<Words(1), ImagesOptions(r), PopplerInput(r.pdf)>>)
PopplerVersion == Words(1)

PopplerPlan(r) ==
  CASE r.op = "pdfinfo" -> PdfInfo(r)
    [] r.op = "pdftotext" -> PdfToText(r)
    [] r.op = "pdftocairo" -> PdfToCairo(r)
    [] r.op = "pdfimages" -> PdfImages(r)
    [] r.op = "pdfimages_list" -> PdfImagesList(r)
    [] OTHER -> PopplerVersion

-----------------------------------------------------------------------------
(* Answers.  An execution is [exit, outputs, stdout]: outputs[i] the hashes  *)
(* of slot i - 1, stdout "good", "strange" (text that does not parse),       *)
(* "binary" (not UTF-8) or "empty".                                          *)

Ok(files) == [is |-> "Ok", files |-> files]
Refused == [is |-> "InvalidRequest", files |-> <<>>]
ProcessFailed == [is |-> "ProcessFailed", files |-> <<>>]
UnexpectedOutput == [is |-> "UnexpectedOutput", files |-> <<>>]
EngineFailed == [is |-> "EngineError", files |-> <<>>]

One(files) == IF Len(files) = 1 THEN Ok(files) ELSE UnexpectedOutput
Several(files) == IF files # <<>> THEN Ok(files) ELSE UnexpectedOutput

IsWriteSuccess(e) == e.exit \in {0, 3}
SinglePdfOutput(e) == IF IsWriteSuccess(e) THEN One(e.outputs[1]) ELSE ProcessFailed
PdfSequenceOutput(e) ==
  IF IsWriteSuccess(e) THEN Several(e.outputs[1]) ELSE ProcessFailed
CheckAnswer(e) == IF e.exit \in {0, 2, 3} THEN Ok(<<>>) ELSE ProcessFailed
NPagesAnswer(e) ==
  CASE e.exit # 0 -> ProcessFailed
    [] e.exit = 0 /\ e.stdout = "binary" -> EngineFailed
    [] e.exit = 0 /\ e.stdout = "good" -> Ok(<<>>)
    [] OTHER -> UnexpectedOutput
QpdfVersionAnswer(e) ==
  CASE e.exit # 0 -> ProcessFailed
    [] e.exit = 0 /\ e.stdout \in {"binary", "empty"} -> EngineFailed
    [] OTHER -> Ok(<<>>)
JsonAnswer(e) == SinglePdfOutput(e)

QpdfAnswer(r, e) ==
  CASE r.op = "check" -> CheckAnswer(e)
    [] r.op = "show_npages" -> NPagesAnswer(e)
    [] r.op = "version" -> QpdfVersionAnswer(e)
    [] r.op = "json" -> JsonAnswer(e)
    [] r.op = "split_pages" -> PdfSequenceOutput(e)
    [] OTHER -> SinglePdfOutput(e)

\* A tree a tool wrote is a sequence of entries in the order of their names.
\* The name page-N counts N, the name page counts 0; others are refused.
PageNumber(entry) == entry.page
RecognisedPage(entry) == entry.kind = "Blob" /\ entry.page >= 0

FilesByName(tree) == [i \in DOMAIN tree |-> tree[i].file]
\* Stable sort: equal numbers (page-1 and page-01) keep the order of names.
RasterFiles(tree) ==
  LET before(i, j) == \/ PageNumber(tree[i]) < PageNumber(tree[j])
                      \/ PageNumber(tree[i]) = PageNumber(tree[j]) /\ i < j
      order == CHOOSE s \in [DOMAIN tree -> DOMAIN tree] :
                 \A i, j \in DOMAIN tree : i < j => before(s[i], s[j])
  IN [i \in DOMAIN tree |-> tree[order[i]].file]

CairoAnswer(r, e) ==
  LET multiple == Raster(r.format) /\ ~r.single_file
      trees == e.outputs[1]
      files == IF Raster(r.format) THEN RasterFiles(trees[1]) ELSE trees
  IN IF e.exit # 0 THEN ProcessFailed
     ELSE IF Raster(r.format) /\ Len(trees) # 1 THEN UnexpectedOutput
     ELSE IF Raster(r.format) /\ \E i \in DOMAIN trees[1] : ~RecognisedPage(trees[1][i])
     THEN UnexpectedOutput
     ELSE IF multiple THEN Several(files) ELSE One(files)

\* pdfimages answers the tree itself.
ImagesAnswer(e) == IF e.exit = 0 THEN One(e.outputs[1]) ELSE ProcessFailed
TextAnswer(e) == IF e.exit = 0 THEN One(e.outputs[1]) ELSE ProcessFailed
InfoAnswer(e) ==
  IF e.exit # 0 THEN ProcessFailed
  ELSE IF e.stdout = "good" THEN Ok(<<>>) ELSE UnexpectedOutput
ImagesListAnswer(e) == InfoAnswer(e)
PopplerVersionAnswer(e) ==
  IF e.exit # 0 THEN ProcessFailed
  ELSE IF e.stdout = "empty" THEN EngineFailed ELSE Ok(<<>>)

PopplerAnswer(r, e) ==
  CASE r.op = "pdfinfo" -> InfoAnswer(e)
    [] r.op = "pdfimages_list" -> ImagesListAnswer(e)
    [] r.op = "pdftotext" -> TextAnswer(e)
    [] r.op = "pdftocairo" -> CairoAnswer(r, e)
    [] r.op = "pdfimages" -> ImagesAnswer(e)
    [] OTHER -> PopplerVersionAnswer(e)
=============================================================================
