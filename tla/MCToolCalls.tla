---------------------------- MODULE MCToolCalls ----------------------------
(***************************************************************************)
(* The requests that ToolCalls is checked on.                               *)
(***************************************************************************)
EXTENDS ToolCalls

\* All records made of base and one of the given choices for other fields.
With(base, choices) == {c @@ base : c \in choices}

-----------------------------------------------------------------------------
(* qpdf and poppler.                                                         *)

W(is, value) == [is |-> is, value |-> value]
Owner(o, method) == [owner |-> o, user |-> <<"fine">>, method |-> method, cleartext |-> TRUE]
Turn(angle, relative, pages) == [angle |-> angle, relative |-> relative, pages |-> pages]
WriteOptionLists ==
  {<<>>, <<W("Linearize", 0), W("CompressionLevel", 9)>>, <<W("CompressionLevel", 10)>>,
   <<W("Rotate", Turn(-90, TRUE, <<"fine">>))>>, <<W("Rotate", Turn(-90, FALSE, <<>>))>>,
   <<W("Encrypt", Owner(<<"fine">>, "Aes128")), W("MinimumVersion", "fine")>>,
   <<W("Encrypt", Owner(<<>>, "Aes256"))>>,
   <<W("Decrypt", 0), W("Encrypt", Owner(<<"nul">>, "Aes256"))>>,
   <<W("Encrypt", Owner(<<"fine">>, "Aes256")), W("Encrypt", Owner(<<"fine">>, "Aes256"))>>}

Qpdf == [tool |-> "qpdf", pdf |-> "p", password |-> <<>>, options |-> <<>>]
Sources == {<<>>, <<[pdf |-> "q", range |-> "fine", password |-> <<>>],
                    [pdf |-> "p", range |-> "fine", password |-> <<"fine">>]>>}
Stamp(v) == [password |-> <<"fine">>, to |-> <<v>>, from |-> <<>>, repeat |-> <<"fine">>]
QpdfRequests ==
  With(Qpdf,
    [op : {"check", "show_npages", "version"}, password : {<<>>, <<"nul">>}]
    \cup [op : {"transform"}, options : WriteOptionLists]
    \cup [op : {"json"}, keys : {<<"objects">>}, objects : {<<>>, <<"fine">>, <<"invalid">>}]
    \cup [op : {"pages"}, sources : Sources, primary : {<<>>, <<"p">>},
          collate : {<<>>, <<<<>>>>, <<<<1, 0>>>>, <<<<2, 1>>>>}]
    \cup [op : {"split_pages"}, pages_per_file : {0, 2}]
    \cup [op : {"overlay", "underlay"}, other : {"p", "q"}, spec : {Stamp("fine"), Stamp("invalid")}])

PageRanges == [first : {<<>>, <<0>>, <<2>>}, last : {<<>>, <<1>>, <<2>>}]
Poppler == [tool |-> "poppler", pdf |-> "p", owner |-> <<"fine">>, user |-> <<>>, first |-> <<>>, last |-> <<>>,
            resolution |-> <<>>, resolution_xy |-> <<>>, spacing |-> <<>>,
            scale_to |-> <<>>, scale_to_xy |-> <<>>, single_file |-> FALSE,
            color |-> "Color", transparent |-> FALSE, jpeg_options |-> <<>>, tiff_compression |-> <<>>]
CairoChoices ==
  [op : {"pdftocairo"}, format : {"Png", "Jpeg", "Tiff", "Pdf", "Svg"}]
  \cup [op : {"pdftocairo"}, format : {"Svg"}, first : {<<2>>}, last : {<<2>>}]
  \cup [op : {"pdftocairo"}, format : {"Png", "Pdf"}, single_file : {TRUE}, transparent : BOOLEAN]
  \cup [op : {"pdftocairo"}, format : {"Jpeg"}, jpeg_options : {<<"fine", "invalid">>, <<"fine">>},
        scale_to : {<<>>, <<1>>}, scale_to_xy : {<<>>, <<-1>>, <<0>>}]
  \cup [op : {"pdftocairo"}, format : {"Tiff"}, tiff_compression : {<<"fine">>},
        resolution : {<<>>, <<"fine">>, <<"invalid">>}, resolution_xy : {<<>>, <<"fine">>}]
PopplerRequests ==
  With(Poppler,
    {c @@ [op |-> "pdfinfo"] : c \in PageRanges}
    \cup [op : {"pdftotext"}, format : {"Plain", "Html"}, spacing : {<<>>, <<"invalid">>}]
    \cup [op : {"pdfimages", "pdfimages_list"}, format : {"Default", "Png"}, user : {<<>>, <<"nul">>}]
    \cup [op : {"version"}] \cup CairoChoices)

\* page-1, page-10 and page-2 in the order of names, a file that is no page,
\* and a directory.
TreeEntry(page, kind, file) == [page |-> page, kind |-> kind, file |-> file]
MCTrees ==
  {<<TreeEntry(1, "Blob", "f1"), TreeEntry(10, "Blob", "f10"), TreeEntry(2, "Blob", "f2")>>,
   <<TreeEntry(0, "Blob", "f0")>>, <<TreeEntry(-1, "Blob", "log")>>,
   <<TreeEntry(1, "Tree", "dir")>>, <<>>}

-----------------------------------------------------------------------------
(* ffmpeg.                                                                   *)

Copy(kind) == [is |-> "Copy", kind |-> kind, codec |-> "copy", options |-> <<>>]
Encode(is, codec) == [is |-> is, codec |-> codec, options |-> <<"fine">>]
From(input, kind, index) == [is |-> "Input", input |-> input, kind |-> kind, index |-> <<index>>]
Label(kind) == [is |-> "Filter", label |-> "fine", kind |-> kind]
Stream(source, encoding) == [source |-> source, encoding |-> encoding, metadata |-> 1]

StreamChoices ==
  {Stream(From(0, "Video", 0), Copy("Video")), Stream(Label("Video"), Encode("Video", "h264")),
   Stream(From(1, "Audio", 1), Encode("Audio", "aac")), Stream(From(0, "Audio", 0), Copy("Audio")),
   Stream(From(0, "Data", 0), Encode("Data", "bin"))}
StreamLists ==
  UNION {[1..n -> StreamChoices] : n \in 0..2}
  \cup {<<Stream(From(0, "Video", 0), Copy("Video")), Stream(Label("Video"), Encode("Video", "h264")),
          Stream(From(0, "Video", 1), Copy("Video"))>>,
        <<Stream(From(0, "Unknown", 0), Copy("Unknown"))>>,
        <<Stream(From(0, "Video", 0), Encode("Video", "invalid"))>>}
Mode(is) == [is |-> is, segment_format |-> "fine"]
MediaOutput(streams, mode) ==
  [streams |-> streams, options |-> <<"fine">>, metadata |-> 1, format |-> "fine", mode |-> mode]

Stored_(media) == [source |-> [is |-> "StoredMedia", media |-> media], options |-> <<"fine">>]
Package(tree) == [source |-> [is |-> "StoredPackage", package |-> tree], options |-> <<>>]
Made == [source |-> [is |-> "Lavfi", text |-> "fine"], options |-> <<>>]
Burn(fonts) == [is |-> "BurnSubtitles", subtitles |-> "s", fonts |-> fonts, text |-> "fine"]
Title(fonts) == [is |-> "DrawText", fonts |-> fonts, text |-> "nul"]
Chain(filters) == [inputs |-> <<From(0, "Video", 0)>>, outputs |-> <<"fine">>, filters |-> filters]

Ffmpeg == [tool |-> "ffmpeg", media |-> "m", options |-> <<"fine">>, metadata |-> 1, format |-> "fine"]
RenderBase == [op |-> "render", inputs |-> <<Made, Stored_("m")>>, chains |-> <<>>]
FirstTwo == MediaOutput(<<Stream(From(0, "Video", 0), Copy("Video")),
                          Stream(From(0, "Audio", 0), Encode("Audio", "aac"))>>, Mode("HlsStreaming"))
Renders ==
  With(RenderBase,
    [outputs : {<<FirstTwo, MediaOutput(s, Mode("SingleFile"))>> : s \in StreamLists}]
    \cup [outputs : {<<MediaOutput(<<Stream(Label("Video"), Encode("Video", "h264"))>>, Mode(m))>> :
                       m \in {"NumberedFiles", "SegmentedFiles", "DashStreaming"}},
          inputs : {<<Package("t"), Stored_("m")>>, <<>>},
          chains : {<<Chain(<<Burn(<<"n", "o">>), Title(<<>>)>>)>>, <<Chain(<<>>)>>,
                    <<Chain(<<Title(<<"n">>), Burn(<<>>), [is |-> "Audio", text |-> "fine"]>>)>>}])

Encodings ==
  {[Video |-> v, Audio |-> a, Subtitle |-> s] :
     v \in {<<>>, <<Encode("Video", "h264")>>}, a \in {<<>>, <<Copy("Audio")>>},
     s \in {<<>>, <<Encode("Subtitle", "srt")>>}}
Chosen(v, a) == [Video |-> v, Audio |-> a, Subtitle |-> <<>>]
Simples ==
  With([source |-> Stored_("m").source, trims |-> 1, video_filters |-> <<Title(<<"n">>)>>,
        audio_filters |-> <<>>],
    [op : {"transcode"}, mode : {SingleFileMode}, encoding : Encodings, dropped : {{}, {"Video"}},
     selected : {Chosen(<<>>, <<>>), Chosen(<<1>>, <<>>), Chosen(<<>>, <<1>>)}]
    \cup [op : {"segment"}, mode : {Mode("SegmentedFiles")}, encoding : Encodings, dropped : {{}},
          selected : {Chosen(<<>>, <<>>)}]
    \cup [op : {"package_hls"}, mode : {Mode("HlsStreaming")}, encoding : Encodings, dropped : {{}},
          selected : {Chosen(<<>>, <<>>)}]
    \cup [op : {"package_dash"}, mode : {Mode("DashStreaming")}, encoding : Encodings, dropped : {{}},
          selected : {Chosen(<<>>, <<>>)}])
Mapping_(input, kind, copy) == [input |-> input, kind |-> kind, index |-> <<0>>, copy |-> copy]
Muxes ==
  [op : {"mux"}, media : {<<"m", "n">>}, encoding : Encodings,
   mappings : {<<>>} \cup UNION {[1..n -> {Mapping_(0, "Video", TRUE), Mapping_(1, "Video", FALSE),
                                           Mapping_(2, "Audio", TRUE), Mapping_(1, "Audio", TRUE),
                                           Mapping_(0, "Data", FALSE)}] : n \in 1..2}]
MediaRequests ==
  With(Ffmpeg,
    Renders \cup Simples \cup Muxes
    \cup [op : {"remux", "version", "capabilities"}]
    \cup [op : {"extract_audio"}, encoding : {Encode("Audio", "aac"), Encode("Audio", "invalid")}]
    \cup [op : {"extract_frames"}, encoding : {Encode("Video", "png")}, at : {<<>>}, size : {<<>>}, n : {0, 2}, times : {0},
          selection : {"EveryFrame", "FramesPerSecond", "SceneChanges", "EveryNth"}]
    \cup [op : {"extract_frames"}, encoding : {Encode("Video", "png")}, at : {<<1>>}, size : {<<>>}, times : 0..2,
          selection : {"AtTimes"}]
    \cup [op : {"thumbnail"}, encoding : {Encode("Video", "png")}, at : {<<>>, <<1>>}, size : {<<1>>}]
    \cup [op : {"concatenate"}, media : {<<"m">>, <<"m", "n">>}, video : BOOLEAN, audio : BOOLEAN,
          encoding : Encodings, normalize : {<<"fine">>}]
    \cup [op : {"probe"}, intervals : {<<>>, <<"fine">>}]
    \cup [op : {"inspect"}, intervals : {<<>>}, stream : {<<>>, <<"Video">>, <<"Unknown">>}])

-----------------------------------------------------------------------------
(* imagemagick.                                                              *)

Magick == [tool |-> "imagemagick"]
To(mode) == [format |-> "fine", options |-> <<"fine">>, mode |-> mode]
StoredImage == [is |-> "Stored", image |-> "i", options |-> <<W("Profile", "p"), W("Depth", "fine")>>]
Canvas == [is |-> "Canvas", text |-> "fine"]
OperationLists ==
  {<<W("Resize", "fine"), W("Clut", "j")>>, <<W("ApplyProfile", "p"), W("Extent", "nul")>>,
   <<[is |-> "Draw", styles |-> <<W("Font", "f"), W("Fill", "fine")>>, value |-> <<3, 1>>]>>,
   <<[is |-> "Draw", styles |-> <<>>, value |-> <<0>>]>>,
   <<W("AddNoise", "fine"), W("Opaque", "fine"), W("Distort", "best_fit"), W("Annotate", "fine")>>}
MagickRequests ==
  With(Magick,
    [op : {"render", "generate"}, encoding : {To("Adjoin"), To("Separate")},
     instructions : {<<W("Read", StoredImage), W("Setting", W("Font", "f")), W("Group", o),
                       W("Sequence", W("MergeLayers", "fine"))>> : o \in OperationLists}
                    \cup {<<W("Read", Canvas)>>}]
    \cup [op : {"transform"}, source : {StoredImage, Canvas}, operations : OperationLists,
          encoding : {To("Separate"), [To("Adjoin") EXCEPT !.format = "invalid"]}]
    \cup [op : {"transform_many"}, images : {<<>>, <<"i", "j">>}, operations : OperationLists,
          encoding : {To("Adjoin"), To("Separate")}]
    \cup [op : {"identify", "version", "formats", "capabilities"}, image : {"i"}]
    \cup [op : {"compare"}, first : {"i"}, second : {"j"}, options : {<<"fine">>}]
    \cup [op : {"composite"}, overlay : {"i"}, background : {"j"}, mask : {<<>>, <<"k">>},
          options : {<<>>}, encoding : {To("Adjoin")}]
    \cup [op : {"montage"}, images : {<<>>, <<"i">>}, options : {<<W("Font", "f"), W("Tile", "fine")>>},
          encoding : {To("Adjoin")}]
    \cup [op : {"extract_pixels"}, image : {"i"}, channels : {<<>>, <<"r">>}])

-----------------------------------------------------------------------------
(* graphviz: subgraphs with any children, and nodes and edges in them.       *)

Edge(a, b) == [from |-> a, to |-> b, port |-> "fine", attributes |-> "fine"]
Sub(node, children) ==
  [nodes |-> {node}, edges |-> <<Edge(node, 9)>>, children |-> children, attributes |-> "fine",
   marks |-> "fine"]
ChildLists == {<<>>, <<1>>, <<2>>, <<3>>, <<2, 3>>, <<3, 2>>, <<1, 1>>}
Graph_(children) ==
  [nodes |-> {9}, edges |-> <<Edge(9, 9), Edge(9, 2)>>, attributes |-> "fine",
   marks |-> "fine", defaults |-> "fine",
   subgraphs |-> [k \in DOMAIN children |-> Sub(k, children[k])]]
Pair == Graph_(<<<<2>>, <<>>>>)
\* One too many inside each other: the last is met first, and the first.
Chains == {Graph_(<<<<>>, <<1>>, <<2>>, <<3>>>>), Graph_(<<<<2>>, <<3>>, <<4>>, <<>>>>)}
Graphs_ ==
  {Graph_(children) : children \in [1..3 -> ChildLists]} \cup Chains
  \cup {[Pair EXCEPT !.nodes = {1, 9}], [Pair EXCEPT !.edges = <<Edge(9, 7)>>],
        [Pair EXCEPT !.attributes = "invalid"], [Pair EXCEPT !.defaults = "invalid"],
        [Pair EXCEPT !.subgraphs[1].attributes = "invalid"],
        [Pair EXCEPT !.subgraphs[2].marks = "invalid"],
        [Pair EXCEPT !.subgraphs[2].edges[1].attributes = "invalid"]}
GraphRequests ==
  With([tool |-> "graphviz"], [op : {"render"}, graph : Graphs_] \cup [op : {"version"}])

-----------------------------------------------------------------------------
(* gnuplot: figures of two or three panels that leave different settings.    *)

Axis(label, scale, range, format) ==
  [label |-> label, scale |-> scale, range |-> range, reversed |-> label # <<>>, format |-> format]
PlainAxis == Axis(<<>>, "Linear", "auto", "auto")
LogAxis == Axis(<<"fine">>, "Log", "Numeric", "Numeric")
TimeAxis(range) == Axis(<<"fine">>, "Linear", range, "Time")
Line(axes, domain) == [is |-> "Line", axes |-> axes, domain |-> domain, data |-> "fine"]
Panel0 == [legend |-> "off", grid |-> "off", palette |-> "p", title |-> <<>>, colorbox |-> FALSE,
           annotations |-> <<>>, x |-> PlainAxis, y |-> PlainAxis, cb |-> PlainAxis]
Flat == [is |-> "2D", x2 |-> <<>>, y2 |-> <<>>, ratio |-> <<>>, series |-> <<Line("Primary", "Numeric")>>]
Solid == [is |-> "3D", z |-> PlainAxis, view |-> "60,30,1", series |-> <<[is |-> "Surface", data |-> "fine"]>>]
Simple == Flat @@ Panel0
Rich == [x2 |-> <<TimeAxis("auto")>>, y2 |-> <<LogAxis>>, legend |-> "left", grid |-> "minor", title |-> <<"fine">>,
         series |-> <<Line("Secondary", "Time"), Line("Primary", "Numeric")>>, x |-> LogAxis,
         ratio |-> <<"fine">>, colorbox |-> TRUE] @@ Simple
Marked == [annotations |-> <<[is |-> "label", text |-> "a"], [is |-> "arrow", text |-> "b"]>>] @@ Rich
Timed(axis) == [x |-> axis, series |-> <<Line("Primary", "Time")>>] @@ Simple
Bars(arrangement) == [series |-> <<[is |-> "Bar", axes |-> "Primary", domain |-> "Numeric",
                                    arrangement |-> arrangement, data |-> "fine"]>>] @@ Simple
Surface == Solid @@ Panel0
Contours == [series |-> <<[is |-> "ContourLines", data |-> "fine"]>>, view |-> "90,0,2",
             z |-> LogAxis, annotations |-> <<[is |-> "label", text |-> "c"]>>] @@ Surface
BadPanels ==
  {[series |-> <<Line("Primary", "Numeric"), Line("Primary", "Time")>>] @@ Simple,
   [series |-> <<Line("SecondaryY", "Numeric")>>] @@ Simple,
   [series |-> Bars("Stacked").series \o Simple.series] @@ Simple,
   [series |-> Contours.series \o Surface.series] @@ Surface,
   Timed(Axis(<<>>, "Log", "auto", "auto")), Timed(Axis(<<>>, "Linear", "Numeric", "Time")),
   Timed(Axis(<<>>, "Linear", "Time", "Numeric")), [x2 |-> <<LogAxis>>] @@ Rich}
  \cup {[x |-> a] @@ Surface :
          a \in {Axis(<<>>, "invalid", "auto", "auto"), Axis(<<>>, "Log", "invalid", "auto"),
                 Axis(<<>>, "Log", "auto", "invalid"), TimeAxis("auto"),
                 Axis(<<>>, "Linear", "Time", "auto")}}

\* No sample of these lies on an inner boundary that f64 does not hold.
Histogram(samples, bins, range) ==
  [series |-> <<[is |-> "Histogram", axes |-> "Primary", domain |-> "Numeric",
                 histogram |-> [samples |-> samples, bins |-> bins, range |-> range]]>>] @@ Simple
Histograms ==
  {Histogram(s, [is |-> b, n |-> n], r) :
     s \in {<<>>, <<0, 3, 1>>, <<2, 2>>, <<5, 0, 4>>}, b \in {"Count", "Width"}, n \in 0..3,
     r \in {<<>>, <<<<0, 4>>>>, <<<<4, 0>>>>}}

Figure(panels, columns, rows) ==
  [panels |-> panels, columns |-> columns, rows |-> rows, spacing |-> "fine", theme |-> "fine"]
PanelChoices == {<<>>, <<Simple>>, <<Marked>>, <<Timed(TimeAxis("Time"))>>, <<Bars("Stacked")>>, <<Surface>>, <<Contours>>}
Figures ==
  {Figure(<<p, q>>, 2, <<>>) : p, q \in PanelChoices}
  \cup {Figure(<<<<Marked>>, p, q>>, 2, <<2>>) : p, q \in PanelChoices}
  \cup {Figure(<<<<p>>>>, 1, <<>>) : p \in BadPanels \cup Histograms}
  \cup {Figure(<<<<Simple>>>>, 0, <<1>>), Figure(<<>>, 1, <<>>),
        Figure(<<<<Simple>>, <<Simple>>, <<Simple>>>>, 1, <<2>>)}
PlotRequests ==
  With([tool |-> "gnuplot"],
       [op : {"render_png", "render_svg", "render_pdf"}, figure : Figures, terminal : {"fine"}]
       \cup [op : {"render_png"}, figure : {Figure(<<<<Simple>>>>, 1, <<>>)}, terminal : {"invalid"}]
       \cup [op : {"version"}])

MCRequests ==
  QpdfRequests \cup PopplerRequests \cup MediaRequests \cup MagickRequests
  \cup GraphRequests \cup PlotRequests
=============================================================================
