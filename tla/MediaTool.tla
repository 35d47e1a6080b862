----------------------------- MODULE MediaTool -----------------------------
(***************************************************************************)
(* The plans and answers of the ffmpeg tool (tools/rex-tool-ffmpeg).        *)
(*                                                                          *)
(* A stream reference is [is |-> "Input", input, kind, index] (index an     *)
(* Option) or [is |-> "Filter", label, kind], the kind of a filter label    *)
(* being what the graph produces.  An encoding is [is, codec, options] with *)
(* is one of Copy (and kind), Video, Audio, Subtitle, Data.                 *)
(***************************************************************************)
EXTENDS PdfTools

MediaKinds == {"Video", "Audio", "Subtitle", "Data", "Attachment", "Unknown"}

\* stream_kind_letter has a letter for all kinds but Unknown.
Letter(kind) ==
  [Video |-> "v", Audio |-> "a", Subtitle |-> "s", Data |-> "d",
   Attachment |-> "t", Unknown |-> "?"][kind]
KnownKind(kind) == kind # "Unknown"

MediaInput(hash) == Input(hash, "Blob")
Option(name, value) == Args(<<Opt(name, value)>>)

-----------------------------------------------------------------------------
(* Sources and filters.                                                      *)

\* Sources that FFmpeg makes itself take no input slot, and count as inputs.
MediaSource(s) ==
  CASE s.is = "StoredMedia" -> Cat(<<Option("i", s), MediaInput(s.media)>>)
    [] s.is = "StoredPackage" -> Cat(<<Option("i", s), DecoratedInput(s.package, "Tree")>>)
    [] OTHER -> Cat(<<Words(2), Option("i", s), Checked(<<s.text>>)>>)
InputOptions(vs) == Checked(vs)
CompileInput(i) == Cat(<<InputOptions(i.options), MediaSource(i.source)>>)
StoredMedia(media) == Cat(<<Option("i", media), MediaInput(media)>>)

\* Only the directory of the first font is named: all are in it.
SubtitleFonts(fonts) ==
  [Cat([i \in DOMAIN fonts |-> SilentInput(fonts[i], "Blob")])
   EXCEPT !.args = <<Literal, Slot("InputParent", 0), Literal>>]

FontFile(font) == DecoratedInput(font, "Blob")

VideoFilter(f) ==
  CASE f.is = "DrawText" ->
         Cat(<<Texts(<<f.text>>), When(f.fonts # <<>>, FontFile(f.fonts[1]))>>)
    [] f.is = "BurnSubtitles" ->
         Cat(<<DecoratedInput(f.subtitles, "Blob"),
               When(f.fonts # <<>>, SubtitleFonts(f.fonts)), Texts(<<f.text>>)>>)
    [] OTHER -> Checked(<<f.text>>)
AudioFilter(f) == Checked(<<f.text>>)
MediaFilter(f) == IF f.is = "Audio" THEN AudioFilter(f) ELSE VideoFilter(f)

FilterChain(name, filters) ==
  When(filters # <<>>,
       Cat(<<Option(name, 0),
             AsOne(Cat([i \in DOMAIN filters |-> MediaFilter(filters[i])]))>>))

ValidPad(pad) == pad.is = "Filter" \/ KnownKind(pad.kind)
FilterPads(chain) ==
  Cat(<<Needs(\A i \in DOMAIN chain.inputs : ValidPad(chain.inputs[i])),
        Checked(chain.outputs)>>)
FilterGraph(chains) ==
  LET Chain(c) == Cat(<<Needs(c.filters # <<>>), FilterPads(c)>>
                      \o [i \in DOMAIN c.filters |-> MediaFilter(c.filters[i])])
  IN When(chains # <<>>,
          Cat(<<Option("filter_complex", 0),
                AsOne(Cat([i \in DOMAIN chains |-> Chain(chains[i])]))>>))

-----------------------------------------------------------------------------
(* Encodings and targets.                                                    *)

Specifier(letter, n) == <<letter, n>>
VideoEncoding(e, spec) ==
  Cat(<<Needs(e.codec # "invalid"), Option("c", <<spec, e.codec>>), Checked(e.options)>>)
AudioEncoding(e, spec) ==
  Cat(<<Needs(e.codec # "invalid"), Option("c", <<spec, e.codec>>), Checked(e.options)>>)
SubtitleEncoding(e, spec) ==
  Cat(<<Needs(e.codec # "invalid"), Option("c", <<spec, e.codec>>), Checked(e.options)>>)
StreamEncoding(e, spec) ==
  CASE e.is = "Copy" -> Option("c", <<spec, "copy">>)
    [] e.is = "Video" -> VideoEncoding(e, spec)
    [] e.is = "Audio" -> AudioEncoding(e, spec)
    [] e.is = "Subtitle" -> SubtitleEncoding(e, spec)
    [] OTHER -> Cat(<<Option("c", <<spec, e.codec>>), Checked(e.options)>>)

MuxOptions(vs) == Checked(vs)
Metadata(n) == Words(2 * n)

ArtifactOf(mode) ==
  CASE mode.is = "SingleFile" -> "Single"
    [] mode.is \in {"NumberedFiles", "SegmentedFiles"} -> "Sequence"
    [] OTHER -> "Package"

\* An HLS output is named twice: by -hls_segment_filename, whose value is not
\* a target, and as the playlist.
OutputTarget(format, mode) ==
  Cat(<<Needs(format # "invalid"), Option("f", mode.is),
        CASE mode.is = "SingleFile" -> Output("Single")
          [] mode.is = "NumberedFiles" -> Cat(<<Words(2), Output("Numbered")>>)
          [] mode.is = "SegmentedFiles" -> Cat(<<Words(8), Output("Numbered")>>)
          [] mode.is = "HlsStreaming" ->
               LET both == SuffixedOutput("Tree")
               IN Cat(<<Needs(mode.segment_format # "invalid"), Words(6),
                        [both EXCEPT !.args = <<Opt("hls_segment_filename", 0)>> \o @ \o @]>>)
          [] OTHER -> Cat(<<Words(10), SuffixedOutput("Tree")>>)>>)

ImageTarget(format, numbered) ==
  Cat(<<Needs(format # "invalid"), Option("f", "image2"),
        Words(IF numbered THEN 2 ELSE 0),
        Output(IF numbered THEN "Numbered" ELSE "Single")>>)

SingleFileMode == [is |-> "SingleFile"]

-----------------------------------------------------------------------------
(* Streams of an output: a counter per letter, new for every output.         *)

ValidSource(s) == IF s.is = "Filter" THEN s.label # "invalid" ELSE KnownKind(s.kind)
StreamSourceName(s) == Cat(<<Needs(ValidSource(s)), Option("map", s)>>)

\* StreamCounters counts attachments with data streams.
CounterLetter(e) ==
  CASE e.is = "Copy" -> IF e.kind \in {"Video", "Audio", "Subtitle"} THEN Letter(e.kind)
                        ELSE "d"
    [] OTHER -> Letter(e.is)
\* A count per encoding variant instead of per letter.
SpecifierByVariant(streams, i) ==
  Specifier(CounterLetter(streams[i].encoding),
            Cardinality({j \in 1..(i - 1) : streams[j].encoding.is
                                            = streams[i].encoding.is}))
NextSpecifier(streams, i) ==
  Specifier(CounterLetter(streams[i].encoding),
            Cardinality({j \in 1..(i - 1) : CounterLetter(streams[j].encoding)
                                            = CounterLetter(streams[i].encoding)}))

OutputStreams(streams) ==
  Cat([i \in DOMAIN streams |->
         Cat(<<StreamSourceName(streams[i].source),
               StreamEncoding(streams[i].encoding, NextSpecifier(streams, i)),
               Metadata(streams[i].metadata)>>)])

CompileOutput(o) ==
  Cat(<<Needs(o.streams # <<>>), OutputStreams(o.streams), MuxOptions(o.options),
        Metadata(o.metadata), OutputTarget(o.format, o.mode)>>)

Render(r) ==
  Cat(<<Needs(r.inputs # <<>> /\ r.outputs # <<>>), Words(6)>>
      \o [i \in DOMAIN r.inputs |-> CompileInput(r.inputs[i])]
      \o <<FilterGraph(r.chains)>>
      \o [i \in DOMAIN r.outputs |-> CompileOutput(r.outputs[i])])

-----------------------------------------------------------------------------
(* transcode, segment, package_hls and package_dash: one source, at most one *)
(* stream of each kind.  r.encoding maps each kind to an Option encoding,    *)
(* r.dropped and r.selected say what the operations asked for.               *)

SimpleKinds == <<"Video", "Audio", "Subtitle">>
DroppedKinds(r) == {k \in ToSet(SimpleKinds) : r.encoding[k] = <<>>} \cup r.dropped
ExplicitSelection(r) ==
  \/ \E k \in ToSet(SimpleKinds) : r.selected[k] # <<>>
  \/ r.mode.is = "SegmentedFiles"

Selection(r, k) ==
  LET chosen == IF r.selected[k] = <<>> THEN <<0>> ELSE r.selected[k]
  IN Option("map", [is |-> "Input", input |-> 0, kind |-> k, index |-> chosen])
Disabled(k) == Option("disable", k)

SimplePlan(r) ==
  LET kept == SelectSeq(SimpleKinds, LAMBDA k : k \notin DroppedKinds(r))
      Encoded(k) == IF k \in DroppedKinds(r) THEN Disabled(k)
                    ELSE StreamEncoding(r.encoding[k][1], Specifier(Letter(k), 0))
  IN Cat(<<Words(6), CompileInput([source |-> r.source, options |-> <<>>]),
           Words(2 * r.trims), Needs(kept # <<>>),
           FilterChain("vf", r.video_filters), FilterChain("af", r.audio_filters)>>
         \o (IF ExplicitSelection(r)
             THEN [i \in DOMAIN kept |-> Selection(r, kept[i])] ELSE <<>>)
         \o [i \in DOMAIN SimpleKinds |-> Encoded(SimpleKinds[i])]
         \o <<MuxOptions(r.options), Metadata(r.metadata), OutputTarget(r.format, r.mode)>>)

-----------------------------------------------------------------------------
(* The convenience operations.                                               *)

MapFirst(kind) ==
  Option("map", [is |-> "Input", input |-> 0, kind |-> kind, index |-> <<0>>])

Remux(r) ==
  Cat(<<Words(6), StoredMedia(r.media), Option("map", "all"), Option("copy", "all"),
        MuxOptions(r.options), OutputTarget(r.format, SingleFileMode)>>)

ExtractAudio(r) ==
  Cat(<<Words(6), StoredMedia(r.media), MapFirst("Audio"), Disabled("Video"),
        Disabled("Subtitle"), AudioEncoding(r.encoding, Specifier("a", 0)),
        OutputTarget(r.format, SingleFileMode)>>)

ExtractFrames(r) ==
  Cat(<<Words(6), StoredMedia(r.media), MapFirst("Video"), Disabled("Audio"),
        Disabled("Subtitle"),
        CASE r.selection = "EveryFrame" -> Nothing
          [] r.selection = "FramesPerSecond" -> Words(2)
          [] r.selection = "SceneChanges" -> Words(4)
          [] r.selection = "AtTimes" -> Needs(FALSE)
          [] OTHER -> Cat(<<Needs(r.n > 0), Words(4)>>),
        VideoEncoding(r.encoding, Specifier("v", 0)), ImageTarget(r.format, TRUE)>>)

Thumbnail(r) ==
  Cat(<<Words(6), StoredMedia(r.media), Words(2 * (Len(r.at) + Len(r.size))),
        MapFirst("Video"), Disabled("Audio"), Disabled("Subtitle"), Words(2),
        VideoEncoding(r.encoding, Specifier("v", 0)), ImageTarget(r.format, FALSE)>>)

SimpleEncoding(r) ==
  LET kinds == SelectSeq(SimpleKinds, LAMBDA k : r.encoding[k] # <<>>)
  IN Cat([i \in DOMAIN kinds |->
            StreamEncoding(r.encoding[kinds[i]][1], Specifier(Letter(kinds[i]), 0))]
         \o <<MuxOptions(r.options), Metadata(r.metadata), OutputTarget(r.format, SingleFileMode)>>)

Concat(r) ==
  LET Joined_(k) == Option("map", [is |-> "Filter", label |-> "fine", kind |-> k])
  IN Cat(<<Needs(Len(r.media) >= 2), Needs(r.video \/ r.audio),
           Needs(r.video = (r.encoding.Video # <<>>) /\ r.audio = (r.encoding.Audio # <<>>)),
           Needs(r.encoding.Subtitle = <<>>), Words(6)>>
         \o [i \in DOMAIN r.media |-> StoredMedia(r.media[i])]
         \o <<Option("filter_complex", 0), Checked(r.normalize),
              When(r.video, Joined_("Video")), When(r.audio, Joined_("Audio")),
              SimpleEncoding(r)>>)

\* A mapping is [input, kind, index, copy]; its specifier counts the mappings
\* of its kind before it.
MuxSpecifier(mappings, i) ==
  Specifier(Letter(mappings[i].kind),
            Cardinality({j \in 1..(i - 1) : mappings[j].kind = mappings[i].kind}))
Mux(r) ==
  LET Fallback(k) == IF k \in ToSet(SimpleKinds) THEN r.encoding[k] ELSE <<>>
      Mapping(i) ==
        LET m == r.mappings[i]
        IN Cat(<<Needs(m.input < Len(r.media) /\ KnownKind(m.kind)),
                 Option("map", [is |-> "Input", input |-> m.input, kind |-> m.kind,
                                index |-> m.index]),
                 IF m.copy THEN Option("c", <<MuxSpecifier(r.mappings, i), "copy">>)
                 ELSE IF Fallback(m.kind) # <<>>
                 THEN StreamEncoding(Fallback(m.kind)[1], MuxSpecifier(r.mappings, i))
                 ELSE Needs(FALSE)>>)
  IN Cat(<<Needs(r.media # <<>> /\ r.mappings # <<>>), Words(6)>>
         \o [i \in DOMAIN r.media |-> StoredMedia(r.media[i])]
         \o [i \in DOMAIN r.mappings |-> Mapping(i)]
         \o <<MuxOptions(r.options), Metadata(r.metadata), OutputTarget(r.format, SingleFileMode)>>)

Probe(r) == Cat(<<Words(5), Texts(r.intervals), MediaInput(r.media)>>)
Inspect(r) ==
  Cat(<<Words(5), Needs(r.stream = <<>> \/ KnownKind(r.stream[1])),
        Words(2 * Len(r.stream)), Texts(r.intervals), MediaInput(r.media)>>)
MediaVersion == Words(1)
MediaCapabilities == Words(2)

MediaPlan(r) ==
  CASE r.op = "render" -> Render(r)
    [] r.op \in {"transcode", "segment", "package_hls", "package_dash"} -> SimplePlan(r)
    [] r.op = "remux" -> Remux(r)
    [] r.op = "extract_audio" -> ExtractAudio(r)
    [] r.op = "extract_frames" /\ r.selection # "AtTimes" -> ExtractFrames(r)
    [] r.op \in {"extract_frames", "thumbnail"} -> Thumbnail(r)
    [] r.op = "concatenate" -> Concat(r)
    [] r.op = "mux" -> Mux(r)
    [] r.op = "probe" -> Probe(r)
    [] r.op = "inspect" -> Inspect(r)
    [] r.op = "version" -> MediaVersion
    [] OTHER -> MediaCapabilities

-----------------------------------------------------------------------------
(* Answers.                                                                  *)

IsSuccess(e) == e.exit = 0
SingleMedia(e) == IF IsSuccess(e) THEN One(e.outputs[1]) ELSE ProcessFailed
MediaSequence(e) == IF IsSuccess(e) THEN Several(e.outputs[1]) ELSE ProcessFailed
MediaPackage(e) == IF IsSuccess(e) THEN One(e.outputs[1]) ELSE ProcessFailed
ParsedMedia(e) ==
  IF ~IsSuccess(e) THEN ProcessFailed
  ELSE IF e.stdout = "good" THEN Ok(<<>>) ELSE UnexpectedOutput

\* The first output with the wrong number of files decides the answer.
Artifacts(r, e) ==
  LET complete(i) ==
        IF ArtifactOf(r.outputs[i].mode) = "Sequence" THEN e.outputs[i] # <<>>
        ELSE Len(e.outputs[i]) = 1
  IN IF \A i \in DOMAIN r.outputs : complete(i) THEN Ok(FlattenSeq(e.outputs))
     ELSE UnexpectedOutput
RenderAnswer(r, e) == IF IsSuccess(e) THEN Artifacts(r, e) ELSE ProcessFailed

MediaAnswer(r, e) ==
  CASE r.op = "render" -> RenderAnswer(r, e)
    [] r.op = "segment" \/ (r.op = "extract_frames" /\ r.selection # "AtTimes") ->
         MediaSequence(e)
    [] r.op \in {"package_hls", "package_dash"} -> MediaPackage(e)
    [] r.op \in {"probe", "inspect", "version", "capabilities"} -> ParsedMedia(e)
    [] OTHER -> SingleMedia(e)

-----------------------------------------------------------------------------
(* How FFmpeg reads the arguments: options up to a target belong to it; the  *)
(* streams are the mapped ones in order, or, without -map, the best stream   *)
(* of each kind that is not disabled; the last -c for the n-th stream of a   *)
(* letter is its codec.                                                      *)

IsTarget(args, i) ==
  /\ \E s \in SlotsIn(args[i]) : s.is = "Output"
  /\ i > 1 => ~IsOpt(args[i - 1], "hls_segment_filename")
Targets(args) == {i \in DOMAIN args : IsTarget(args, i)}
Group(args, i) ==
  SubSeq(args, 1 + Max({0} \cup {j \in Targets(args) : j < i}), i)

ValuesOf(group, name) ==
  LET hits == SelectSeq(group, LAMBDA a : IsOpt(a, name))
  IN [i \in DOMAIN hits |-> hits[i].value]

AutoStreams(group) ==
  SelectSeq([i \in DOMAIN SimpleKinds |->
               [is |-> "Input", input |-> 0, kind |-> SimpleKinds[i], index |-> <<0>>]],
            LAMBDA s : s.kind \notin ToSet(ValuesOf(group, "disable")))
ReadStreams(group) ==
  LET maps == ValuesOf(group, "map") IN IF maps = <<>> THEN AutoStreams(group) ELSE maps

ReadCodec(group, streams, i) ==
  LET n == Cardinality({j \in 1..(i - 1) : streams[j].kind = streams[i].kind})
      given == SelectSeq(ValuesOf(group, "c"),
                         LAMBDA v : v[1] = Specifier(Letter(streams[i].kind), n))
  IN IF given = <<>> THEN "default" ELSE given[Len(given)][2]

ReadOutput(args, i) ==
  LET streams == ReadStreams(Group(args, i))
  IN [n \in DOMAIN streams |->
        [source |-> streams[n], codec |-> ReadCodec(Group(args, i), streams, n)]]

\* The streams a request asks for, output by output.
CodecOf(e) == IF e.is = "Copy" THEN "copy" ELSE e.codec
InputZero(k, index) == [is |-> "Input", input |-> 0, kind |-> k, index |-> index]

AskedSimple(r) ==
  LET kept == SelectSeq(SimpleKinds, LAMBDA k : k \notin DroppedKinds(r))
  IN [i \in DOMAIN kept |->
        [source |-> InputZero(kept[i], IF r.selected[kept[i]] = <<>> THEN <<0>>
                                       ELSE r.selected[kept[i]]),
         codec |-> CodecOf(r.encoding[kept[i]][1])]]

AskedStreams(r) ==
  CASE r.op = "render" ->
         [o \in DOMAIN r.outputs |->
            [i \in DOMAIN r.outputs[o].streams |->
               [source |-> r.outputs[o].streams[i].source,
                codec |-> CodecOf(r.outputs[o].streams[i].encoding)]]]
    [] r.op = "mux" ->
         <<[i \in DOMAIN r.mappings |->
              [source |-> [is |-> "Input", input |-> r.mappings[i].input,
                           kind |-> r.mappings[i].kind, index |-> r.mappings[i].index],
               codec |-> IF r.mappings[i].copy THEN "copy"
                         ELSE CodecOf(r.encoding[r.mappings[i].kind][1])]]>>
    [] OTHER -> <<AskedSimple(r)>>

\* Requests whose stream encodings fit their sources, without attachments.
WellTyped(r) ==
  r.op = "render" =>
    \A o \in DOMAIN r.outputs : \A i \in DOMAIN r.outputs[o].streams :
      LET s == r.outputs[o].streams[i]
      IN /\ s.source.kind \in {"Video", "Audio", "Subtitle", "Data"}
         /\ s.encoding.is = "Copy" => s.encoding.kind = s.source.kind
         /\ s.encoding.is # "Copy" => s.encoding.is = s.source.kind
=============================================================================
