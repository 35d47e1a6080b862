----------------------------- MODULE PlotTool ------------------------------
(***************************************************************************)
(* The gnuplot tool (tools/rex-tool-gnuplot): a figure of panels becomes    *)
(* one script that sets options and plots, panel after panel, in one        *)
(* gnuplot session: what a panel does not set again it finds as the panels  *)
(* before it left it.                                                       *)
(*                                                                          *)
(* A figure is [panels, columns, rows, spacing, theme], a panel an Option.  *)
(* A 2-D plot has x, y, cb and the Option axes x2 and y2, a 3-D plot x, y,  *)
(* z and cb.  An axis is [label, scale, reversed, range, format]: range and  *)
(* format are "auto" or made for a domain, "Numeric" or "Time"; "invalid"    *)
(* are bounds out of order, a base that is none and an unquotable format.    *)
(***************************************************************************)
EXTENDS GraphTool

CONSTANT MaxPanels             \* MAX_PANELS, 256 in the code

-----------------------------------------------------------------------------
(* Validation.                                                               *)

RowsOf(figure) ==
  IF figure.rows = <<>>
  THEN (Len(figure.panels) + figure.columns - 1) \div figure.columns
  ELSE figure.rows[1]

ValidateFigure(figure) ==
  /\ Len(figure.panels) \in 1..MaxPanels
  /\ \E i \in DOMAIN figure.panels : figure.panels[i] # <<>>
  /\ figure.columns > 0
  /\ LET cells == RowsOf(figure) * figure.columns
     IN cells >= Len(figure.panels) /\ cells <= MaxPanels
  /\ figure.spacing # "invalid"
ValidateTheme(figure) == figure.theme # "invalid"

\* A timed axis is linear; range and format are automatic or of the domain.
ValidateAxis(axis, domain) ==
  /\ axis.scale \in (IF domain = "Time" THEN {"Linear"} ELSE {"Linear", "Log"})
  /\ axis.range \in {"auto", domain}
  /\ axis.format \in {"auto", domain}
  /\ axis.label # <<"invalid">>

UsesX2(s) == s.axes \in {"SecondaryX", "Secondary"}
UsesY2(s) == s.axes \in {"SecondaryY", "Secondary"}
ValidateSecondaryAxes(plot) ==
  \A i \in DOMAIN plot.series :
    /\ UsesX2(plot.series[i]) => plot.x2 # <<>>
    /\ UsesY2(plot.series[i]) => plot.y2 # <<>>

\* The series of one x axis are all numeric or all timed.
DomainsOn(plot, second) ==
  {plot.series[i].domain : i \in {i \in DOMAIN plot.series : UsesX2(plot.series[i]) = second}}
Domains2D(plot) == \A second \in BOOLEAN : Cardinality(DomainsOn(plot, second)) <= 1
\* An axis without series is checked and set like a numeric one.
DomainOf(plot, second) == IF "Time" \in DomainsOn(plot, second) THEN "Time" ELSE "Numeric"

BarAlone(plot) ==
  (\E i \in DOMAIN plot.series : plot.series[i].is = "Bar") => Len(plot.series) = 1
ContoursAlone(plot) ==
  LET contours == {i \in DOMAIN plot.series : plot.series[i].is = "ContourLines"}
  IN contours \in {{}, DOMAIN plot.series}

-----------------------------------------------------------------------------
(* Histograms, in units of a half: bins is a count or a width.              *)

HistogramBounds(h) ==
  IF h.range # <<>> THEN h.range[1]
  ELSE LET s == ToSet(h.samples)
       IN IF Min(s) = Max(s) THEN <<Min(s) - 1, Min(s) + 1>> ELSE <<Min(s), Max(s)>>
BinCount(h) ==
  LET b == HistogramBounds(h)
  IN IF h.bins.is = "Count" THEN h.bins.n
     ELSE (b[2] - b[1] + h.bins.n - 1) \div h.bins.n
\* floor((sample - minimum) / width), width = (maximum - minimum) / count; the
\* code divides in floating point, which may move a sample that lies on a
\* boundary of a width no f64 holds: exact here.
RawBin(h, sample) ==
  LET b == HistogramBounds(h)
  IN IF h.bins.is = "Count" THEN ((sample - b[1]) * h.bins.n) \div (b[2] - b[1])
     ELSE (sample - b[1]) \div h.bins.n
Included(h) ==
  SelectSeq(h.samples, LAMBDA s : HistogramBounds(h)[1] <= s /\ s <= HistogramBounds(h)[2])
BinUnclamped(h, sample) == RawBin(h, sample)
BinOf(h, sample) == Min({RawBin(h, sample), BinCount(h) - 1})

ValidHistogram(h) ==
  /\ h.samples # <<>>
  /\ h.range # <<>> => h.range[1][1] < h.range[1][2]
  /\ h.bins.n > 0
  /\ Included(h) # <<>>

ValidSeries(s) ==
  CASE s.is = "Histogram" -> ValidHistogram(s.histogram)
    [] OTHER -> s.data # "invalid"
ValidPlot2D(plot) ==
  /\ plot.series # <<>> /\ BarAlone(plot) /\ Domains2D(plot) /\ ValidateSecondaryAxes(plot)
  /\ ValidateAxis(plot.x, DomainOf(plot, FALSE))
  /\ \A a \in ToSet(plot.x2) : ValidateAxis(a, DomainOf(plot, TRUE))
  /\ \A a \in {plot.y, plot.cb} \cup ToSet(plot.y2) : ValidateAxis(a, "Numeric")
  /\ plot.ratio # <<"invalid">>
  /\ \A i \in DOMAIN plot.series : ValidSeries(plot.series[i])
ValidPlot3D(plot) ==
  /\ plot.series # <<>> /\ ContoursAlone(plot)
  /\ \A a \in {plot.x, plot.y, plot.z, plot.cb} : ValidateAxis(a, "Numeric")
  /\ plot.view # "invalid"
  /\ \A i \in DOMAIN plot.series : plot.series[i].data # "invalid"

FigureAccepted(figure) ==
  /\ ValidateFigure(figure) /\ ValidateTheme(figure)
  /\ \A i \in DOMAIN figure.panels :
       figure.panels[i] # <<>> =>
         LET p == figure.panels[i][1]
         IN IF p.is = "2D" THEN ValidPlot2D(p) ELSE ValidPlot3D(p)

-----------------------------------------------------------------------------
(* The script: a sequence of settings <<name, value>>, of labels and arrows  *)
(* added under a tag, and of plots.                                          *)

AxisNames == {"x", "y", "z", "x2", "y2", "cb"}
Own(name) == <<"panel", name>>
SetNamed(name, value) == [is |-> "set", name |-> name, value |-> value]
Set_(name, value) == SetNamed(Own(name), value)
AddTag(name, tag, value) == [is |-> "add", name |-> Own(name), tag |-> tag, value |-> value]
SetAll(names, value) ==
  LET s == SetToSeq(names) IN [i \in DOMAIN s |-> SetNamed(s[i], value)]
EachAxis(what) == {<<a, what>> : a \in AxisNames}

\* What a panel starts with, but for one command.
ResetKeepingTics ==
  <<Set_("label", <<>>), Set_("arrow", <<>>), Set_("key", "off"), Set_("grid", "off"),
    Set_("colorbox", "off"), Set_("contour", "off"), Set_("surface", "on")>>
  \o SetAll(EachAxis("scale"), "Linear") \o SetAll(EachAxis("range"), "auto")
  \o SetAll({<<"x2", "label">>, <<"y2", "label">>}, <<>>)
  \o SetAll({<<a, "data">> : a \in {"x", "y", "x2", "y2"}}, "Numeric")
  \o <<Set_("ratio", <<>>), Set_("view", "60,30,1")>>
PanelReset == ResetKeepingTics \o <<Set_("x2tics", "off"), Set_("y2tics", "off")>>

WriteLegend(p) == <<Set_("key", p.legend)>>
WriteGrid(p) ==
  <<Set_("mtics", IF p.grid = "minor" THEN "on" ELSE "off"), Set_("grid", p.grid)>>
WritePalette(p) == <<Set_("palette", p.palette)>>
CommonPanel(p) == WriteLegend(p) \o WriteGrid(p) \o WritePalette(p)

WriteAxis(name, axis, domain) ==
  (IF domain = "Time" THEN <<Set_("timefmt", "%s")>> ELSE <<>>)
  \o (IF name \in {"x", "y", "x2", "y2"} THEN <<SetNamed(<<name, "data">>, domain)>> ELSE <<>>)
  \o <<SetNamed(<<name, "scale">>, axis.scale), SetNamed(<<name, "range">>, axis.range),
       SetNamed(<<name, "reverse">>, axis.reversed), SetNamed(<<name, "format">>, axis.format),
       SetNamed(<<name, "label">>, axis.label)>>

\* Tags go on over the whole figure; only the first is given here.
Annotations(p, tag) ==
  [i \in DOMAIN p.annotations |->
     AddTag(p.annotations[i].is, tag + i, p.annotations[i].text)]
WriteTitle(p) == <<Set_("title", p.title)>>
WriteColorbox(p) == <<Set_("colorbox", IF p.colorbox THEN "on" ELSE "off")>>
BarSetting(p) ==
  IF p.series[1].is = "Bar" THEN <<Set_("histogram", p.series[1].arrangement)>> ELSE <<>>
Plots(p) == <<[is |-> "plot", panel |-> p]>>

Plot2D(p, tag) ==
  PanelReset \o CommonPanel(p)
  \o WriteAxis("x", p.x, DomainOf(p, FALSE)) \o WriteAxis("y", p.y, "Numeric")
  \o (IF p.x2 = <<>> THEN <<>>
      ELSE <<Set_("x2tics", "on")>> \o WriteAxis("x2", p.x2[1], DomainOf(p, TRUE)))
  \o (IF p.y2 = <<>> THEN <<>>
      ELSE <<Set_("y2tics", "on")>> \o WriteAxis("y2", p.y2[1], "Numeric"))
  \o WriteAxis("cb", p.cb, "Numeric") \o WriteTitle(p) \o <<Set_("ratio", p.ratio)>>
  \o WriteColorbox(p) \o Annotations(p, tag) \o BarSetting(p) \o Plots(p)

Plot3D(p, tag) ==
  LET contours == p.series[1].is = "ContourLines"
  IN PanelReset \o CommonPanel(p)
     \o WriteAxis("x", p.x, "Numeric") \o WriteAxis("y", p.y, "Numeric")
     \o WriteAxis("z", p.z, "Numeric") \o WriteAxis("cb", p.cb, "Numeric")
     \o WriteTitle(p) \o WriteColorbox(p) \o <<Set_("view", p.view)>>
     \o <<Set_("contour", IF contours THEN "base" ELSE "off"),
          Set_("surface", IF contours THEN "off" ELSE "on")>>
     \o Annotations(p, tag) \o Plots(p)

Panel(p, tag) == IF p.is = "2D" THEN Plot2D(p, tag) ELSE Plot3D(p, tag)

Script(figure) ==
  LET tag(i) == FoldLeft(LAMBDA n, p : IF p = <<>> THEN n ELSE n + Len(p[1].annotations), 0,
                         SubSeq(figure.panels, 1, i - 1))
  IN FlattenSeq([i \in DOMAIN figure.panels |->
                   IF figure.panels[i] = <<>> THEN <<[is |-> "next"]>>
                   ELSE Panel(figure.panels[i][1], tag(i))])

PlotRender == Cat(<<Words(1), AsOne(Cat(<<Words(1), Output("Single"), Words(1)>>)),
                    Input("script", "Blob")>>)
PlotVersion == Words(1)
PlotPlan(r) ==
  IF r.op = "version" THEN PlotVersion
  ELSE Cat(<<Needs(FigureAccepted(r.figure)), Needs(r.terminal # "invalid"), PlotRender>>)
PlotAnswer(r, e) ==
  CASE e.exit # 0 -> ProcessFailed
    [] e.exit = 0 /\ r.op = "version" -> IF e.stdout = "empty" THEN EngineFailed ELSE Ok(<<>>)
    [] OTHER -> One(e.outputs[1])

-----------------------------------------------------------------------------
(* A gnuplot session: the settings in force at the plot of each panel.       *)

SettingNames ==
  {Own(n) : n \in {"label", "arrow", "key", "grid", "mtics", "palette", "colorbox",
                    "contour", "surface", "x2tics", "y2tics", "title", "ratio", "view",
                    "histogram", "timefmt"}}
  \cup {<<a, w>> : a \in AxisNames, w \in {"data", "scale", "range", "reverse", "format", "label"}}
FreshSession == [n \in SettingNames |-> IF n \in {Own("label"), Own("arrow")} THEN <<>> ELSE "default"]

Obey(session, command) ==
  CASE command.is = "set" -> [session EXCEPT ![command.name] = command.value]
    [] command.is = "add" ->
         [session EXCEPT ![command.name] = (command.tag :> command.value) @@ @]
    [] OTHER -> session
SessionAt(script, i) == FoldLeft(Obey, FreshSession, SubSeq(script, 1, i))

\* The settings a panel's plot depends on; labels and arrows without tags.
AxesOf(p) ==
  IF p.is = "3D" THEN {"x", "y", "z", "cb"}
  ELSE {"x", "y", "cb"} \cup (IF p.x2 = <<>> THEN {} ELSE {"x2"})
       \cup (IF p.y2 = <<>> THEN {} ELSE {"y2"})
ReadSettings(p) ==
  {Own(n) : n \in {"key", "grid", "mtics", "palette", "colorbox", "x2tics", "y2tics",
                    "title", "ratio"}
                   \cup (IF p.is = "3D" THEN {"view", "contour", "surface"} ELSE {})
                   \cup (IF p.series[1].is = "Bar" THEN {"histogram"} ELSE {})}
  \cup {<<a, w>> : a \in AxesOf(p), w \in {"data", "scale", "range", "reverse", "format", "label"}}
Picture(session, p) ==
  [settings |-> [n \in ReadSettings(p) |-> session[n]],
   labels |-> Range(session[Own("label")]), arrows |-> Range(session[Own("arrow")])]

PlotsIn(script) == {i \in DOMAIN script : script[i].is = "plot"}

\* Every panel looks as it would in a figure of its own, every cell of the
\* layout is used once, and every sample in range is in one bin, its own.
BinHolds(h, sample, bin) ==
  LET b == HistogramBounds(h)
      last == bin = BinCount(h) - 1
  IN /\ bin \in 0..(BinCount(h) - 1)
     /\ IF h.bins.is = "Count"
        THEN /\ bin * (b[2] - b[1]) <= (sample - b[1]) * h.bins.n
             /\ \/ (sample - b[1]) * h.bins.n < (bin + 1) * (b[2] - b[1])
                \/ last /\ sample = b[2]
        ELSE /\ bin * h.bins.n <= sample - b[1]
             /\ \/ sample - b[1] < (bin + 1) * h.bins.n
                \/ last /\ sample = b[2]
FigureDrawn(figure) ==
  LET script == Script(figure)
  IN /\ \A i \in PlotsIn(script) :
          LET p == script[i].panel
          IN Picture(SessionAt(script, i), p) =
             Picture(SessionAt(Panel(p, 0), Len(Panel(p, 0))), p)
     /\ Len(SelectSeq(script, LAMBDA c : c.is \in {"plot", "next"})) = Len(figure.panels)
     /\ \A i \in PlotsIn(script) : \A k \in DOMAIN script[i].panel.series :
          LET s == script[i].panel.series[k]
          IN s.is = "Histogram" =>
               \A n \in DOMAIN Included(s.histogram) :
                 LET v == Included(s.histogram)[n]
                 IN BinHolds(s.histogram, v, BinOf(s.histogram, v))
=============================================================================
