----------------------------- MODULE ToolCalls -----------------------------
(***************************************************************************)
(* A call of an operation of a tool: compile the request to a plan, store   *)
(* the program text that graphviz and gnuplot read, execute the plan and    *)
(* turn the execution into the answer.  extract_frames at given times       *)
(* executes one plan after the other.                                       *)
(***************************************************************************)
EXTENDS PlotTool

CONSTANTS
  Requests,      \* records with the fields tool, op and those of the operation
  Platform,      \* the platform the executor runs
  Trees          \* the output trees a tool may leave, sequences of entries

VARIABLES
  request,
  pc,            \* "compile", "store", "execute" or "done"
  plan,          \* the plan in execution
  executions,    \* the executions so far
  frames,        \* the frames of extract_frames so far
  answer

vars == <<request, pc, plan, executions, frames, answer>>

PlanOf(r) ==
  CASE r.tool = "qpdf" -> QpdfPlan(r)
    [] r.tool = "poppler" -> PopplerPlan(r)
    [] r.tool = "ffmpeg" -> MediaPlan(r)
    [] r.tool = "imagemagick" -> ImagePlan(r)
    [] r.tool = "graphviz" -> GraphPlan(r)
    [] OTHER -> PlotPlan(r)
AnswerOf(r, e) ==
  CASE r.tool = "qpdf" -> QpdfAnswer(r, e)
    [] r.tool = "poppler" -> PopplerAnswer(r, e)
    [] r.tool = "ffmpeg" -> MediaAnswer(r, e)
    [] r.tool = "imagemagick" -> ImageAnswer(r, e)
    [] r.tool = "graphviz" -> GraphAnswer(r, e)
    [] OTHER -> PlotAnswer(r, e)

StoresProgram(r) == r.tool \in {"graphviz", "gnuplot"} /\ r.op # "version"
AtTimes(r) == r.op = "extract_frames" /\ r.selection = "AtTimes"

-----------------------------------------------------------------------------
(* What an executor may answer: by the workspace a single output has at most *)
(* one file, a tree is there, the others have any number of files.           *)

FilesOf(kind) ==
  CASE kind = "Single" -> {<<>>, <<"f1">>}
    [] kind = "Tree" -> {<<t>> : t \in Trees}
    [] OTHER -> {<<>>, <<"f1">>, <<"f1", "f2">>}
RECURSIVE OutputsOf(_)
OutputsOf(kinds) ==
  IF kinds = <<>> THEN {<<>>}
  ELSE {<<files>> \o rest : files \in FilesOf(Head(kinds)), rest \in OutputsOf(Tail(kinds))}
ExecutionsOf(p) ==
  [exit : 0..3, outputs : OutputsOf(p.outputs), stdout : {"good", "strange", "binary", "empty"}]

-----------------------------------------------------------------------------

Init ==
  /\ request \in Requests
  /\ pc = "compile"
  /\ plan = Nothing
  /\ executions = <<>>
  /\ frames = <<>>
  /\ answer = <<>>

Finish(a) == pc' = "done" /\ answer' = <<a>>

\* A request that is refused starts nothing.
Refuse ==
  /\ pc = "compile"
  /\ \/ ~PlanOf(request).ok
     \/ AtTimes(request) /\ request.times = 0
  /\ Finish(Refused)
  /\ UNCHANGED <<request, plan, executions, frames>>

Compile ==
  /\ pc = "compile"
  /\ PlanOf(request).ok
  /\ AtTimes(request) => request.times > 0
  /\ plan' = PlanOf(request)
  /\ pc' = IF StoresProgram(request) THEN "store" ELSE "execute"
  /\ UNCHANGED <<request, executions, frames, answer>>

Store ==
  /\ pc = "store"
  /\ pc' = "execute"
  /\ UNCHANGED <<request, plan, executions, frames, answer>>

\* The store or the executor fails.
Fail ==
  /\ pc \in {"store", "execute"}
  /\ Finish(EngineFailed)
  /\ UNCHANGED <<request, plan, executions, frames>>

\* A job that is not valid for the executor fails before anything runs.
Executable(p) ==
  ValidateOciJob(JobOf(p, Platform), Platform, Isolation \cup Enforced) = "ok"

Execute ==
  /\ pc = "execute" /\ ~AtTimes(request)
  /\ Executable(plan)
  /\ \E e \in ExecutionsOf(plan) :
       executions' = Append(executions, e) /\ Finish(AnswerOf(request, e))
  /\ UNCHANGED <<request, plan, frames>>

\* One frame: the first that is not Ok is the answer.
ExecuteAtTime ==
  /\ pc = "execute" /\ AtTimes(request)
  /\ Executable(plan)
  /\ \E e \in ExecutionsOf(plan) : \E a \in {SingleMedia(e)} :
       /\ executions' = Append(executions, e)
       /\ IF a.is # "Ok" THEN Finish(a) /\ UNCHANGED frames
          ELSE /\ frames' = frames \o a.files
               /\ IF Len(executions') = request.times THEN Finish(Ok(frames'))
                  ELSE UNCHANGED <<pc, answer>>
  /\ UNCHANGED <<request, plan>>

Done == pc = "done" /\ UNCHANGED vars

Next == Refuse \/ Compile \/ Store \/ Fail \/ Execute \/ ExecuteAtTime \/ Done

Spec == Init /\ [][Next]_vars

-----------------------------------------------------------------------------
(* Properties.                                                               *)

\* Every plan that a compile.rs accepts is a valid job (validate_oci_job),
\* unless a text of the request has a NUL byte, and names every input and
\* every output it declares: each slot is passed to the tool, by its path or,
\* for fonts, by the directory they are in.
PlanExecutable ==
  pc \in {"store", "execute"} =>
    LET named(kind, id) == \E s \in SlotsOf(plan) : s.is = kind /\ s.id = id
        directory == \E s \in SlotsOf(plan) : s.is = "InputParent"
    IN /\ Executable(plan) \/ \E i \in DOMAIN plan.args : HasNul(plan.args[i])
       /\ \A i \in DOMAIN plan.inputs : named("Input", i - 1) \/ directory
       /\ \A i \in DOMAIN plan.outputs : named("Output", i - 1)

\* The streams and codecs FFmpeg reads from the arguments of render, mux,
\* transcode and the packaging operations are, output by output and in order,
\* the ones the request asks for (StreamCounters numbers the specifiers).
StreamsAsAsked ==
  /\ pc = "execute" /\ request.tool = "ffmpeg"
  /\ request.op \in {"render", "mux", "transcode", "segment", "package_hls", "package_dash"}
  /\ WellTyped(request)
  => LET targets == SetToSortSeq(Targets(plan.args), <)
     IN [i \in DOMAIN targets |-> ReadOutput(plan.args, targets[i])] = AskedStreams(request)

\* Every panel of a figure is drawn with its own settings whatever the panels
\* before it set in the same gnuplot session (panel_reset), every cell of the
\* layout is used once, and every sample of a histogram is counted in the bin
\* that holds it.
FigureFaithful ==
  pc = "store" /\ request.tool = "gnuplot" => FigureDrawn(request.figure)

\* The DOT text of an accepted graph writes each subgraph, node and edge once
\* and inside exactly the subgraphs that hold it (validate_graph, Serializer).
GraphWritten ==
  pc = "store" /\ request.tool = "graphviz" => WrittenOnce(request.graph)

\* A call that succeeds ran its tool to an accepted exit code and answers all
\* the files it left, pages by their number and frames by their time; a call
\* that stored or ran nothing did not succeed.
AcceptedExit(r) ==
  CASE r.tool = "qpdf" -> IF r.op = "check" THEN {0, 2, 3}
                          ELSE IF r.op \in {"show_npages", "version"} THEN {0} ELSE {0, 3}
    [] r.tool = "imagemagick" /\ r.op = "compare" -> {0, 1}
    [] OTHER -> {0}
InPageOrder(files, tree) ==
  LET page(f) == {tree[k].page : k \in {k \in DOMAIN tree : tree[k].file = f}}
  IN /\ Len(files) = Len(tree) /\ ToSet(files) = {tree[k].file : k \in DOMAIN tree}
     /\ \A i, j \in DOMAIN files : i < j =>
          \E p \in page(files[i]), q \in page(files[j]) : p <= q
AnswerComplete ==
  answer # <<>> /\ answer[1].is = "Ok" =>
    /\ executions # <<>>
    /\ \A i \in DOMAIN executions : executions[i].exit \in AcceptedExit(request)
    /\ IF request.op = "pdftocairo" /\ Raster(request.format)
       THEN InPageOrder(answer[1].files, executions[1].outputs[1][1])
       ELSE IF request.op \in {"extract_pixels", "compare"} THEN TRUE
       ELSE answer[1].files =
              FlattenSeq([i \in DOMAIN executions |-> FlattenSeq(executions[i].outputs)])
    /\ AtTimes(request) => Len(answer[1].files) = request.times
=============================================================================
