# TLA+ verification of Rex

Rex is a statically typed functional language whose programs orchestrate host
functions and external tools. A program is parsed, its modules are loaded and
their names resolved, it is type-checked, and an evaluator that is a single
asynchronous task runs it: it keeps a tree of frames instead of a call stack,
starts many host calls at once and delivers their answers in whatever order they
arrive. Host calls start tools in containers, whose inputs and outputs live in a
content-addressed store. A language server analyses the same programs while they
are being edited.

This directory holds TLA+ models of these parts, TLC configurations that check
them on small instances, and TLAPS proofs of the properties that matter most.
`PROJECT.json` lists the components, the runs, the mutants that show each
property can fail, the source lines behind every definition, the hazards and the
theorems.

## 1. Inventory

### Modelled

| Component | State | Operations | Interacts with | What is hard |
|---|---|---|---|---|
| Work queue, `EvalScheduler` (`evaluator/scheduler.rs`) | `ready`, `deferred_ready`, `ready_work_limit` | new, set limit, schedule, pop | called by every cycle; the limit comes from the embedder's controller | the limit changes between any two calls, down to 0 |
| Frame store and frame protocol (`stack.rs`, `evaluator/eval.rs`) | frames by id, parents, expected children | insert, get, replace, remove; Push, Schedule, Wait, AwaitNative, Return | work queue, host scheduler | results come from children in any order; a frame is cloned, changed and written back |
| Host scheduler and main loop (`scheduler.rs`, `eval.rs`, `config.rs`) | pending, immediate and deferred calls, permits, wakers, boundary | schedule, poll with and without waiting, admit, take a completion | host futures on other threads, `ParallelismController` | lost wakeups, lost permits, cancellation at a wait, capacity that shrinks |
| Expression evaluator (`eval.rs`, `native_fn.rs`, `overloaded_fn.rs`) | frames with partial results, environments, closures | enter and receive of every frame kind, application, pattern matching, overload resolution | all of the above, the heap | evaluation order must not show in the value |
| Callback-taking natives (`native_functions.rs`, `prelude/mod.rs`) | a coroutine per call: slots, remaining count, cursor | enter, receive | evaluator (children) | concurrent callbacks, early exit, empty input |
| `let rec` (`inference.rs`, `eval.rs`) | search stack of the validation; slots at run time | validate, enter group, look up, initialize | type checker and evaluator must agree | mutual recursion, dependencies through functions |
| Copying heap (`memory/heap.rs`, `collect_machine_if_needed`) | cells, root table with generations, free list, epoch | register, release, allocate, open, overwrite, collect | evaluator state is the root set | everything moves; slots are used again |
| Content-addressed storage (`rex/src/storage`) | named files; puts under way; objects of a second store | put, get, trees, import, export, resolve a path, transfer | executors, standard modules, other processes on the same directory | concurrent puts, power failures, transfers that stop half way |
| Docker and remote executors (`rex/src/workflow/executor`) | the job's future, its container, docker commands under way, the cleanup guard and its thread, workspace | validate, prepare, create, start, wait, time out, inspect, remove, read the record, import; upload, run, check provenance, download | store, daemon, remote runner, tool process, `rex tools cleanup` | cancellation at every await, a daemon that serves late, errors after the tool ran, a killed tool process |
| Tools (`tools/rex-tool-*`) | a request, its plan, executions, the answer | compile, store the program text, execute, answer | executors | arguments whose meaning depends on those before them |
| Type system (`rex-typesystem`) | substitution, environments, classes, instances, declared types | unify, infer, infer a typed tree, generalize, declare, check bodies | compiler, language server | the same rules written twice; what is generalized, and when |
| Builder, module loader, compiler (`rex-engine/src/builder`, `modules`, `compiler`) | registries, interfaces, loaded and published modules | register, qualify, rewrite imports, load a graph of modules, compile | type system, importers | shadowing, import cycles |
| Language server (`rex-lsp`) | open documents, parse cache, analyses on other threads, proposed fixes | open, change, close, analyse, answer, apply a fix | all of the front end | analyses of a text that has changed meanwhile |

What makes each of them correct:

- the work queue is one last-in-first-out stack, whatever the limits do;
- no cycle ends in an internal error, and a finished evaluation leaves no frame,
  work item or host call behind;
- no host call, wakeup or permit is lost or duplicated, admission respects the
  capacity, and every call is delivered unless the evaluation ends;
- the value of a program is the one its expression denotes, in every order of
  host completions and for every ready work limit;
- a native that calls back gives the result of the plain recursive definition,
  makes no needless callback and returns;
- an accepted `let rec` group never looks up an uninitialized slot, and exactly
  the groups the language's rule allows are accepted;
- a token names its object through any number of collections, and a collection
  keeps exactly what can still be reached;
- a file of the store that has a name holds all of its object, a tree in the store
  has all of its entries, a job answers only with stored outputs of a finished
  run, and its container goes away;
- the arguments given to a tool mean what the request says, and an answer has
  all the outputs in their order;
- every use of a name means what its author meant, in the compiler and in the
  editor; the two inferences agree and their result is a derivation; a module is
  loaded once and after its imports;
- an answer of the language server is about the text it was asked about, and a fix
  is applied only to a text it fits.

### Not modelled

| Component | Why not |
|---|---|
| PEG engine, lexer, construction of the syntax tree | they work on characters and tokens; the models start from the tree |
| Wire format, JSON, value conversion | conversions in one step, without state |
| Object store over HTTP, store in memory, standard modules | the interface of the store that is modelled; no state between calls of their own |
| Pure natives of the prelude | single steps; widths and error cases are not modelled |
| Tool protocol | one JSON request and one JSON answer; only the life of the process is modelled |
| Formatting, field completion, code actions for diagnostics, the loop that applies the best fix by itself | pure transformations, or loops over modelled steps |
| CLI arguments, wasm, mdbook, VS Code, macros, fuzzing | glue, I/O, generated code |

The hazards each of these is exposed to are listed in `PROJECT.json`, at their
lines, with the properties that cover them.

## 2. Plan

Done, in this order: work queue; frame protocol; host scheduler; callback
natives; `let rec`; the evaluator on top of work queue, natives and frame
protocol; the heap; the filesystem store; trees, workspace, executors and tool
processes on top of it; the six tools; the type system, name resolution, builder,
module loader and compiler; the language server on top of those. Proofs: work
queue, frame protocol, `let rec`, filesystem store, host scheduler, heap, executors,
callback natives, and that the evaluator keeps to the frame protocol.

To do:

1. Natives of one type with several implementations, and the numeric widths of
   literals and arithmetic.
2. The language server's loop that applies the best fix by itself.

## 3. Modules

| Module | Models | Role |
|---|---|---|
| `ReadyQueue` | `EvalScheduler`'s methods | operators on a queue record; the loops that move one item at a time are in closed form |
| `EvalScheduler` | a caller of the queue | state machine; implements `WorkStack` |
| `WorkStack` | nothing in the code | abstract specification: one stack |
| `EvalSchedulerProofs` | | proofs about `EvalScheduler` |
| `FrameTree` | `run_scoped_eval_cycle` without expressions | abstract specification of `Evaluator`, and a model of the protocol for any program |
| `FrameTreeProofs` | | proofs about `FrameTree` |
| `HostQueues` | `HostScheduler`, `poll_pending_native`, permits | operators on a record |
| `HostScheduler` | `eval_typed_expr_inner`'s loop, the host, the controller | state machine that composes them |
| `HostSchedulerProofs` | | proofs about `HostScheduler` and the operators of `HostQueues` |
| `NativeTasks` | `NativeTask` coroutines and their prelude constructors | operators: task in, step out |
| `NativeTaskRun`, `MCNativeTaskRun` | one native call frame and its children | state machine and the calls it is checked on |
| `NativeTaskRunProofs` | | proofs about `NativeTaskRun` and the operators of `NativeTasks` |
| `LetRecGroup`, `LetRecGroupProofs` | `validate_let_rec_bindings` and the `LetRec` frame | state machine and proofs |
| `Evaluator` | `eval_enter`, `eval_receive`, application, matching, the cycle | state machine; uses `ReadyQueue` and `NativeTasks`, implements `FrameTree` |
| `Denotation` | pattern matching; the rest is nothing in the code | what a pattern binds (`Bindings`), and a reference interpreter: what an expression means |
| `MCEvaluator` | the programs | model values for `Evaluator` |
| `EvaluatorProofs` | | proofs about `Evaluator`, resting on those of `EvalScheduler` and `FrameTree` |
| `Heap`, `HeapProofs` | `Heap`, `RootScope`, `collect_machine_if_needed` | state machine and proofs |
| `FilesystemStore` | `FilesystemStoreImpl` | state machine |
| `ContentStore` | objects, trees, `Store` | operators on sets of objects |
| `OciJobs` | jobs, images, layout of the output directory, checks on an answer | operators |
| `ToolWorkspace` | job validation; import, export, transfer and output slots; the `PlanBuilder` of every tool | recursive operators on trees and directories; parts of a plan and how they join |
| `Workflow`, `MCWorkflow` | Docker and remote executors, tool processes, cleanup command | state machine on top of `FilesystemStore` and `OciJobs`, with the operators of `ToolWorkspace` as parameters; the jobs it is checked on |
| `WorkflowProofs` | | proofs about `FilesystemStore` and `Workflow` |
| `PdfTools`, `MediaTool`, `ImageTool`, `GraphTool`, `PlotTool` | `compile.rs` and `tool.rs` of the six tools | operators: request to plan, execution to answer |
| `ToolCalls`, `MCToolCalls` | one call of a tool | state machine and the requests it is checked on |
| `Syntax` | `rex-ast` | expressions, patterns and declarations as records |
| `TypeTerms` | types, substitutions, both unifiers; written types | operators |
| `Inference` | `infer`, `infer_typed` | one set of rules with a mode, different where the two functions differ |
| `Declarations` | `TypeSystem`'s registration of declarations | operators on a type system |
| `Resolution` | `qualify.rs`, `rewrite.rs`, exports | operators on a program |
| `ModuleLoader` | registries, the engine's type check, loading, the compiler's entry points | operators on an engine |
| `Navigation` | what the server computes from a program and a position | operators |
| `Analyses` | `diagnostics_from_text` and the queries beside it | all answers about one program, and reference definitions that judge them |
| `LanguageServer` | `tower.rs`, `shared.rs`, quick fixes | state machine |
| `FrontEnd`, `MCFrontEnd` | the server beside the command line | state machine, properties, programs |

How state and actions correspond to the code:

**Work queue.** `queue` is the struct. `SetReadyWorkLimit`, `Schedule` and `Pop`
are the three methods, each with the call to `enforce_ready_limit` or
`admit_deferred_ready` it ends with.

**Frame protocol.** `live`, `parent` and `waiting` are the frame store, of which
only who waits for whom is kept; `entering` and `returned` are the work items;
`host` the calls under way. An action is one cycle: pop an item, enter or receive,
obey the control (`Push`, `PushFrame` and `Schedule` are one action with one or
several children). Items are a set here, so every order of work is covered, the
code's LIFO order included. `Fail` is any of the `?` in the loop.

**Host scheduler.** `poll_pending_native` runs without interruption except at its
two `poll_fn` that may be pending, so a poll is one step that ends in an answer,
in `AwaitPermit` or in `AwaitEvent`; `Resume` is a wakeup there. A future that was
polled knows the task's waker, one that was not does not; the controller keeps the
last waker it refused. `HostComplete`, `SetCapacity` and `Cancel` come from the
outside at any time, `Cancel` only while the task is suspended, since it never
yields anywhere else.

**Evaluator.** Expressions are records, values tagged tuples shared with
`NativeTasks`. Of the types that application consults, an expression keeps the
arity and the receiver. `Cycle` is the whole of `run_runtime_cycle`. The poll is
reduced to its three answers: a completion, idle, or an error; immediate host
calls are answered in the order they were made, deferred ones in any order. What a
pattern binds is recursive over patterns and values, so it is a parameter
(`MatchPattern`): the configurations give it `Bindings` of `Denotation`, where the
code is, and the proofs hold for any matching. `MaxFrames` and `MaxFan` are the bounds
`FrameTree` is instantiated with; they restrict no action of `Evaluator`.

**Natives.** `TaskEnter` and `TaskReceive` are the two methods of the `Coroutine`
trait. A fan-out task keeps a slot for each child; a sequential one its cursor.

**`let rec`.** The depth-first search keeps its recursion as an explicit path, one
frame per function on it, so that each loop iteration is an action. At run time
`LookUp` may take any mentioned binding of a value, and of the functions it calls.

**Heap.** Cells keep only their pointers. `held` is the set of tokens the evaluator
can still use, which `collect_machine_if_needed` computes from its state (that no
frame forgets to report one is taken for granted: frames hold no tokens here); `Forget`
makes a token unused without a word to the heap, as the code does. `objects` and
`issued` are history variables. In the evaluator every scope defers collection, so
allocation never collects; the path that does is used by tests of the crate only.
Where live cells go is any one-to-one choice: the order of the trace and the
shuffle of extreme stress are two of them. The loops that register several roots and
that sweep the table are recursive functions over the number of steps done.

**Storage.** `disk` is the sequence of named files in the order of their renames, a
file being named by the object whose hash it should have. `puts` says for every
writer how far its temporary file is. `PowerLoss` keeps any prefix of the renames:
the model assumes a filesystem whose renames in one directory reach the disk in
order, as journals do; `put` syncs the file and not the directory. `remote` is the
second store, in which the executor only meets whole objects.

**Executors.** A step of a job is the code between two awaits, named by its `pc`.
`container`, `cli` and `reaper` belong to the daemon, to docker clients that live on
when the future that started them is dropped, and to the thread that
`ContainerCleanup::drop` starts. `faults` is a history of what the environment did,
which the properties refer to. A job's host is `process`, where `Cancel` drops the
future at an await and the guard runs, or `tool`, where `KillTool` ends everything
in the process at any point. What import, export, transfer and validation compute
from trees is a parameter of `Workflow` (`Imported`, `Downloaded`, `Exported`,
`Transferred`, `JobVerdict`): the configurations give it the operators of
`ToolWorkspace`, where the code is, and the proofs use only `PlansAssumption`.

**Tools.** A request is compiled by folding parts of a plan; a refused check makes
the plan refused. The properties read the finished arguments the way the tool
would: the streams that FFmpeg takes from maps and codec options, the settings a
gnuplot panel finds when the panels before it set theirs, the statements of a DOT
text. That reading is external and stated separately from the compilation. An axis
carries the domain its range and tick format are made for, as `validate_axis`
compares both with the domain of the series. The depth of a subgraph is counted
twice, as in the code: by `validate_subgraph_tree`, which stops at what it has
visited, and by `write_subgraph`.

**Front end.** All of it is sequential code, written as operators on records: a state
of inference, a type system, an engine. A span is an interval of token numbers, so
a position is a token. `Analyses` judges the results: names by intervals of tokens,
types by typing rules over the typed tree, loading by the log of what entered the
engine. Results for all texts a client may see are computed in `Init`, because
TLC keeps no definition that depends on recursive operators; the state machine then
looks them up by the text and the documents an analysis saw. `Result` and `Build`
are constants for the same reason: `ResultAssumption` and `BuildAssumption`, which
TLC evaluates, say that they are `ResultOf` and `BuildOf`, where the code is.

**Language server.** `docs` are the open documents, `cache` the parse cache, a job an
analysis: it takes its snapshot, looks the parse up, inserts it and answers, each a
step of its own. Notifications change `docs` in the order they arrive: tower-lsp
polls a handler before it takes the next message and no lock is held across a
suspension. Applying a quick fix is one step on the text the server then holds.
The command line compiles only while nothing is open, since it shares nothing but
the disk with the server.

## 4. Runs

| Run | Instance | What it shows |
|---|---|---|
| `eval_scheduler` | 2 items, limits 0..3, 6 queued | the queue keeps its limit, strands nothing and is one stack |
| `frame_tree` | 6 frames, 3 children per step | no internal error in any order of results; completion leaves nothing behind; `RunningInv`, the invariant of the proofs |
| `host_scheduler` | 3 calls, capacities 0, 1, 2, 2 changes | no internal error, calls conserved, permits balanced, no lost wakeup, admission within capacity, every call delivered |
| `native_tasks` | every native, collections up to length 3, all tables of callbacks that differ on them | slots belong to their children, the result is the reference one, no callback in vain, the call returns |
| `let_rec_group` | all groups of 3 bindings | the verdict is the rule, an accepted group is initialized safely, validation and initialization end |
| `evaluator` | 10 programs, ready work limits 1 and 3 | the answer is what the program denotes; `Evaluator` implements `FrameTree`; evaluation ends |
| `heap` | 3 objects with up to 2 pointers each, 3 root slots, 2 collections, threshold 1, with and without extreme stress | tokens resolve, pointers lead where they should, collection is exact, tokens are fresh |
| `workflow` | 2 jobs in 5 scenarios (trees, remote answers, numbered files, broken inputs, single files), 1 power failure, 1 cleanup command | stored files are whole, trees have their entries, answers are available and final, containers go away |
| `tool_calls` | 1613 requests to all operations, every exit code, every set of outputs | plans are valid jobs that name their slots, streams, figures and graphs are as asked, answers are complete |
| `front_end` | 2 analyses at a time, 5 clients with 2 documents, 3 edits, 2 states of the disk, 27 texts that parse and 2 that do not | names resolve, inferences agree, modules load in order, answers are of their text, fixes fit |
| `container_left` | as `workflow` | a violation, see Findings |
| `native_over_collects` | `unwrap (Some (\x -> x + 1)) 41` | a violation, see Findings |

Why the bounds are enough. The queue needs more items than twice the largest
limit for both directions of overflow to happen together. Six frames give a root
with three children, a grandchild and a host call. Three calls and a capacity of
two leave one call to wait while two run and one of them ends; two changes lower
the capacity below what runs and raise it again. Groups of three contain a value,
a function and a function reached through it, in every order and with every
cycle. The programs of `MCEvaluator` use every expression and pattern, and put
host calls side by side in every place that evaluates children together. Three
objects make a cycle, a shared child and garbage beside them, and two collections
let a slot of the root table be released and used again in a later epoch.
Two jobs are two writers of the same objects, one of them with a tree below a
tree; a second power failure would start from a store that the first one may
already leave. The requests contain every operation, every kind of stream and
encoding, panels that set what the next one does not, with a logarithmic, a timed and
a secondary axis, panels refused for an axis that does not fit its domain, and
subgraphs nested up to the limit and one deeper, once where the validation meets the
innermost first and only the writer refuses them, and once the other way round. The
programs contain every kind of expression, pattern and declaration, names that
hide imports and declarations, an import cycle, and programs that are refused at
each stage; three edits change, close and open again a document between the
snapshot of an analysis and its answer, or between a fix and its application.

Fairness. In `host_scheduler` the evaluator task is weakly fair, because an
executor polls a task that was woken; a future that is being polled eventually has
an answer; and a controller does not stay at capacity zero. Errors, cancellation,
and futures nobody polled have no fairness. In `evaluator` the task keeps running
and a host call answers or fails when there is nothing else to do. In
`native_tasks` children return, which is what `evaluator` shows of them. In
`let_rec_group` the program is sequential and takes its next step. In `workflow`
the executor never stays in one place for ever: its own steps happen, the docker
clients and puts it waits for end well or badly, and the timer fires while it
waits for the container. No job comes back to a place, and every place can be
left without the tool, so this is weak fairness of the steps that leave it, in
the form that TLC evaluates without `ENABLED`. The cleanup thread that the guard
starts is weakly fair. The tool, cancellation and the death of the process have
no fairness.

Deadlock is checked everywhere but in `heap` and `front_end`, where the bounds on
objects, roots and collections, and on edits, end the behaviour.

Every property has a mutant: a definition changed the way a mistake in that code
would change it, under which TLC finds the property violated.

## 5. Proofs

TLAPS checks these for all values of the constants, under the assumptions on the
constants only (`LimitsAssumption`, `ItemAssumption`, `MaxQueuedAssumption`,
`BoundsAssumption`, `GroupSize`, `PowerAssumption`, `HostBounds`,
`HeapAssumption`, `JobsAssumption`, `EvaluatorBounds`, `EvaluatorLimits`: bounds are
natural numbers, some of them not zero, ready work limits are natural numbers, a capacity above zero exists, `NoItem` is no item, jobs are writers of the
store; `StoreAssumption` and `PlansAssumption`: see the executors).

- **`ReadyQueueBounded`, `SchedulerIsOneStack`** (`EvalSchedulerProofs`). The
  inductive invariant `Sound` says that both queues hold items, that `ready` is
  within its limit and that nothing is deferred while `ready` is empty. The heart
  is that `EnforceReadyLimit` and `AdmitDeferredReady` keep "ready followed by
  deferred", the order in which items will be popped: `CutAndJoin` states that
  cutting a sequence and joining the parts in order changes nothing, and the two
  lemmas on these operators follow from it. Every step of `EvalScheduler` is then
  a step of `WorkStack`, and a change of the limit a stutter.
- **`FramesAreATree`, `FrameProtocolSound`, `CompletionLeavesNothing`**
  (`FrameTreeProofs`). `NoProtocolError` is not inductive: one must know that every
  awaited child is either live or has its result on the way (`Awaited`), that
  exactly the frames that wait for nobody have an enter item (`Entered`), that
  items and host calls belong to frames that expect them (`NoStrayItem`), and that
  parents are older than their children (`TreeShape`). The last one gives that a
  running evaluation has work: the youngest live frame waits for nobody but the
  host. `RootReturnsLast` shows that the root returns only when it is alone.
- **`AcceptedGroupIsSafe`, `ValidationIsRule`** (`LetRecGroupProofs`). The
  invariant `GroupInv` describes the search while it runs. `SearchSound`: all that
  an explored function mentions is initialized earlier and explored itself, or is
  still on the list of a call on the path; when the path is empty the explored set
  is therefore closed under mention, which justifies accepting. `SearchNeeded`:
  only functions the value can call are explored, which justifies rejecting. The
  verdict is thus exact, and while slots are filled everything a value can look up
  is `Covered`: initialized, with functions that stay among initialized bindings.
- **`StoredFilesAreWhole`** (`WorkflowProofs`), for any number of writers,
  objects and power failures. The state of the directory is kept by `Complete`:
  all files synced, no name twice. `RenameKeeps` uses that a rename is refused
  when the name is taken, `LossKeeps` that a prefix of complete files is complete.
- **`JobsStoreWholeFiles`, `TreesStayClosed`, `AnswersAreStored`,
  `AnswersAreFinal`** (`WorkflowProofs`), for any jobs, scenarios, cancellations,
  uses of the cleanup command and power failures. `StoreAssumption` says of the
  store a scenario starts from that it was filled by `put` and `put_tree`.
  `PlansAssumption` says of import and transfer that a slot that succeeds names
  only what it puts and stays within the bytes that are left, and that all they
  handle are objects; TLC evaluates both with the operators of `ToolWorkspace`.
  The invariant `IInv` has a part for the store and one for each job.
  `TreesClosed` alone does not survive a power failure: `Founded` says that the
  entries of a tree were renamed before it, so that every beginning of the disk is
  closed; `Answerable` says that the entries of a tree being put are there already,
  which is what `put_tree` looks up, and stay there as nothing is ever removed.
  `Progress` relates a job's answer to the store: the hashes collected so far are
  stored or still to be put, unless the slot is going to fail (`good`), and then
  something is still to be put, so that the job cannot succeed first.
  `ContainerOK` is why a result is final: a job that has seen its container exited
  has an exit code, no `docker create` of it is under way, and the container is
  exited or removed for good; one that has seen it created, which the code lets
  pass, has no exit code and never will, so that it fails for want of the record. One lemma for each action shows that it keeps the
  part of its job; `OneJob` and `OneStore` that the other jobs do not notice.
- **`HostTypeCorrect`, `HostNeverInternalError`, `HostCallsConserved`,
  `HostPermitsBalanced`, `HostNoLostWakeup`, `HostAdmitsWithinCapacity`**
  (`HostSchedulerProofs`), for any number of calls, items, capacities and changes.
  The proof is in two layers. Below, each operator of `HostQueues` keeps `Good`: the
  queues have their types and hold no call twice, deferred calls are in order, the
  permit counter is the number of pending calls with a permit. `AnswerGood` says
  what a poll promises its caller; `PollGood` puts the branches of
  `poll_pending_native` together. Above, `IInv` adds what the loop relies on: each
  call is with the scheduler or delivered and not both (`Accounted`); the boundary
  computed at the end of a cycle is still right at the next poll
  (`BoundaryRight`), which nothing but the loop's order of steps ensures; nothing is
  pending while the task waits for a permit; and a suspended task that nobody woke
  is `Quiet`: no pending future is ready, every one was polled and so knows the
  waker, and a waiting call leaves the waker with the controller. Without the last
  part `NoLostWakeup` is not inductive: a completion would not wake anyone.
- **`HeapTypeCorrect`, `HeapTokensResolve`, `HeapGraphKept`, `HeapTokensFresh`,
  `HeapCollectionExact`** (`HeapProofs`), for any number of objects, pointers,
  roots and collections. `IInv` has four parts. `Graph`: every cell has the current
  generation, is one object, and its pointers are valid and lead to the cells of
  what the object refers to. `TableOK`: registered roots point to cells; what is on
  the free list is free and is there once, without which a slot could be given to
  two holders. `IssuedOK`: a token handed out is the current one of its slot or of
  an earlier generation, which is why a reused slot makes a new token. `HeldOK`: a
  held token is registered and its pointer leads to its object. The loops that
  register roots and sweep the table are recursive functions of the step; that
  they keep these parts is shown by taking the least step where they would not
  (`LeastNat`, which is well-foundedness of the natural numbers). For a collection,
  `LiveIsClosure` shows that the cells traced from the swept table are those of the
  objects reachable from held tokens, `GraphMoved` and `TableMoved` that
  forwarding through any one-to-one placement keeps the parts above.

- **`FanOutBookkeeping`, `CallbacksAsNeeded`, `AnswersInAnyOrder`**
  (`NativeTaskRunProofs`), for any calls of the prelude's callback natives: any
  lists, options, results and dictionaries, and callbacks that compute anything of
  the right type. That arguments and results have the types the type checker gives
  them is `CallsAssumption`, which TLC evaluates for the calls of the run. `IInv`
  says that the state of a running native is a function of little: of a fan-out, of
  which children are still out (`FanOutRuns`: every filled slot has the result of its
  own element), which is why the order of completion cannot show; of a sequential
  task, of the element it has come to (`SearchRuns`: no earlier element decided;
  `EqualityRuns`: the elements before it are equal; `FoldRuns`, `SumRuns`,
  `MeanRuns`: what is folded so far is the reference fold of the elements before it,
  `FoldedTo`). Each part also counts the callbacks asked for by then. `NeededIsCost`
  relates that count to `Needed`, `NativeAnswers` what a task returns to `Expected`.
  The references of `filter`, `filter_map`, `partition`, the folds, `sum` and `mean`
  are recursive functions, and so is the insertion of the pairs of `dict_map`. `KeepingLoop`, `FoldedLoop` and `EntriesLoop`
  show, by the least step at which it could fail, that each is the function its
  definition describes; `SelectedIsKeeping` and `EntriesFacts` go through such a
  loop in the same way, and need that positions and keys are numbered in their order
  (`NthFacts`: the rank of an element is a bijection and monotonic).
- **`EvaluatorKeepsProtocol`, `EvaluatorKeepsInvariants`** (`EvaluatorProofs`): every
  behaviour of `Evaluator` is one of `FrameTree`, for all programs, natives, methods,
  host answers, ready work limits and matchings of patterns, so that
  `NoProtocolError` and `NothingLeftBehind` hold of the evaluator itself. The
  inductive invariant is the one of `FrameTree`, read through the mapping
  (`Frames!IInv`), and `LoopInv`: no two items of the queue have the same frame and
  child (`Unrepeated`), without which the set of items that `FrameTree` keeps would
  forget one; a native call frame holds one of the tasks the prelude makes and a
  frame that collects results counts exactly those it still expects (`Counted`); a
  completion is not in the queue yet; and a cycle only runs when there is work. The
  proof is in three layers. `Scheduled`, `PushKeys` and their like reduce the queue,
  by what is proved of its order in `EvalSchedulerProofs`, to the set of its keys.
  `EnterDoes` and `ReceiveDoes` say of the handlers all that the protocol sees: a
  frame that enters asks for one frame or host call, fans out and counts what it
  asked for, returns or fails; one that receives may also go on waiting, and a frame
  that counts does so unless the result was its last. There is one lemma for every
  kind of expression, frame and task. `ObeyAsks`, `ObeyFans`, `ObeyWaits` and
  `ObeyReturns` then match what the cycle does with each control to the step of
  `FrameTree`. The hypothesis `[]WithinBounds` says what `FrameTree` has in its guards
  and `Evaluator` has not: at most `MaxFrames` frames are made and a step schedules at
  most `MaxFan`, for any two numbers; the lists of a frame are sequences. It excludes
  no program, since some bound holds of every finite behaviour. In the runs `MaxFan` is 5, and
  TLC found `WithinBounds` true throughout `evaluator`.

Only model-checked, and why: what programs compute (`AnswerIsMeaning`: it needs
induction over expressions, which the prover's library offers only through theorems
that none of the provers can instantiate; for the natives the recursion is over
positions, and the least counterexample does);
all liveness properties, which are out of the prover's
reach; and everything in the modules with recursive operators, which are out of its
reach too: `Denotation`, `ToolWorkspace` (so that `PlansAssumption` is
checked for the scenarios of the run, not for all), the tools, and the whole front
end.

## 6. Findings

- `native_over_collects`. `NativeFn::apply` (`native_fn.rs:107`) calls a native when
  the rest of its type is no longer a function type, and never looks at its arity.
  At a type where the result is itself a function, the native takes the next
  argument too: `unwrap (Some (\x -> x + 1)) 41` gives the closure and drops the 41.
  `docs/src/BUILTINS.md` line 33 says functions are curried and line 1005 gives
  `unwrap` one parameter.
- `container_left`. `README.md` line 274 says that the container executor removes the
  container on cancellation. A dropped call of an external tool kills the tool
  process (`external.rs:228`), and the guard that would remove the container dies
  with it. In the evaluator's own process, a `docker create` that outlives its
  dropped future can be served after the guard's removal.

Met while modelling, and not shown by a run of their own:

- Scopes. `rename_expr` (`qualify.rs`) and `validate_import_uses_expr` and
  `rewrite_import_uses_expr` (`rewrite.rs`) keep one set of bound names and remove a
  name when a scope ends, also if an outer scope binds it: in
  `\x -> ((let x = 1 in x), x)` the last `x` is taken for a module's or an import's
  `x` when there is one. `docs/src/SPEC.md` line 205 says bound names hide imports.
  `NamesResolved` leaves out programs that bind a name again inside its own scope,
  so that no property covers this hazard.
- Import cycles. Before the members of a cycle are injected only the interfaces of
  their functions are published, so a public type of one member is unknown to
  another that is injected earlier; a cycle through the root injects the root twice.
- `check_fn_decl_bodies` (`typesystem.rs:901`) does not keep declared type parameters
  rigid: `fn f<a> (x: a) -> a = true` is accepted with the type it declares.
- `infer` and `infer_typed` differ on polymorphic overloads, on chains of
  applications in tail position and on `[true, -1]`; a `let` that is never used
  drops the predicates of its definition on variables of the environment; constraints
  of functions are compared by their rendered text. `TypesAgree` compares the two on
  programs without these.
- Language server. Every module without a body gets an error, since diagnostics
  infer the body; hover and references find nothing there. Diagnostics of an older
  text may be published last, also after a document was closed. Rename edits carry
  no version. Rename and references miss the bodies of instance methods. Between
  the validation of a fix and its application by the client the document may be
  closed and opened again with the same version.
- Tools. An FFmpeg stream reference without an index maps all streams of its kind;
  ImageMagick's check for an alpha channel finds an `a` in `gray`; Graphviz clusters
  `x` and `cluster_x` are written with one name.

## 7. What the models leave out

In the evaluator: types beyond what application looks at, integer widths of
literals, methods that several natives implement at one type, and an embedder that
shares one controller between evaluators. In the heap: the u32 limit on slots, the
u64 wrap of generations, and allocation that collects (tests only). In the store:
hashes that collide, bytes that are put as a blob and happen to encode a tree, and filesystems that lose an older rename and keep a newer
one. In the executors: how long anything takes, and what a daemon does besides the
commands it is given; the remote store in the middle of an upload. In the tools: the
wording of arguments; the rounding of gnuplot's histograms, which divide in f64
(`RawBin` is exact; a sample on a bin boundary that f64 does not hold may be counted
one bin off, and the checked histograms have none). In the front end:
characters, formatting, the text of errors and where they are reported. And all of
the second table of section 1.
