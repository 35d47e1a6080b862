--------------------------- MODULE ToolWorkspace ---------------------------
(***************************************************************************)
(* What the executors compute from jobs, trees and directories: validation  *)
(* of a job (rex/src/workflow/executor/mod.rs), import, export and transfer *)
(* of trees (rex/src/storage/transfer.rs, executor/remote.rs), and what is  *)
(* taken out of an output directory or a remote answer (workspace.rs,       *)
(* remote.rs); at the end, the plans that the tools compile requests to.    *)
(***************************************************************************)
EXTENDS OciJobs

RECURSIVE ValidJobArgument(_, _, _)
ValidJobArgument(a, inputs, outputs) ==
  CASE a.is = "literal" -> ~a.bad
    [] a.is \in {"Input", "InputParent"} -> a.id < inputs
    [] a.is = "Output" -> a.id < outputs
    [] OTHER -> \A i \in DOMAIN a.parts :
                  ValidJobArgument(a.parts[i], inputs, outputs)

ValidateOciJob(job, platform, capabilities) ==
  IF ImageVerdict(job.image, TRUE) # "ok" THEN "InvalidJob"
  ELSE IF job.platform # platform THEN "Unsupported"
  ELSE IF job.command = 0 THEN "InvalidJob"
  ELSE IF \E i \in DOMAIN job.arguments :
            ~ValidJobArgument(job.arguments[i], Len(job.inputs), Len(job.outputs))
  THEN "InvalidJob"
  ELSE IF job.limit = 0 THEN "InvalidJob"
  ELSE IF ~(job.isolation \cup Enforced \subseteq capabilities) THEN "Unsupported"
  ELSE "ok"

-----------------------------------------------------------------------------
(* Paths and trees.                                                          *)

RECURSIVE ResolvePath(_, _, _)
ResolvePath(store, o, components) ==
  IF components = <<>> THEN [ok |-> TRUE, hash |-> o]
  ELSE LET tree == GetTree(store, o)
       IN IF ~tree.ok THEN tree
          ELSE IF Head(components) \notin DOMAIN tree.entries
          THEN Failed("NotFound")
          ELSE ResolvePath(store, tree.entries[Head(components)].hash,
                           Tail(components))

-----------------------------------------------------------------------------
(* Import, export and transfer of trees: the objects they put, in order, and *)
(* whether they succeed.  On a failure the objects before it stay.           *)

Stored(puts, kind, o) == [ok |-> TRUE, puts |-> puts, kind |-> kind, hash |-> o]
Stopped(puts) == [ok |-> FALSE, puts |-> puts]

RECURSIVE ImportPath(_)
ImportPath(node) ==
  CASE node.is = "file" -> Stored(<<node.object>>, "Blob", node.object)
    [] node.is = "dir" ->
         LET Step(name, acc) ==
               IF ~acc.ok THEN acc
               ELSE LET child == ImportPath(node.children[name])
                    IN IF ~child.ok THEN Stopped(acc.puts \o child.puts)
                       ELSE [ok |-> TRUE, puts |-> acc.puts \o child.puts,
                             made |-> Append(acc.made,
                                [kind |-> child.kind, hash |-> child.hash])]
             names == NamesOf(node.children)
             all == FoldLeft(LAMBDA acc, name : Step(name, acc),
                             [ok |-> TRUE, puts |-> <<>>, made |-> <<>>], names)
             tree == EncodeTree([n \in DOMAIN node.children |->
                        all.made[CHOOSE i \in DOMAIN names : names[i] = n]])
         IN IF ~all.ok THEN all
            ELSE Stored(Append(all.puts, tree), "Tree", tree)
    [] OTHER -> Stopped(<<>>)

ValidTreeName(name) == name # 0   \* 0 stands for a name that leaves the directory

RECURSIVE ExportTree(_, _)
ExportTree(store, o) ==
  LET tree == GetTree(store, o)
  IN tree.ok /\ \A n \in DOMAIN tree.entries :
       /\ ValidTreeName(n)
       /\ IF tree.entries[n].kind = "Blob" THEN tree.entries[n].hash \in store
          ELSE ExportTree(store, tree.entries[n].hash)

\* materialize_inputs for one input.
Export(store, kind, o) == IF kind = "Blob" THEN o \in store ELSE ExportTree(store, o)

\* transfer_object: entries before their tree; the tree is encoded again, and
\* has to come out the same.
RECURSIVE TransferObject(_, _, _)
TransferObject(source, o, kind) ==
  LET tree == GetTree(source, o)
  IN CASE kind = "Blob" -> IF o \in source THEN Stored(<<o>>, kind, o) ELSE Stopped(<<>>)
       [] kind = "Tree" /\ ~tree.ok -> Stopped(<<>>)
       [] OTHER ->
            LET below == FoldLeft(LAMBDA acc, n :
                  IF ~acc.ok THEN acc
                  ELSE LET child == TransferObject(source, tree.entries[n].hash,
                                                   tree.entries[n].kind)
                       IN [ok |-> child.ok, puts |-> acc.puts \o child.puts],
                  [ok |-> TRUE, puts |-> <<>>], NamesOf(tree.entries))
            IN IF ~below.ok THEN below
               ELSE LET again == EncodeTree([n \in DOMAIN tree.entries |->
                          [kind |-> tree.entries[n].kind,
                           hash |-> tree.entries[n].hash]])
                        puts == Append(below.puts, again)
                    IN IF again = o THEN Stored(puts, kind, o) ELSE Stopped(puts)

-----------------------------------------------------------------------------
(* The output directory and the remote answer.                               *)

\* regular_files: all files below a directory, none if it is not there; links
\* and special files are refused.
RECURSIVE RegularFiles(_)
RegularFiles(node) ==
  LET Under(name) ==
        LET child == node.children[name]
        IN CASE child.is = "file" -> [ok |-> TRUE, files |-> <<<<name, child.object>>>>]
             [] child.is = "dir" -> RegularFiles(child)
             [] OTHER -> [ok |-> FALSE, files |-> <<>>]
  IN IF node.is # "dir" THEN [ok |-> FALSE, files |-> <<>>]
     ELSE FoldLeft(LAMBDA acc, name : [ok |-> acc.ok /\ Under(name).ok,
                                       files |-> acc.files \o Under(name).files],
                   [ok |-> TRUE, files |-> <<>>], NamesOf(node.children))

FilesLength(files) ==
  FoldLeft(LAMBDA sum, f : sum + Length(f[2]), 0, files)

ObjectsOf(files) == [k \in DOMAIN files |-> files[k][2]]

\* One iteration of import_outputs: what slot i contributes when `left` bytes
\* of the limit are left, the bytes it adds to the account, and what is put into
\* the store.  Scan and account come before the first put.
ImportSlot(out, kind, i, left) ==
  LET found == SlotName(i) \in DOMAIN out.children
      there == out.children[SlotName(i)]
      below == IF found THEN RegularFiles(there) ELSE [ok |-> TRUE, files |-> <<>>]
      all == RegularFiles(out)
      scan == CASE kind = "Single" ->
                     IF found THEN [ok |-> there.is = "file",
                                    files |-> IF there.is = "file" THEN <<<<0, there.object>>>>
                                              ELSE <<>>]
                     ELSE [ok |-> TRUE, files |-> <<>>]
                [] kind = "Numbered" ->
                     [ok |-> all.ok,
                      files |-> SelectSeq(all.files, LAMBDA f : HasPrefix(f[1], i))]
                [] OTHER -> below
      bytes == FilesLength(scan.files)
      tree == IF found THEN ImportPath(there) ELSE Stopped(<<>>)
  IN IF ~scan.ok \/ bytes > left THEN [ok |-> FALSE, bytes |-> 0, puts |-> <<>>, hashes |-> <<>>]
     ELSE IF kind # "Tree"
     THEN [ok |-> TRUE, bytes |-> bytes, puts |-> ObjectsOf(scan.files),
           hashes |-> ObjectsOf(scan.files)]
     ELSE [ok |-> tree.ok, bytes |-> bytes, puts |-> tree.puts,
           hashes |-> IF tree.ok THEN <<tree.hash>> ELSE <<>>]

\* The remote executor's loop over the objects of one slot: each is measured,
\* accounted for and transferred before the next.
DownloadSlot(source, kind, hashes, left) ==
  LET Step(acc, o) ==
        LET size == RemoteObjectSize(source, o, EntryKind(kind))
            moved == TransferObject(source, o, EntryKind(kind))
        IN IF ~acc.ok THEN acc
           ELSE IF size < 0 \/ acc.bytes + size > left THEN [acc EXCEPT !.ok = FALSE]
           ELSE [acc EXCEPT !.ok = moved.ok, !.bytes = @ + size, !.puts = @ \o moved.puts]
  IN FoldLeft(Step, [ok |-> RemoteSlotShape(kind, hashes), bytes |-> 0, puts |-> <<>>,
                     hashes |-> hashes], hashes)

-----------------------------------------------------------------------------
(***************************************************************************)
(* Execution plans: what the compile.rs of every tool builds with its own   *)
(* PlanBuilder, an argument vector, the inputs and the outputs declared so  *)
(* far, and whether a check refused the request.                            *)
(*                                                                          *)
(* A part of a plan numbers its slots from 0; Cat puts parts one after the  *)
(* other, as successive pushes to one builder do.  The checks of a request  *)
(* only decide whether there is a plan, so a refused part keeps building.   *)
(***************************************************************************)

(* A value a request carries, as far as compiling it tells: "fine",          *)
(* "invalid" when the check of its kind refuses it, "nul" when it is text    *)
(* with a NUL byte that no check looks at.  An Option is <<>> or <<v>>.      *)

Values == {"fine", "invalid", "nul"}
Text(v) == IF v = "nul" THEN BadLiteral ELSE Literal

Nothing == [ok |-> TRUE, args |-> <<>>, inputs |-> <<>>, outputs |-> <<>>]

Args(as) == [ok |-> TRUE, args |-> as, inputs |-> <<>>, outputs |-> <<>>]
Words(n) == Args([i \in 1..n |-> Literal])
When(cond, part) == IF cond THEN part ELSE Nothing
Needs(cond) == [ok |-> cond, args |-> <<>>, inputs |-> <<>>, outputs |-> <<>>]

\* One argument per value, unchecked and checked.
Texts(vs) == Args([i \in DOMAIN vs |-> Text(vs[i])])
Checked(vs) == [Texts(vs) EXCEPT !.ok = \A i \in DOMAIN vs : vs[i] # "invalid"]

\* `-name value', a name of this model with the value it is given.
Opt(name, value) == [is |-> "literal", bad |-> FALSE, opt |-> name, value |-> value]
IsOpt(a, name) == "opt" \in DOMAIN a /\ a.opt = name

\* An input or an output and the argument that names it; one that no argument
\* names yet.
TakeInput(hash, kind, arg) ==
  [ok |-> TRUE, args |-> <<arg>>, inputs |-> <<[hash |-> hash, kind |-> kind]>>,
   outputs |-> <<>>]
Input(hash, kind) == TakeInput(hash, kind, Slot("Input", 0))
DecoratedInput(hash, kind) ==
  TakeInput(hash, kind, Joined(<<Literal, Slot("Input", 0), Literal>>))
SilentInput(hash, kind) == [Input(hash, kind) EXCEPT !.args = <<>>]
Output(kind) ==
  [ok |-> TRUE, args |-> <<Slot("Output", 0)>>, inputs |-> <<>>, outputs |-> <<kind>>]
SuffixedOutput(kind) ==
  [Output(kind) EXCEPT !.args = <<Joined(<<Slot("Output", 0), Literal>>)>>]

-----------------------------------------------------------------------------

RECURSIVE Shift(_, _, _)
Shift(a, inputs, outputs) ==
  CASE a.is = "literal" -> a
    [] a.is = "Output" -> [a EXCEPT !.id = @ + outputs]
    [] a.is = "joined" ->
         [a EXCEPT !.parts = [i \in DOMAIN @ |-> Shift(@[i], inputs, outputs)]]
    [] OTHER -> [a EXCEPT !.id = @ + inputs]

\* Slots that start again for every part.
ThenRestarted(p, q) ==
  [ok |-> p.ok /\ q.ok, args |-> p.args \o q.args, inputs |-> p.inputs \o q.inputs,
   outputs |-> p.outputs \o q.outputs]
Then(p, q) ==
  [ok |-> p.ok /\ q.ok,
   args |-> p.args \o [i \in DOMAIN q.args |->
                         Shift(q.args[i], Len(p.inputs), Len(p.outputs))],
   inputs |-> p.inputs \o q.inputs,
   outputs |-> p.outputs \o q.outputs]

Cat(parts) == FoldLeft(Then, Nothing, parts)

\* The arguments of a part joined to one.
AsOne(p) == [p EXCEPT !.args = <<Joined(p.args)>>]

-----------------------------------------------------------------------------
(* The job a plan becomes: State::execute_tool adds the image, the platform  *)
(* and the limits of the tool environment.                                   *)

JobOf(plan, platform) ==
  [image |-> "digest", platform |-> platform, command |-> 1,
   arguments |-> plan.args, inputs |-> plan.inputs, outputs |-> plan.outputs,
   limit |-> 1, isolation |-> Isolation]

RECURSIVE SlotsIn(_)
SlotsIn(a) ==
  CASE a.is = "literal" -> {}
    [] a.is = "joined" -> UNION {SlotsIn(a.parts[i]) : i \in DOMAIN a.parts}
    [] OTHER -> {a}
SlotsOf(plan) == UNION {SlotsIn(plan.args[i]) : i \in DOMAIN plan.args}

RECURSIVE HasNul(_)
HasNul(a) ==
  CASE a.is = "literal" -> a.bad
    [] a.is = "joined" -> \E i \in DOMAIN a.parts : HasNul(a.parts[i])
    [] OTHER -> FALSE

=============================================================================
