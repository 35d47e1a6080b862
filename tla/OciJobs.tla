------------------------------ MODULE OciJobs ------------------------------
(***************************************************************************)
(* OCI jobs as data: arguments, images, the layout of the output directory, *)
(* and the checks on what a backend answers (rex/src/workflow/executor/     *)
(* mod.rs, workspace.rs and remote.rs).                                     *)
(***************************************************************************)
EXTENDS ContentStore

Isolation == {"network", "read_only_root", "read_only_inputs", "non_root",
              "drop_capabilities", "no_new_privileges", "no_devices",
              "no_secrets", "no_mounts"}
Enforced == {"timeout", "stream_limits", "output_limit", "temporary_limit",
             "memory_limit", "cpu_limit", "pid_limit"}

\* An argument: a literal, a path slot, or several joined; NUL bytes make a
\* literal bad.
Literal == [is |-> "literal", bad |-> FALSE]
BadLiteral == [is |-> "literal", bad |-> TRUE]
Slot(kind, id) == [is |-> kind, id |-> id]
Joined(parts) == [is |-> "joined", parts |-> parts]

\* A reference is "digest", "tag" or "malformed".
ImageVerdict(reference, allowTags) ==
  IF reference = "malformed" \/ (reference = "tag" /\ ~allowTags)
  THEN "InvalidJob" ELSE "ok"

\* The checks of OciToolExecutor::execute on what a backend answers.
ProvenanceAccepted(job, executor, platform, execution) ==
  LET p == execution.provenance
  IN /\ p.executor = executor /\ p.platform = platform
     /\ p.inputs = [i \in DOMAIN job.inputs |-> job.inputs[i].hash]
     /\ p.outputs = execution.outputs
     /\ job.image = "digest" => p.digest = "declared"

-----------------------------------------------------------------------------
(* The output directory: slot i of a job is the file or the directory        *)
(* SlotName(i), or the files NumberedName(i, n).  Slots count from 0.        *)

SlotName(i) == 10 * (i + 1)
NumberedName(i, n) == SlotName(i) + n
HasPrefix(name, i) == name \in {NumberedName(i, n) : n \in 1..9}

\* prepare_outputs creates the directories.
EmptyOutputs(outputs) ==
  LET dirs == {i \in DOMAIN outputs : outputs[i] \in {"Directory", "Tree"}}
  IN Dir([n \in {SlotName(i - 1) : i \in dirs} |-> Dir(<<>>)])

EntryKind(outputKind) == IF outputKind = "Tree" THEN "Tree" ELSE "Blob"

\* The checks of the remote executor on the answer of its runner, a function
\* from slots to the hashes of each.
RemoteSlotsDeclared(job, outputs) ==
  Cardinality(DOMAIN outputs) = Len(job.outputs) /\ DOMAIN outputs \subseteq DOMAIN job.outputs

RemoteSlotShape(kind, hashes) ==
  (kind = "Single" => Len(hashes) <= 1) /\ (kind = "Tree" => Len(hashes) = 1)
=============================================================================
