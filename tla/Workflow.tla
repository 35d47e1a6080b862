------------------------------ MODULE Workflow ------------------------------
(***************************************************************************)
(* Tool jobs: the Docker executor with its container, command line          *)
(* processes and cleanup guard (rex/src/workflow/executor/docker.rs), the   *)
(* remote executor with a store of its own (remote.rs), the generic adapter *)
(* around both (mod.rs), tool processes (tools/external.rs), and the        *)
(* cleanup command (bin/rex.rs), on one filesystem store.                   *)
(*                                                                          *)
(* A job runs in the evaluator's process, or in a tool process that the     *)
(* evaluator starts and kills when the call is dropped.  A step of a job is *)
(* the code between two awaits.  The Docker daemon, the tool, the remote    *)
(* runner, other writers and the power are the environment.                 *)
(*                                                                          *)
(* What is computed from trees and directories is a parameter, given by the *)
(* operators of ToolWorkspace that are named beside it.                     *)
(***************************************************************************)
EXTENDS FilesystemStore, OciJobs

CONSTANTS
  JobVerdict(_, _, _),    \* ValidateOciJob: the verdict on a job
  Exported(_, _, _),      \* Export: whether an input can be materialized
  Transferred(_, _, _),   \* TransferObject: what is sent to the remote store
  Imported(_, _, _, _),   \* ImportSlot: what is taken out of the output directory
  Downloaded(_, _, _, _)  \* DownloadSlot: what is taken from the remote store

CONSTANTS
  Jobs,           \* the jobs, each one a writer of the store
  Scenarios,      \* what may be asked: [store, plan, runs], see Init
  AllowImageTags, \* OciToolExecutor's setting
  MaxCleanups     \* bound on uses of the cleanup command

ASSUME JobsAssumption == Jobs \subseteq Writers /\ MaxCleanups \in Nat

\* The store a scenario starts from was filled by put and put_tree: no object
\* twice, and the entries of a tree before the tree.
ASSUME StoreAssumption ==
  \A s \in Scenarios :
    /\ s.store \in Seq(Objects)
    /\ \A i, k \in DOMAIN s.store : s.store[i] = s.store[k] => i = k
    /\ \A i \in DOMAIN s.store : s.store[i].is = "Tree" =>
         \A n \in DOMAIN s.store[i].entries :
           \E k \in 1 .. i - 1 : s.store[k] = s.store[i].entries[n].hash

\* What a slot contributes fits what is left of the limit, and all that it names
\* is among what it puts.
Sound(slot, left) ==
  /\ slot.ok \in BOOLEAN /\ slot.bytes \in 0 .. left
  /\ slot.puts \in Seq(Objects) /\ slot.hashes \in Seq(Objects)
  /\ slot.ok => ToSet(slot.hashes) \subseteq ToSet(slot.puts)

\* The jobs have their parts, and import and transfer are sound for them.
ASSUME PlansAssumption ==
  \A s \in Scenarios, j \in Jobs :
    LET plan == s.plan[j]
    IN /\ plan.backend \in {"docker", "remote"} /\ plan.limit \in Nat
       /\ plan.outputs \in Seq({"Single", "Numbered", "Directory", "Tree"})
       /\ \A i \in DOMAIN plan.inputs, store \in SUBSET Objects :
            ToSet(Transferred(store, plan.inputs[i].hash, plan.inputs[i].kind).puts)
              \subseteq Objects
       /\ plan.backend = "docker" =>
            \A out \in s.runs[j] \cup {EmptyOutputs(plan.outputs)},
               i \in DOMAIN plan.outputs, left \in 0 .. plan.limit :
              Sound(Imported(out, plan.outputs[i], i - 1, left), left)
       /\ plan.backend = "remote" =>
            \A run \in s.runs[j] :
              /\ run.objects \subseteq Objects
              /\ RemoteSlotsDeclared(plan, run.outputs) =>
                   \A store \in SUBSET Objects, i \in DOMAIN plan.outputs,
                      left \in 0 .. plan.limit :
                     Sound(Downloaded(store, plan.outputs[i], run.outputs[i], left), left)

VARIABLES
  scenario,    \* the chosen scenario
  jobs,        \* per job: where its future is and what it knows
  container,   \* per job: its container, as the daemon sees it
  cli,         \* per job: docker commands that were started and not yet served
  work,        \* per job: exit code record and output directory
  reaper,      \* per job: the cleanup thread of the guard
  faults,      \* per job: what the environment did to it (history)
  remote,      \* objects of the remote store
  cleanup      \* the cleanup command: uses left, and the containers it listed

wfVars == <<scenario, jobs, container, cli, work, reaper, faults, remote, cleanup>>
vars == <<fsVars, wfVars>>

Plan(j) == scenario.plan[j]

NoCode == -1
Platform == "linux"
DockerCapabilities == Isolation \cup Enforced

NewJob == [pc |-> "submitted", armed |-> FALSE, seen |-> "none", digest |-> "none",
           removed |-> "none", slot |-> 1, bytes |-> 0, todo |-> <<>>, good |-> TRUE,
           hashes |-> <<>>, answer |-> <<>>, outcome |-> [status |-> "none"]]

Init ==
  /\ scenario \in Scenarios
  /\ disk = [i \in DOMAIN scenario.store |-> [name |-> scenario.store[i], data |-> "synced"]]
  /\ puts = [w \in Writers |-> NoPut]
  /\ losses = 0
  /\ jobs = [j \in Jobs |-> NewJob]
  /\ container = [j \in Jobs |-> "none"]
  /\ cli = [j \in Jobs |-> {}]
  /\ work = [j \in Jobs |-> [exit |-> NoCode, out |-> EmptyOutputs(Plan(j).outputs)]]
  /\ reaper = [j \in Jobs |-> "none"]
  /\ faults = [j \in Jobs |-> {}]
  /\ remote = {}
  /\ cleanup = [left |-> MaxCleanups, listed |-> {}]

-----------------------------------------------------------------------------
(* Steps that change only one job.                                           *)

Becomes(j, fields) ==
  jobs' = [jobs EXCEPT ![j] =
    [f \in DOMAIN jobs[j] |-> IF f \in DOMAIN fields THEN fields[f] ELSE jobs[j][f]]]

OnlyJob == UNCHANGED <<fsVars, scenario, container, cli, work, reaper, faults, remote, cleanup>>

At(j, pc) == jobs[j].pc = pc

\* The future ends: its guard, if it is still armed, starts the cleanup thread.
Dropped(j) == reaper' = [reaper EXCEPT ![j] = IF jobs[j].armed THEN "pending" ELSE @]

ErrorOf(kind) == [status |-> "error", kind |-> kind]

Fails(j, kind) ==
  /\ Becomes(j, [pc |-> "ended", armed |-> FALSE, outcome |-> ErrorOf(kind)])
  /\ Dropped(j)

FailsOnly(j, kind) ==
  /\ Fails(j, kind)
  /\ UNCHANGED <<fsVars, scenario, container, cli, work, faults, remote, cleanup>>

\* OciToolExecutor::execute up to the backend, and the backend's validation.
Verdict(j) ==
  LET image == ImageVerdict(Plan(j).image, AllowImageTags)
      job == JobVerdict(Plan(j), Platform, DockerCapabilities)
  IN IF image # "ok" THEN image ELSE job

Validate(j) ==
  /\ At(j, "submitted")
  /\ LET verdict == Verdict(j)
     IN CASE verdict # "ok" -> FailsOnly(j, verdict)
          [] verdict = "ok" /\ Plan(j).backend = "docker" ->
               Becomes(j, [pc |-> "prepare"]) /\ OnlyJob
          [] verdict = "ok" /\ Plan(j).backend = "remote" ->
               \* manifest_digest: a tag is not enough here.
               IF Plan(j).image = "digest"
               THEN Becomes(j, [pc |-> "upload"]) /\ OnlyJob
               ELSE FailsOnly(j, "InvalidJob")

-----------------------------------------------------------------------------
(* Docker: create, start, wait.                                              *)

\* The workspace is made and the inputs are materialized; the guard is armed
\* before `docker create` is started.
PrepareLateGuard(j) ==
  /\ At(j, "prepare")
  /\ \A i \in DOMAIN Plan(j).inputs :
       Exported(Readable, Plan(j).inputs[i].kind, Plan(j).inputs[i].hash)
  /\ Becomes(j, [pc |-> "create"])
  /\ cli' = [cli EXCEPT ![j] = @ \cup {"create"}]
  /\ UNCHANGED <<fsVars, scenario, container, work, reaper, faults, remote, cleanup>>

Prepare(j) ==
  /\ At(j, "prepare")
  /\ \A i \in DOMAIN Plan(j).inputs :
       Exported(Readable, Plan(j).inputs[i].kind, Plan(j).inputs[i].hash)
  /\ Becomes(j, [pc |-> "create", armed |-> TRUE])
  /\ cli' = [cli EXCEPT ![j] = @ \cup {"create"}]
  /\ UNCHANGED <<fsVars, scenario, container, work, reaper, faults, remote, cleanup>>

\* An input is missing, or the directories cannot be made.
PrepareFails(j) == At(j, "prepare") /\ FailsOnly(j, "Infrastructure")

\* The daemon serves `docker create`, whether anyone still waits or not.
Create(j) ==
  /\ "create" \in cli[j]
  /\ cli' = [cli EXCEPT ![j] = @ \ {"create"}]
  /\ container' = [container EXCEPT ![j] = "created"]
  /\ IF At(j, "create")
     THEN Becomes(j, [pc |-> "start"]) /\ faults' = faults
     ELSE UNCHANGED jobs /\ faults' = [faults EXCEPT ![j] = @ \cup {"created late"}]
  /\ UNCHANGED <<fsVars, scenario, work, reaper, remote, cleanup>>

CreateFails(j) ==
  /\ At(j, "create")
  /\ cli' = [cli EXCEPT ![j] = {}]
  /\ Fails(j, "Infrastructure")
  /\ UNCHANGED <<fsVars, scenario, container, work, faults, remote, cleanup>>

\* `docker start --attach` is spawned as a child.
Start(j) == At(j, "start") /\ Becomes(j, [pc |-> "wait"]) /\ OnlyJob

StartFails(j) == At(j, "start") /\ FailsOnly(j, "Infrastructure")

ContainerOnly(j, state) ==
  /\ container' = [container EXCEPT ![j] = state]
  /\ UNCHANGED <<fsVars, scenario, jobs, cli, work, reaper, faults, remote, cleanup>>

ContainerStarts(j) == At(j, "wait") /\ container[j] = "created" /\ ContainerOnly(j, "running")

\* The tool leaves files in the output directory; then the wrapper renames the
\* exit code to its place, and ends.
ToolWrites(j) ==
  /\ container[j] = "running" /\ work[j].exit = NoCode
  /\ \E out \in scenario.runs[j] :
       /\ out # work[j].out
       /\ work' = [work EXCEPT ![j].out = out]
  /\ UNCHANGED <<fsVars, scenario, jobs, container, cli, reaper, faults, remote, cleanup>>

WrapperRecords(j) ==
  /\ container[j] = "running" /\ work[j].exit = NoCode
  /\ \E code \in {0, 1} : work' = [work EXCEPT ![j].exit = code]
  /\ UNCHANGED <<fsVars, scenario, jobs, container, cli, reaper, faults, remote, cleanup>>

ContainerExits(j) ==
  container[j] = "running" /\ work[j].exit # NoCode /\ ContainerOnly(j, "exited")

\* Out of memory, a dead container or a runtime error.
ContainerDies(j) == container[j] = "running" /\ ContainerOnly(j, "died")

\* The attached client ends: the container stopped, was never started, or the
\* connection broke.  Its status is ignored.
AttachEnds(j) == At(j, "wait") /\ Becomes(j, [pc |-> "inspect"]) /\ OnlyJob

\* The client cannot be waited for; the guard sees to the container.
AttachFails(j) == At(j, "wait") /\ FailsOnly(j, "Infrastructure")

AskRemoval(j, pc) ==
  /\ Becomes(j, [pc |-> pc])
  /\ cli' = [cli EXCEPT ![j] = @ \cup {"rm"}]
  /\ UNCHANGED <<fsVars, scenario, container, work, reaper, faults, remote, cleanup>>

\* The timeout fires: the client is killed and the container removed.
Timeout(j) == At(j, "wait") /\ AskRemoval(j, "timeout")

-----------------------------------------------------------------------------
(* Docker: inspect, remove, conclude.                                        *)

Exists(j) == container[j] \in {"created", "running", "exited", "died"}

\* inspect_state; an error is kept for later.
Inspect(j) ==
  /\ At(j, "inspect")
  /\ \/ Exists(j) /\ Becomes(j, [pc |-> "digest", seen |-> container[j]])
     \/ Becomes(j, [pc |-> "digest", seen |-> "failed"])
  /\ OnlyJob

\* A digest in the reference is taken, otherwise the image is inspected; then
\* the guard's remove starts `docker container rm --force`.
Digest(j) ==
  /\ At(j, "digest")
  /\ \E digest \in IF Plan(j).image = "digest" THEN {"declared"}
                   ELSE IF Exists(j) THEN {"inspected", "failed"} ELSE {"failed"} :
       Becomes(j, [pc |-> "remove", digest |-> digest])
  /\ cli' = [cli EXCEPT ![j] = @ \cup {"rm"}]
  /\ UNCHANGED <<fsVars, scenario, container, work, reaper, faults, remote, cleanup>>

\* The daemon serves a removal.  One that a timed out or a finishing job waits
\* for disarms the guard.
ServeRemoval(j) ==
  /\ "rm" \in cli[j]
  /\ cli' = [cli EXCEPT ![j] = @ \ {"rm"}]
  /\ container' = [container EXCEPT ![j] = IF Exists(j) THEN "removed" ELSE @]
  /\ CASE At(j, "remove") ->
            Becomes(j, [pc |-> "conclude", armed |-> FALSE, removed |-> "ok"])
       [] At(j, "timeout") ->
            Becomes(j, [pc |-> "ended", armed |-> FALSE, outcome |-> ErrorOf("Timeout")])
       [] OTHER -> UNCHANGED jobs
  /\ UNCHANGED <<fsVars, scenario, work, reaper, faults, remote, cleanup>>

\* The guard stays armed, and tries again when the future ends.
RemovalFails(j) ==
  /\ "rm" \in cli[j]
  /\ cli' = [cli EXCEPT ![j] = @ \ {"rm"}]
  /\ CASE At(j, "remove") -> Becomes(j, [pc |-> "conclude", removed |-> "failed"]) /\ UNCHANGED reaper
       [] At(j, "timeout") -> Fails(j, "Timeout")
       [] OTHER -> UNCHANGED <<jobs, reaper>>
  /\ UNCHANGED <<fsVars, scenario, container, work, faults, remote, cleanup>>

\* Errors are reported in this order: state, digest, removal, the state's
\* content (running, dead, out of memory or a runtime error); then the exit code
\* record is read.  A container that never ran passes, but left no record.
Completed(state) == state \in {"created", "exited"}

ConcludeOnRecord(j) ==
  /\ At(j, "conclude")
  /\ IF work[j].exit = NoCode THEN FailsOnly(j, "ResultProtocol")
     ELSE Becomes(j, [pc |-> "import"]) /\ OnlyJob

Conclude(j) ==
  /\ At(j, "conclude")
  /\ IF ~Completed(jobs[j].seen) \/ jobs[j].digest = "failed" \/ jobs[j].removed = "failed"
     THEN FailsOnly(j, "Infrastructure")
     ELSE IF work[j].exit = NoCode THEN FailsOnly(j, "ResultProtocol")
     ELSE Becomes(j, [pc |-> "import"]) /\ OnlyJob

-----------------------------------------------------------------------------
(* Remote: transfer the inputs, run, check the answer.                       *)

\* The objects of the inputs, up to the first that cannot be sent.
Upload(j) ==
  /\ At(j, "upload")
  /\ LET plan == Plan(j)
         sent == [i \in DOMAIN plan.inputs |->
                    Transferred(Readable, plan.inputs[i].hash, plan.inputs[i].kind)]
         failing == {i \in DOMAIN sent : ~sent[i].ok}
         tried == {i \in DOMAIN sent : \A k \in failing : i <= k}
     IN /\ remote' = remote \cup UNION {ToSet(sent[i].puts) : i \in tried}
        /\ IF failing = {} THEN Becomes(j, [pc |-> "run"]) /\ UNCHANGED reaper
           ELSE Fails(j, "Infrastructure")
  /\ UNCHANGED <<fsVars, scenario, container, cli, work, faults, cleanup>>

\* The runner, external: it leaves objects in its store and names outputs.
RunnerAnswers(j) ==
  /\ At(j, "run")
  /\ \E run \in scenario.runs[j] :
       /\ remote' = remote \cup run.objects
       /\ IF RemoteSlotsDeclared(Plan(j), run.outputs)
          THEN Becomes(j, [pc |-> "download", answer |-> run.outputs]) /\ UNCHANGED reaper
          ELSE Fails(j, "ResultProtocol")
  /\ UNCHANGED <<fsVars, scenario, container, cli, work, faults, cleanup>>

\* It fails, answers too much on a stream, or runs into the timeout.
RunnerFails(j) ==
  /\ At(j, "run")
  /\ \E kind \in {"Infrastructure", "ResultProtocol", "Timeout"} : FailsOnly(j, kind)

-----------------------------------------------------------------------------
(* Both: one output slot after the other goes into the local store.          *)

Provenance(j, outputs) ==
  [executor |-> Plan(j).backend, platform |-> Platform,
   digest |-> IF Plan(j).backend = "remote" THEN "declared" ELSE jobs[j].digest,
   inputs |-> [i \in DOMAIN Plan(j).inputs |-> Plan(j).inputs[i].hash],
   outputs |-> outputs]

Succeeds(j) ==
  LET execution == [outputs |-> jobs[j].hashes, provenance |-> Provenance(j, jobs[j].hashes)]
  IN IF ProvenanceAccepted(Plan(j), Plan(j).backend, Platform, execution)
     THEN /\ Becomes(j, [pc |-> "ended",
                         outcome |-> [status |-> "ok", exit |-> work[j].exit,
                                      outputs |-> jobs[j].hashes]])
          /\ OnlyJob
     ELSE FailsOnly(j, "ResultProtocol")

\* What slot i contributes: the objects to put, whether all of it is fine, the
\* bytes to account for.
SlotImport(j, i) ==
  LET left == Plan(j).limit - jobs[j].bytes
  IN IF Plan(j).backend = "docker" THEN Imported(work[j].out, Plan(j).outputs[i], i - 1, left)
     ELSE Downloaded(remote, Plan(j).outputs[i], jobs[j].answer[i], left)

ImportSlotOf(j) ==
  /\ jobs[j].pc \in {"import", "download"}
  /\ jobs[j].todo = <<>>
  /\ LET i == jobs[j].slot
         slot == SlotImport(j, i)
     IN IF i > Len(Plan(j).outputs) THEN Succeeds(j)
        ELSE IF ~slot.ok /\ slot.puts = <<>> THEN FailsOnly(j, "ResultProtocol")
        ELSE /\ Becomes(j, [slot |-> i + 1, bytes |-> jobs[j].bytes + slot.bytes,
                            todo |-> slot.puts, good |-> slot.ok,
                            hashes |-> Append(jobs[j].hashes, slot.hashes)])
             /\ OnlyJob

\* A tree stored as bytes, before its entries.
PutTreeFirst(j) ==
  /\ jobs[j].pc \in {"import", "download"} /\ jobs[j].todo # <<>>
  /\ BeginPut(j, Last(jobs[j].todo)) /\ UNCHANGED wfVars

\* put, or put_tree, which first looks the children up.
PutNext(j) ==
  /\ jobs[j].pc \in {"import", "download"} /\ jobs[j].todo # <<>>
  /\ puts[j] = NoPut
  /\ LET o == Head(jobs[j].todo)
     IN IF o.is = "Tree" /\ ~CanPutTree(Readable, o.entries)
        THEN FailsOnly(j, "ResultProtocol")
        ELSE BeginPut(j, o) /\ UNCHANGED wfVars

\* The last object of a slot whose import stops half way is followed by its
\* error.
PutAnswered(j) ==
  /\ puts[j].stage = "stored"
  /\ LeavePut(j)
  /\ IF Len(jobs[j].todo) = 1 /\ ~jobs[j].good
     THEN Fails(j, "ResultProtocol")
     ELSE Becomes(j, [todo |-> Tail(jobs[j].todo)]) /\ UNCHANGED reaper
  /\ UNCHANGED <<scenario, container, cli, work, faults, remote, cleanup>>

PutErrorIgnored(j) ==
  /\ puts[j].stage = "failed"
  /\ LeavePut(j)
  /\ Becomes(j, [todo |-> Tail(jobs[j].todo)]) /\ UNCHANGED reaper
  /\ UNCHANGED <<scenario, container, cli, work, faults, remote, cleanup>>

PutFailed(j) ==
  /\ puts[j].stage = "failed"
  /\ LeavePut(j)
  /\ Fails(j, IF At(j, "download") \/ Plan(j).outputs[jobs[j].slot - 1] = "Tree"
              THEN "ResultProtocol" ELSE "Infrastructure")
  /\ UNCHANGED <<scenario, container, cli, work, faults, remote, cleanup>>

-----------------------------------------------------------------------------
(* The caller, the cleanup thread, the cleanup command and the power.        *)

\* The evaluation drops the call at an await that is pending, and the guard runs.
Cancel(j) ==
  /\ Plan(j).host = "process"
  /\ jobs[j].pc \in {"create", "wait", "timeout", "inspect", "digest", "remove", "run"}
  /\ Becomes(j, [pc |-> "ended", armed |-> FALSE, outcome |-> [status |-> "cancelled"]])
  /\ Dropped(j)
  /\ UNCHANGED <<fsVars, scenario, container, cli, work, faults, remote, cleanup>>

\* A dropped call of an external tool kills the tool process wherever it is, and
\* nothing of it runs any more; the docker clients it started live on.
KillTool(j) ==
  /\ Plan(j).host = "tool"
  /\ jobs[j].pc \notin {"submitted", "ended", "dead"}
  /\ Becomes(j, [pc |-> "ended", armed |-> FALSE, outcome |-> [status |-> "cancelled"]])
  /\ IF puts[j] = NoPut THEN UNCHANGED fsVars ELSE LeavePut(j)
  /\ faults' = [faults EXCEPT ![j] = @ \cup {"process gone"}]
  /\ UNCHANGED <<scenario, container, cli, work, reaper, remote, cleanup>>

\* spawn_container_cleanup
Reap(j) ==
  /\ reaper[j] = "pending"
  /\ reaper' = [reaper EXCEPT ![j] = "done"]
  /\ container' = [container EXCEPT ![j] = IF Exists(j) THEN "removed" ELSE @]
  /\ UNCHANGED <<fsVars, scenario, jobs, cli, work, faults, remote, cleanup>>

ReapFails(j) ==
  /\ reaper[j] = "pending"
  /\ reaper' = [reaper EXCEPT ![j] = "done"]
  /\ faults' = [faults EXCEPT ![j] = @ \cup {"rm failed"}]
  /\ UNCHANGED <<fsVars, scenario, jobs, container, cli, work, remote, cleanup>>

\* A tool process that answered exits, and its cleanup thread with it.
ToolProcessExits(j) ==
  /\ Plan(j).host = "tool" /\ At(j, "ended") /\ reaper[j] = "pending"
  /\ reaper' = [reaper EXCEPT ![j] = "done"]
  /\ faults' = [faults EXCEPT ![j] = @ \cup {"process gone"}]
  /\ UNCHANGED <<fsVars, scenario, jobs, container, cli, work, remote, cleanup>>

\* `rex tools cleanup`: list by label and status, then remove what was listed.
CleanupLists(includeRunning) ==
  /\ cleanup.left > 0 /\ cleanup.listed = {}
  /\ LET listed == {j \in Jobs : container[j] \in
                      {"created", "exited", "died"} \cup
                      (IF includeRunning THEN {"running"} ELSE {})}
     IN listed # {} /\ cleanup' = [left |-> cleanup.left - 1, listed |-> listed]
  /\ UNCHANGED <<fsVars, scenario, jobs, container, cli, work, reaper, faults, remote>>

CleanupRemoves ==
  /\ cleanup.listed # {}
  /\ container' = [j \in Jobs |-> IF j \in cleanup.listed /\ Exists(j) THEN "removed"
                                  ELSE container[j]]
  /\ cleanup' = [cleanup EXCEPT !.listed = {}]
  /\ UNCHANGED <<fsVars, scenario, jobs, cli, work, reaper, faults, remote>>

\* Every job that was started is gone; running containers stop.
MachineStops ==
  /\ PowerLoss
  /\ jobs' = [j \in Jobs |-> IF At(j, "submitted") THEN jobs[j]
                             ELSE [NewJob EXCEPT !.pc = "dead"]]
  /\ container' = [j \in Jobs |-> IF container[j] = "running" THEN "died" ELSE container[j]]
  /\ cli' = [j \in Jobs |-> {}]
  /\ reaper' = [j \in Jobs |-> "none"]
  /\ faults' = [j \in Jobs |-> faults[j] \cup {"process gone"}]
  /\ remote' = {}
  /\ cleanup' = [cleanup EXCEPT !.listed = {}]
  /\ UNCHANGED <<scenario, work>>

-----------------------------------------------------------------------------
StoreStep(j) ==
  \/ /\ SyncPut(j) \/ PersistPut(j) \/ FailPut(j)
     /\ UNCHANGED wfVars
  \/ PutNext(j) \/ PutAnswered(j) \/ PutFailed(j)

\* The steps that the executor takes by itself.
JobStep(j) ==
  \/ Validate(j) \/ Prepare(j) \/ PrepareFails(j) \/ Start(j) \/ StartFails(j)
  \/ Timeout(j) \/ Inspect(j) \/ Digest(j) \/ Conclude(j)
  \/ Upload(j) \/ ImportSlotOf(j)

DaemonStep(j) ==
  \/ Create(j) \/ CreateFails(j) \/ ServeRemoval(j) \/ RemovalFails(j)
  \/ ContainerStarts(j) \/ ToolWrites(j) \/ WrapperRecords(j)
  \/ ContainerExits(j) \/ ContainerDies(j) \/ AttachEnds(j) \/ AttachFails(j)
  \/ RunnerAnswers(j) \/ RunnerFails(j)

Ended == /\ \A j \in Jobs : jobs[j].pc \in {"ended", "dead"}
         /\ UNCHANGED vars

Next ==
  \/ \E j \in Jobs :
       \/ JobStep(j) \/ StoreStep(j) \/ DaemonStep(j)
       \/ Cancel(j) \/ KillTool(j) \/ Reap(j) \/ ReapFails(j) \/ ToolProcessExits(j)
  \/ \E includeRunning \in BOOLEAN : CleanupLists(includeRunning)
  \/ CleanupRemoves
  \/ MachineStops
  \/ Ended

\* The executor runs while it can; a docker client that was started, a put and
\* the remote runner end, well or badly; a timer fires; a cleanup thread runs.
\* Nothing is assumed of the tool.  No job comes back to a place it has left, so
\* "never stays there for ever" is weak fairness of the steps that leave it.
Places == {"prepare", "create", "start", "wait", "timeout", "inspect", "digest",
           "remove", "conclude", "upload", "run", "import", "download"}

Fairness ==
  \A j \in Jobs :
    /\ \A place \in Places : []<>~At(j, place)
    /\ []<>(cli[j] = {})
    /\ WF_vars(Reap(j) \/ ReapFails(j))

Spec == Init /\ [][Next]_vars /\ Fairness

-----------------------------------------------------------------------------
\* All that the trees among these objects consist of is among them.
Whole(objects) ==
  \A o \in objects : o.is = "Tree" =>
    \A n \in DOMAIN o.entries : o.entries[n].hash \in objects

\* The store never has a tree without all of its entries, whenever the power
\* fails: import, put_tree and transfer store the entries first.
TreesClosed == Whole(Readable)

\* A job answers only with outputs that are in the caller's store, down to the
\* last file, and that the tool left behind: an import or a transfer that stops
\* half way is never an answer.
ResultsAvailable ==
  \A j \in Jobs : jobs[j].outcome.status = "ok" =>
    \A i \in DOMAIN jobs[j].outcome.outputs :
      \A h \in ToSet(jobs[j].outcome.outputs[i]) :
        \E parts \in SUBSET Readable : h \in parts /\ Whole(parts)

\* Outputs are read, and a result is given, only when the wrapper recorded the
\* exit code and the tool can no longer write, whatever ended the attached
\* client: the container's end, a broken connection or the cleanup command.
ResultIsFinal ==
  \A j \in Jobs :
    (Plan(j).backend = "docker" /\
       (jobs[j].pc = "import" \/ jobs[j].outcome.status = "ok")) =>
    work[j].exit # NoCode /\ container[j] # "running"

\* The container of a job whose future ended in the evaluator's process, by an
\* answer, an error, a timeout or a cancellation, is gone in the end, unless the
\* daemon refused the last removal or made the container after it.
ContainersRemoved ==
  \A j \in Jobs :
    (jobs[j].pc = "ended")
      ~> (~Exists(j) \/ faults[j] # {})

\* What the README says of cancellation: the container is removed.
CancelRemovesContainer ==
  \A j \in Jobs :
    (jobs[j].outcome.status = "cancelled")
      ~> (~Exists(j) \/ "rm failed" \in faults[j])
=============================================================================
