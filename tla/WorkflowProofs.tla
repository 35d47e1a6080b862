--------------------------- MODULE WorkflowProofs ---------------------------
(***************************************************************************)
(* The store and the jobs on it, for any writers, objects, jobs, scenarios  *)
(* and number of power failures: named files are whole, trees have their    *)
(* entries, and a job answers only with what the tool left behind, when it  *)
(* can no longer change it and all of it is stored.                         *)
(*                                                                          *)
(* Nothing is used of import and transfer but PlansAssumption: that what    *)
(* they name is among what they put.                                        *)
(***************************************************************************)
EXTENDS Workflow, TLAPS, SequenceTheorems

-----------------------------------------------------------------------------
(* Part 1: the store by itself.                                             *)

(* The inductive invariant: every named file is an object's, is synced, and *)
(* is the only one of its name; every put is of an object.                  *)
FsInv == FsTypeOK /\ NeverTorn /\ NamesUnique

-----------------------------------------------------------------------------
(* Appending a complete file under a name that is not taken, and dropping   *)
(* the last renames, keep the files complete and their names apart.         *)

Complete(d) ==
  /\ d \in Seq([name : Objects, data : DataStates])
  /\ \A i \in DOMAIN d : d[i].data = "synced"
  /\ \A i, k \in DOMAIN d : d[i].name = d[k].name => i = k

LEMMA RenameKeeps ==
  ASSUME NEW d, Complete(d), NEW o \in Objects, \A i \in DOMAIN d : d[i].name # o
  PROVE  Complete(Append(d, [name |-> o, data |-> "synced"]))
<1> DEFINE file == [name |-> o, data |-> "synced"]
           e == Append(d, file)
<1>1. file \in [name : Objects, data : DataStates] /\ d \in Seq([name : Objects, data : DataStates])
  BY DEF Complete, DataStates
<1>2. /\ e \in Seq([name : Objects, data : DataStates])
      /\ DOMAIN e = 1 .. Len(d) + 1 /\ DOMAIN d = 1 .. Len(d) /\ Len(d) \in Nat
      /\ e[Len(d) + 1] = file
      /\ \A i \in DOMAIN d : e[i] = d[i]
  BY <1>1
<1>3. \A i \in DOMAIN e : i \in DOMAIN d \/ i = Len(d) + 1
  BY <1>2
<1>4. \A i \in DOMAIN e : e[i].data = "synced"
  BY <1>2, <1>3 DEF Complete
<1>5. ASSUME NEW i \in DOMAIN e, NEW k \in DOMAIN e, e[i].name = e[k].name PROVE i = k
  <2>1. CASE i \in DOMAIN d /\ k \in DOMAIN d
    BY <2>1, <1>2, <1>5 DEF Complete
  <2>2. CASE i = Len(d) + 1 /\ k \in DOMAIN d
    BY <2>2, <1>2, <1>5
  <2>3. CASE k = Len(d) + 1 /\ i \in DOMAIN d
    BY <2>3, <1>2, <1>5
  <2> QED
    BY <1>3, <2>1, <2>2, <2>3
<1> HIDE DEF e
<1>6. Complete(e)
  BY <1>2, <1>4, <1>5 DEF Complete
<1> QED
  BY <1>6 DEF e

LEMMA ElementOf == ASSUME NEW S, NEW s \in Seq(S), NEW i \in 1 .. Len(s) PROVE s[i] \in S
  OBVIOUS

LEMMA LossKeeps ==
  ASSUME NEW d, Complete(d), NEW n \in 0 .. Len(d)
  PROVE  Complete([i \in 1 .. n |->
                     [name |-> d[i].name, data |-> IF d[i].data = "cached" THEN "torn" ELSE d[i].data]])
<1> DEFINE e == [i \in 1 .. n |->
                   [name |-> d[i].name, data |-> IF d[i].data = "cached" THEN "torn" ELSE d[i].data]]
<1>1. d \in Seq([name : Objects, data : DataStates]) /\ Len(d) \in Nat /\ n \in Nat /\ DOMAIN d = 1 .. Len(d)
  BY DEF Complete
<1>2. ASSUME NEW i \in 1 .. n PROVE i \in DOMAIN d /\ d[i] \in [name : Objects, data : DataStates]
  <2>1. i \in 1 .. Len(d)
    BY <1>1
  <2> QED
    BY <1>1, <2>1, ElementOf
<1>3. \A i \in 1 .. n : e[i].name = d[i].name /\ e[i].data = "synced"
  BY <1>2 DEF Complete
<1>4. \A i \in 1 .. n : e[i] \in [name : Objects, data : DataStates]
  BY <1>2, <1>3 DEF DataStates
<1>5. DOMAIN e = 1 .. n /\ e \in Seq([name : Objects, data : DataStates])
  BY <1>1, <1>4
<1> HIDE DEF e
<1>6. Complete(e)
  BY <1>2, <1>3, <1>5 DEF Complete
<1> QED
  BY <1>6 DEF e

-----------------------------------------------------------------------------
\* What the invariant of the store is made of.
LEMMA FsInvIs == FsInv <=> /\ Complete(disk)
                         /\ puts \in [Writers -> PutType] /\ losses \in 0 .. MaxPowerLosses
  BY DEF FsInv, Complete, FsTypeOK, NeverTorn, NamesUnique

LEMMA FsInvInit == FsInit => FsInv
<1> SUFFICES ASSUME FsInit PROVE FsInv
  OBVIOUS
<1>1. Complete(<<>>)
  BY DEF Complete
<1>2. puts \in [Writers -> PutType] /\ losses \in 0 .. MaxPowerLosses
  BY PowerAssumption DEF FsInit, PutType
<1> QED
  BY <1>1, <1>2, FsInvIs DEF FsInit

LEMMA FsInvNext == FsInv /\ [FsNext]_fsVars => FsInv'
<1> SUFFICES ASSUME FsInv, [FsNext]_fsVars PROVE FsInv'
  OBVIOUS
<1>c. Complete(disk) /\ puts \in [Writers -> PutType] /\ losses \in 0 .. MaxPowerLosses
  BY FsInvIs
<1>i. Complete(disk') /\ puts' \in [Writers -> PutType] /\ losses' \in 0 .. MaxPowerLosses => FsInv'
  BY DEF FsInv, Complete, FsTypeOK, NeverTorn, NamesUnique
<1>p. ASSUME NEW w \in Writers, puts[w].stage # "none" PROVE puts[w].object \in Objects
  BY <1>c, <1>p DEF PutType, NoPut
<1>1. ASSUME NEW w \in Writers, NEW o \in Objects, BeginPut(w, o) PROVE FsInv'
  BY <1>1, <1>c, <1>i DEF BeginPut, PutType, Stages
<1>2. ASSUME NEW w \in Writers, SyncPut(w) PROVE FsInv'
  BY <1>2, <1>c, <1>i, <1>p DEF SyncPut, PutType, Stages
<1>3. ASSUME NEW w \in Writers, PersistPut(w) PROVE FsInv'
  <2>1. puts[w].object \in Objects
    BY <1>3, <1>p DEF PersistPut
  <2>2. puts' \in [Writers -> PutType] /\ losses' = losses
    BY <1>3, <1>c, <2>1 DEF PersistPut, PutType, Stages
  <2>3. CASE puts[w].object \in Named
    BY <1>3, <1>c, <1>i, <2>2, <2>3 DEF PersistPut
  <2>4. CASE puts[w].object \notin Named
    <3>1. \A i \in DOMAIN disk : disk[i].name # puts[w].object
      BY <2>4 DEF Named
    <3>2. Complete(Append(disk, [name |-> puts[w].object, data |-> "synced"]))
      BY <1>c, <2>1, <3>1, RenameKeeps
    <3> QED
      BY <1>3, <1>c, <1>i, <2>2, <2>4, <3>2 DEF PersistPut
  <2> QED
    BY <2>3, <2>4
<1>4. ASSUME NEW w \in Writers, FailPut(w) PROVE FsInv'
  BY <1>4, <1>c, <1>i, <1>p DEF FailPut, PutType, Stages
<1>5. ASSUME NEW w \in Writers, LeavePut(w) PROVE FsInv'
  BY <1>5, <1>c, <1>i DEF LeavePut, PutType
<1>6. ASSUME PowerLoss PROVE FsInv'
  <2>1. PICK n \in 0 .. Len(disk) :
          disk' = [i \in 1 .. n |-> [name |-> disk[i].name,
                                     data |-> IF disk[i].data = "cached" THEN "torn" ELSE disk[i].data]]
    BY <1>6 DEF PowerLoss
  <2>2. Complete(disk')
    BY <1>c, <2>1, LossKeeps
  <2>3. puts' \in [Writers -> PutType] /\ losses' \in 0 .. MaxPowerLosses
    BY <1>6, <1>c, PowerAssumption DEF PowerLoss, PutType
  <2> QED
    BY <1>i, <2>2, <2>3
<1>7. CASE UNCHANGED fsVars
  BY <1>7, <1>c, <1>i DEF fsVars
<1> QED
  BY <1>1, <1>2, <1>3, <1>4, <1>5, <1>6, <1>7 DEF FsNext

(* Every file that has a name holds all of its object, whatever the order   *)
(* of puts of the same and of other objects and whenever the power fails,   *)
(* and no name has two files: filesystem.rs syncs before it renames, and    *)
(* persist_noclobber never replaces a file.                                 *)
THEOREM StoredFilesAreWhole == FsSpec => [](NeverTorn /\ NamesUnique)
<1>1. FsInv => NeverTorn /\ NamesUnique
  BY DEF FsInv
<1> QED
  BY <1>1, FsInvInit, FsInvNext, PTL DEF FsSpec

-----------------------------------------------------------------------------
(* Part 2: the invariant of the jobs.                                       *)

\* The entries of a tree were named before the tree.
Founded(d) ==
  \A i \in DOMAIN d : d[i].name.is = "Tree" =>
    \A n \in DOMAIN d[i].name.entries :
      \E k \in 1 .. i - 1 : d[k].name = d[i].name.entries[n].hash

\* What a put relies on, when R can be read: the entries of its tree are there,
\* and its object once it is stored.
Answerable(put, R) ==
  /\ put \in PutType
  /\ put # NoPut /\ put.object.is = "Tree" =>
       \A n \in DOMAIN put.object.entries : put.object.entries[n].hash \in R
  /\ put # NoPut /\ put.stage = "stored" => put.object \in R

StoreOK ==
  /\ Complete(disk) /\ Founded(disk)
  /\ losses \in 0 .. MaxPowerLosses
  /\ DOMAIN puts = Writers
  /\ \A w \in Writers : Answerable(puts[w], Readable)

\* The places of a job.
Starting == {"prepare", "create", "start", "wait", "timeout", "inspect"}
Ending == {"digest", "remove", "conclude"}
Sending == {"upload", "run"}
Importing == {"import", "download"}
Pcs(backend) == {"submitted", "ended", "dead"} \cup
  (IF backend = "docker" THEN Starting \cup Ending \cup {"import"} ELSE Sending \cup {"download"})

FieldNames == DOMAIN NewJob

\* A job that imports: what it has collected is stored or still to be put; if the
\* slot is going to fail, something is still to be put; the put under way is the
\* next one.
Progress(p, x, put, R) ==
  /\ x.todo \in Seq(Objects) /\ x.hashes \in Seq(Seq(Objects))
  /\ x.slot \in Nat \ {0} /\ x.bytes \in 0 .. p.limit /\ x.good \in BOOLEAN
  /\ ~x.good => x.todo # <<>>
  /\ x.good => \A i \in DOMAIN x.hashes : ToSet(x.hashes[i]) \subseteq R \cup ToSet(x.todo)
  /\ put # NoPut => x.todo # <<>> /\ put.object = Head(x.todo)

Untouched(x) == x.todo = <<>> /\ x.good = TRUE /\ x.hashes = <<>> /\ x.slot = 1 /\ x.bytes = 0

\* The job's own record.
JobOK(p, x, put, R) ==
  /\ DOMAIN x = FieldNames
  /\ x.pc \in Pcs(p.backend)
  /\ x.pc \notin Importing => put = NoPut
  /\ x.pc \in {"submitted"} \cup Starting \cup Ending \cup Sending => Untouched(x)
  /\ x.pc \in Importing => Progress(p, x, put, R)
  /\ x.pc # "ended" => x.outcome.status = "none"
  /\ x.outcome.status = "ok" =>
       \A i \in DOMAIN x.outcome.outputs : ToSet(x.outcome.outputs[i]) \subseteq R

\* The job and its container: what was seen exited has an exit code, runs no more
\* and is not made again; what never ran has none, and what was seen before it
\* ran never will.
ContainerOK(p, x, c, commands, exit) ==
  /\ "create" \in commands => x.pc \in {"create", "ended"}
  /\ x.pc \in {"submitted", "prepare"} \/ "create" \in commands => c = "none"
  /\ c \in {"none", "created"} => exit = NoCode
  /\ c = "exited" => exit # NoCode
  /\ x.pc \in {"submitted"} \cup Starting => x.seen = "none"
  /\ x.seen = "created" =>
       "create" \notin commands /\ c \in {"created", "removed"} /\ exit = NoCode
  /\ x.seen = "exited" =>
       "create" \notin commands /\ c \in {"exited", "removed"} /\ exit # NoCode
  /\ p.backend = "docker" /\ (x.pc = "import" \/ x.outcome.status = "ok") => x.seen = "exited"

\* The output directory is one the tool may leave, and the answer one the
\* runner may give.
OutputOK(p, runs, x, w) ==
  /\ DOMAIN w = {"exit", "out"}
  /\ w.out \in runs \cup {EmptyOutputs(p.outputs)}
  /\ x.pc = "download" =>
       \E run \in runs : x.answer = run.outputs /\ RemoteSlotsDeclared(p, run.outputs)

JobInv(p, runs, x, c, commands, w, put, R) ==
  /\ JobOK(p, x, put, R)
  /\ ContainerOK(p, x, c, commands, w.exit)
  /\ OutputOK(p, runs, x, w)

Shape ==
  DOMAIN jobs = Jobs /\ DOMAIN container = Jobs /\ DOMAIN cli = Jobs /\ DOMAIN work = Jobs

IInv ==
  /\ StoreOK /\ Shape
  /\ scenario \in Scenarios /\ remote \subseteq Objects
  /\ \A j \in Jobs : JobInv(Plan(j), scenario.runs[j], jobs[j], container[j], cli[j], work[j],
                           puts[j], Readable)

-----------------------------------------------------------------------------
(* What a step of one job makes of its record.                              *)

LEMMA BecomesIs ==
  ASSUME DOMAIN jobs = Jobs, NEW j \in Jobs, NEW fields, Becomes(j, fields),
         DOMAIN jobs[j] = FieldNames, DOMAIN fields \subseteq FieldNames
  PROVE  /\ DOMAIN jobs' = Jobs
         /\ \A k \in Jobs : k # j => jobs'[k] = jobs[k]
         /\ DOMAIN jobs'[j] = FieldNames
         /\ \A f \in FieldNames : jobs'[j][f] = IF f \in DOMAIN fields THEN fields[f] ELSE jobs[j][f]
  BY DEF Becomes

\* A step that concerns one job and leaves the store alone.
LEMMA OneJob ==
  ASSUME IInv, NEW j \in Jobs, UNCHANGED <<fsVars, scenario>>, remote' \subseteq Objects, Shape',
         \A k \in Jobs : k # j => UNCHANGED <<jobs[k], container[k], cli[k], work[k]>>,
         JobInv(Plan(j), scenario.runs[j], jobs'[j], container'[j], cli'[j], work'[j], puts[j], Readable)
  PROVE  IInv'
<1>1. disk' = disk /\ puts' = puts /\ losses' = losses /\ Readable' = Readable
  BY DEF fsVars, Readable
<1>2. StoreOK'
  BY <1>1 DEF IInv, StoreOK
<1>3. ASSUME NEW k \in Jobs
      PROVE  JobInv(Plan(k), scenario.runs[k], jobs'[k], container'[k], cli'[k], work'[k], puts[k], Readable)
  BY DEF IInv
<1>4. \A k \in Jobs : Plan(k)' = Plan(k)
  BY DEF Plan
<1>5. scenario' \in Scenarios
  BY DEF IInv
<1> QED
  BY <1>1, <1>2, <1>3, <1>4, <1>5 DEF IInv

\* What holds of a job before its step.
LEMMA JobFacts ==
  ASSUME IInv, NEW j \in Jobs
  PROVE  /\ DOMAIN jobs = Jobs /\ DOMAIN container = Jobs /\ DOMAIN cli = Jobs /\ DOMAIN work = Jobs
         /\ DOMAIN jobs[j] = FieldNames
         /\ JobOK(Plan(j), jobs[j], puts[j], Readable)
         /\ ContainerOK(Plan(j), jobs[j], container[j], cli[j], work[j].exit)
         /\ OutputOK(Plan(j), scenario.runs[j], jobs[j], work[j])
         /\ Plan(j).backend \in {"docker", "remote"}
<1>1. scenario \in Scenarios
  BY DEF IInv
<1>2. Plan(j).backend \in {"docker", "remote"}
  BY <1>1, PlansAssumption DEF Plan
<1> QED
  BY <1>2 DEF IInv, Shape, JobInv, JobOK

-----------------------------------------------------------------------------
(* The ways a job moves on, on its record.                                  *)

\* What becomes of a container that somebody else may remove.
Kept(c) == IF c = "none" THEN {c} ELSE {c, "removed"}

\* It ends without an answer.
LEMMA EndsOK ==
  ASSUME NEW p, NEW runs, NEW x, NEW y, NEW c, NEW d, NEW commands, NEW less, NEW w, NEW put, NEW R,
         JobInv(p, runs, x, c, commands, w, put, R),
         less \subseteq commands, d \in Kept(c),
         DOMAIN y = FieldNames, y.pc = "ended", y.outcome.status \in {"error", "cancelled"},
         y.seen = x.seen
  PROVE  JobInv(p, runs, y, d, less, w, NoPut, R)
<1>1. JobOK(p, y, NoPut, R)
  BY DEF JobOK, Pcs, Importing, Starting, Ending, Sending
<1>2. ContainerOK(p, y, d, less, w.exit)
  BY DEF JobInv, ContainerOK, Starting, Kept
<1>3. OutputOK(p, runs, y, w)
  BY DEF JobInv, OutputOK
<1> QED
  BY <1>1, <1>2, <1>3 DEF JobInv

\* The container goes, and commands are served or given up.
LEMMA GoneOK ==
  ASSUME NEW p, NEW x, NEW c, NEW d, NEW commands, NEW less, NEW exit,
         ContainerOK(p, x, c, commands, exit), less \subseteq commands, d \in Kept(c)
  PROVE  ContainerOK(p, x, d, less, exit)
  BY DEF ContainerOK, Kept

Outside == {"submitted"} \cup Starting \cup Ending \cup Sending

\* It goes from a place before the import to another one.
LEMMA MovesOK ==
  ASSUME NEW p, NEW x, NEW y, NEW put, NEW R,
         JobOK(p, x, put, R), x.pc \in Outside,
         DOMAIN y = FieldNames, y.pc \in Outside, y.pc \in Pcs(p.backend),
         y.todo = x.todo, y.good = x.good, y.hashes = x.hashes, y.slot = x.slot, y.bytes = x.bytes,
         y.outcome = x.outcome
  PROVE  JobOK(p, y, put, R)
  BY DEF JobOK, Outside, Pcs, Importing, Starting, Ending, Sending, Untouched

LEMMA MoveKeeps ==
  ASSUME IInv, NEW j \in Jobs, NEW fields, Becomes(j, fields),
         DOMAIN fields \subseteq {"pc", "armed", "seen", "digest", "removed"},
         jobs[j].pc \in Outside, jobs'[j].pc \in Outside, jobs'[j].pc \in Pcs(Plan(j).backend),
         UNCHANGED <<fsVars, scenario, work>>, remote' \subseteq Objects,
         DOMAIN container' = Jobs, DOMAIN cli' = Jobs,
         \A k \in Jobs : k # j => container'[k] = container[k] /\ cli'[k] = cli[k],
         ContainerOK(Plan(j), jobs'[j], container'[j], cli'[j], work[j].exit)
  PROVE  IInv'
<1>1. DOMAIN fields \subseteq FieldNames
  BY DEF FieldNames, NewJob
<1>2. /\ DOMAIN jobs' = Jobs
      /\ \A k \in Jobs : k # j => jobs'[k] = jobs[k]
      /\ DOMAIN jobs'[j] = FieldNames
      /\ \A f \in FieldNames : jobs'[j][f] = IF f \in DOMAIN fields THEN fields[f] ELSE jobs[j][f]
  BY <1>1, JobFacts, BecomesIs
<1>3. /\ jobs'[j].todo = jobs[j].todo /\ jobs'[j].good = jobs[j].good
      /\ jobs'[j].hashes = jobs[j].hashes /\ jobs'[j].slot = jobs[j].slot
      /\ jobs'[j].bytes = jobs[j].bytes /\ jobs'[j].outcome = jobs[j].outcome
  BY <1>2 DEF FieldNames, NewJob
<1>4. JobOK(Plan(j), jobs'[j], puts[j], Readable)
  BY <1>2, <1>3, JobFacts, MovesOK
<1>5. OutputOK(Plan(j), scenario.runs[j], jobs'[j], work[j])
  BY JobFacts DEF OutputOK, Outside, Starting, Ending, Sending
<1>6. JobInv(Plan(j), scenario.runs[j], jobs'[j], container'[j], cli'[j], work'[j], puts[j], Readable)
  BY <1>4, <1>5 DEF JobInv
<1>7. Shape'
  BY <1>2, JobFacts DEF Shape
<1>8. \A k \in Jobs : k # j => UNCHANGED <<jobs[k], container[k], cli[k], work[k]>>
  BY <1>2
<1> QED
  BY <1>6, <1>7, <1>8, OneJob

\* What ends without an answer.
LEMMA EndKeeps ==
  ASSUME IInv, NEW j \in Jobs, NEW fields, Becomes(j, fields),
         DOMAIN fields \subseteq {"pc", "armed", "outcome"},
         jobs'[j].pc = "ended", jobs'[j].outcome.status \in {"error", "cancelled"},
         puts[j] = NoPut,
         UNCHANGED <<fsVars, scenario, work>>, remote' \subseteq Objects,
         DOMAIN container' = Jobs, DOMAIN cli' = Jobs,
         \A k \in Jobs : k # j => container'[k] = container[k] /\ cli'[k] = cli[k],
         container'[j] \in Kept(container[j]), cli'[j] \subseteq cli[j]
  PROVE  IInv'
<1>1. DOMAIN fields \subseteq FieldNames
  BY DEF FieldNames, NewJob
<1>2. /\ DOMAIN jobs' = Jobs
      /\ \A k \in Jobs : k # j => jobs'[k] = jobs[k]
      /\ DOMAIN jobs'[j] = FieldNames
      /\ \A f \in FieldNames : jobs'[j][f] = IF f \in DOMAIN fields THEN fields[f] ELSE jobs[j][f]
  BY <1>1, JobFacts, BecomesIs
<1>3. jobs'[j].seen = jobs[j].seen
  BY <1>2 DEF FieldNames, NewJob
<1>4. JobInv(Plan(j), scenario.runs[j], jobs[j], container[j], cli[j], work[j], puts[j], Readable)
  BY DEF IInv
<1>5. JobInv(Plan(j), scenario.runs[j], jobs'[j], container'[j], cli'[j], work'[j], puts[j], Readable)
  BY <1>2, <1>3, <1>4, EndsOK
<1>6. Shape'
  BY <1>2, JobFacts DEF Shape
<1>7. \A k \in Jobs : k # j => UNCHANGED <<jobs[k], container[k], cli[k], work[k]>>
  BY <1>2
<1> QED
  BY <1>5, <1>6, <1>7, OneJob

\* The fields of an error or of a cancellation.
LEMMA FailedFields ==
  ASSUME IInv, NEW j \in Jobs, NEW outcome,
         Becomes(j, [pc |-> "ended", armed |-> FALSE, outcome |-> outcome])
  PROVE  /\ jobs'[j].pc = "ended" /\ jobs'[j].outcome = outcome /\ jobs'[j].seen = jobs[j].seen
         /\ DOMAIN jobs' = Jobs /\ DOMAIN jobs'[j] = FieldNames
         /\ \A k \in Jobs : k # j => jobs'[k] = jobs[k]
  BY JobFacts, BecomesIs DEF FieldNames, NewJob

LEMMA FailsOnlyKeeps ==
  ASSUME IInv, NEW j \in Jobs, NEW kind, FailsOnly(j, kind), puts[j] = NoPut
  PROVE  IInv'
<1>1. Becomes(j, [pc |-> "ended", armed |-> FALSE, outcome |-> ErrorOf(kind)])
  BY DEF FailsOnly, Fails
<1>2. jobs'[j].pc = "ended" /\ jobs'[j].outcome.status = "error"
  BY <1>1, FailedFields DEF ErrorOf
<1>3. UNCHANGED <<fsVars, scenario, container, cli, work, remote>>
  BY DEF FailsOnly
<1>4. remote' \subseteq Objects /\ DOMAIN cli' = Jobs /\ DOMAIN container' = Jobs
  BY <1>3, JobFacts DEF IInv
<1> HIDE DEF FailsOnly
<1> QED
  BY <1>1, <1>2, <1>3, <1>4, EndKeeps DEF Kept

LEMMA NoPutOutside ==
  ASSUME IInv, NEW j \in Jobs, jobs[j].pc \notin Importing
  PROVE  puts[j] = NoPut
  BY JobFacts DEF JobOK

-----------------------------------------------------------------------------
(* The executor's own steps, up to the import.                              *)

\* A move that changes nothing but the job.
LEMMA PlainMove ==
  ASSUME IInv, NEW j \in Jobs, NEW fields, Becomes(j, fields), OnlyJob,
         DOMAIN fields \subseteq {"pc", "armed", "seen", "digest", "removed"},
         jobs[j].pc \in Outside, jobs'[j].pc \in Outside, jobs'[j].pc \in Pcs(Plan(j).backend),
         ContainerOK(Plan(j), jobs'[j], container[j], cli[j], work[j].exit)
  PROVE  IInv'
<1>1. UNCHANGED <<fsVars, scenario, container, cli, work, remote>>
  BY DEF OnlyJob
<1>2. remote' \subseteq Objects /\ DOMAIN container' = Jobs /\ DOMAIN cli' = Jobs
  BY <1>1, JobFacts DEF IInv
<1> HIDE DEF OnlyJob
<1> QED
  BY <1>1, <1>2, MoveKeeps

\* A move that changes the place only.
LEMMA PcMove ==
  ASSUME IInv, NEW j \in Jobs, NEW pc, Becomes(j, [pc |-> pc])
  PROVE  jobs'[j].pc = pc /\ jobs'[j].seen = jobs[j].seen /\ jobs'[j].outcome = jobs[j].outcome
  BY JobFacts, BecomesIs DEF FieldNames, NewJob

LEMMA ValidateKeeps == ASSUME IInv, NEW j \in Jobs, Validate(j) PROVE IInv'
<1>1. jobs[j].pc = "submitted" /\ jobs[j].pc \in Outside /\ jobs[j].pc \notin Importing
  BY DEF Validate, At, Outside, Importing
<1>2. puts[j] = NoPut
  BY <1>1, NoPutOutside
<1>3. ASSUME NEW kind, FailsOnly(j, kind) PROVE IInv'
  BY <1>2, <1>3, FailsOnlyKeeps
<1>4. ASSUME NEW pc \in {"prepare", "upload"}, Becomes(j, [pc |-> pc]), OnlyJob,
             pc \in Pcs(Plan(j).backend)
      PROVE  IInv'
  <2>1. jobs'[j].pc = pc /\ jobs'[j].seen = jobs[j].seen /\ jobs'[j].outcome = jobs[j].outcome
    BY <1>4, PcMove
  <2>2. ContainerOK(Plan(j), jobs'[j], container[j], cli[j], work[j].exit)
    BY <1>1, <2>1, JobFacts DEF ContainerOK, Starting, JobOK
  <2>3. pc \in Outside
    BY DEF Outside, Starting, Sending
  <2> QED
    BY <1>1, <1>4, <2>1, <2>2, <2>3, PlainMove
<1>5. Plan(j).backend = "docker" => "prepare" \in Pcs(Plan(j).backend)
  BY DEF Pcs, Starting
<1>6. Plan(j).backend = "remote" => "upload" \in Pcs(Plan(j).backend)
  BY DEF Pcs, Sending
<1>7. Plan(j).backend \in {"docker", "remote"}
  BY JobFacts
<1>8. CASE Verdict(j) # "ok"
  BY <1>3, <1>8 DEF Validate
<1>9. CASE Verdict(j) = "ok" /\ Plan(j).backend = "docker"
  <2>1. Becomes(j, [pc |-> "prepare"]) /\ OnlyJob
    BY <1>9, Zenon DEF Validate
  <2> QED
    BY <1>4, <1>5, <1>9, <2>1
<1>10. CASE Verdict(j) = "ok" /\ Plan(j).backend = "remote"
  <2>1. \/ Becomes(j, [pc |-> "upload"]) /\ OnlyJob
        \/ FailsOnly(j, "InvalidJob")
    BY <1>10 DEF Validate
  <2> QED
    BY <1>3, <1>4, <1>6, <1>10, <2>1
<1> QED
  BY <1>7, <1>8, <1>9, <1>10

LEMMA PrepareKeeps == ASSUME IInv, NEW j \in Jobs, Prepare(j) PROVE IInv'
<1> DEFINE fields == [pc |-> "create", armed |-> TRUE]
<1>1. /\ jobs[j].pc = "prepare" /\ Becomes(j, fields)
      /\ cli' = [cli EXCEPT ![j] = @ \cup {"create"}]
      /\ UNCHANGED <<fsVars, scenario, container, work, remote>>
  BY DEF Prepare, At
<1>2. jobs'[j].pc = "create" /\ jobs'[j].seen = jobs[j].seen /\ jobs'[j].outcome = jobs[j].outcome
  BY <1>1, JobFacts, BecomesIs DEF FieldNames, NewJob
<1>3. jobs[j].pc \in Outside /\ jobs'[j].pc \in Outside /\ jobs'[j].pc \in Pcs(Plan(j).backend)
  BY <1>1, <1>2, JobFacts DEF Outside, Starting, Pcs, JobOK, Sending
<1>4. remote' \subseteq Objects /\ DOMAIN container' = Jobs /\ DOMAIN cli' = Jobs
      /\ \A k \in Jobs : k # j => container'[k] = container[k] /\ cli'[k] = cli[k]
  BY <1>1, JobFacts DEF IInv
<1>5. ContainerOK(Plan(j), jobs'[j], container'[j], cli'[j], work[j].exit)
  BY <1>1, <1>2, JobFacts DEF ContainerOK, Starting, JobOK
<1>6. DOMAIN fields \subseteq {"pc", "armed", "seen", "digest", "removed"}
  OBVIOUS
<1> HIDE DEF fields
<1> QED
  BY <1>1, <1>3, <1>4, <1>5, <1>6, MoveKeeps

LEMMA EarlyFailureKeeps ==
  ASSUME IInv, NEW j \in Jobs, PrepareFails(j) \/ StartFails(j) \/ AttachFails(j) \/ RunnerFails(j)
  PROVE  IInv'
<1>1. jobs[j].pc \notin Importing
  BY DEF PrepareFails, StartFails, AttachFails, RunnerFails, At, Importing
<1>2. PICK kind : FailsOnly(j, kind)
  BY Zenon DEF PrepareFails, StartFails, AttachFails, RunnerFails
<1> QED
  BY <1>1, <1>2, NoPutOutside, FailsOnlyKeeps

LEMMA StartKeeps == ASSUME IInv, NEW j \in Jobs, Start(j) \/ AttachEnds(j) PROVE IInv'
<1>1. PICK pc \in {"wait", "inspect"} : Becomes(j, [pc |-> pc]) /\ OnlyJob
  BY Zenon DEF Start, AttachEnds
<1>2. jobs[j].pc \in {"start", "wait"}
  BY DEF Start, AttachEnds, At
<1>3. jobs'[j].pc = pc /\ jobs'[j].seen = jobs[j].seen /\ jobs'[j].outcome = jobs[j].outcome
  BY <1>1, PcMove
<1>4. jobs[j].pc \in Outside /\ jobs'[j].pc \in Outside /\ jobs'[j].pc \in Pcs(Plan(j).backend)
  BY <1>2, <1>3, JobFacts DEF Outside, Starting, Pcs, JobOK, Sending
<1>5. ContainerOK(Plan(j), jobs'[j], container[j], cli[j], work[j].exit)
  BY <1>2, <1>3, JobFacts DEF ContainerOK, Starting, JobOK
<1> QED
  BY <1>1, <1>4, <1>5, PlainMove

LEMMA TimeoutKeeps == ASSUME IInv, NEW j \in Jobs, Timeout(j) PROVE IInv'
<1>1. /\ jobs[j].pc = "wait" /\ Becomes(j, [pc |-> "timeout"])
      /\ cli' = [cli EXCEPT ![j] = @ \cup {"rm"}]
      /\ UNCHANGED <<fsVars, scenario, container, work, remote>>
  BY DEF Timeout, At, AskRemoval
<1>2. jobs'[j].pc = "timeout" /\ jobs'[j].seen = jobs[j].seen /\ jobs'[j].outcome = jobs[j].outcome
  BY <1>1, PcMove
<1>3. jobs[j].pc \in Outside /\ jobs'[j].pc \in Outside /\ jobs'[j].pc \in Pcs(Plan(j).backend)
  BY <1>1, <1>2, JobFacts DEF Outside, Starting, Pcs, JobOK, Sending
<1>4. remote' \subseteq Objects /\ DOMAIN container' = Jobs /\ DOMAIN cli' = Jobs
      /\ \A k \in Jobs : k # j => container'[k] = container[k] /\ cli'[k] = cli[k]
  BY <1>1, JobFacts DEF IInv
<1>5. ContainerOK(Plan(j), jobs'[j], container'[j], cli'[j], work[j].exit)
  BY <1>1, <1>2, JobFacts DEF ContainerOK, Starting, JobOK
<1>6. DOMAIN [pc |-> "timeout"] \subseteq {"pc", "armed", "seen", "digest", "removed"}
  OBVIOUS
<1> QED
  BY <1>1, <1>3, <1>4, <1>5, <1>6, MoveKeeps

LEMMA InspectKeeps == ASSUME IInv, NEW j \in Jobs, Inspect(j) PROVE IInv'
<1>1. PICK seen : /\ Becomes(j, [pc |-> "digest", seen |-> seen])
                  /\ seen = "failed" \/ seen = container[j]
  BY Zenon DEF Inspect
<1>2. jobs[j].pc = "inspect" /\ OnlyJob
  BY DEF Inspect, At
<1>3. jobs'[j].pc = "digest" /\ jobs'[j].seen = seen /\ jobs'[j].outcome = jobs[j].outcome
  BY <1>1, JobFacts, BecomesIs DEF FieldNames, NewJob
<1>4. jobs[j].pc \in Outside /\ jobs'[j].pc \in Outside /\ jobs'[j].pc \in Pcs(Plan(j).backend)
  BY <1>2, <1>3, JobFacts DEF Outside, Starting, Ending, Pcs, JobOK, Sending
<1>5. ContainerOK(Plan(j), jobs'[j], container[j], cli[j], work[j].exit)
  BY <1>1, <1>2, <1>3, JobFacts DEF ContainerOK, Starting, JobOK
<1>6. DOMAIN [pc |-> "digest", seen |-> seen] \subseteq {"pc", "armed", "seen", "digest", "removed"}
  OBVIOUS
<1> QED
  BY <1>1, <1>2, <1>4, <1>5, <1>6, PlainMove

LEMMA DigestKeeps == ASSUME IInv, NEW j \in Jobs, Digest(j) PROVE IInv'
<1>1. PICK digest : Becomes(j, [pc |-> "remove", digest |-> digest])
  BY Zenon DEF Digest
<1>2. /\ jobs[j].pc = "digest" /\ cli' = [cli EXCEPT ![j] = @ \cup {"rm"}]
      /\ UNCHANGED <<fsVars, scenario, container, work, remote>>
  BY DEF Digest, At
<1>3. jobs'[j].pc = "remove" /\ jobs'[j].seen = jobs[j].seen /\ jobs'[j].outcome = jobs[j].outcome
  BY <1>1, JobFacts, BecomesIs DEF FieldNames, NewJob
<1>4. jobs[j].pc \in Outside /\ jobs'[j].pc \in Outside /\ jobs'[j].pc \in Pcs(Plan(j).backend)
  BY <1>2, <1>3, JobFacts DEF Outside, Starting, Ending, Pcs, JobOK, Sending
<1>5. remote' \subseteq Objects /\ DOMAIN container' = Jobs /\ DOMAIN cli' = Jobs
      /\ \A k \in Jobs : k # j => container'[k] = container[k] /\ cli'[k] = cli[k]
  BY <1>2, JobFacts DEF IInv
<1>6. ContainerOK(Plan(j), jobs'[j], container'[j], cli'[j], work[j].exit)
  BY <1>2, <1>3, JobFacts DEF ContainerOK, Starting, JobOK
<1>7. DOMAIN [pc |-> "remove", digest |-> digest] \subseteq {"pc", "armed", "seen", "digest", "removed"}
  OBVIOUS
<1> QED
  BY <1>1, <1>2, <1>4, <1>5, <1>6, <1>7, MoveKeeps

\* The guard of Conclude is what makes a result final: the container was seen
\* exited, as one seen created has no record, and nothing can start it again.
LEMMA ConcludeKeeps == ASSUME IInv, NEW j \in Jobs, Conclude(j) PROVE IInv'
<1>1. jobs[j].pc = "conclude" /\ jobs[j].pc \notin Importing
  BY DEF Conclude, At, Importing
<1>2. puts[j] = NoPut
  BY <1>1, NoPutOutside
<1>3. \/ \E kind : FailsOnly(j, kind)
      \/ /\ jobs[j].seen \in {"created", "exited"} /\ work[j].exit # NoCode
         /\ Becomes(j, [pc |-> "import"]) /\ OnlyJob
  BY Zenon DEF Conclude, Completed
<1>4. CASE \E kind : FailsOnly(j, kind)
  BY <1>2, <1>4, FailsOnlyKeeps
<1>5. CASE /\ jobs[j].seen \in {"created", "exited"} /\ work[j].exit # NoCode
           /\ Becomes(j, [pc |-> "import"]) /\ OnlyJob
  <2> DEFINE x == jobs[j]
             y == jobs'[j]
             p == Plan(j)
  <2>1. UNCHANGED <<fsVars, scenario, container, cli, work, remote>>
    BY <1>5 DEF OnlyJob
  <2>2. /\ DOMAIN jobs' = Jobs /\ DOMAIN y = FieldNames
        /\ \A k \in Jobs : k # j => jobs'[k] = jobs[k]
        /\ y.pc = "import" /\ y.seen = x.seen /\ y.outcome = x.outcome
        /\ y.todo = x.todo /\ y.good = x.good /\ y.hashes = x.hashes
        /\ y.slot = x.slot /\ y.bytes = x.bytes
    BY <1>5, JobFacts, BecomesIs DEF FieldNames, NewJob
  <2>3. Untouched(x) /\ p.backend = "docker" /\ x.outcome.status = "none"
    BY <1>1, JobFacts DEF JobOK, Pcs, Ending, Sending
  <2>4. p.limit \in Nat
    BY PlansAssumption DEF IInv, Plan
  <2>5. /\ y.todo = <<>> /\ y.good = TRUE /\ y.hashes = <<>> /\ y.slot = 1 /\ y.bytes = 0
    BY <2>2, <2>3 DEF Untouched
  <2> HIDE DEF y
  <2>6. Progress(p, y, puts[j], Readable)
    <3>1. y.todo \in Seq(Objects) /\ y.hashes \in Seq(Seq(Objects)) /\ y.slot \in Nat \ {0} /\ y.bytes \in 0 .. p.limit
      BY <2>4, <2>5
    <3>2. \A i \in DOMAIN y.hashes : ToSet(y.hashes[i]) \subseteq Readable \cup ToSet(y.todo)
      BY <2>5
    <3>3. y.good
      BY <2>5
    <3> QED
      BY <1>2, <2>5, <3>1, <3>2, <3>3, Zenon DEF Progress
  <2>7. y.pc \in Pcs(p.backend)
    BY <2>2, <2>3 DEF Pcs
  <2>8. JobOK(p, y, puts[j], Readable)
    BY <2>2, <2>3, <2>6, <2>7 DEF JobOK, Importing, Starting, Ending, Sending
  <2>9. ContainerOK(p, y, container[j], cli[j], work[j].exit)
    <3>1. x.seen = "exited"
      BY <1>5, JobFacts DEF ContainerOK
    <3> QED
      BY <1>1, <2>2, <2>3, <3>1, JobFacts DEF ContainerOK, Starting
  <2>10. OutputOK(p, scenario.runs[j], y, work[j])
    BY <1>1, <2>2, JobFacts DEF OutputOK
  <2>11. JobInv(p, scenario.runs[j], y, container'[j], cli'[j], work'[j], puts[j], Readable)
    BY <2>1, <2>8, <2>9, <2>10 DEF JobInv
  <2>12. Shape' /\ remote' \subseteq Objects
    BY <2>1, <2>2, JobFacts DEF Shape, IInv
  <2>13. \A k \in Jobs : k # j => UNCHANGED <<jobs[k], container[k], cli[k], work[k]>>
    BY <2>1, <2>2
  <2> QED
    BY <2>1, <2>11, <2>12, <2>13, OneJob DEF y
<1> QED
  BY <1>3, <1>4, <1>5

-----------------------------------------------------------------------------
(* Remote.                                                                  *)

LEMMA ReadableObjects == ASSUME IInv PROVE Readable \subseteq Objects
<1>1. disk \in Seq([name : Objects, data : DataStates])
  BY DEF IInv, StoreOK, Complete
<1>2. ASSUME NEW i \in DOMAIN disk PROVE disk[i].name \in Objects
  <2>1. i \in 1 .. Len(disk)
    BY <1>1
  <2>2. disk[i] \in [name : Objects, data : DataStates]
    BY <1>1, <2>1, ElementOf
  <2> QED
    BY <2>2
<1> QED
  BY <1>2 DEF Readable

\* The steps between two places at the remote, which leave the daemon alone.
LEMMA RemoteMove ==
  ASSUME IInv, NEW j \in Jobs, NEW pc, jobs[j].pc \in Outside,
         Becomes(j, [pc |-> pc]), pc \in Outside, pc \in Pcs(Plan(j).backend),
         UNCHANGED <<fsVars, scenario, container, cli, work>>, remote' \subseteq Objects,
         ContainerOK(Plan(j), jobs'[j], container[j], cli[j], work[j].exit)
  PROVE  IInv'
<1>1. DOMAIN container' = Jobs /\ DOMAIN cli' = Jobs
      /\ \A k \in Jobs : k # j => container'[k] = container[k] /\ cli'[k] = cli[k]
  BY JobFacts
<1>2. jobs'[j].pc = pc
  BY PcMove
<1>3. DOMAIN [pc |-> pc] \subseteq {"pc", "armed", "seen", "digest", "removed"}
  OBVIOUS
<1>4. ContainerOK(Plan(j), jobs'[j], container'[j], cli'[j], work[j].exit)
  OBVIOUS
<1> QED
  BY <1>1, <1>2, <1>3, <1>4, MoveKeeps

\* A failure that leaves store, daemon and output directory alone.
LEMMA FailsKeeps ==
  ASSUME IInv, NEW j \in Jobs, NEW kind, Fails(j, kind), puts[j] = NoPut,
         UNCHANGED <<fsVars, scenario, container, work>>, remote' \subseteq Objects,
         DOMAIN cli' = Jobs, \A k \in Jobs : k # j => cli'[k] = cli[k], cli'[j] \subseteq cli[j]
  PROVE  IInv'
<1>1. Becomes(j, [pc |-> "ended", armed |-> FALSE, outcome |-> ErrorOf(kind)])
  BY DEF Fails
<1>2. jobs'[j].pc = "ended" /\ jobs'[j].outcome.status = "error"
  BY <1>1, FailedFields DEF ErrorOf
<1>3. /\ DOMAIN container' = Jobs /\ container'[j] \in Kept(container[j])
      /\ \A k \in Jobs : k # j => container'[k] = container[k] /\ cli'[k] = cli[k]
  BY JobFacts DEF Kept
<1> HIDE DEF Fails
<1> QED
  BY <1>1, <1>2, <1>3, EndKeeps

LEMMA UploadKeeps == ASSUME IInv, NEW j \in Jobs, Upload(j) PROVE IInv'
<1> DEFINE plan == Plan(j)
           sent == [i \in DOMAIN plan.inputs |->
                      Transferred(Readable, plan.inputs[i].hash, plan.inputs[i].kind)]
           failing == {i \in DOMAIN sent : ~sent[i].ok}
           tried == {i \in DOMAIN sent : \A k \in failing : i <= k}
<1>1. /\ jobs[j].pc = "upload"
      /\ remote' = remote \cup UNION {ToSet(sent[i].puts) : i \in tried}
      /\ \/ Becomes(j, [pc |-> "run"])
         \/ Fails(j, "Infrastructure")
      /\ UNCHANGED <<fsVars, scenario, container, cli, work>>
  BY DEF Upload, At
<1>2. remote' \subseteq Objects
  <2>1. \A i \in DOMAIN plan.inputs : ToSet(sent[i].puts) \subseteq Objects
    BY ReadableObjects, PlansAssumption DEF IInv, Plan
  <2>2. tried \subseteq DOMAIN plan.inputs /\ remote \subseteq Objects
    BY DEF IInv
  <2> HIDE DEF sent, tried
  <2> QED
    BY <1>1, <2>1, <2>2
<1> HIDE DEF sent, tried
<1>3. jobs[j].pc \in Outside /\ jobs[j].pc \notin Importing /\ "run" \in Outside
  BY <1>1 DEF Outside, Sending, Importing
<1>4. CASE Becomes(j, [pc |-> "run"])
  <2>1. jobs'[j].pc = "run" /\ jobs'[j].seen = jobs[j].seen /\ jobs'[j].outcome = jobs[j].outcome
    BY <1>4, PcMove
  <2>2. "run" \in Pcs(Plan(j).backend)
    BY <1>1, JobFacts DEF Pcs, JobOK, Starting, Ending, Sending
  <2>3. ContainerOK(Plan(j), jobs'[j], container[j], cli[j], work[j].exit)
    BY <1>1, <2>1, JobFacts DEF ContainerOK, Starting, JobOK
  <2> QED
    BY <1>1, <1>2, <1>3, <1>4, <2>2, <2>3, RemoteMove
<1>5. CASE Fails(j, "Infrastructure")
  BY <1>1, <1>2, <1>3, <1>5, NoPutOutside, JobFacts, FailsKeeps
<1> QED
  BY <1>1, <1>4, <1>5

LEMMA RunnerKeeps == ASSUME IInv, NEW j \in Jobs, RunnerAnswers(j) PROVE IInv'
<1> DEFINE x == jobs[j]
           y == jobs'[j]
           p == Plan(j)
<1>1. jobs[j].pc = "run" /\ UNCHANGED <<fsVars, scenario, container, cli, work>>
  BY DEF RunnerAnswers, At
<1>2. puts[j] = NoPut
  BY <1>1, NoPutOutside DEF Importing
<1>3. p.backend = "remote"
  BY <1>1, JobFacts DEF JobOK, Pcs, Starting, Ending, Sending
<1>4. PICK run \in scenario.runs[j] :
        /\ remote' = remote \cup run.objects
        /\ \/ /\ RemoteSlotsDeclared(p, run.outputs)
              /\ Becomes(j, [pc |-> "download", answer |-> run.outputs])
           \/ Fails(j, "ResultProtocol")
  BY DEF RunnerAnswers
<1>5. run.objects \subseteq Objects /\ p.limit \in Nat
  BY <1>3, PlansAssumption DEF IInv, Plan
<1>6. remote' \subseteq Objects
  BY <1>4, <1>5 DEF IInv
<1>7. CASE Fails(j, "ResultProtocol")
  BY <1>1, <1>2, <1>6, <1>7, JobFacts, FailsKeeps
<1>8. CASE RemoteSlotsDeclared(p, run.outputs) /\ Becomes(j, [pc |-> "download", answer |-> run.outputs])
  <2>1. /\ DOMAIN jobs' = Jobs /\ DOMAIN y = FieldNames
        /\ \A k \in Jobs : k # j => jobs'[k] = jobs[k]
        /\ y.pc = "download" /\ y.answer = run.outputs /\ y.seen = x.seen /\ y.outcome = x.outcome
        /\ y.todo = x.todo /\ y.good = x.good /\ y.hashes = x.hashes
        /\ y.slot = x.slot /\ y.bytes = x.bytes
    BY <1>8, JobFacts, BecomesIs DEF FieldNames, NewJob
  <2>2. Untouched(x) /\ x.outcome.status = "none"
    BY <1>1, JobFacts DEF JobOK, Sending
  <2>3. /\ y.todo = <<>> /\ y.good = TRUE /\ y.hashes = <<>> /\ y.slot = 1 /\ y.bytes = 0
    BY <2>1, <2>2 DEF Untouched
  <2> HIDE DEF y
  <2>4. Progress(p, y, puts[j], Readable)
    <3>1. y.todo \in Seq(Objects) /\ y.hashes \in Seq(Seq(Objects)) /\ y.slot \in Nat \ {0} /\ y.bytes \in 0 .. p.limit
      BY <1>5, <2>3
    <3>2. \A i \in DOMAIN y.hashes : ToSet(y.hashes[i]) \subseteq Readable \cup ToSet(y.todo)
      BY <2>3
    <3>3. y.good
      BY <2>3
    <3> QED
      BY <1>2, <2>3, <3>1, <3>2, <3>3, Zenon DEF Progress
  <2>5. JobOK(p, y, puts[j], Readable)
    BY <1>3, <2>1, <2>2, <2>4 DEF JobOK, Pcs, Importing, Starting, Ending, Sending
  <2>6. ContainerOK(p, y, container[j], cli[j], work[j].exit)
    BY <1>1, <1>3, <2>1, <2>2, JobFacts DEF ContainerOK, Starting
  <2>7. OutputOK(p, scenario.runs[j], y, work[j])
    BY <1>8, <2>1, JobFacts DEF OutputOK
  <2>8. JobInv(p, scenario.runs[j], y, container'[j], cli'[j], work'[j], puts[j], Readable)
    BY <1>1, <2>5, <2>6, <2>7 DEF JobInv
  <2>9. Shape'
    BY <1>1, <2>1, JobFacts DEF Shape
  <2>10. \A k \in Jobs : k # j => UNCHANGED <<jobs[k], container[k], cli[k], work[k]>>
    BY <1>1, <2>1
  <2> QED
    BY <1>1, <1>6, <2>8, <2>9, <2>10, OneJob DEF y
<1> QED
  BY <1>4, <1>7, <1>8

-----------------------------------------------------------------------------
(* The import, one slot after the other.                                    *)

\* What the next slot contributes is sound, whichever backend it comes from.
LEMMA NextSlotSound ==
  ASSUME IInv, NEW j \in Jobs, jobs[j].pc \in Importing, jobs[j].slot <= Len(Plan(j).outputs)
  PROVE  Sound(SlotImport(j, jobs[j].slot), Plan(j).limit - jobs[j].bytes)
<1> DEFINE p == Plan(j)
           i == jobs[j].slot
           left == p.limit - jobs[j].bytes
<1>1. p = scenario.plan[j] /\ scenario \in Scenarios
  BY DEF IInv, Plan
<1>2. p.limit \in Nat /\ p.outputs \in Seq({"Single", "Numbered", "Directory", "Tree"})
  BY <1>1, PlansAssumption
<1>3. i \in Nat \ {0} /\ jobs[j].bytes \in 0 .. p.limit
  BY JobFacts DEF JobOK, Progress
<1>4. left \in 0 .. p.limit /\ i \in DOMAIN p.outputs
  BY <1>2, <1>3
<1>5. CASE p.backend = "docker"
  <2>1. work[j].out \in scenario.runs[j] \cup {EmptyOutputs(p.outputs)}
    BY JobFacts DEF OutputOK
  <2>2. Sound(Imported(work[j].out, p.outputs[i], i - 1, left), left)
    BY <1>1, <1>4, <1>5, <2>1, PlansAssumption
  <2> QED
    BY <1>5, <2>2 DEF SlotImport
<1>6. CASE p.backend = "remote"
  <2>1. jobs[j].pc = "download"
    BY <1>6, JobFacts DEF JobOK, Importing, Pcs, Sending
  <2>2. PICK run \in scenario.runs[j] :
          jobs[j].answer = run.outputs /\ RemoteSlotsDeclared(p, run.outputs)
    BY <2>1, JobFacts DEF OutputOK
  <2>3. remote \subseteq Objects
    BY DEF IInv
  <2>4. Sound(Downloaded(remote, p.outputs[i], run.outputs[i], left), left)
    BY <1>1, <1>4, <1>6, <2>2, <2>3, PlansAssumption
  <2> QED
    BY <1>6, <2>2, <2>4 DEF SlotImport
<1> QED
  BY <1>5, <1>6, JobFacts

LEMMA SucceedsKeeps ==
  ASSUME IInv, NEW j \in Jobs, jobs[j].pc \in Importing, jobs[j].todo = <<>>, Succeeds(j)
  PROVE  IInv'
<1> DEFINE x == jobs[j]
           y == jobs'[j]
           p == Plan(j)
           outcome == [status |-> "ok", exit |-> work[j].exit, outputs |-> jobs[j].hashes]
<1>1. Progress(p, x, puts[j], Readable)
  BY JobFacts DEF JobOK
<1>2. puts[j] = NoPut /\ x.good
  BY <1>1, Zenon DEF Progress
<1>3. \A i \in DOMAIN x.hashes : ToSet(x.hashes[i]) \subseteq Readable
  <2>1. \A i \in DOMAIN x.hashes : ToSet(x.hashes[i]) \subseteq Readable \cup ToSet(x.todo)
    BY <1>1, <1>2, Zenon DEF Progress
  <2>2. ToSet(x.todo) = {}
    BY DEF ToSet
  <2> QED
    BY <2>1, <2>2
<1>4. \/ FailsOnly(j, "ResultProtocol")
      \/ Becomes(j, [pc |-> "ended", outcome |-> outcome]) /\ OnlyJob
  BY Zenon DEF Succeeds
<1>5. CASE FailsOnly(j, "ResultProtocol")
  BY <1>2, <1>5, FailsOnlyKeeps
<1>6. CASE Becomes(j, [pc |-> "ended", outcome |-> outcome]) /\ OnlyJob
  <2>1. UNCHANGED <<fsVars, scenario, container, cli, work, remote>>
    BY <1>6 DEF OnlyJob
  <2>2. /\ DOMAIN jobs' = Jobs /\ DOMAIN y = FieldNames
        /\ \A k \in Jobs : k # j => jobs'[k] = jobs[k]
        /\ y.pc = "ended" /\ y.seen = x.seen /\ y.outcome = outcome
    BY <1>6, JobFacts, BecomesIs DEF FieldNames, NewJob
  <2> HIDE DEF y
  <2>3. y.outcome.outputs = x.hashes
    BY <2>2
  <2>4. JobOK(p, y, puts[j], Readable)
    BY <1>2, <1>3, <2>2, <2>3 DEF JobOK, Pcs, Importing, Starting, Ending, Sending
  <2>5. x.seen = "exited" \/ p.backend # "docker"
    BY JobFacts DEF JobOK, ContainerOK, Importing, Pcs, Starting, Ending
  <2>6. ContainerOK(p, y, container[j], cli[j], work[j].exit)
    BY <2>2, <2>5, JobFacts DEF ContainerOK, Starting
  <2>7. OutputOK(p, scenario.runs[j], y, work[j])
    BY <2>2, JobFacts DEF OutputOK
  <2>8. JobInv(p, scenario.runs[j], y, container'[j], cli'[j], work'[j], puts[j], Readable)
    BY <2>1, <2>4, <2>6, <2>7 DEF JobInv
  <2>9. Shape' /\ remote' \subseteq Objects
    BY <2>1, <2>2, JobFacts DEF Shape, IInv
  <2>10. \A k \in Jobs : k # j => UNCHANGED <<jobs[k], container[k], cli[k], work[k]>>
    BY <2>1, <2>2
  <2> QED
    BY <2>1, <2>8, <2>9, <2>10, OneJob DEF y
<1> QED
  BY <1>4, <1>5, <1>6

LEMMA SlotFields ==
  ASSUME IInv, NEW j \in Jobs, NEW slot, NEW bytes, NEW todo, NEW good, NEW hashes,
         Becomes(j, [slot |-> slot, bytes |-> bytes, todo |-> todo, good |-> good, hashes |-> hashes])
  PROVE  /\ DOMAIN jobs' = Jobs /\ DOMAIN jobs'[j] = FieldNames
         /\ \A k \in Jobs : k # j => jobs'[k] = jobs[k]
         /\ jobs'[j].pc = jobs[j].pc /\ jobs'[j].seen = jobs[j].seen
         /\ jobs'[j].outcome = jobs[j].outcome /\ jobs'[j].answer = jobs[j].answer
         /\ jobs'[j].slot = slot /\ jobs'[j].bytes = bytes /\ jobs'[j].todo = todo
         /\ jobs'[j].good = good /\ jobs'[j].hashes = hashes
  BY JobFacts, BecomesIs, SMTT(40) DEF FieldNames, NewJob

LEMMA ImportKeeps == ASSUME IInv, NEW j \in Jobs, ImportSlotOf(j) PROVE IInv'
<1> DEFINE x == jobs[j]
           y == jobs'[j]
           p == Plan(j)
           slot == SlotImport(j, x.slot)
           fields == [slot |-> x.slot + 1, bytes |-> x.bytes + slot.bytes,
                      todo |-> slot.puts, good |-> slot.ok, hashes |-> Append(x.hashes, slot.hashes)]
<1>1. x.pc \in Importing /\ x.todo = <<>>
  BY DEF ImportSlotOf, Importing
<1>2. Progress(p, x, puts[j], Readable)
  BY <1>1, JobFacts DEF JobOK
<1>3. puts[j] = NoPut /\ x.good
  BY <1>1, <1>2, Zenon DEF Progress
<1>4. \/ x.slot > Len(p.outputs) /\ Succeeds(j)
      \/ FailsOnly(j, "ResultProtocol")
      \/ /\ ~(x.slot > Len(p.outputs)) /\ (slot.ok \/ slot.puts # <<>>)
         /\ Becomes(j, fields) /\ OnlyJob
  BY Zenon DEF ImportSlotOf
<1>5. CASE Succeeds(j)
  BY <1>1, <1>5, SucceedsKeeps
<1>6. CASE FailsOnly(j, "ResultProtocol")
  BY <1>3, <1>6, FailsOnlyKeeps
<1>7. CASE /\ ~(x.slot > Len(p.outputs)) /\ (slot.ok \/ slot.puts # <<>>)
           /\ Becomes(j, fields) /\ OnlyJob
  <2>1. UNCHANGED <<fsVars, scenario, container, cli, work, remote>>
    BY <1>7 DEF OnlyJob
  <2>2. /\ DOMAIN jobs' = Jobs /\ DOMAIN y = FieldNames
        /\ \A k \in Jobs : k # j => jobs'[k] = jobs[k]
        /\ y.pc = x.pc /\ y.seen = x.seen /\ y.outcome = x.outcome /\ y.answer = x.answer
        /\ y.slot = x.slot + 1 /\ y.bytes = x.bytes + slot.bytes /\ y.todo = slot.puts
        /\ y.good = slot.ok /\ y.hashes = Append(x.hashes, slot.hashes)
    <3> HIDE DEF slot
    <3> QED
      BY <1>7, SlotFields
  <2>3. p.limit \in Nat /\ p.outputs \in Seq({"Single", "Numbered", "Directory", "Tree"})
    BY PlansAssumption DEF IInv, Plan
  <2>4. x.slot \in Nat \ {0} /\ x.bytes \in 0 .. p.limit /\ x.hashes \in Seq(Seq(Objects))
    BY <1>2 DEF Progress
  <2>5. x.slot <= Len(p.outputs)
    BY <1>7, <2>3, <2>4
  <2>6. Sound(slot, p.limit - x.bytes)
    BY <1>1, <2>5, NextSlotSound
  <2>7. /\ slot.ok \in BOOLEAN /\ slot.bytes \in 0 .. p.limit - x.bytes
        /\ slot.puts \in Seq(Objects) /\ slot.hashes \in Seq(Objects)
        /\ slot.ok => ToSet(slot.hashes) \subseteq ToSet(slot.puts)
    BY <2>6 DEF Sound
  <2> HIDE DEF slot, y
  <2>8. y.slot \in Nat \ {0} /\ y.bytes \in 0 .. p.limit /\ y.todo \in Seq(Objects)
        /\ y.hashes \in Seq(Seq(Objects))
    <3>1. x.slot + 1 \in Nat \ {0} /\ x.bytes + slot.bytes \in 0 .. p.limit
      BY <2>3, <2>4, <2>7, SMTT(40)
    <3>2. Append(x.hashes, slot.hashes) \in Seq(Seq(Objects))
      BY <2>4, <2>7
    <3> QED
      BY <2>2, <2>7, <3>1, <3>2
  <2>9. ASSUME slot.ok, NEW i \in DOMAIN y.hashes
        PROVE  ToSet(y.hashes[i]) \subseteq Readable \cup ToSet(y.todo)
    <3>1. \A n \in DOMAIN x.hashes : ToSet(x.hashes[n]) \subseteq Readable \cup ToSet(x.todo)
      BY <1>2, <1>3, Zenon DEF Progress
    <3>2. ToSet(x.todo) = {}
      BY <1>1 DEF ToSet
    <3>3. i \in 1 .. Len(x.hashes) \/ i = Len(x.hashes) + 1
      BY <2>2, <2>4, <2>7, <2>9
    <3>4. CASE i \in 1 .. Len(x.hashes)
      <4>1. y.hashes[i] = x.hashes[i] /\ i \in DOMAIN x.hashes
        BY <2>2, <2>4, <2>7, <3>4
      <4> QED
        BY <3>1, <3>2, <4>1
    <3>5. CASE i = Len(x.hashes) + 1
      <4>1. y.hashes[i] = slot.hashes
        BY <2>2, <2>4, <2>7, <3>5
      <4> QED
        BY <2>2, <2>7, <2>9, <4>1
    <3> QED
      BY <3>3, <3>4, <3>5
  <2>10. y.good \in BOOLEAN /\ (~y.good => y.todo # <<>>)
    BY <1>7, <2>2, <2>7, Zenon
  <2>11. y.good => \A i \in DOMAIN y.hashes : ToSet(y.hashes[i]) \subseteq Readable \cup ToSet(y.todo)
    BY <2>2, <2>9, Zenon
  <2>12. Progress(p, y, puts[j], Readable)
    BY <1>3, <2>8, <2>10, <2>11, Zenon DEF Progress
  <2>13. JobOK(p, y, puts[j], Readable)
    BY <1>1, <2>2, <2>12, JobFacts DEF JobOK, Importing, Starting, Ending, Sending
  <2>14. ContainerOK(p, y, container[j], cli[j], work[j].exit)
    BY <2>2, JobFacts DEF ContainerOK
  <2>15. OutputOK(p, scenario.runs[j], y, work[j])
    BY <2>2, JobFacts DEF OutputOK
  <2>16. JobInv(p, scenario.runs[j], y, container'[j], cli'[j], work'[j], puts[j], Readable)
    BY <2>1, <2>13, <2>14, <2>15 DEF JobInv
  <2>17. Shape' /\ remote' \subseteq Objects
    BY <2>1, <2>2, JobFacts DEF Shape, IInv
  <2>18. \A k \in Jobs : k # j => UNCHANGED <<jobs[k], container[k], cli[k], work[k]>>
    BY <2>1, <2>2
  <2> QED
    BY <2>1, <2>16, <2>17, <2>18, OneJob DEF y
<1> HIDE DEF slot, fields
<1> QED
  BY <1>4, <1>5, <1>6, <1>7

-----------------------------------------------------------------------------
(* The daemon and the container.                                            *)

\* Only the container and the commands of one job change.
LEMMA DaemonOnly ==
  ASSUME IInv, NEW j \in Jobs, UNCHANGED <<fsVars, scenario, jobs, work, remote>>,
         DOMAIN container' = Jobs, DOMAIN cli' = Jobs,
         \A k \in Jobs : k # j => container'[k] = container[k] /\ cli'[k] = cli[k],
         ContainerOK(Plan(j), jobs[j], container'[j], cli'[j], work[j].exit)
  PROVE  IInv'
<1>1. JobInv(Plan(j), scenario.runs[j], jobs'[j], container'[j], cli'[j], work'[j], puts[j], Readable)
  BY JobFacts DEF JobInv
<1>2. Shape' /\ remote' \subseteq Objects
  BY JobFacts DEF Shape, IInv
<1>3. \A k \in Jobs : k # j => UNCHANGED <<jobs[k], container[k], cli[k], work[k]>>
  OBVIOUS
<1> QED
  BY <1>1, <1>2, <1>3, OneJob

LEMMA CreateKeeps == ASSUME IInv, NEW j \in Jobs, Create(j) PROVE IInv'
<1>1. /\ "create" \in cli[j]
      /\ cli' = [cli EXCEPT ![j] = @ \ {"create"}]
      /\ container' = [container EXCEPT ![j] = "created"]
      /\ UNCHANGED <<fsVars, scenario, work, remote>>
  BY DEF Create
<1>2. /\ DOMAIN container' = Jobs /\ DOMAIN cli' = Jobs /\ remote' \subseteq Objects
      /\ container'[j] = "created" /\ cli'[j] = cli[j] \ {"create"}
      /\ \A k \in Jobs : k # j => container'[k] = container[k] /\ cli'[k] = cli[k]
  BY <1>1, JobFacts DEF IInv
<1>3. CASE jobs[j].pc = "create"
  <2>1. Becomes(j, [pc |-> "start"])
    BY <1>3, Zenon DEF Create, At
  <2>2. jobs'[j].pc = "start" /\ jobs'[j].seen = jobs[j].seen /\ jobs'[j].outcome = jobs[j].outcome
    BY <2>1, PcMove
  <2>3. jobs[j].pc \in Outside /\ jobs'[j].pc \in Outside /\ jobs'[j].pc \in Pcs(Plan(j).backend)
    BY <1>3, <2>2, JobFacts DEF Outside, Starting, Pcs, JobOK, Sending
  <2>4. ContainerOK(Plan(j), jobs'[j], container'[j], cli'[j], work[j].exit)
    <3>1. container[j] = "none" /\ work[j].exit = NoCode
      BY <1>1, JobFacts DEF ContainerOK
    <3>2. jobs[j].seen = "none" /\ jobs[j].outcome.status = "none"
      BY <1>3, JobFacts DEF ContainerOK, Starting, JobOK
    <3>3. "create" \notin cli'[j]
      BY <1>2
    <3> QED
      BY <1>2, <2>2, <3>1, <3>2, <3>3 DEF ContainerOK
  <2>5. DOMAIN [pc |-> "start"] \subseteq {"pc", "armed", "seen", "digest", "removed"}
    OBVIOUS
  <2> QED
    BY <1>1, <1>2, <2>1, <2>3, <2>4, <2>5, MoveKeeps
<1>4. CASE jobs[j].pc # "create"
  <2>1. UNCHANGED jobs
    BY <1>4 DEF Create, At
  <2>2. ContainerOK(Plan(j), jobs[j], container'[j], cli'[j], work[j].exit)
    BY <1>1, <1>2, JobFacts DEF ContainerOK
  <2> QED
    BY <1>1, <1>2, <2>1, <2>2, DaemonOnly
<1> QED
  BY <1>3, <1>4

LEMMA CreateFailsKeeps == ASSUME IInv, NEW j \in Jobs, CreateFails(j) PROVE IInv'
<1>1. /\ jobs[j].pc = "create" /\ cli' = [cli EXCEPT ![j] = {}] /\ Fails(j, "Infrastructure")
      /\ UNCHANGED <<fsVars, scenario, container, work, remote>>
  BY DEF CreateFails, At
<1>2. puts[j] = NoPut
  BY <1>1, NoPutOutside DEF Importing
<1>3. remote' \subseteq Objects /\ DOMAIN cli' = Jobs /\ cli'[j] \subseteq cli[j]
      /\ \A k \in Jobs : k # j => cli'[k] = cli[k]
  BY <1>1, JobFacts DEF IInv
<1> QED
  BY <1>1, <1>2, <1>3, FailsKeeps

LEMMA ServeRemovalKeeps == ASSUME IInv, NEW j \in Jobs, ServeRemoval(j) PROVE IInv'
<1>1. /\ cli' = [cli EXCEPT ![j] = @ \ {"rm"}]
      /\ container' = [container EXCEPT ![j] = IF Exists(j) THEN "removed" ELSE @]
      /\ UNCHANGED <<fsVars, scenario, work, remote>>
  BY DEF ServeRemoval
<1>2. /\ DOMAIN container' = Jobs /\ DOMAIN cli' = Jobs /\ remote' \subseteq Objects
      /\ container'[j] \in Kept(container[j]) /\ cli'[j] \subseteq cli[j]
      /\ \A k \in Jobs : k # j => container'[k] = container[k] /\ cli'[k] = cli[k]
  BY <1>1, JobFacts DEF IInv, Exists, Kept
<1>3. ContainerOK(Plan(j), jobs[j], container'[j], cli'[j], work[j].exit)
  BY <1>2, JobFacts, GoneOK
<1>4. CASE jobs[j].pc = "remove"
  <2> DEFINE fields == [pc |-> "conclude", armed |-> FALSE, removed |-> "ok"]
  <2>1. Becomes(j, fields)
    BY <1>4 DEF ServeRemoval, At
  <2>2. jobs'[j].pc = "conclude" /\ jobs'[j].seen = jobs[j].seen /\ jobs'[j].outcome = jobs[j].outcome
    BY <2>1, JobFacts, BecomesIs DEF FieldNames, NewJob
  <2>3. jobs[j].pc \in Outside /\ jobs'[j].pc \in Outside /\ jobs'[j].pc \in Pcs(Plan(j).backend)
    BY <1>4, <2>2, JobFacts DEF Outside, Ending, Pcs, JobOK, Sending
  <2>4. ContainerOK(Plan(j), jobs'[j], container'[j], cli'[j], work[j].exit)
    BY <1>3, <1>4, <2>2 DEF ContainerOK, Starting
  <2>5. DOMAIN fields \subseteq {"pc", "armed", "seen", "digest", "removed"}
    OBVIOUS
  <2> HIDE DEF fields
  <2> QED
    BY <1>1, <1>2, <2>1, <2>3, <2>4, <2>5, MoveKeeps
<1>5. CASE jobs[j].pc = "timeout"
  <2> DEFINE fields == [pc |-> "ended", armed |-> FALSE, outcome |-> ErrorOf("Timeout")]
  <2>1. Becomes(j, fields)
    BY <1>5 DEF ServeRemoval, At
  <2>2. jobs'[j].pc = "ended" /\ jobs'[j].outcome.status = "error"
    BY <2>1, FailedFields DEF ErrorOf
  <2>3. puts[j] = NoPut
    BY <1>5, NoPutOutside DEF Importing
  <2>4. DOMAIN fields \subseteq {"pc", "armed", "outcome"}
    OBVIOUS
  <2> HIDE DEF fields
  <2> QED
    BY <1>1, <1>2, <2>1, <2>2, <2>3, <2>4, EndKeeps
<1>6. CASE jobs[j].pc \notin {"remove", "timeout"}
  <2>1. UNCHANGED jobs
    BY <1>6 DEF ServeRemoval, At
  <2> QED
    BY <1>1, <1>2, <1>3, <2>1, DaemonOnly
<1> QED
  BY <1>4, <1>5, <1>6

LEMMA RemovalFailsKeeps == ASSUME IInv, NEW j \in Jobs, RemovalFails(j) PROVE IInv'
<1>1. /\ cli' = [cli EXCEPT ![j] = @ \ {"rm"}]
      /\ UNCHANGED <<fsVars, scenario, container, work, remote>>
  BY DEF RemovalFails
<1>2. /\ DOMAIN container' = Jobs /\ DOMAIN cli' = Jobs /\ remote' \subseteq Objects
      /\ container'[j] = container[j] /\ cli'[j] \subseteq cli[j]
      /\ \A k \in Jobs : k # j => container'[k] = container[k] /\ cli'[k] = cli[k]
  BY <1>1, JobFacts DEF IInv
<1>3. ContainerOK(Plan(j), jobs[j], container'[j], cli'[j], work[j].exit)
  BY <1>2, JobFacts, GoneOK DEF Kept
<1>4. CASE jobs[j].pc = "remove"
  <2> DEFINE fields == [pc |-> "conclude", removed |-> "failed"]
  <2>1. Becomes(j, fields)
    BY <1>4 DEF RemovalFails, At
  <2>2. jobs'[j].pc = "conclude" /\ jobs'[j].seen = jobs[j].seen /\ jobs'[j].outcome = jobs[j].outcome
    BY <2>1, JobFacts, BecomesIs DEF FieldNames, NewJob
  <2>3. jobs[j].pc \in Outside /\ jobs'[j].pc \in Outside /\ jobs'[j].pc \in Pcs(Plan(j).backend)
    BY <1>4, <2>2, JobFacts DEF Outside, Ending, Pcs, JobOK, Sending
  <2>4. ContainerOK(Plan(j), jobs'[j], container'[j], cli'[j], work[j].exit)
    BY <1>3, <1>4, <2>2 DEF ContainerOK, Starting
  <2>5. DOMAIN fields \subseteq {"pc", "armed", "seen", "digest", "removed"}
    OBVIOUS
  <2> HIDE DEF fields
  <2> QED
    BY <1>1, <1>2, <2>1, <2>3, <2>4, <2>5, MoveKeeps
<1>5. CASE jobs[j].pc = "timeout"
  <2>1. Fails(j, "Timeout")
    BY <1>5 DEF RemovalFails, At
  <2>2. puts[j] = NoPut
    BY <1>5, NoPutOutside DEF Importing
  <2> QED
    BY <1>1, <1>2, <2>1, <2>2, FailsKeeps
<1>6. CASE jobs[j].pc \notin {"remove", "timeout"}
  <2>1. UNCHANGED jobs
    BY <1>6 DEF RemovalFails, At
  <2> QED
    BY <1>1, <1>2, <1>3, <2>1, DaemonOnly
<1> QED
  BY <1>4, <1>5, <1>6

\* A container that runs was not seen exited; one that exits has its record.
LEMMA ContainerKeeps ==
  ASSUME IInv, NEW j \in Jobs, ContainerStarts(j) \/ ContainerExits(j) \/ ContainerDies(j)
  PROVE  IInv'
<1>1. PICK state : ContainerOnly(j, state) /\ state \in {"running", "exited", "died"}
                   /\ (state = "exited" => work[j].exit # NoCode)
                   /\ (container[j] = "running" \/ jobs[j].pc = "wait")
  BY Zenon DEF ContainerStarts, ContainerExits, ContainerDies, At
<1>2. /\ container' = [container EXCEPT ![j] = state]
      /\ UNCHANGED <<fsVars, scenario, jobs, cli, work, remote>>
  BY <1>1 DEF ContainerOnly
<1>3. /\ DOMAIN container' = Jobs /\ DOMAIN cli' = Jobs /\ container'[j] = state /\ cli'[j] = cli[j]
      /\ \A k \in Jobs : k # j => container'[k] = container[k] /\ cli'[k] = cli[k]
  BY <1>2, JobFacts
<1>4. ContainerOK(Plan(j), jobs[j], state, cli[j], work[j].exit)
  BY <1>1, JobFacts DEF ContainerOK, Starting
<1> QED
  BY <1>2, <1>3, <1>4, DaemonOnly

LEMMA ToolKeeps ==
  ASSUME IInv, NEW j \in Jobs, ToolWrites(j) \/ WrapperRecords(j)
  PROVE  IInv'
<1>1. /\ container[j] = "running" /\ work[j].exit = NoCode
      /\ UNCHANGED <<fsVars, scenario, jobs, container, cli, remote>>
  BY DEF ToolWrites, WrapperRecords
<1>2. /\ DOMAIN work' = Jobs /\ \A k \in Jobs : k # j => work'[k] = work[k]
      /\ DOMAIN work'[j] = {"exit", "out"}
      /\ work'[j].out \in scenario.runs[j] \cup {work[j].out}
  BY JobFacts DEF ToolWrites, WrapperRecords, OutputOK
<1>3. ContainerOK(Plan(j), jobs[j], container[j], cli[j], work'[j].exit)
  BY <1>1, JobFacts DEF ContainerOK
<1>4. OutputOK(Plan(j), scenario.runs[j], jobs[j], work'[j])
  BY <1>2, JobFacts DEF OutputOK
<1>5. JobInv(Plan(j), scenario.runs[j], jobs'[j], container'[j], cli'[j], work'[j], puts[j], Readable)
  BY <1>1, <1>3, <1>4, JobFacts DEF JobInv
<1>6. Shape' /\ remote' \subseteq Objects
  BY <1>1, <1>2, JobFacts DEF Shape, IInv
<1>7. \A k \in Jobs : k # j => UNCHANGED <<jobs[k], container[k], cli[k], work[k]>>
  BY <1>1, <1>2
<1> QED
  BY <1>1, <1>5, <1>6, <1>7, OneJob

-----------------------------------------------------------------------------
(* The caller, the cleanup thread and the cleanup command.                  *)

LEMMA CancelKeeps == ASSUME IInv, NEW j \in Jobs, Cancel(j) PROVE IInv'
<1> DEFINE fields == [pc |-> "ended", armed |-> FALSE, outcome |-> [status |-> "cancelled"]]
<1>1. /\ Becomes(j, fields) /\ jobs[j].pc \notin Importing
      /\ UNCHANGED <<fsVars, scenario, container, cli, work, remote>>
  BY DEF Cancel, Importing
<1>2. jobs'[j].pc = "ended" /\ jobs'[j].outcome.status = "cancelled"
  BY <1>1, FailedFields
<1>3. /\ DOMAIN container' = Jobs /\ DOMAIN cli' = Jobs /\ remote' \subseteq Objects
      /\ \A k \in Jobs : k # j => container'[k] = container[k] /\ cli'[k] = cli[k]
  BY <1>1, JobFacts DEF IInv
<1>4. DOMAIN fields \subseteq {"pc", "armed", "outcome"} /\ puts[j] = NoPut
  BY <1>1, NoPutOutside
<1> HIDE DEF fields
<1> QED
  BY <1>1, <1>2, <1>3, <1>4, EndKeeps DEF Kept

LEMMA ReapKeeps ==
  ASSUME IInv, NEW j \in Jobs, Reap(j) \/ ReapFails(j) \/ ToolProcessExits(j)
  PROVE  IInv'
<1>1. /\ UNCHANGED <<fsVars, scenario, jobs, cli, work, remote>>
      /\ \/ container' = [container EXCEPT ![j] = IF Exists(j) THEN "removed" ELSE @]
         \/ container' = container
  BY DEF Reap, ReapFails, ToolProcessExits
<1>2. /\ DOMAIN container' = Jobs /\ DOMAIN cli' = Jobs
      /\ container'[j] \in Kept(container[j]) /\ cli'[j] = cli[j]
      /\ \A k \in Jobs : k # j => container'[k] = container[k] /\ cli'[k] = cli[k]
  BY <1>1, JobFacts DEF Exists, Kept
<1>3. ContainerOK(Plan(j), jobs[j], container'[j], cli'[j], work[j].exit)
  BY <1>2, JobFacts, GoneOK
<1> QED
  BY <1>1, <1>2, <1>3, DaemonOnly

\* The containers of all jobs go, or none.
LEMMA CleanupKeeps ==
  ASSUME IInv, CleanupRemoves \/ \E includeRunning \in BOOLEAN : CleanupLists(includeRunning)
  PROVE  IInv'
<1>1. UNCHANGED <<fsVars, scenario, jobs, cli, work, remote>>
  BY DEF CleanupRemoves, CleanupLists
<1>2. DOMAIN container' = Jobs /\ \A k \in Jobs : container'[k] \in Kept(container[k])
  BY DEF CleanupRemoves, CleanupLists, IInv, Shape, Exists, Kept
<1>3. disk' = disk /\ puts' = puts /\ losses' = losses /\ Readable' = Readable
  BY <1>1 DEF fsVars, Readable
<1>4. StoreOK' /\ Shape' /\ scenario' \in Scenarios /\ remote' \subseteq Objects
  BY <1>1, <1>2, <1>3 DEF IInv, StoreOK, Shape
<1>5. ASSUME NEW k \in Jobs
      PROVE  JobInv(Plan(k), scenario.runs[k], jobs[k], container'[k], cli[k], work[k], puts[k], Readable)
  <2>1. ContainerOK(Plan(k), jobs[k], container'[k], cli[k], work[k].exit)
    BY <1>2, JobFacts, GoneOK
  <2> QED
    BY <2>1, JobFacts DEF JobInv
<1>6. \A k \in Jobs : Plan(k)' = Plan(k)
  BY <1>1 DEF Plan
<1> QED
  BY <1>1, <1>3, <1>4, <1>5, <1>6 DEF IInv

-----------------------------------------------------------------------------
(* The steps on the store.                                                  *)

\* A job keeps what it has when the store grows.
LEMMA Grows ==
  ASSUME NEW p, NEW runs, NEW x, NEW c, NEW commands, NEW w, NEW put, NEW R, NEW S,
         JobInv(p, runs, x, c, commands, w, put, R), R \subseteq S
  PROVE  JobInv(p, runs, x, c, commands, w, put, S)
<1>1. JobOK(p, x, put, S)
  <2>1. Progress(p, x, put, R) => Progress(p, x, put, S)
    BY DEF Progress
  <2>2. x.outcome.status = "ok" =>
          \A i \in DOMAIN x.outcome.outputs : ToSet(x.outcome.outputs[i]) \subseteq S
    BY DEF JobInv, JobOK
  <2> QED
    BY <2>1, <2>2 DEF JobInv, JobOK
<1> QED
  BY <1>1 DEF JobInv

\* A step of one job on the store.
LEMMA OneStore ==
  ASSUME IInv, NEW j \in Jobs, UNCHANGED <<scenario, container, cli, work, remote>>,
         DOMAIN jobs' = Jobs, StoreOK', Readable \subseteq Readable',
         \A k \in Jobs : k # j => jobs'[k] = jobs[k] /\ puts'[k] = puts[k],
         JobInv(Plan(j), scenario.runs[j], jobs'[j], container[j], cli[j], work[j], puts'[j], Readable')
  PROVE  IInv'
<1>1. ASSUME NEW k \in Jobs
      PROVE  JobInv(Plan(k), scenario.runs[k], jobs'[k], container[k], cli[k], work[k], puts'[k], Readable')
  <2>1. CASE k # j
    BY <2>1, Grows DEF IInv
  <2> QED
    BY <2>1
<1>2. \A k \in Jobs : Plan(k)' = Plan(k)
  BY DEF Plan
<1>3. Shape' /\ scenario' \in Scenarios /\ remote' \subseteq Objects
  BY DEF IInv, Shape
<1> QED
  BY <1>1, <1>2, <1>3 DEF IInv

\* A put gets on, and no file is named.
LEMMA PutMoves ==
  ASSUME IInv, NEW w \in Writers, NEW q, puts' = [puts EXCEPT ![w] = q],
         UNCHANGED <<disk, losses>>, Answerable(q, Readable)
  PROVE  StoreOK' /\ Readable' = Readable /\ puts'[w] = q
         /\ \A v \in Writers : v # w => puts'[v] = puts[v]
<1>1. Readable' = Readable
  BY DEF Readable
<1>2. DOMAIN puts = Writers
  BY DEF IInv, StoreOK
<1>3. puts'[w] = q /\ DOMAIN puts' = Writers /\ \A v \in Writers : v # w => puts'[v] = puts[v]
  BY <1>2
<1>4. \A v \in Writers : Answerable(puts'[v], Readable)
  BY <1>3 DEF IInv, StoreOK
<1>5. Complete(disk') /\ Founded(disk') /\ losses' \in 0 .. MaxPowerLosses
  BY DEF IInv, StoreOK
<1> QED
  BY <1>1, <1>3, <1>4, <1>5 DEF StoreOK

\* A file is named: the entries of a tree have names already.
LEMMA FoundedGrows ==
  ASSUME NEW d, Complete(d), Founded(d), NEW o \in Objects,
         o.is = "Tree" => \A n \in DOMAIN o.entries :
                            \E k \in DOMAIN d : d[k].name = o.entries[n].hash
  PROVE  Founded(Append(d, [name |-> o, data |-> "synced"]))
<1> DEFINE file == [name |-> o, data |-> "synced"]
           e == Append(d, file)
<1>1. file \in [name : Objects, data : DataStates] /\ d \in Seq([name : Objects, data : DataStates])
  BY DEF Complete, DataStates
<1>2. /\ DOMAIN e = 1 .. Len(d) + 1 /\ DOMAIN d = 1 .. Len(d) /\ Len(d) \in Nat
      /\ e[Len(d) + 1] = file
      /\ \A i \in DOMAIN d : e[i] = d[i]
  BY <1>1
<1>3. file.name = o
  OBVIOUS
<1> HIDE DEF e, file
<1>4. ASSUME NEW i \in DOMAIN e, e[i].name.is = "Tree", NEW n \in DOMAIN e[i].name.entries
      PROVE  \E k \in 1 .. i - 1 : e[k].name = e[i].name.entries[n].hash
  <2>1. CASE i \in DOMAIN d
    <3>1. PICK k \in 1 .. i - 1 : d[k].name = d[i].name.entries[n].hash
      BY <1>2, <1>4, <2>1 DEF Founded
    <3>2. k \in DOMAIN d
      BY <1>2, <2>1
    <3> QED
      BY <1>2, <2>1, <3>1, <3>2
  <2>2. CASE i = Len(d) + 1
    <3>1. e[i].name = o
      BY <1>2, <1>3, <2>2
    <3>2. PICK k \in DOMAIN d : d[k].name = o.entries[n].hash
      BY <1>4, <3>1
    <3>3. k \in 1 .. i - 1
      BY <1>2, <2>2
    <3> QED
      BY <1>2, <3>1, <3>2, <3>3
  <2> QED
    BY <1>2, <2>1, <2>2
<1>5. Founded(e)
  BY <1>4 DEF Founded
<1> QED
  BY <1>5 DEF e, file

\* With complete files, what has a name can be read.
LEMMA NamedReadable == ASSUME Complete(disk) PROVE Readable = {disk[i].name : i \in DOMAIN disk}
  BY DEF Complete, Readable

\* A put that gets on is of the same object.
LEMMA SamePut ==
  ASSUME NEW p, NEW runs, NEW x, NEW c, NEW commands, NEW w, NEW put, NEW q, NEW R,
         JobInv(p, runs, x, c, commands, w, put, R), put # NoPut, q.object = put.object
  PROVE  JobInv(p, runs, x, c, commands, w, q, R)
<1>1. x.pc \in Importing /\ Progress(p, x, put, R)
  BY DEF JobInv, JobOK
<1>2. Progress(p, x, q, R)
  BY <1>1 DEF Progress
<1>3. JobOK(p, x, q, R)
  BY <1>1, <1>2 DEF JobInv, JobOK
<1> QED
  BY <1>3 DEF JobInv

LEMMA PutFacts ==
  ASSUME IInv, NEW j \in Jobs, puts[j].stage # "none"
  PROVE  /\ j \in Writers /\ puts[j] # NoPut /\ puts[j].object \in Objects
         /\ puts[j] \in PutType /\ Answerable(puts[j], Readable)
         /\ jobs[j].pc \in Importing /\ Progress(Plan(j), jobs[j], puts[j], Readable)
         /\ jobs[j].todo # <<>> /\ jobs[j].todo \in Seq(Objects)
         /\ puts[j].object = Head(jobs[j].todo)
<1>1. j \in Writers /\ puts[j] # NoPut
  BY JobsAssumption DEF NoPut
<1>2. Answerable(puts[j], Readable) /\ puts[j] \in PutType
  BY <1>1 DEF IInv, StoreOK, Answerable
<1>3. puts[j].object \in Objects
  BY <1>1, <1>2 DEF PutType
<1>4. jobs[j].pc \in Importing /\ Progress(Plan(j), jobs[j], puts[j], Readable)
  BY <1>1, JobFacts DEF JobOK
<1> QED
  BY <1>1, <1>2, <1>3, <1>4 DEF Progress

LEMMA SyncKeeps == ASSUME IInv, NEW j \in Jobs, SyncPut(j) \/ FailPut(j), UNCHANGED wfVars PROVE IInv'
<1>1. PICK stage \in {"synced", "failed"} :
        puts' = [puts EXCEPT ![j] = [stage |-> stage, object |-> puts[j].object]]
  BY DEF SyncPut, FailPut
<1>2. puts[j].stage # "none" /\ UNCHANGED <<disk, losses>>
  BY DEF SyncPut, FailPut
<1> DEFINE q == [stage |-> stage, object |-> puts[j].object]
<1>3. q \in PutType /\ q.object = puts[j].object /\ q.stage = stage
  BY <1>2, PutFacts DEF PutType, Stages
<1> HIDE DEF q
<1>4. Answerable(q, Readable)
  BY <1>2, <1>3, PutFacts DEF Answerable
<1>5. /\ StoreOK' /\ Readable' = Readable /\ puts'[j] = q
      /\ \A v \in Writers : v # j => puts'[v] = puts[v]
  BY <1>1, <1>2, <1>4, PutFacts, PutMoves, ZenonT(60) DEF q
<1>6. JobInv(Plan(j), scenario.runs[j], jobs[j], container[j], cli[j], work[j], q, Readable)
  BY <1>2, <1>3, PutFacts, SamePut DEF IInv
<1>7. UNCHANGED <<scenario, jobs, container, cli, work, remote>>
  BY DEF wfVars
<1>8. DOMAIN jobs' = Jobs /\ \A k \in Jobs : k # j => jobs'[k] = jobs[k] /\ puts'[k] = puts[k]
  BY <1>5, <1>7, JobFacts, JobsAssumption
<1> QED
  BY <1>5, <1>6, <1>7, <1>8, OneStore

LEMMA PersistKeeps == ASSUME IInv, NEW j \in Jobs, PersistPut(j), UNCHANGED wfVars PROVE IInv'
<1> DEFINE o == puts[j].object
           q == [stage |-> "stored", object |-> o]
<1>1. /\ puts[j].stage # "none" /\ losses' = losses
      /\ disk' = IF o \in Named THEN disk ELSE Append(disk, [name |-> o, data |-> "synced"])
      /\ puts' = [puts EXCEPT ![j] = q]
  BY DEF PersistPut
<1>2. o \in Objects /\ j \in Writers
  BY <1>1, PutFacts
<1>3. Complete(disk) /\ Founded(disk) /\ DOMAIN puts = Writers
  BY DEF IInv, StoreOK
<1>4. Readable = {disk[i].name : i \in DOMAIN disk}
  BY <1>3, NamedReadable
<1>5. Complete(disk') /\ Founded(disk') /\ Readable \subseteq Readable' /\ o \in Readable'
  <2>1. CASE o \in Named
    <3>1. disk' = disk
      BY <1>1, <2>1
    <3>2. Readable' = Readable
      BY <3>1 DEF Readable
    <3> QED
      BY <1>3, <1>4, <2>1, <3>1, <3>2 DEF Named
  <2>2. CASE o \notin Named
    <3> DEFINE file == [name |-> o, data |-> "synced"]
    <3>1. disk' = Append(disk, file)
      BY <1>1, <2>2
    <3>2. \A i \in DOMAIN disk : disk[i].name # o
      BY <2>2 DEF Named
    <3>3. Complete(disk')
      BY <1>2, <1>3, <3>1, <3>2, RenameKeeps
    <3>4. o.is = "Tree" => \A n \in DOMAIN o.entries :
                             \E k \in DOMAIN disk : disk[k].name = o.entries[n].hash
      BY <1>1, <1>4, PutFacts DEF Answerable
    <3>5. Founded(disk')
      BY <1>2, <1>3, <3>1, <3>4, FoundedGrows
    <3>6. Readable' = {disk'[i].name : i \in DOMAIN disk'}
      BY <3>3 DEF Complete, Readable
    <3>7. file \in [name : Objects, data : DataStates] /\ disk \in Seq([name : Objects, data : DataStates])
      BY <1>2, <1>3 DEF Complete, DataStates
    <3>8. /\ DOMAIN disk' = 1 .. Len(disk) + 1 /\ DOMAIN disk = 1 .. Len(disk) /\ Len(disk) \in Nat
          /\ disk'[Len(disk) + 1] = file
          /\ \A i \in DOMAIN disk : disk'[i] = disk[i]
      BY <3>1, <3>7
    <3>9. \A i \in DOMAIN disk : i \in DOMAIN disk'
      BY <3>8
    <3>10. Len(disk) + 1 \in DOMAIN disk' /\ file.name = o
      BY <3>8
    <3> HIDE DEF file
    <3>11. Readable \subseteq Readable'
      BY <1>4, <3>6, <3>8, <3>9
    <3>12. o \in Readable'
      BY <3>6, <3>8, <3>10
    <3> QED
      BY <3>3, <3>5, <3>11, <3>12
  <2> QED
    BY <2>1, <2>2
<1>6. q \in PutType /\ q.object = o /\ q.stage = "stored"
  BY <1>2 DEF PutType, Stages
<1> HIDE DEF q
<1>7. Answerable(q, Readable')
  BY <1>1, <1>5, <1>6, PutFacts DEF Answerable
<1>8. /\ puts'[j] = q /\ DOMAIN puts' = Writers
      /\ \A v \in Writers : v # j => puts'[v] = puts[v]
  BY <1>1, <1>2, <1>3
<1>9. \A v \in Writers : Answerable(puts'[v], Readable')
  <2>1. \A v \in Writers : Answerable(puts[v], Readable)
    BY DEF IInv, StoreOK
  <2>2. \A v \in Writers : Answerable(puts[v], Readable')
    BY <1>5, <2>1 DEF Answerable
  <2> QED
    BY <1>7, <1>8, <2>2
<1>10. StoreOK'
  BY <1>1, <1>5, <1>8, <1>9 DEF StoreOK, IInv
<1>11. JobInv(Plan(j), scenario.runs[j], jobs[j], container[j], cli[j], work[j], q, Readable')
  <2>1. JobInv(Plan(j), scenario.runs[j], jobs[j], container[j], cli[j], work[j], q, Readable)
    BY <1>1, <1>6, PutFacts, SamePut DEF IInv
  <2> QED
    BY <1>5, <2>1, Grows
<1>12. UNCHANGED <<scenario, jobs, container, cli, work, remote>>
  BY DEF wfVars
<1>13. DOMAIN jobs' = Jobs /\ \A k \in Jobs : k # j => jobs'[k] = jobs[k] /\ puts'[k] = puts[k]
  BY <1>8, <1>12, JobFacts, JobsAssumption
<1> QED
  BY <1>5, <1>8, <1>10, <1>11, <1>12, <1>13, OneStore

\* put_tree looks the entries up before the put begins.
LEMMA PutNextKeeps == ASSUME IInv, NEW j \in Jobs, PutNext(j) PROVE IInv'
<1> DEFINE o == Head(jobs[j].todo)
           q == [stage |-> "written", object |-> o]
<1>1. jobs[j].pc \in Importing /\ jobs[j].todo # <<>> /\ puts[j] = NoPut
  BY DEF PutNext, Importing
<1>2. Progress(Plan(j), jobs[j], puts[j], Readable) /\ jobs[j].todo \in Seq(Objects)
  BY <1>1, JobFacts DEF JobOK, Progress
<1>3. o \in Objects /\ j \in Writers
  BY <1>1, <1>2, JobsAssumption
<1>4. \/ FailsOnly(j, "ResultProtocol")
      \/ /\ o.is = "Tree" => CanPutTree(Readable, o.entries)
         /\ BeginPut(j, o) /\ UNCHANGED wfVars
  BY Zenon DEF PutNext
<1>5. CASE FailsOnly(j, "ResultProtocol")
  BY <1>1, <1>5, FailsOnlyKeeps
<1>6. CASE /\ o.is = "Tree" => CanPutTree(Readable, o.entries)
           /\ BeginPut(j, o) /\ UNCHANGED wfVars
  <2>1. q \in PutType /\ q.object = o /\ q.stage = "written" /\ q # NoPut
    BY <1>3 DEF PutType, Stages, NoPut
  <2>2. puts' = [puts EXCEPT ![j] = q] /\ UNCHANGED <<disk, losses>>
    BY <1>6 DEF BeginPut
  <2> HIDE DEF q
  <2>3. Answerable(q, Readable)
    BY <1>6, <2>1 DEF Answerable, CanPutTree
  <2>4. /\ StoreOK' /\ Readable' = Readable /\ puts'[j] = q
        /\ \A v \in Writers : v # j => puts'[v] = puts[v]
    BY <1>3, <2>2, <2>3, PutMoves
  <2>5. Progress(Plan(j), jobs[j], q, Readable)
    BY <1>1, <1>2, <2>1 DEF Progress
  <2>6. JobOK(Plan(j), jobs[j], q, Readable)
    BY <1>1, <2>5, JobFacts DEF JobOK
  <2>7. JobInv(Plan(j), scenario.runs[j], jobs[j], container[j], cli[j], work[j], q, Readable)
    BY <2>6, JobFacts DEF JobInv
  <2>8. UNCHANGED <<scenario, jobs, container, cli, work, remote>>
    BY <1>6 DEF wfVars
  <2>9. DOMAIN jobs' = Jobs /\ \A k \in Jobs : k # j => jobs'[k] = jobs[k] /\ puts'[k] = puts[k]
    BY <2>4, <2>8, JobFacts, JobsAssumption
  <2> QED
    BY <2>4, <2>7, <2>8, <2>9, OneStore
<1> QED
  BY <1>4, <1>5, <1>6

\* A job ends without an answer, and its put with it.
LEMMA EndWithPut ==
  ASSUME IInv, NEW j \in Jobs, NEW outcome, outcome.status \in {"error", "cancelled"},
         Becomes(j, [pc |-> "ended", armed |-> FALSE, outcome |-> outcome]),
         LeavePut(j), UNCHANGED <<scenario, container, cli, work, remote>>
  PROVE  IInv'
<1>1. /\ jobs'[j].pc = "ended" /\ jobs'[j].outcome = outcome /\ jobs'[j].seen = jobs[j].seen
      /\ DOMAIN jobs' = Jobs /\ DOMAIN jobs'[j] = FieldNames
      /\ \A k \in Jobs : k # j => jobs'[k] = jobs[k]
  BY FailedFields
<1>2. JobInv(Plan(j), scenario.runs[j], jobs[j], container[j], cli[j], work[j], puts[j], Readable)
  BY DEF IInv
<1>3. JobInv(Plan(j), scenario.runs[j], jobs'[j], container[j], cli[j], work[j], NoPut, Readable)
  BY <1>1, <1>2, EndsOK DEF Kept
<1>4. puts' = [puts EXCEPT ![j] = NoPut] /\ UNCHANGED <<disk, losses>> /\ j \in Writers
  BY JobsAssumption DEF LeavePut
<1>5. Answerable(NoPut, Readable)
  BY DEF Answerable, PutType
<1>6. /\ StoreOK' /\ Readable' = Readable /\ puts'[j] = NoPut
      /\ \A v \in Writers : v # j => puts'[v] = puts[v]
  BY <1>4, <1>5, PutMoves
<1>7. \A k \in Jobs : k # j => jobs'[k] = jobs[k] /\ puts'[k] = puts[k]
  BY <1>1, <1>6, JobsAssumption
<1> QED
  BY <1>1, <1>3, <1>6, <1>7, OneStore

LEMMA PutFailedKeeps == ASSUME IInv, NEW j \in Jobs, PutFailed(j) PROVE IInv'
<1>1. PICK kind : Fails(j, kind)
  BY DEF PutFailed
<1>2. LeavePut(j) /\ UNCHANGED <<scenario, container, cli, work, remote>>
  BY DEF PutFailed
<1>3. Becomes(j, [pc |-> "ended", armed |-> FALSE, outcome |-> ErrorOf(kind)])
  BY <1>1 DEF Fails
<1>4. ErrorOf(kind).status = "error"
  BY DEF ErrorOf
<1> QED
  BY <1>2, <1>3, <1>4, EndWithPut

LEMMA KillKeeps == ASSUME IInv, NEW j \in Jobs, KillTool(j) PROVE IInv'
<1> DEFINE outcome == [status |-> "cancelled"]
           fields == [pc |-> "ended", armed |-> FALSE, outcome |-> outcome]
<1>1. /\ Becomes(j, fields) /\ UNCHANGED <<scenario, container, cli, work, remote>>
      /\ \/ puts[j] = NoPut /\ UNCHANGED fsVars
         \/ LeavePut(j)
  BY DEF KillTool
<1>2. outcome.status = "cancelled"
  OBVIOUS
<1> HIDE DEF outcome
<1>3. CASE LeavePut(j)
  BY <1>1, <1>2, <1>3, EndWithPut
<1>4. CASE puts[j] = NoPut /\ UNCHANGED fsVars
  <2>1. jobs'[j].pc = "ended" /\ jobs'[j].outcome.status = "cancelled"
    BY <1>1, <1>2, FailedFields
  <2>2. /\ DOMAIN container' = Jobs /\ DOMAIN cli' = Jobs /\ remote' \subseteq Objects
        /\ \A k \in Jobs : k # j => container'[k] = container[k] /\ cli'[k] = cli[k]
    BY <1>1, JobFacts DEF IInv
  <2>3. DOMAIN fields \subseteq {"pc", "armed", "outcome"}
    OBVIOUS
  <2> HIDE DEF fields
  <2> QED
    BY <1>1, <1>4, <2>1, <2>2, <2>3, EndKeeps DEF Kept
<1> QED
  BY <1>1, <1>3, <1>4

LEMMA TodoFields ==
  ASSUME IInv, NEW j \in Jobs, NEW todo, Becomes(j, [todo |-> todo])
  PROVE  /\ DOMAIN jobs' = Jobs /\ DOMAIN jobs'[j] = FieldNames
         /\ \A k \in Jobs : k # j => jobs'[k] = jobs[k]
         /\ jobs'[j].pc = jobs[j].pc /\ jobs'[j].seen = jobs[j].seen
         /\ jobs'[j].outcome = jobs[j].outcome /\ jobs'[j].answer = jobs[j].answer
         /\ jobs'[j].slot = jobs[j].slot /\ jobs'[j].bytes = jobs[j].bytes /\ jobs'[j].todo = todo
         /\ jobs'[j].good = jobs[j].good /\ jobs'[j].hashes = jobs[j].hashes
  BY JobFacts, BecomesIs DEF FieldNames, NewJob

\* The object that was put is stored, so that what remains to be put is less.
LEMMA PutAnsweredKeeps == ASSUME IInv, NEW j \in Jobs, PutAnswered(j) PROVE IInv'
<1> DEFINE x == jobs[j]
           y == jobs'[j]
           p == Plan(j)
<1>1. /\ puts[j].stage = "stored" /\ LeavePut(j)
      /\ UNCHANGED <<scenario, container, cli, work, remote>>
  BY DEF PutAnswered
<1>2. /\ j \in Writers /\ puts[j] # NoPut /\ Answerable(puts[j], Readable)
      /\ x.pc \in Importing /\ Progress(p, x, puts[j], Readable)
      /\ x.todo # <<>> /\ x.todo \in Seq(Objects) /\ puts[j].object = Head(x.todo)
  BY <1>1, PutFacts
<1>3. Head(x.todo) \in Readable
  BY <1>1, <1>2 DEF Answerable
<1>4. \/ Fails(j, "ResultProtocol")
      \/ (Len(x.todo) # 1 \/ x.good) /\ Becomes(j, [todo |-> Tail(x.todo)])
  BY Zenon DEF PutAnswered
<1>5. CASE Fails(j, "ResultProtocol")
  <2>1. Becomes(j, [pc |-> "ended", armed |-> FALSE, outcome |-> ErrorOf("ResultProtocol")])
    BY <1>5 DEF Fails
  <2>2. ErrorOf("ResultProtocol").status = "error"
    BY DEF ErrorOf
  <2> QED
    BY <1>1, <2>1, <2>2, EndWithPut
<1>6. CASE (Len(x.todo) # 1 \/ x.good) /\ Becomes(j, [todo |-> Tail(x.todo)])
  <2>1. /\ DOMAIN jobs' = Jobs /\ DOMAIN y = FieldNames
        /\ \A k \in Jobs : k # j => jobs'[k] = jobs[k]
        /\ y.pc = x.pc /\ y.seen = x.seen /\ y.outcome = x.outcome /\ y.answer = x.answer
        /\ y.slot = x.slot /\ y.bytes = x.bytes /\ y.todo = Tail(x.todo)
        /\ y.good = x.good /\ y.hashes = x.hashes
    BY <1>6, TodoFields
  <2> HIDE DEF y
  <2>2. y.todo \in Seq(Objects) /\ (Len(x.todo) # 1 => y.todo # <<>>)
    <3>1. Tail(x.todo) \in Seq(Objects) /\ Len(Tail(x.todo)) = Len(x.todo) - 1 /\ Len(x.todo) \in Nat
      BY <1>2
    <3>2. Len(x.todo) # 1 => Len(Tail(x.todo)) # 0
      BY <3>1
    <3>3. Len(<<>>) = 0
      OBVIOUS
    <3>4. Tail(x.todo) = <<>> => Len(Tail(x.todo)) = 0
      BY <3>3, Zenon
    <3> QED
      BY <2>1, <3>1, <3>2, <3>4
  <2>3. ToSet(x.todo) \subseteq {Head(x.todo)} \cup ToSet(y.todo)
    <3>1. ASSUME NEW i \in DOMAIN x.todo PROVE x.todo[i] = Head(x.todo) \/ x.todo[i] \in ToSet(y.todo)
      <4>1. CASE i = 1
        BY <1>2, <4>1
      <4>2. CASE i # 1
        <5>1. i - 1 \in DOMAIN y.todo /\ y.todo[i - 1] = x.todo[i]
          BY <1>2, <2>1, <4>2, SMTT(40)
        <5> QED
          BY <5>1 DEF ToSet
      <4> QED
        BY <4>1, <4>2
    <3> QED
      BY <3>1 DEF ToSet
  <2>4. x.good => \A i \in DOMAIN x.hashes : ToSet(x.hashes[i]) \subseteq Readable \cup ToSet(x.todo)
    BY <1>2, Zenon DEF Progress
  <2>5. y.good => \A i \in DOMAIN y.hashes : ToSet(y.hashes[i]) \subseteq Readable \cup ToSet(y.todo)
    BY <1>3, <2>1, <2>3, <2>4
  <2>6. ~y.good => y.todo # <<>>
    BY <1>6, <2>1, <2>2, Zenon
  <2>7. /\ y.hashes \in Seq(Seq(Objects)) /\ y.slot \in Nat \ {0} /\ y.bytes \in 0 .. p.limit
        /\ y.good \in BOOLEAN
    BY <1>2, <2>1, Zenon DEF Progress
  <2>8. Progress(p, y, NoPut, Readable)
    BY <2>2, <2>5, <2>6, <2>7, Zenon DEF Progress
  <2>9. JobOK(p, y, NoPut, Readable)
    BY <1>2, <2>1, <2>8, JobFacts DEF JobOK, Importing, Starting, Ending, Sending
  <2>10. ContainerOK(p, y, container[j], cli[j], work[j].exit)
    BY <2>1, JobFacts DEF ContainerOK
  <2>11. OutputOK(p, scenario.runs[j], y, work[j])
    BY <2>1, JobFacts DEF OutputOK
  <2>12. JobInv(p, scenario.runs[j], y, container[j], cli[j], work[j], NoPut, Readable)
    BY <2>9, <2>10, <2>11 DEF JobInv
  <2>13. puts' = [puts EXCEPT ![j] = NoPut] /\ UNCHANGED <<disk, losses>>
    BY <1>1 DEF LeavePut
  <2>14. Answerable(NoPut, Readable)
    BY DEF Answerable, PutType
  <2>15. /\ StoreOK' /\ Readable' = Readable /\ puts'[j] = NoPut
         /\ \A v \in Writers : v # j => puts'[v] = puts[v]
    BY <1>2, <2>13, <2>14, PutMoves
  <2>16. \A k \in Jobs : k # j => jobs'[k] = jobs[k] /\ puts'[k] = puts[k]
    BY <2>1, <2>15, JobsAssumption
  <2> QED
    BY <1>1, <2>1, <2>12, <2>15, <2>16, OneStore DEF y
<1> QED
  BY <1>4, <1>5, <1>6

-----------------------------------------------------------------------------
(* The power fails: what remains of the disk is a beginning of it, and no   *)
(* job that had started is left.                                            *)

LEMMA LossFounded ==
  ASSUME NEW d, Complete(d), Founded(d), NEW n \in 0 .. Len(d)
  PROVE  Founded([i \in 1 .. n |->
                    [name |-> d[i].name, data |-> IF d[i].data = "cached" THEN "torn" ELSE d[i].data]])
<1> DEFINE e == [i \in 1 .. n |->
                   [name |-> d[i].name, data |-> IF d[i].data = "cached" THEN "torn" ELSE d[i].data]]
<1>1. DOMAIN e = 1 .. n /\ (\A i \in 1 .. n : e[i].name = d[i].name) /\ n \in Nat
      /\ Len(d) \in Nat /\ DOMAIN d = 1 .. Len(d)
  BY DEF Complete
<1> HIDE DEF e
<1>2. ASSUME NEW i \in DOMAIN e, e[i].name.is = "Tree", NEW f \in DOMAIN e[i].name.entries
      PROVE  \E k \in 1 .. i - 1 : e[k].name = e[i].name.entries[f].hash
  <2>1. i \in DOMAIN d /\ e[i].name = d[i].name
    BY <1>1
  <2>2. PICK k \in 1 .. i - 1 : d[k].name = d[i].name.entries[f].hash
    BY <1>2, <2>1 DEF Founded
  <2>3. k \in 1 .. n
    BY <1>1
  <2> QED
    BY <1>1, <2>1, <2>2, <2>3
<1>3. Founded(e)
  BY <1>2 DEF Founded
<1> QED
  BY <1>3 DEF e

LEMMA StopsKeeps == ASSUME IInv, MachineStops PROVE IInv'
<1>1. /\ PowerLoss /\ UNCHANGED <<scenario, work>> /\ remote' = {}
      /\ jobs' = [j \in Jobs |-> IF At(j, "submitted") THEN jobs[j] ELSE [NewJob EXCEPT !.pc = "dead"]]
      /\ container' = [j \in Jobs |-> IF container[j] = "running" THEN "died" ELSE container[j]]
      /\ cli' = [j \in Jobs |-> {}]
  BY DEF MachineStops
<1>2. Complete(disk) /\ Founded(disk) /\ losses \in 0 .. MaxPowerLosses
  BY DEF IInv, StoreOK
<1>3. PICK n \in 0 .. Len(disk) :
        disk' = [i \in 1 .. n |-> [name |-> disk[i].name,
                                   data |-> IF disk[i].data = "cached" THEN "torn" ELSE disk[i].data]]
  BY <1>1 DEF PowerLoss
<1>4. Complete(disk') /\ Founded(disk')
  BY <1>2, <1>3, LossKeeps, LossFounded
<1>5. /\ DOMAIN puts' = Writers /\ \A w \in Writers : puts'[w] = NoPut
      /\ losses' \in 0 .. MaxPowerLosses
  BY <1>1, <1>2, PowerAssumption DEF PowerLoss
<1>6. \A w \in Writers : Answerable(puts'[w], Readable')
  BY <1>5 DEF Answerable, PutType
<1>7. StoreOK'
  BY <1>4, <1>5, <1>6 DEF StoreOK
<1>8. Shape' /\ scenario' \in Scenarios /\ remote' \subseteq Objects
  BY <1>1 DEF Shape, IInv
<1>9. ASSUME NEW j \in Jobs
      PROVE  JobInv(Plan(j), scenario.runs[j], jobs'[j], container'[j], cli'[j], work[j], NoPut, Readable')
  <2>1. cli'[j] = {} /\ (container'[j] = container[j] \/ (container[j] = "running" /\ container'[j] = "died"))
    BY <1>1
  <2>2. jobs'[j].pc # "download" => OutputOK(Plan(j), scenario.runs[j], jobs'[j], work[j])
    BY JobFacts DEF OutputOK
  <2>3. CASE jobs[j].pc = "submitted"
    <3>1. jobs'[j] = jobs[j]
      BY <1>1, <2>3 DEF At
    <3>2. jobs[j].outcome.status = "none"
      BY <2>3, JobFacts DEF JobOK
    <3>3. JobOK(Plan(j), jobs[j], NoPut, Readable')
      BY <2>3, <3>2, JobFacts DEF JobOK, Importing
    <3>4. ContainerOK(Plan(j), jobs[j], container'[j], cli'[j], work[j].exit)
      BY <2>1, <2>3, JobFacts DEF ContainerOK
    <3> QED
      BY <2>2, <2>3, <3>1, <3>3, <3>4 DEF JobInv
  <2>4. CASE jobs[j].pc # "submitted"
    <3>1. jobs'[j] = [NewJob EXCEPT !.pc = "dead"]
      BY <1>1, <2>4 DEF At
    <3>2. DOMAIN jobs'[j] = FieldNames /\ jobs'[j].pc = "dead"
          /\ jobs'[j].outcome.status = "none" /\ jobs'[j].seen = "none"
      BY <3>1 DEF NewJob, FieldNames
    <3>3. JobOK(Plan(j), jobs'[j], NoPut, Readable')
      BY <3>2 DEF JobOK, Pcs, Importing, Starting, Ending, Sending
    <3>4. ContainerOK(Plan(j), jobs'[j], container'[j], cli'[j], work[j].exit)
      BY <2>1, <3>2, JobFacts DEF ContainerOK
    <3> QED
      BY <2>2, <3>2, <3>3, <3>4 DEF JobInv
  <2> QED
    BY <2>3, <2>4
<1>10. \A j \in Jobs : Plan(j)' = Plan(j)
  BY <1>1 DEF Plan
<1>11. \A j \in Jobs : puts'[j] = NoPut
  BY <1>5, JobsAssumption
<1> QED
  BY <1>1, <1>7, <1>8, <1>9, <1>10, <1>11 DEF IInv

-----------------------------------------------------------------------------
(* The invariant holds at first, and every step keeps it.                   *)

LEMMA InitOK == Init => IInv
<1> SUFFICES ASSUME Init PROVE IInv
  OBVIOUS
<1>1. /\ scenario \in Scenarios
      /\ disk = [i \in DOMAIN scenario.store |-> [name |-> scenario.store[i], data |-> "synced"]]
      /\ puts = [w \in Writers |-> NoPut] /\ losses = 0
      /\ jobs = [j \in Jobs |-> NewJob] /\ container = [j \in Jobs |-> "none"]
      /\ cli = [j \in Jobs |-> {}]
      /\ work = [j \in Jobs |-> [exit |-> NoCode, out |-> EmptyOutputs(Plan(j).outputs)]]
      /\ remote = {}
  BY DEF Init
<1>2. /\ scenario.store \in Seq(Objects)
      /\ \A i, k \in DOMAIN scenario.store : scenario.store[i] = scenario.store[k] => i = k
      /\ \A i \in DOMAIN scenario.store : scenario.store[i].is = "Tree" =>
           \A n \in DOMAIN scenario.store[i].entries :
             \E k \in 1 .. i - 1 : scenario.store[k] = scenario.store[i].entries[n].hash
  BY <1>1, StoreAssumption
<1>3. /\ DOMAIN disk = DOMAIN scenario.store
      /\ \A i \in DOMAIN disk : disk[i].name = scenario.store[i] /\ disk[i].data = "synced"
      /\ DOMAIN disk = 1 .. Len(scenario.store) /\ Len(scenario.store) \in Nat
  BY <1>1, <1>2
<1>4. Complete(disk)
  <2>1. \A i \in 1 .. Len(scenario.store) : scenario.store[i] \in Objects
    BY <1>2, ElementOf
  <2>2. \A i \in 1 .. Len(scenario.store) :
          [name |-> scenario.store[i], data |-> "synced"] \in [name : Objects, data : DataStates]
    BY <2>1 DEF DataStates
  <2>3. disk = [i \in 1 .. Len(scenario.store) |-> [name |-> scenario.store[i], data |-> "synced"]]
    BY <1>1, <1>3
  <2>4. disk \in Seq([name : Objects, data : DataStates])
    BY <1>3, <2>2, <2>3
  <2> QED
    BY <1>2, <1>3, <2>4 DEF Complete
<1>5. Founded(disk)
  <2>1. \A i \in DOMAIN disk : \A k \in 1 .. i - 1 : k \in DOMAIN disk
    BY <1>3
  <2> QED
    BY <1>2, <1>3, <2>1 DEF Founded
<1>6. StoreOK
  BY <1>1, <1>4, <1>5, PowerAssumption DEF StoreOK, Answerable, PutType
<1>7. Shape
  BY <1>1 DEF Shape
<1>8. ASSUME NEW j \in Jobs
      PROVE  JobInv(Plan(j), scenario.runs[j], jobs[j], container[j], cli[j], work[j], puts[j], Readable)
  <2>1. puts[j] = NoPut /\ jobs[j] = NewJob /\ container[j] = "none" /\ cli[j] = {}
        /\ work[j] = [exit |-> NoCode, out |-> EmptyOutputs(Plan(j).outputs)]
    BY <1>1, JobsAssumption
  <2>2. /\ NewJob.pc = "submitted" /\ NewJob.seen = "none" /\ NewJob.outcome.status = "none"
        /\ Untouched(NewJob)
    BY DEF NewJob, Untouched
  <2>3. JobOK(Plan(j), jobs[j], puts[j], Readable)
    BY <2>1, <2>2 DEF JobOK, FieldNames, Pcs, Importing
  <2>4. ContainerOK(Plan(j), jobs[j], container[j], cli[j], work[j].exit)
    BY <2>1, <2>2 DEF ContainerOK
  <2>5. OutputOK(Plan(j), scenario.runs[j], jobs[j], work[j])
    BY <2>1, <2>2 DEF OutputOK
  <2> QED
    BY <2>3, <2>4, <2>5 DEF JobInv
<1> QED
  BY <1>1, <1>6, <1>7, <1>8 DEF IInv

LEMMA NextKeeps == IInv /\ [Next]_vars => IInv'
<1> SUFFICES ASSUME IInv, [Next]_vars PROVE IInv'
  OBVIOUS
<1>1. ASSUME NEW j \in Jobs, JobStep(j) PROVE IInv'
  BY <1>1, ValidateKeeps, PrepareKeeps, EarlyFailureKeeps, StartKeeps, TimeoutKeeps, InspectKeeps,
     DigestKeeps, ConcludeKeeps, UploadKeeps, ImportKeeps DEF JobStep
<1>2. ASSUME NEW j \in Jobs, StoreStep(j) PROVE IInv'
  BY <1>2, SyncKeeps, PersistKeeps, PutNextKeeps, PutAnsweredKeeps, PutFailedKeeps DEF StoreStep
<1>3. ASSUME NEW j \in Jobs, DaemonStep(j) PROVE IInv'
  BY <1>3, CreateKeeps, CreateFailsKeeps, ServeRemovalKeeps, RemovalFailsKeeps, ContainerKeeps,
     ToolKeeps, StartKeeps, RunnerKeeps, EarlyFailureKeeps DEF DaemonStep
<1>4. ASSUME NEW j \in Jobs,
             Cancel(j) \/ KillTool(j) \/ Reap(j) \/ ReapFails(j) \/ ToolProcessExits(j)
      PROVE  IInv'
  BY <1>4, CancelKeeps, KillKeeps, ReapKeeps
<1>5. CASE CleanupRemoves \/ \E includeRunning \in BOOLEAN : CleanupLists(includeRunning)
  BY <1>5, CleanupKeeps
<1>6. CASE MachineStops
  BY <1>6, StopsKeeps
<1>7. CASE UNCHANGED vars
  <2>1. UNCHANGED <<disk, puts, losses>> /\ UNCHANGED <<scenario, jobs, container, cli, work, remote>>
    BY <1>7 DEF vars, fsVars, wfVars
  <2>2. Readable' = Readable /\ StoreOK' /\ Shape'
    BY <2>1 DEF Readable, IInv, StoreOK, Shape
  <2>3. \A j \in Jobs : Plan(j)' = Plan(j)
    BY <2>1 DEF Plan
  <2> QED
    BY <2>1, <2>2, <2>3 DEF IInv
<1>8. CASE Ended
  BY <1>7, <1>8 DEF Ended
<1> QED
  BY <1>1, <1>2, <1>3, <1>4, <1>5, <1>6, <1>7, <1>8 DEF Next

LEMMA Inductive == Spec => []IInv
  BY InitOK, NextKeeps, PTL DEF Spec

-----------------------------------------------------------------------------
(* The store, under all that the jobs do to it, keeps its promise: whenever *)
(* jobs are cancelled or killed and whenever the power fails, a file that   *)
(* has a name is whole.                                                     *)
THEOREM JobsStoreWholeFiles == Spec => []NeverTorn
<1>1. IInv => NeverTorn
  BY DEF IInv, StoreOK, Complete, NeverTorn
<1> QED
  BY <1>1, Inductive, PTL

LEMMA FoundedClosed == ASSUME IInv PROVE TreesClosed
<1>1. Complete(disk) /\ Founded(disk)
  BY DEF IInv, StoreOK
<1>2. Readable = {disk[i].name : i \in DOMAIN disk}
  BY <1>1, NamedReadable
<1>3. ASSUME NEW o \in Readable, o.is = "Tree", NEW n \in DOMAIN o.entries
      PROVE  o.entries[n].hash \in Readable
  <2>1. PICK i \in DOMAIN disk : disk[i].name = o
    BY <1>2
  <2>2. PICK k \in 1 .. i - 1 : disk[k].name = o.entries[n].hash
    BY <1>1, <1>3, <2>1 DEF Founded
  <2>3. k \in DOMAIN disk
    <3>1. DOMAIN disk = 1 .. Len(disk) /\ Len(disk) \in Nat
      BY <1>1 DEF Complete
    <3> QED
      BY <3>1
  <2> QED
    BY <1>2, <2>2, <2>3
<1> QED
  BY <1>3 DEF TreesClosed, Whole

(* No tree is in the store without its entries, even after a power failure: *)
(* put_tree looks the entries up before it stores the tree, renames reach   *)
(* the disk in their order, and nothing is ever removed.                    *)
THEOREM TreesStayClosed == Spec => []TreesClosed
  BY FoundedClosed, Inductive, PTL

(* A job that answers has all of its outputs in the caller's store, down to *)
(* the last file, for any import and transfer that name only what they put: *)
(* a slot that stops half way, a put that fails or a put that is still      *)
(* under way never becomes an answer.                                       *)
THEOREM AnswersAreStored == Spec => []ResultsAvailable
<1>1. ASSUME IInv PROVE ResultsAvailable
  <2>1. Whole(Readable)
    BY <1>1, FoundedClosed DEF TreesClosed
  <2>2. ASSUME NEW j \in Jobs, jobs[j].outcome.status = "ok",
               NEW i \in DOMAIN jobs[j].outcome.outputs, NEW h \in ToSet(jobs[j].outcome.outputs[i])
        PROVE  h \in Readable
    BY <1>1, <2>2, JobFacts DEF JobOK
  <2>3. Readable \in SUBSET Readable
    OBVIOUS
  <2> HIDE DEF Readable
  <2> QED
    BY <2>1, <2>2, <2>3 DEF ResultsAvailable
<1> QED
  BY <1>1, Inductive, PTL

(* A Docker job reads outputs, and answers, only when the exit code is      *)
(* recorded and the container does not run, whichever of the container, the *)
(* attached client, the timeout, the cleanup thread and the cleanup command *)
(* comes first.                                                             *)
THEOREM AnswersAreFinal == Spec => []ResultIsFinal
<1>1. ASSUME IInv, NEW j \in Jobs, Plan(j).backend = "docker",
             jobs[j].pc = "import" \/ jobs[j].outcome.status = "ok"
      PROVE  work[j].exit # NoCode /\ container[j] # "running"
  BY <1>1, JobFacts DEF ContainerOK
<1>2. IInv => ResultIsFinal
  BY <1>1 DEF ResultIsFinal
<1> QED
  BY <1>2, Inductive, PTL
=============================================================================
