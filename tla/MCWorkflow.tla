----------------------------- MODULE MCWorkflow -----------------------------
(***************************************************************************)
(* The jobs and stores that Workflow is checked on.                         *)
(***************************************************************************)
EXTENDS Workflow

Workspace == INSTANCE ToolWorkspace

WorkspaceVerdict(job, platform, capabilities) ==
  Workspace!ValidateOciJob(job, platform, capabilities)
WorkspaceExport(store, kind, o) == Workspace!Export(store, kind, o)
WorkspaceTransfer(source, o, kind) == Workspace!TransferObject(source, o, kind)
WorkspaceImport(out, kind, i, left) == Workspace!ImportSlot(out, kind, i, left)
WorkspaceDownload(source, kind, hashes, left) == Workspace!DownloadSlot(source, kind, hashes, left)

B1 == Blob("b1", 1)
B2 == Blob("b2", 2)
Unstored == Blob("unstored", 1)

Entry(kind, o) == [kind |-> kind, hash |-> o]

\* A tree below a tree; as files, and as the import of them.
InnerDir == Dir([n \in {2} |-> File(B2)])
OuterDir == Dir([n \in {1, 3} |-> IF n = 1 THEN File(B1) ELSE InnerDir])
Inner == EncodeTree([n \in {2} |-> Entry("Blob", B2)])
Outer == EncodeTree([n \in {1, 3} |-> IF n = 1 THEN Entry("Blob", B1) ELSE Entry("Tree", Inner)])

\* A tree that somebody stored as bytes, with a size that is not right.
Forged == TreeOf([n \in {2} |-> [kind |-> "Blob", hash |-> B2, size |-> 7]])

Empty == EncodeTree(<<>>)

AllObjects == {B1, B2, Unstored, Empty, Inner, Outer, Forged}

Job(backend, host, image, inputs, outputs, limit) ==
  [backend |-> backend, host |-> host, image |-> image, platform |-> Platform,
   command |-> 1, arguments |-> <<Slot("Output", 0), Joined(<<Literal>>)>>,
   inputs |-> inputs, outputs |-> outputs, limit |-> limit, isolation |-> Isolation]

\* What a tool may leave in its output directory.
Out(nodes) == Dir([n \in DOMAIN nodes |-> nodes[n]])
Slot0(node) == [n \in {SlotName(0)} |-> node]
TwoSlots(a, b) == [n \in {SlotName(0), SlotName(1)} |-> IF n = SlotName(0) THEN a ELSE b]
Frames(a, b) == [n \in {NumberedName(0, 1), NumberedName(0, 2), SlotName(1)} |->
                   IF n = NumberedName(0, 1) THEN File(a)
                   ELSE IF n = NumberedName(0, 2) THEN File(b)
                   ELSE Dir([m \in {1} |-> File(a)])]

Scenario(store, d, druns, r, rruns) ==
  [store |-> store, plan |-> [d |-> d, r |-> r], runs |-> [d |-> druns, r |-> rruns]]

Answer(objects, outputs) == [objects |-> objects, outputs |-> outputs]

Idle == Job("docker", "process", "malformed", <<>>, <<>>, 1)

TreeJobs ==
  Scenario(<<B1>>,
    Job("docker", "process", "digest", <<Entry("Blob", B1)>>, <<"Tree">>, 4),
    {Out(Slot0(OuterDir))},
    Job("remote", "process", "digest", <<Entry("Blob", B1)>>, <<"Tree">>, 9),
    {Answer({B1, B2, Inner, Outer}, <<<<Outer>>>>)})

RemoteJobs ==
  LET trees == Job("remote", "tool", "digest", <<Entry("Tree", Outer)>>, <<"Single", "Tree">>, 9)
  IN Scenario(<<B1, B2, Inner, Outer>>, Idle, {}, trees,
       {Answer({B1, B2, Forged}, <<<<B1>>, <<Forged>>>>),
        Answer({B1, B2}, <<<<B1, B2>>, <<Outer>>>>),
        Answer({B2}, <<<<Unstored>>, <<Outer>>>>),
        Answer({}, <<<<B1>>>>),
        Answer({B1}, <<<<B1>>, <<Inner>>>>)})

FrameJobs ==
  Scenario(<<B2>>,
    Job("docker", "tool", "tag", <<Entry("Blob", B2)>>, <<"Numbered", "Directory">>, 4),
    {Out(Frames(B1, B2)), Out(Frames(B1, B1)), Out(TwoSlots(Symlink, Dir(<<>>)))},
    Job("remote", "process", "tag", <<>>, <<"Single">>, 1), {})

LinkJobs ==
  Scenario(<<B2>>,
    Job("docker", "process", "tag", <<Entry("Tree", B2)>>, <<"Single">>, 2), {},
    Job("remote", "process", "digest", <<Entry("Blob", Unstored)>>, <<"Single">>, 1), {})

SingleJobs ==
  Scenario(<<B2>>,
    Job("docker", "process", "tag", <<Entry("Blob", B2)>>, <<"Single", "Single">>, 2),
    {Out(Slot0(File(B2))), Out(Slot0(Symlink)), Out(TwoSlots(File(B1), File(B2))),
     Out(TwoSlots(File(B1), Special))},
    [Job("remote", "process", "digest", <<>>, <<>>, 1) EXCEPT !.platform = "other"], {})

AllScenarios == {TreeJobs, RemoteJobs, FrameJobs, LinkJobs, SingleJobs}
=============================================================================
