----------------------------- MODULE FrameTree -----------------------------
(***************************************************************************)
(* The frame protocol of the evaluator, with the expressions left out: what *)
(* run_scoped_eval_cycle (rex-engine/src/evaluator/eval.rs) does to the     *)
(* FrameStore, to the work items and to the outstanding host calls, for any *)
(* program.  An evaluation is a tree of frames.  A frame is entered once;   *)
(* it then schedules children, awaits one host call, or returns.  While     *)
(* children are outstanding it only waits; when the last result is in, it   *)
(* schedules, awaits or returns again.  A host call is a child frame        *)
(* (NativeHost) that gets its result as a work item from itself.            *)
(*                                                                          *)
(* Evaluator is the same machine with the expressions filled in and is      *)
(* checked to implement this module.                                        *)
(***************************************************************************)
EXTENDS Integers, FiniteSets

CONSTANTS MaxFrames,    \* bound of the model: frames created in one evaluation
          MaxChildren   \* bound of the model: children scheduled by one step

ASSUME BoundsAssumption == MaxFrames \in Nat /\ MaxChildren \in Nat

\* FrameStore hands out 0, 1, 2, ...; the first frame inserted is the root.
Root == 0

VARIABLES live,      \* ids in the FrameStore
          parent,    \* the parent of a live frame; the root has none (Root itself)
          waiting,   \* the children whose results a live frame still expects;
                     \*   a NativeHost frame expects one from itself
          entering,  \* frames with an enter item in a work queue
          returned,  \* <<f, c>>: a receive item for frame f from child c
          host,      \* NativeHost frames whose call is queued or running
          next_id,   \* FrameStore::next_id
          status     \* running, completed or failed

vars == <<live, parent, waiting, entering, returned, host, next_id, status>>

Status == {"running", "completed", "failed"}

Init ==
    /\ live = {Root}
    /\ parent = [f \in {Root} |-> Root]
    /\ waiting = [f \in {Root} |-> {}]
    /\ entering = {Root}
    /\ returned = {}
    /\ host = {}
    /\ next_id = 1
    /\ status = "running"

-----------------------------------------------------------------------------
(* What a step may do with the frame f whose item it took, once f expects   *)
(* no more results: enterOther and returnedOther are the items left.        *)

\* EvalControl::Push, PushFrame and Schedule: new children of f are inserted
\* and an enter item is scheduled for each.
Schedule(f, n, enterOther, returnedOther) ==
    LET new == next_id .. next_id + n - 1
    IN  /\ next_id + n <= MaxFrames
        /\ live' = live \cup new
        /\ parent' = [x \in live \cup new |-> IF x \in new THEN f ELSE parent[x]]
        /\ waiting' = [x \in live \cup new |->
                           IF x = f THEN new ELSE IF x \in new THEN {} ELSE waiting[x]]
        /\ entering' = enterOther \cup new
        /\ returned' = returnedOther
        /\ next_id' = next_id + n
        /\ UNCHANGED <<host, status>>

\* EvalControl::AwaitNative: a NativeHost child is inserted and its call goes
\* to the host scheduler; no work item is scheduled.
AwaitNative(f, enterOther, returnedOther) ==
    LET c == next_id
    IN  /\ next_id < MaxFrames
        /\ live' = live \cup {c}
        /\ parent' = [x \in live \cup {c} |-> IF x = c THEN f ELSE parent[x]]
        /\ waiting' = [x \in live \cup {c} |->
                           IF x \in {f, c} THEN {c} ELSE waiting[x]]
        /\ entering' = enterOther
        /\ returned' = returnedOther
        /\ host' = host \cup {c}
        /\ next_id' = next_id + 1
        /\ UNCHANGED status

\* Mutant of Return: the frame is removed and its parent is not scheduled.
ReturnUnnoticed(f, enterOther, returnedOther) ==
    /\ live' = live \ {f}
    /\ parent' = [x \in live \ {f} |-> parent[x]]
    /\ waiting' = [x \in live \ {f} |-> waiting[x]]
    /\ entering' = enterOther
    /\ returned' = returnedOther
    /\ status' = IF f = Root THEN "completed" ELSE status
    /\ UNCHANGED <<host, next_id>>

\* EvalControl::Return: the frame is removed and its parent is scheduled with
\* the value; without a parent the evaluation is complete and whatever is
\* left in the queues is dropped with them.
Return(f, enterOther, returnedOther) ==
    /\ live' = live \ {f}
    /\ parent' = [x \in live \ {f} |-> parent[x]]
    /\ waiting' = [x \in live \ {f} |-> waiting[x]]
    /\ entering' = enterOther
    /\ returned' = IF f = Root THEN returnedOther
                   ELSE returnedOther \cup {<<parent[f], f>>}
    /\ status' = IF f = Root THEN "completed" ELSE status
    /\ UNCHANGED <<host, next_id>>

-----------------------------------------------------------------------------
\* The item taken is an enter item.
Enter(f) ==
    /\ status = "running"
    /\ f \in entering /\ f \in live
    /\ \/ \E n \in 1..MaxChildren : Schedule(f, n, entering \ {f}, returned)
       \/ AwaitNative(f, entering \ {f}, returned)
       \/ Return(f, entering \ {f}, returned)

\* The item taken carries the result of child c, and others are missing:
\* EvalControl::Wait.
ReceiveAndWait(f, c) ==
    /\ status = "running"
    /\ <<f, c>> \in returned /\ f \in live /\ c \in waiting[f]
    /\ waiting[f] # {c}
    /\ waiting' = [waiting EXCEPT ![f] = @ \ {c}]
    /\ returned' = returned \ {<<f, c>>}
    /\ UNCHANGED <<live, parent, entering, host, next_id, status>>

\* Mutant of ReceiveLast: the frame answers with the first result it gets.
ReceiveFirst(f, c) ==
    /\ status = "running"
    /\ <<f, c>> \in returned /\ f \in live /\ c \in waiting[f]
    /\ Return(f, entering, returned \ {<<f, c>>})

\* It is the last result the frame waits for.  A NativeHost frame, which
\* receives from itself, can only return.
ReceiveLast(f, c) ==
    /\ status = "running"
    /\ <<f, c>> \in returned /\ f \in live /\ waiting[f] = {c}
    /\ \/ /\ c # f
          /\ \E n \in 1..MaxChildren : Schedule(f, n, entering, returned \ {<<f, c>>})
       \/ c # f /\ AwaitNative(f, entering, returned \ {<<f, c>>})
       \/ Return(f, entering, returned \ {<<f, c>>})

\* Mutant of NativeCompleted: the call stays pending and may complete again.
NativeCompletedTwice(c) ==
    /\ status = "running"
    /\ c \in host
    /\ returned' = returned \cup {<<c, c>>}
    /\ UNCHANGED <<live, parent, waiting, entering, host, next_id, status>>

\* A host call completes; its value becomes a receive item.
NativeCompleted(c) ==
    /\ status = "running"
    /\ c \in host
    /\ host' = host \ {c}
    /\ returned' = returned \cup {<<c, c>>}
    /\ UNCHANGED <<live, parent, waiting, entering, next_id, status>>

\* A language error, a failing host call or cancellation ends the evaluation.
\* Frames, items and host calls are dropped together.
Fail ==
    /\ status = "running"
    /\ status' = "failed"
    /\ live' = {} /\ entering' = {} /\ returned' = {} /\ host' = {}
    /\ parent' = [f \in {} |-> Root] /\ waiting' = [f \in {} |-> {}]
    /\ UNCHANGED next_id

\* The evaluation is over: the caller has its answer.
Finished ==
    /\ status # "running"
    /\ UNCHANGED vars

Next ==
    \/ \E f \in entering : Enter(f)
    \/ \E item \in returned : ReceiveAndWait(item[1], item[2])
    \/ \E item \in returned : ReceiveLast(item[1], item[2])
    \/ \E c \in host : NativeCompleted(c)
    \/ Fail
    \/ Finished

Spec == Init /\ [][Next]_vars

-----------------------------------------------------------------------------
TypeOK ==
    /\ next_id \in Nat
    /\ live \subseteq 0 .. next_id - 1
    /\ parent \in [live -> Nat]
    /\ waiting \in [live -> SUBSET (0 .. next_id - 1)]
    /\ entering \subseteq Nat
    /\ returned \subseteq Nat \X Nat
    /\ host \subseteq Nat
    /\ status \in Status

(***************************************************************************)
(* The conditions under which the code returns EngineError::Internal: a    *)
(* work item for a frame the FrameStore does not know, a result from an    *)
(* unknown or already received child, and an evaluation that is not over   *)
(* but has neither a work item nor a host call.                            *)
(***************************************************************************)
ProtocolError ==
    \/ \E f \in entering : f \notin live
    \/ \E item \in returned : item[1] \notin live
    \/ \E item \in returned : item[1] \in live /\ item[2] \notin waiting[item[1]]
    \/ entering = {} /\ returned = {} /\ host = {}

\* No interleaving of work items and host completions brings the evaluator
\* to one of its internal errors: every item finds its frame, every result
\* its slot, and a running evaluation always has something to do.
NoProtocolError == status = "running" => ~ProtocolError

\* Structured concurrency: when the root returns, no frame, work item or host
\* call is left behind to be dropped unseen.
NothingLeftBehind ==
    status = "completed" =>
        live = {} /\ entering = {} /\ returned = {} /\ host = {}

-----------------------------------------------------------------------------
(* The inductive invariant behind the two.                                  *)

\* A frame is younger than its parent, which is live and waits for it.
TreeShape ==
    \A f \in live \ {Root} :
        parent[f] \in live /\ parent[f] < f /\ f \in waiting[parent[f]]

\* Whoever is waited for is either still at work or its result is on the way.
Awaited ==
    \A f \in live : \A c \in waiting[f] :
        \/ c # f /\ c \in live /\ parent[c] = f /\ <<f, c>> \notin returned
        \/ c # f /\ c \notin live /\ <<f, c>> \in returned
        \/ c = f /\ waiting[f] = {f} /\ f \in host /\ <<f, f>> \notin returned
        \/ c = f /\ waiting[f] = {f} /\ f \notin host /\ <<f, f>> \in returned

\* A frame that waits for nobody has an enter item, and only such a frame has.
Entered == entering = {f \in live : waiting[f] = {}}

\* Items and host calls belong to live frames that expect them.
NoStrayItem ==
    /\ \A item \in returned : item[1] \in live /\ item[2] \in waiting[item[1]]
    /\ \A c \in host : c \in live /\ waiting[c] = {c}

RunningInv ==
    status = "running" =>
        /\ Root \in live /\ parent[Root] = Root /\ Root \notin host
        /\ TreeShape /\ Awaited /\ Entered /\ NoStrayItem
=============================================================================
