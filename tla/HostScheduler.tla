--------------------------- MODULE HostScheduler ---------------------------
(***************************************************************************)
(* The evaluator task, the host's threads and the embedder's parallelism   *)
(* controller together: the main loop of eval_typed_expr_inner             *)
(* (rex-engine/src/evaluator/eval.rs) around poll_pending_native           *)
(* (scheduler.rs).  What an evaluator cycle computes is left out; of it    *)
(* remain the number of internal work items and the host calls it makes.   *)
(* Host futures complete, and the controller changes its capacity, between *)
(* any two steps of the task.  The task itself never yields except where   *)
(* it is suspended, so that is the only place where it can be cancelled.   *)
(***************************************************************************)
EXTENDS HostQueues

CONSTANTS MaxCalls,      \* bound of the model: host calls in one evaluation
          MaxInternal,   \* bound of the model: internal work items at once
          Capacities,    \* what the controller's capacity may be
          MaxChanges     \* bound of the model: changes of the capacity

ASSUME HostBounds ==
    /\ MaxCalls \in Nat /\ MaxInternal \in Nat \ {0} /\ MaxChanges \in Nat
    /\ Capacities \subseteq Nat /\ \E c \in Capacities : c > 0

VARIABLES host,       \* the record of HostQueues
          task,       \* where the evaluator task is
          boundary,   \* EvalBoundary: whether the next poll may wait
          internal,   \* internal work items
          completed,  \* frame of the completion the cycle was given, or NoFrame
          calls,      \* calls scheduled so far; the n-th is of frame n
          delivered,  \* frames whose completion reached a cycle
          changes     \* changes of the capacity so far

vars == <<host, task, boundary, internal, completed, calls, delivered, changes>>

Suspended == {"AwaitPermit", "AwaitEvent"}

Ended == {"completed", "failed", "cancelled", "internal_error"}

Init ==
    /\ \E c \in Capacities : host = NewHost(c)
    /\ task = "loop"
    /\ boundary = "MoreInternalWork"
    /\ internal = 1
    /\ completed = NoFrame
    /\ calls = 0
    /\ delivered = {}
    /\ changes = 0

WaitForHost == boundary \in {"HostWork", "WaitingForHost"}

\* EvalBoundary::from_state; "none" is its internal error.
FromState(items, h) ==
    IF items > 0 THEN "MoreInternalWork"
    ELSE IF HasQueuedNativeWork(h) THEN "HostWork"
    ELSE IF HasPendingNativeWork(h) THEN "WaitingForHost"
    ELSE "none"

-----------------------------------------------------------------------------
(* The evaluator task.                                                      *)

\* What the loop does with the answer of a poll, finished or resumed.
Handle(answer) ==
    /\ UNCHANGED <<internal, calls, changes>>
    /\ \/ /\ answer.poll \in Suspended
          /\ host' = answer.host
          /\ task' = answer.poll
          /\ UNCHANGED <<boundary, completed, delivered>>
       \/ /\ answer.poll = "Progress"
          /\ host' = answer.host
          /\ boundary' = FromState(internal, answer.host)
          /\ task' = IF boundary' = "none" THEN "internal_error" ELSE "loop"
          /\ UNCHANGED <<completed, delivered>>
       \/ /\ answer.poll \in {"Completed", "Idle"}
          /\ host' = answer.host
          /\ completed' = answer.frame
          /\ delivered' = IF answer.poll = "Completed"
                          THEN delivered \cup {answer.frame} ELSE delivered
          /\ task' = IF answer.poll = "Idle" /\ WaitForHost
                     THEN "internal_error" ELSE "cycle"
          /\ UNCHANGED boundary
       \/ /\ answer.poll = "Failed"
          /\ host' = DropHost(answer.host)
          /\ task' = "failed"
          /\ UNCHANGED <<boundary, completed, delivered>>

\* The head of the loop.
Poll ==
    /\ task = "loop"
    /\ \E answer \in {PollPendingNative(host, WaitForHost)} : Handle(answer)

\* The executor polls a suspended task that was woken; it goes on in the
\* poll_fn where it was suspended.
Resume ==
    /\ task \in Suspended
    /\ host.woken
    /\ LET h == [host EXCEPT !.woken = FALSE]
       IN  \E answer \in {IF task = "AwaitPermit" THEN PollForPermit(h) ELSE PollForEvent(h)} :
               Handle(answer)

\* The host call of a cycle: none, or its kind and whether it can be invoked.
CallChoice == {<<"none", "ok">>} \cup ({"immediate", "deferred"} \X {"ok", "err"})

\* run_runtime_cycle: a completion becomes a work item, one item is taken, it
\* creates new items and may make one host call.  FrameTree shows that the
\* evaluation is complete exactly when no work of either kind is left.
Cycle(new, kind, invoke) ==
    LET items == internal + (IF completed = NoFrame THEN 0 ELSE 1)
        h     == IF kind = "none" THEN host
                 ELSE ScheduleNative(host, kind, [frame |-> calls + 1, invoke |-> invoke])
        next  == FromState(items - 1 + new, h)
    IN  /\ task = "cycle"
        /\ items - 1 + new <= MaxInternal
        /\ kind # "none" => calls < MaxCalls
        /\ internal' = IF items = 0 THEN 0 ELSE items - 1 + new
        /\ calls' = IF kind = "none" THEN calls ELSE calls + 1
        /\ host' = h
        /\ task' = IF items = 0 THEN "internal_error"
                   ELSE IF next = "none" THEN "completed" ELSE "loop"
        /\ boundary' = next
        /\ completed' = NoFrame
        /\ UNCHANGED <<delivered, changes>>

\* A language error inside the cycle: everything is dropped on the way out.
CycleFails ==
    /\ task = "cycle"
    /\ task' = "failed"
    /\ host' = DropHost(host)
    /\ UNCHANGED <<boundary, internal, completed, calls, delivered, changes>>

\* The controller answers a request for a permit with an error.
ControllerFails ==
    /\ host.deferred # <<>>
    /\ \/ task = "loop"
       \/ task = "AwaitPermit" /\ host.woken
       \/ task = "AwaitEvent" /\ host.woken /\ FirstReady(host) = 0
    /\ task' = "failed"
    /\ host' = DropHost(host)
    /\ UNCHANGED <<boundary, internal, completed, calls, delivered, changes>>

\* The embedder drops the suspended evaluation.
Cancel ==
    /\ task \in Suspended
    /\ task' = "cancelled"
    /\ host' = DropHost(host)
    /\ UNCHANGED <<boundary, internal, completed, calls, delivered, changes>>

-----------------------------------------------------------------------------
(* The host and the embedder.                                               *)

\* A host future has its answer.  One that was polled wakes the task.
HostComplete(i, state) ==
    /\ i \in 1..Len(host.pending)
    /\ host.pending[i].state = "polling"
    /\ host' = [host EXCEPT !.pending[i].state = state,
                            !.woken = @ \/ host.pending[i].polled]
    /\ UNCHANGED <<task, boundary, internal, completed, calls, delivered, changes>>

\* The controller changes its mind about the capacity and wakes the task whose
\* waker it holds; after the last change there is some capacity.
SetCapacity(c) ==
    /\ changes < MaxChanges /\ task \notin Ended
    /\ changes = MaxChanges - 1 => c > 0
    /\ c # host.capacity
    /\ host' = [host EXCEPT !.capacity = c, !.woken = @ \/ host.waker, !.waker = FALSE]
    /\ changes' = changes + 1
    /\ UNCHANGED <<task, boundary, internal, completed, calls, delivered>>

\* The caller has its answer.
Finished ==
    /\ task \in Ended
    /\ UNCHANGED vars

Next ==
    \/ Poll
    \/ Resume
    \/ \E new \in 0..MaxInternal, call \in CallChoice : Cycle(new, call[1], call[2])
    \/ CycleFails
    \/ ControllerFails
    \/ Cancel
    \/ \E i \in 1..Len(host.pending), state \in {"ok", "err"} : HostComplete(i, state)
    \/ \E c \in Capacities : SetCapacity(c)
    \/ Finished

\* The evaluator task runs whenever it can; a future that is being polled
\* eventually has its answer (one that is not may never start); a controller
\* does not stay at capacity zero.  Cancellation is not fair, and neither are
\* errors.
EvaluatorSteps ==
    \/ Poll
    \/ Resume
    \/ \E new \in 0..MaxInternal, call \in CallChoice : Cycle(new, call[1], call[2])

PolledCompletes(frame) ==
    \E i \in 1..Len(host.pending), state \in {"ok", "err"} :
        host.pending[i].frame = frame /\ host.pending[i].polled /\ HostComplete(i, state)

CapacityReturns ==
    host.capacity = 0 /\ \E c \in Capacities : c > 0 /\ SetCapacity(c)

Fairness ==
    /\ WF_vars(EvaluatorSteps)
    /\ \A frame \in 1..MaxCalls : WF_vars(PolledCompletes(frame))
    /\ WF_vars(CapacityReturns)

Spec == Init /\ [][Next]_vars /\ Fairness

-----------------------------------------------------------------------------
QueuedCall == [frame : 1..MaxCalls, invoke : {"ok", "err"}]

PendingCall ==
    [frame : 1..MaxCalls, permit : BOOLEAN, polled : BOOLEAN, state : {"polling", "ok", "err"}]

TypeOK ==
    /\ host.pending \in Seq(PendingCall)
    /\ host.immediate \in Seq(QueuedCall) /\ host.deferred \in Seq(QueuedCall)
    /\ host.active \in Nat /\ host.capacity \in Capacities
    /\ host.waker \in BOOLEAN /\ host.woken \in BOOLEAN
    /\ task \in {"loop", "cycle"} \cup Suspended \cup Ended
    /\ boundary \in {"MoreInternalWork", "HostWork", "WaitingForHost", "none"}
    /\ internal \in 0..MaxInternal
    /\ completed \in {NoFrame} \cup 1..MaxCalls
    /\ calls \in 0..MaxCalls /\ delivered \subseteq 1..MaxCalls
    /\ changes \in 0..MaxChanges

\* No poll and no cycle ends in one of the scheduler's internal errors ("ran
\* out of host work", "ran out of ready work", "no internal or host work"):
\* the boundary computed after one step is still right when the next one acts
\* on it, whatever the host did in between.
NoInternalError == task # "internal_error"

Frames(queue) == {queue[i].frame : i \in 1..Len(queue)}

\* Every call the evaluator made is in one place and in one copy: queued,
\* pending or delivered; and deferred calls wait in the order they were made,
\* behind all that were admitted.
CallsConserved ==
    task \notin Ended =>
        /\ Frames(host.immediate) \cup Frames(host.deferred)
               \cup Frames(host.pending) \cup delivered = 1..calls
        /\ Len(host.immediate) + Len(host.deferred) + Len(host.pending)
               + Cardinality(delivered) = calls
        /\ \A i, j \in 1..Len(host.deferred) :
               i < j => host.deferred[i].frame < host.deferred[j].frame

\* Permits are neither leaked nor returned twice: the controller's count is
\* the number of pending calls that hold one, through invoke errors, failures
\* and cancellation, and nothing is held once the evaluation is over.
PermitsBalanced ==
    /\ host.active = Cardinality({i \in 1..Len(host.pending) : host.pending[i].permit})
    /\ task \in Ended => host.active = 0

\* A permit is only ever taken below the capacity of that moment, even when
\* the capacity shrank below what is already running.
AdmittedWithinCapacity ==
    [][host'.active > host.active => host'.active <= host.capacity]_vars

\* No wakeup is lost: a suspended task that nobody woke has no finished call
\* to deliver and no permit to take.
NoLostWakeup ==
    task \in Suspended /\ ~host.woken =>
        ReadyIndices(host) = {} /\ ~PermitAvailable(host)

\* Every host call is eventually delivered, or the evaluation ends: neither
\* internal work that never runs dry nor other calls can starve it.
EveryCallDelivered ==
    \A frame \in 1..MaxCalls :
        frame <= calls ~> frame \in delivered \/ task \in Ended
=============================================================================
