--------------------------- MODULE EvalScheduler ---------------------------
(***************************************************************************)
(* The evaluator's work queue as a component of its own: a caller that     *)
(* schedules, pops and changes the limit between any two of its calls (the *)
(* main loop asks the ParallelismController for the limit on every         *)
(* iteration and an embedder's controller may answer differently each      *)
(* time, 0 included).                                                      *)
(***************************************************************************)
EXTENDS ReadyQueue

CONSTANTS Item,       \* work items (frame, optional returned value)
          NoItem,     \* no item was popped yet
          Limits,     \* what ready_work_limit() may answer
          MaxQueued   \* bound of the model: items waiting at once

ASSUME LimitsAssumption == Limits \subseteq Nat /\ Limits # {}
ASSUME ItemAssumption == NoItem \notin Item
ASSUME MaxQueuedAssumption == MaxQueued \in Nat

VARIABLES queue,   \* [ready, deferred_ready, ready_work_limit]
          popped   \* what the latest pop_next returned

vars == <<queue, popped>>

Init ==
    /\ \E item \in Item, limit \in Limits : queue = NewQueue(item, limit)
    /\ popped = NoItem

SetReadyWorkLimit(limit) ==
    /\ queue' = SetLimit(queue, limit)
    /\ UNCHANGED popped

Schedule(item) ==
    /\ Len(PopOrder(queue)) < MaxQueued
    /\ queue' = ScheduleNext(queue, item)
    /\ UNCHANGED popped

\* pop_next; on an empty queue it returns None and changes nothing, which
\* run_scoped_eval_cycle turns into an internal error (see Evaluator).
Pop ==
    /\ HasReadyWork(queue)
    /\ popped' = NextItem(queue)
    /\ queue' = PopNext(queue)

Next ==
    \/ \E limit \in Limits : SetReadyWorkLimit(limit)
    \/ \E item \in Item : Schedule(item)
    \/ Pop

Spec == Init /\ [][Next]_vars

-----------------------------------------------------------------------------
TypeOK ==
    /\ queue \in QueueOf(Item)
    /\ popped \in Item \cup {NoItem}

(***************************************************************************)
(* The limit holds after every call, whatever order limits shrink and grow *)
(* in, and no item waits in deferred_ready behind an empty ready queue:    *)
(* an enforce_ready_limit with limit 0 or a pop_next that does not admit   *)
(* again would break one of the two.                                       *)
(***************************************************************************)
LimitHolds == Len(queue.ready) <= queue.ready_work_limit

NothingStranded == queue.ready = <<>> => queue.deferred_ready = <<>>

ReadyBounded == LimitHolds /\ NothingStranded

(***************************************************************************)
(* The queue pair is one LIFO stack: changing the limit at any time never  *)
(* reorders, loses or duplicates an item, so the limit cannot influence    *)
(* what the evaluator computes.                                            *)
(***************************************************************************)
Stack == INSTANCE WorkStack WITH stack <- PopOrder(queue), popped <- popped

IsOneStack == Stack!Spec
=============================================================================
