----------------------------- MODULE ReadyQueue -----------------------------
(***************************************************************************)
(* The evaluator's internal work queue, EvalScheduler of                   *)
(* rex-engine/src/evaluator/scheduler.rs, as operators on a record         *)
(*    [ready, deferred_ready : Seq(item), ready_work_limit : Nat \ {0}].   *)
(* The front of each VecDeque is the head of the sequence.  The two        *)
(* while-loops that move one item at a time between the queues are given   *)
(* in closed form; they touch nothing else, so nobody sees the middle.     *)
(* Operators only: EvalScheduler and Evaluator use them on their own       *)
(* variables.                                                              *)
(***************************************************************************)
EXTENDS Integers, Sequences

\* usize::max(1): a limit of zero would strand every item.
AtLeastOne(limit) == IF limit = 0 THEN 1 ELSE limit

Queue(ready, deferred_ready, limit) ==
    [ready            |-> ready,
     deferred_ready   |-> deferred_ready,
     ready_work_limit |-> limit]

\* EvalScheduler::new with the enter item of the root frame.
NewQueue(item, limit) == Queue(<<item>>, <<>>, AtLeastOne(limit))

\* Mutant of EnforceReadyLimit: one item too many stays in ready.
EnforceOneMore(q) ==
    LET kept == IF Len(q.ready) > q.ready_work_limit
                THEN q.ready_work_limit + 1 ELSE Len(q.ready)
    IN  Queue(SubSeq(q.ready, 1, kept),
              SubSeq(q.ready, kept + 1, Len(q.ready)) \o q.deferred_ready,
              q.ready_work_limit)

\* Mutant of EnforceReadyLimit: what does not fit goes to the back.
EnforceToTheBack(q) ==
    LET kept == IF Len(q.ready) > q.ready_work_limit
                THEN q.ready_work_limit ELSE Len(q.ready)
    IN  Queue(SubSeq(q.ready, 1, kept),
              q.deferred_ready \o SubSeq(q.ready, kept + 1, Len(q.ready)),
              q.ready_work_limit)

\* enforce_ready_limit: what does not fit leaves from the back of ready and
\* goes, one by one, to the front of deferred_ready.
EnforceReadyLimit(q) ==
    LET kept == IF Len(q.ready) > q.ready_work_limit
                THEN q.ready_work_limit ELSE Len(q.ready)
    IN  Queue(SubSeq(q.ready, 1, kept),
              SubSeq(q.ready, kept + 1, Len(q.ready)) \o q.deferred_ready,
              q.ready_work_limit)

\* admit_deferred_ready: fills ready from the front of deferred_ready.
AdmitDeferredReady(q) ==
    LET room  == IF q.ready_work_limit > Len(q.ready)
                 THEN q.ready_work_limit - Len(q.ready) ELSE 0
        moved == IF room < Len(q.deferred_ready)
                 THEN room ELSE Len(q.deferred_ready)
    IN  Queue(q.ready \o SubSeq(q.deferred_ready, 1, moved),
              SubSeq(q.deferred_ready, moved + 1, Len(q.deferred_ready)),
              q.ready_work_limit)

\* set_ready_work_limit.
SetLimit(q, limit) ==
    EnforceReadyLimit(Queue(q.ready, q.deferred_ready, AtLeastOne(limit)))

\* schedule_next: push_front, then enforce the limit.
ScheduleNext(q, item) ==
    EnforceReadyLimit(
        Queue(<<item>> \o q.ready, q.deferred_ready, q.ready_work_limit))

\* pop_next when it finds an item: admit, pop_front, admit.  NextItem is the
\* item it returns and PopNext the queue it leaves.
NextItem(q) == Head(AdmitDeferredReady(q).ready)

DropFront(q) == Queue(Tail(q.ready), q.deferred_ready, q.ready_work_limit)

PopNext(q) == AdmitDeferredReady(DropFront(AdmitDeferredReady(q)))

\* has_ready_work, the test EvalBoundary::from_state makes.
HasReadyWork(q) == q.ready # <<>> \/ q.deferred_ready # <<>>

\* The queues whose items come from S.
QueueOf(S) ==
    [ready : Seq(S), deferred_ready : Seq(S), ready_work_limit : Nat \ {0}]

\* The order in which the items would be popped.
PopOrder(q) == q.ready \o q.deferred_ready
=============================================================================
