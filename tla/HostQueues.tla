----------------------------- MODULE HostQueues -----------------------------
(***************************************************************************)
(* The host-call scheduler, HostScheduler of                               *)
(* rex-engine/src/evaluator/scheduler.rs, and the permits it takes from a  *)
(* ParallelismController (rex-engine/src/config.rs), as operators on a     *)
(* record:                                                                 *)
(*   pending   the calls that were invoked, oldest first                   *)
(*   immediate, deferred   the queued calls of the two kinds               *)
(*   active    permits the controller has given out                        *)
(*   capacity  permits it is willing to give out                           *)
(*   waker     the controller holds the evaluator task's waker             *)
(*   woken     somebody woke the task since it was last polled             *)
(* A queued call is [frame, invoke], where invoke says whether the host    *)
(* callback produces a future or an error.  A pending call is              *)
(* [frame, permit, polled, state]: permit, whether it holds one; polled,   *)
(* whether its future was polled and so knows the task's waker; state,     *)
(* "polling" until the host has an answer, then "ok" or "err".             *)
(* A permit is stored on a queued call only between two statements of one  *)
(* poll (try_acquire_next_native_permit, then activate_...), so here it    *)
(* goes to the pending call at once.                                       *)
(***************************************************************************)
EXTENDS Integers, Sequences, FiniteSets

\* HostScheduler::new, with a fresh controller.
NewHost(capacity) ==
    [pending |-> <<>>, immediate |-> <<>>, deferred |-> <<>>,
     active |-> 0, capacity |-> capacity, waker |-> FALSE, woken |-> FALSE]

\* Mutant of ScheduleNative: deferred calls are queued like work items, last in
\* first out.
ScheduleNativeFirst(h, kind, call) ==
    IF kind = "immediate" THEN [h EXCEPT !.immediate = Append(@, call)]
                          ELSE [h EXCEPT !.deferred = <<call>> \o @]

\* schedule_native.
ScheduleNative(h, kind, call) ==
    IF kind = "immediate" THEN [h EXCEPT !.immediate = Append(@, call)]
                          ELSE [h EXCEPT !.deferred = Append(@, call)]

HasQueuedNativeWork(h) == h.immediate # <<>> \/ h.deferred # <<>>

HasPendingNativeWork(h) == h.pending # <<>>

\* NativeAsyncPermit::drop, n times: the count goes down and the stored waker,
\* if there is one, is taken and woken.
Release(h, n) ==
    IF n = 0 THEN h
    ELSE [h EXCEPT !.active = @ - n, !.woken = @ \/ h.waker, !.waker = FALSE]

\* Mutant of Invoked: a callback that failed to start keeps the permit.
InvokedKeepsPermit(call, permit) ==
    [frame  |-> call.frame,
     permit |-> permit,
     polled |-> FALSE,
     state  |-> IF call.invoke = "ok" THEN "polling" ELSE "err"]

\* QueuedNative::activate_immediate and activate_deferred: a callback that
\* fails to start becomes a finished call without a permit.
Invoked(call, permit) ==
    [frame  |-> call.frame,
     permit |-> permit /\ call.invoke = "ok",
     polled |-> FALSE,
     state  |-> IF call.invoke = "ok" THEN "polling" ELSE "err"]

\* activate_next_immediate_native.
ActivateImmediate(h) ==
    IF h.immediate = <<>> THEN h
    ELSE [h EXCEPT !.immediate = Tail(@),
                   !.pending = Append(@, Invoked(Head(h.immediate), FALSE))]

\* Mutant of PermitAvailable: off by one at the limit.
PermitAvailableAtLimit(h) == h.deferred # <<>> /\ h.active <= h.capacity

\* poll_acquire_native_async has a permit for the next deferred call.
PermitAvailable(h) == h.deferred # <<>> /\ h.active < h.capacity

\* Mutant of AdmitDeferred: a request in vain leaves no waker behind.
AdmitDeferredSilently(h) ==
    IF h.deferred = <<>> \/ ~PermitAvailable(h) THEN h
    ELSE LET call  == Head(h.deferred)
             moved == [h EXCEPT !.deferred = Tail(@), !.active = @ + 1,
                                !.pending = Append(@, Invoked(call, TRUE))]
         IN  IF call.invoke = "ok" THEN moved ELSE Release(moved, 1)

\* admit_available_deferred_native: with a permit the next deferred call is
\* invoked; without one the controller keeps the task's waker.
AdmitDeferred(h) ==
    IF h.deferred = <<>> THEN h
    ELSE IF ~PermitAvailable(h) THEN [h EXCEPT !.waker = TRUE]
    ELSE LET call  == Head(h.deferred)
             moved == [h EXCEPT !.deferred = Tail(@), !.active = @ + 1,
                                !.pending = Append(@, Invoked(call, TRUE))]
         IN  IF call.invoke = "ok" THEN moved ELSE Release(moved, 1)

\* poll_pending_native_once polls from the oldest call on and stops at the
\* first that is ready; 0 when none is.
ReadyIndices(h) == {i \in 1..Len(h.pending) : h.pending[i].state # "polling"}

FirstReady(h) ==
    IF ReadyIndices(h) = {} THEN 0
    ELSE CHOOSE i \in ReadyIndices(h) : \A j \in ReadyIndices(h) : i <= j

PollPendingOnce(h) ==
    [h EXCEPT !.pending =
        [i \in 1..Len(@) |->
            IF FirstReady(h) = 0 \/ i <= FirstReady(h)
            THEN [@[i] EXCEPT !.polled = TRUE] ELSE @[i]]]

\* take_pending_native_completion: the call leaves with its permit.
TakePending(h, i) ==
    Release([h EXCEPT !.pending = SubSeq(@, 1, i - 1) \o SubSeq(@, i + 1, Len(@))],
            IF h.pending[i].permit THEN 1 ELSE 0)

-----------------------------------------------------------------------------
(* poll_pending_native.  The answer of a poll is the record                 *)
(* [host, poll, frame]: poll is Idle, Progress, Completed (of frame) or     *)
(* Failed, or says at which of its two poll_fn the task is suspended.       *)

NoFrame == -1

Answer(h, poll) == [host |-> h, poll |-> poll, frame |-> NoFrame]

\* A ready call is taken: its value is the answer, its error ends the poll.
TakeReady(h, i) ==
    [host  |-> TakePending(h, i),
     poll  |-> IF h.pending[i].state = "ok" THEN "Completed" ELSE "Failed",
     frame |-> h.pending[i].frame]

\* The poll_fn that waits for a permit while nothing is pending.
PollForPermit(h) ==
    Answer(AdmitDeferred(h), IF PermitAvailable(h) THEN "Progress" ELSE "AwaitPermit")

\* The poll_fn that waits for a completion or a permit.
PollForEvent(h) ==
    LET scanned == PollPendingOnce(h)
    IN  IF FirstReady(h) # 0 THEN TakeReady(scanned, FirstReady(h))
        ELSE Answer(AdmitDeferred(scanned),
                    IF PermitAvailable(scanned) THEN "Progress" ELSE "AwaitEvent")

\* Mutant of PollNoWait: pending calls are looked at only when there is no
\* internal work.
PollNoWaitUnscanned(h, progressed) ==
    Answer(h, IF progressed THEN "Progress" ELSE "Idle")

\* The single scan of a poll that must not wait.
PollNoWait(h, progressed) ==
    LET scanned == PollPendingOnce(h)
    IN  IF FirstReady(h) # 0 THEN TakeReady(scanned, FirstReady(h))
        ELSE Answer(scanned, IF progressed THEN "Progress" ELSE "Idle")

\* Mutant of PollPendingNative: deferred calls are forgotten in the first test.
PollForgettingDeferred(h, wait) ==
    LET started    == ActivateImmediate(h)
        admitted   == AdmitDeferred(started)
        progressed == Len(admitted.pending) > Len(h.pending)
    IN  IF ~HasPendingNativeWork(h) /\ h.immediate = <<>> THEN Answer(h, "Idle")
        ELSE IF wait THEN PollForEvent(admitted) ELSE PollNoWait(admitted, progressed)

PollPendingNative(h, wait) ==
    LET started    == ActivateImmediate(h)
        admitted   == AdmitDeferred(started)
        progressed == Len(admitted.pending) > Len(h.pending)
    IN  IF ~HasPendingNativeWork(h) /\ ~HasQueuedNativeWork(h) THEN Answer(h, "Idle")
        ELSE IF HasPendingNativeWork(admitted)
             THEN IF wait THEN PollForEvent(admitted) ELSE PollNoWait(admitted, progressed)
        ELSE IF wait /\ HasQueuedNativeWork(admitted) THEN PollForPermit(admitted)
        ELSE Answer(admitted, IF progressed THEN "Progress" ELSE "Idle")

\* Dropping the scheduler: futures are dropped and every permit is released.
DropHost(h) ==
    LET holders == {i \in 1..Len(h.pending) : h.pending[i].permit}
    IN  Release([h EXCEPT !.pending = <<>>, !.immediate = <<>>, !.deferred = <<>>],
                Cardinality(holders))
=============================================================================
