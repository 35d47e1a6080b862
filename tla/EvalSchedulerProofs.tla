------------------------ MODULE EvalSchedulerProofs ------------------------
(***************************************************************************)
(* TLAPS proofs about the evaluator's work queue: for every set of items   *)
(* and every sequence of limits it is one LIFO stack, and it never holds   *)
(* an item it would not return.                                            *)
(***************************************************************************)
EXTENDS EvalScheduler, SequenceTheorems, TLAPS

(***************************************************************************)
(* Cutting a sequence at any place and joining the parts gives it back:    *)
(* what both loops that move items between the two queues rest on.         *)
(***************************************************************************)
LEMMA CutAndJoin ==
    ASSUME NEW S, NEW s \in Seq(S), NEW k \in 0..Len(s)
    PROVE  /\ SubSeq(s, 1, k) \in Seq(S)
           /\ Len(SubSeq(s, 1, k)) = k
           /\ SubSeq(s, k + 1, Len(s)) \in Seq(S)
           /\ Len(SubSeq(s, k + 1, Len(s))) = Len(s) - k
           /\ SubSeq(s, 1, k) \o SubSeq(s, k + 1, Len(s)) = s
<1>1. Len(s) \in Nat /\ \A i \in 1..Len(s) : s[i] \in S
  OBVIOUS
<1>2. SubSeq(s, 1, k) \in Seq(S) /\ Len(SubSeq(s, 1, k)) = k
  <2>1. \A i \in 1..k : s[i] \in S
    BY <1>1
  <2> QED
    BY <1>1, <2>1, SubSeqProperties
<1>3. /\ SubSeq(s, k + 1, Len(s)) \in Seq(S)
      /\ Len(SubSeq(s, k + 1, Len(s))) = Len(s) - k
  <2>1. \A i \in k + 1..Len(s) : s[i] \in S
    BY <1>1
  <2>2. k + 1 \in Int /\ Len(s) \in Int
    BY <1>1
  <2> QED
    BY <1>1, <2>1, <2>2, SubSeqProperties
<1>4. SubSeq(s, 1, k) \o SubSeq(s, k + 1, Len(s)) = SubSeq(s, 1, Len(s))
  <2>1. 1 \in 1..Len(s) + 1 /\ k \in 1 - 1..Len(s) /\ Len(s) \in k..Len(s)
    BY <1>1
  <2> QED
    BY <2>1, ConcatAdjacentSubSeq
<1> QED
  BY <1>2, <1>3, <1>4, SubSeqFull

(***************************************************************************)
(* enforce_ready_limit keeps the order of popping; afterwards ready is     *)
(* within the limit, and it is empty only if it was empty before.          *)
(***************************************************************************)
EnforceSpec(ready, deferred, limit, S) ==
    \E front \in Seq(S), rest \in Seq(S) :
        /\ EnforceReadyLimit(Queue(ready, deferred, limit))
               = Queue(front, rest, limit)
        /\ front \o rest = ready \o deferred
        /\ Len(front) <= limit
        /\ ready # <<>> => front # <<>>
        /\ ready = <<>> => rest = deferred

LEMMA EnforceKeepsOrder ==
    ASSUME NEW S, NEW ready \in Seq(S), NEW deferred \in Seq(S),
           NEW limit \in Nat \ {0}
    PROVE  EnforceSpec(ready, deferred, limit, S)
<1>1. Len(ready) \in Nat
  OBVIOUS
<1>2. PICK kept \in 0..Len(ready) :
          /\ kept = IF Len(ready) > limit THEN limit ELSE Len(ready)
          /\ kept <= limit
          /\ Len(ready) # 0 => kept # 0
  BY <1>1
<1>3. PICK front \in Seq(S), back \in Seq(S) :
          /\ front = SubSeq(ready, 1, kept)
          /\ back = SubSeq(ready, kept + 1, Len(ready))
          /\ Len(front) = kept
          /\ Len(back) = Len(ready) - kept
          /\ front \o back = ready
  <2>1. /\ SubSeq(ready, 1, kept) \in Seq(S)
        /\ Len(SubSeq(ready, 1, kept)) = kept
        /\ SubSeq(ready, kept + 1, Len(ready)) \in Seq(S)
        /\ Len(SubSeq(ready, kept + 1, Len(ready))) = Len(ready) - kept
        /\ SubSeq(ready, 1, kept) \o SubSeq(ready, kept + 1, Len(ready)) = ready
    BY CutAndJoin
  <2> QED
    BY <2>1, Zenon
<1>4. EnforceReadyLimit(Queue(ready, deferred, limit))
          = Queue(front, back \o deferred, limit)
  BY <1>2, <1>3 DEF EnforceReadyLimit, Queue
<1>5. back \o deferred \in Seq(S)
  OBVIOUS
<1>6. front \o (back \o deferred) = ready \o deferred
  <2>1. (front \o back) \o deferred = front \o (back \o deferred)
    BY ConcatAssociative, SMTT(40)
  <2> QED
    BY <1>3, <2>1
<1>7. Len(front) <= limit /\ (ready # <<>> => front # <<>>)
  <2>1. Len(front) <= limit /\ (Len(ready) # 0 => Len(front) # 0)
    BY <1>2, <1>3
  <2>2. ready # <<>> => Len(ready) # 0
    OBVIOUS
  <2> QED
    BY <2>1, <2>2
<1>8. ASSUME ready = <<>> PROVE back \o deferred = deferred
  <2>1. back = <<>>
    BY <1>2, <1>3, <1>8
  <2> QED
    BY <2>1, ConcatEmptySeq
<1> QED
  BY <1>4, <1>5, <1>6, <1>7, <1>8 DEF EnforceSpec

(***************************************************************************)
(* admit_deferred_ready keeps the order of popping and the limit, and      *)
(* leaves ready empty only if nothing waits at all.                        *)
(***************************************************************************)
AdmitSpec(ready, deferred, limit, S) ==
    \E front \in Seq(S), rest \in Seq(S) :
        /\ AdmitDeferredReady(Queue(ready, deferred, limit))
               = Queue(front, rest, limit)
        /\ front \o rest = ready \o deferred
        /\ Len(front) <= limit
        /\ front = <<>> => /\ rest = <<>>
                           /\ ready = <<>>
                           /\ deferred = <<>>

LEMMA AdmitKeepsOrder ==
    ASSUME NEW S, NEW ready \in Seq(S), NEW deferred \in Seq(S),
           NEW limit \in Nat \ {0}, Len(ready) <= limit
    PROVE  AdmitSpec(ready, deferred, limit, S)
<1>1. Len(ready) \in Nat /\ Len(deferred) \in Nat
  OBVIOUS
<1>2. PICK moved \in 0..Len(deferred) :
          /\ moved = LET room == IF limit > Len(ready)
                                 THEN limit - Len(ready) ELSE 0
                     IN  IF room < Len(deferred) THEN room ELSE Len(deferred)
          /\ Len(ready) + moved <= limit
          /\ Len(ready) + moved = 0 => Len(ready) = 0 /\ Len(deferred) = 0
  BY <1>1
<1>3. PICK extra \in Seq(S), rest \in Seq(S) :
          /\ extra = SubSeq(deferred, 1, moved)
          /\ rest = SubSeq(deferred, moved + 1, Len(deferred))
          /\ Len(extra) = moved
          /\ Len(rest) = Len(deferred) - moved
          /\ extra \o rest = deferred
  <2>1. /\ SubSeq(deferred, 1, moved) \in Seq(S)
        /\ Len(SubSeq(deferred, 1, moved)) = moved
        /\ SubSeq(deferred, moved + 1, Len(deferred)) \in Seq(S)
        /\ Len(SubSeq(deferred, moved + 1, Len(deferred))) = Len(deferred) - moved
        /\ SubSeq(deferred, 1, moved) \o SubSeq(deferred, moved + 1, Len(deferred)) = deferred
    BY CutAndJoin
  <2> QED
    BY <2>1, Zenon
<1>4. AdmitDeferredReady(Queue(ready, deferred, limit))
          = Queue(ready \o extra, rest, limit)
  BY <1>2, <1>3 DEF AdmitDeferredReady, Queue
<1>5. ready \o extra \in Seq(S) /\ Len(ready \o extra) = Len(ready) + moved
  BY <1>3, ConcatProperties
<1>6. (ready \o extra) \o rest = ready \o deferred
  <2>1. (ready \o extra) \o rest = ready \o (extra \o rest)
    BY ConcatAssociative, SMTT(40)
  <2> QED
    BY <1>3, <2>1
<1>7. ASSUME ready \o extra = <<>>
      PROVE  rest = <<>> /\ ready = <<>> /\ deferred = <<>>
  <2>1. Len(ready) + moved = 0
    BY <1>5, <1>7
  <2>2. Len(ready) = 0 /\ Len(deferred) = 0
    BY <1>2, <2>1
  <2>3. Len(rest) = 0
    BY <1>3, <2>2
  <2> QED
    BY <2>2, <2>3
<1> QED
  BY <1>2, <1>4, <1>5, <1>6, <1>7 DEF AdmitSpec

(***************************************************************************)
(* The queues of a scheduler between two calls: within the limit, nothing  *)
(* stranded.  The lemmas below say what each call makes of such a queue.   *)
(***************************************************************************)
Sound(q, S) ==
    \E ready \in Seq(S), deferred \in Seq(S), limit \in Nat \ {0} :
        /\ q = Queue(ready, deferred, limit)
        /\ Len(ready) <= limit
        /\ ready = <<>> => deferred = <<>>

LEMMA OrderOfQueue ==
    ASSUME NEW ready, NEW deferred, NEW limit
    PROVE  PopOrder(Queue(ready, deferred, limit)) = ready \o deferred
<1>1. /\ Queue(ready, deferred, limit).ready = ready
      /\ Queue(ready, deferred, limit).deferred_ready = deferred
  BY DEF Queue
<1> QED
  BY <1>1, Zenon DEF PopOrder

LEMMA SoundNew ==
    ASSUME NEW S, NEW item \in S, NEW limit \in Nat
    PROVE  /\ Sound(NewQueue(item, limit), S)
           /\ PopOrder(NewQueue(item, limit)) = <<item>>
<1>1. AtLeastOne(limit) \in Nat \ {0} /\ Len(<<item>>) <= AtLeastOne(limit)
  BY DEF AtLeastOne
<1>2. <<item>> \in Seq(S) /\ <<>> \in Seq(S)
  OBVIOUS
<1>3. Sound(NewQueue(item, limit), S)
  BY <1>1, <1>2 DEF Sound, NewQueue
<1>4. PopOrder(NewQueue(item, limit)) = <<item>> \o <<>>
  BY DEF PopOrder, NewQueue, Queue
<1> QED
  BY <1>2, <1>3, <1>4, ConcatEmptySeq

LEMMA SoundSetLimit ==
    ASSUME NEW S, NEW q, Sound(q, S), NEW limit \in Nat
    PROVE  Sound(SetLimit(q, limit), S) /\ PopOrder(SetLimit(q, limit)) = PopOrder(q)
<1>1. PICK ready \in Seq(S), deferred \in Seq(S), old \in Nat \ {0} :
          /\ q = Queue(ready, deferred, old)
          /\ ready = <<>> => deferred = <<>>
  BY DEF Sound
<1>2. PICK new \in Nat \ {0} : new = AtLeastOne(limit)
  BY DEF AtLeastOne
<1>3. SetLimit(q, limit) = EnforceReadyLimit(Queue(ready, deferred, new))
  BY <1>1, <1>2 DEF SetLimit, Queue
<1>4. PICK front \in Seq(S), rest \in Seq(S) :
          /\ SetLimit(q, limit) = Queue(front, rest, new)
          /\ front \o rest = ready \o deferred
          /\ Len(front) <= new
          /\ ready # <<>> => front # <<>>
          /\ ready = <<>> => rest = deferred
  <2>1. EnforceSpec(ready, deferred, new, S)
    BY EnforceKeepsOrder
  <2> QED
    BY <1>3, <2>1, Zenon DEF EnforceSpec
<1>5. Sound(SetLimit(q, limit), S)
  BY <1>1, <1>4 DEF Sound
<1>6. PopOrder(q) = ready \o deferred
  BY <1>1, OrderOfQueue, Zenon
<1>7. PopOrder(SetLimit(q, limit)) = front \o rest
  BY <1>4, OrderOfQueue, Zenon
<1> QED
  BY <1>4, <1>5, <1>6, <1>7

LEMMA SoundSchedule ==
    ASSUME NEW S, NEW q, Sound(q, S), NEW item \in S
    PROVE  /\ Sound(ScheduleNext(q, item), S)
           /\ PopOrder(ScheduleNext(q, item)) = <<item>> \o PopOrder(q)
<1>1. PICK ready \in Seq(S), deferred \in Seq(S), limit \in Nat \ {0} :
          q = Queue(ready, deferred, limit)
  BY DEF Sound
<1>2. PICK single \in Seq(S) : single = <<item>> /\ Len(single) = 1
  <2>1. <<item>> \in Seq(S) /\ Len(<<item>>) = 1
    OBVIOUS
  <2> QED
    BY <2>1, Zenon
<1>3. PICK pushed \in Seq(S) : pushed = single \o ready
  <2>1. single \o ready \in Seq(S)
    OBVIOUS
  <2> QED
    BY <2>1, Zenon
<1>4. ScheduleNext(q, item) = EnforceReadyLimit(Queue(pushed, deferred, limit))
  BY <1>1, <1>2, <1>3 DEF ScheduleNext, Queue
<1>5. PICK front \in Seq(S), rest \in Seq(S) :
          /\ ScheduleNext(q, item) = Queue(front, rest, limit)
          /\ front \o rest = pushed \o deferred
          /\ Len(front) <= limit
          /\ pushed # <<>> => front # <<>>
  <2>1. EnforceSpec(pushed, deferred, limit, S)
    BY EnforceKeepsOrder
  <2> QED
    BY <1>4, <2>1, Zenon DEF EnforceSpec
<1>6. pushed # <<>>
  <2>1. Len(pushed) = 1 + Len(ready)
    BY <1>2, <1>3, ConcatProperties
  <2> QED
    BY <2>1
<1>7. Sound(ScheduleNext(q, item), S)
  BY <1>5, <1>6 DEF Sound
<1>8. pushed \o deferred = single \o (ready \o deferred)
  BY <1>3, ConcatAssociative, SMTT(40)
<1>9. PopOrder(q) = ready \o deferred
  BY <1>1, OrderOfQueue, Zenon
<1>10. PopOrder(ScheduleNext(q, item)) = front \o rest
  BY <1>5, OrderOfQueue, Zenon
<1> QED
  BY <1>2, <1>5, <1>7, <1>8, <1>9, <1>10

LEMMA TailOfConcat ==
    ASSUME NEW S, NEW s \in Seq(S), NEW t \in Seq(S), s # <<>>
    PROVE  Tail(s) \o t = Tail(s \o t)
<1>1. /\ s \o t \in Seq(S) /\ Len(s \o t) = Len(s) + Len(t) /\ s \o t # <<>>
      /\ \A i \in 1..Len(s) + Len(t) :
             (s \o t)[i] = IF i <= Len(s) THEN s[i] ELSE t[i - Len(s)]
  BY ConcatProperties
<1>2. /\ Tail(s) \in Seq(S) /\ Len(Tail(s)) = Len(s) - 1
      /\ \A i \in 1..Len(Tail(s)) : Tail(s)[i] = s[i + 1]
  BY HeadTailProperties
<1>3. /\ Tail(s \o t) \in Seq(S) /\ Len(Tail(s \o t)) = Len(s) + Len(t) - 1
      /\ \A i \in 1..Len(s) + Len(t) - 1 : Tail(s \o t)[i] = (s \o t)[i + 1]
  BY <1>1, HeadTailProperties
<1>4. /\ Tail(s) \o t \in Seq(S) /\ Len(Tail(s) \o t) = Len(s) - 1 + Len(t)
      /\ \A i \in 1..Len(s) - 1 + Len(t) :
             (Tail(s) \o t)[i] =
                 IF i <= Len(s) - 1 THEN Tail(s)[i] ELSE t[i - (Len(s) - 1)]
  BY <1>2, ConcatProperties
<1>5. ASSUME NEW i \in 1..Len(s) - 1 + Len(t)
      PROVE  (Tail(s) \o t)[i] = Tail(s \o t)[i]
  <2>1. Len(s) \in Nat /\ Len(t) \in Nat /\ i + 1 \in 1..Len(s) + Len(t)
    OBVIOUS
  <2>2. Tail(s \o t)[i] = IF i + 1 <= Len(s) THEN s[i + 1] ELSE t[i + 1 - Len(s)]
    BY <1>1, <1>3, <2>1
  <2> QED
    BY <1>2, <1>4, <2>1, <2>2
<1> QED
  BY <1>3, <1>4, <1>5, SeqEqual

LEMMA SoundPop ==
    ASSUME NEW S, NEW q, Sound(q, S), HasReadyWork(q)
    PROVE  /\ Sound(PopNext(q), S)
           /\ PopOrder(q) \in Seq(S)
           /\ PopOrder(q) # <<>>
           /\ NextItem(q) = Head(PopOrder(q))
           /\ PopOrder(PopNext(q)) = Tail(PopOrder(q))
<1>1. PICK ready \in Seq(S), deferred \in Seq(S), limit \in Nat \ {0} :
          /\ q = Queue(ready, deferred, limit)
          /\ Len(ready) <= limit
          /\ ready = <<>> => deferred = <<>>
  BY DEF Sound
<1>2. ready # <<>>
  BY <1>1 DEF HasReadyWork, Queue
<1>3. PICK front \in Seq(S), rest \in Seq(S) :
          /\ AdmitDeferredReady(q) = Queue(front, rest, limit)
          /\ front \o rest = ready \o deferred
          /\ Len(front) <= limit
          /\ front # <<>>
  <2>1. AdmitSpec(ready, deferred, limit, S)
    BY <1>1, AdmitKeepsOrder
  <2> QED
    BY <1>1, <1>2, <2>1, Zenon DEF AdmitSpec
<1>4. PICK tail \in Seq(S) :
          /\ tail = Tail(front)
          /\ Len(tail) <= limit
          /\ tail \o rest = Tail(front \o rest)
          /\ Head(front \o rest) = Head(front)
          /\ front \o rest # <<>>
  <2>1. Tail(front) \in Seq(S) /\ Len(Tail(front)) = Len(front) - 1
    BY <1>3, HeadTailProperties
  <2>2. Len(Tail(front)) <= limit
    BY <1>3, <2>1
  <2>3. Tail(front) \o rest = Tail(front \o rest)
    BY <1>3, TailOfConcat
  <2>4. Head(front \o rest) = Head(front) /\ front \o rest # <<>>
    BY <1>3
  <2> QED
    BY <2>1, <2>2, <2>3, <2>4, Zenon
<1>5. DropFront(AdmitDeferredReady(q)) = Queue(tail, rest, limit)
  BY <1>3, <1>4 DEF DropFront, Queue
<1>6. PICK front2 \in Seq(S), rest2 \in Seq(S) :
          /\ PopNext(q) = Queue(front2, rest2, limit)
          /\ front2 \o rest2 = tail \o rest
          /\ Len(front2) <= limit
          /\ front2 = <<>> => rest2 = <<>>
  <2>1. AdmitSpec(tail, rest, limit, S)
    BY <1>4, AdmitKeepsOrder
  <2>2. PopNext(q) = AdmitDeferredReady(Queue(tail, rest, limit))
    BY <1>5, Zenon DEF PopNext
  <2> QED
    BY <2>1, <2>2, Zenon DEF AdmitSpec
<1>7. Sound(PopNext(q), S)
  BY <1>6 DEF Sound
<1>8. PopOrder(q) = front \o rest
  BY <1>1, <1>3, OrderOfQueue, Zenon
<1>9. PopOrder(PopNext(q)) = tail \o rest
  BY <1>6, OrderOfQueue, Zenon
<1>10. NextItem(q) = Head(front)
  BY <1>3 DEF NextItem, Queue
<1> QED
  BY <1>4, <1>7, <1>8, <1>9, <1>10


-----------------------------------------------------------------------------
(***************************************************************************)
(* The inductive invariant: what Sound says of the queue, with the type of *)
(* the popped item.  TypeOK and ReadyBounded follow from it.               *)
(***************************************************************************)
IInv == Sound(queue, Item) /\ popped \in Item \cup {NoItem}

LEMMA IInvInit == Init => IInv
<1> SUFFICES ASSUME Init PROVE IInv
  OBVIOUS
<1>1. PICK item \in Item, limit \in Limits : queue = NewQueue(item, limit)
  BY DEF Init
<1>2. Sound(queue, Item)
  BY <1>1, SoundNew, LimitsAssumption
<1> QED
  BY <1>2 DEF IInv, Init

LEMMA IInvNext == IInv /\ [Next]_vars => IInv'
<1> SUFFICES ASSUME IInv, [Next]_vars PROVE IInv'
  OBVIOUS
<1>1. ASSUME NEW limit \in Limits, SetReadyWorkLimit(limit) PROVE IInv'
  BY <1>1, SoundSetLimit, LimitsAssumption DEF IInv, SetReadyWorkLimit
<1>2. ASSUME NEW item \in Item, Schedule(item) PROVE IInv'
  BY <1>2, SoundSchedule DEF IInv, Schedule
<1>3. CASE Pop
  <2>1. Sound(queue', Item) /\ NextItem(queue) = Head(PopOrder(queue))
    BY <1>3, SoundPop DEF IInv, Pop
  <2>2. PopOrder(queue) \in Seq(Item) /\ PopOrder(queue) # <<>>
    BY <1>3, SoundPop DEF IInv, Pop
  <2>3. Head(PopOrder(queue)) \in Item
    BY <2>2, HeadTailProperties
  <2> QED
    BY <1>3, <2>1, <2>3 DEF IInv, Pop
<1>4. CASE UNCHANGED vars
  BY <1>4 DEF IInv, vars
<1> QED
  BY <1>1, <1>2, <1>3, <1>4 DEF Next

LEMMA IInvImplies == IInv => TypeOK /\ ReadyBounded
<1> SUFFICES ASSUME IInv PROVE TypeOK /\ ReadyBounded
  OBVIOUS
<1>1. PICK ready \in Seq(Item), deferred \in Seq(Item), limit \in Nat \ {0} :
          /\ queue = Queue(ready, deferred, limit)
          /\ Len(ready) <= limit
          /\ ready = <<>> => deferred = <<>>
  BY DEF IInv, Sound
<1>2. TypeOK
  BY <1>1 DEF IInv, TypeOK, QueueOf, Queue
<1>3. ReadyBounded
  BY <1>1 DEF ReadyBounded, LimitHolds, NothingStranded, Queue
<1> QED
  BY <1>2, <1>3

(***************************************************************************)
(* Type correctness, and for every Item and every way limits change: ready *)
(* stays within ready_work_limit and nothing is stranded in deferred_ready *)
(* behind an empty ready queue.                                            *)
(***************************************************************************)
THEOREM ReadyQueueBounded == Spec => [](TypeOK /\ ReadyBounded)
BY IInvInit, IInvNext, IInvImplies, PTL DEF Spec

(***************************************************************************)
(* EvalScheduler implements WorkStack: the two queues and the changing     *)
(* limit are invisible, schedule_next pushes and pop_next takes the item   *)
(* pushed last.                                                            *)
(***************************************************************************)
THEOREM SchedulerIsOneStack == Spec => IsOneStack
<1>1. Init => Stack!Init
  <2> SUFFICES ASSUME Init PROVE Stack!Init
    OBVIOUS
  <2>1. PICK item \in Item, limit \in Limits : queue = NewQueue(item, limit)
    BY DEF Init
  <2>2. PopOrder(queue) = <<item>>
    BY <2>1, SoundNew, LimitsAssumption
  <2> QED
    BY <2>2 DEF Init, Stack!Init
<1>2. IInv /\ [Next]_vars => [Stack!Next]_<<PopOrder(queue), popped>>
  <2> SUFFICES ASSUME IInv, [Next]_vars
               PROVE  [Stack!Next]_<<PopOrder(queue), popped>>
    OBVIOUS
  <2>1. ASSUME NEW limit \in Limits, SetReadyWorkLimit(limit)
        PROVE  UNCHANGED <<PopOrder(queue), popped>>
    BY <2>1, SoundSetLimit, LimitsAssumption DEF IInv, SetReadyWorkLimit
  <2>2. ASSUME NEW item \in Item, Schedule(item) PROVE Stack!Push(item)
    BY <2>2, SoundSchedule DEF IInv, Schedule, Stack!Push
  <2>3. CASE Pop
    <3>1. Stack!Pop
      BY <2>3, SoundPop DEF IInv, Pop, Stack!Pop
    <3> QED
      BY <3>1 DEF Stack!Next
  <2>4. CASE UNCHANGED vars
    BY <2>4 DEF vars
  <2> QED
    BY <2>1, <2>2, <2>3, <2>4 DEF Next, Stack!Next
<1> QED
  BY <1>1, <1>2, IInvInit, IInvNext, PTL DEF Spec, IsOneStack, Stack!Spec
=============================================================================
