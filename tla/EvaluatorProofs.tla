-------------------------- MODULE EvaluatorProofs --------------------------
(***************************************************************************)
(* TLAPS proofs about the evaluator: whatever the program, the natives and *)
(* the answers of the host, every cycle of the main loop is a step of the  *)
(* frame protocol of FrameTree, or changes nothing FrameTree sees.         *)
(***************************************************************************)
EXTENDS Evaluator, TLAPS, FiniteSetTheorems, SequenceTheorems, WellFoundedInduction

\* What is proved of the work queue and of the frame protocol, used here on
\* the evaluator's own variables.
Queues == INSTANCE EvalSchedulerProofs WITH
    Item <- {}, NoItem <- Missing, Limits <- {0}, MaxQueued <- 0, popped <- queue

Frames == INSTANCE FrameTreeProofs WITH
    MaxChildren <- MaxFan,
    live        <- DOMAIN frames,
    parent      <- TreeParent,
    waiting     <- TreeWaiting,
    entering    <- TreeEntering,
    returned    <- Returned,
    host        <- DOMAIN host,
    status      <- TreeStatus

-----------------------------------------------------------------------------
(* The work queue as the set of its items' keys.                            *)

Key(item) == <<item.frame, item.child>>

KeySet(q) == {Key(Work!PopOrder(q)[i]) : i \in 1..Len(Work!PopOrder(q))}

\* No two items are for the same frame and from the same child.
Unrepeated(q) ==
    \A i, j \in 1..Len(Work!PopOrder(q)) :
        Key(Work!PopOrder(q)[i]) = Key(Work!PopOrder(q)[j]) => i = j

\* The queue with the completion the next cycle starts with.
Pending ==
    IF completed = <<>> THEN queue
    ELSE Work!ScheduleNext(queue, ReceiveItem(completed[1], completed[1], completed[2]))

QueueOK(q) == \E S : Queues!Sound(q, S)

\* The queue of the evaluator is the one the proofs of EvalScheduler are about.
LEMMA SameQueues ==
    /\ \A q, item : Work!ScheduleNext(q, item) = Queues!ScheduleNext(q, item)
    /\ \A q : Work!PopOrder(q) = Queues!PopOrder(q)
    /\ \A q : Work!NextItem(q) = Queues!NextItem(q) /\ Work!PopNext(q) = Queues!PopNext(q)
    /\ \A q : Work!HasReadyWork(q) <=> Queues!HasReadyWork(q)
    /\ \A item, limit : Work!NewQueue(item, limit) = Queues!NewQueue(item, limit)
<1>1. \A q, item : Work!ScheduleNext(q, item) = Queues!ScheduleNext(q, item)
  BY DEF Work!ScheduleNext, Queues!ScheduleNext, Work!EnforceReadyLimit,
         Queues!EnforceReadyLimit, Work!Queue, Queues!Queue
<1>2. \A q : Work!PopOrder(q) = Queues!PopOrder(q)
  BY DEF Work!PopOrder, Queues!PopOrder
<1>3. \A q : Work!AdmitDeferredReady(q) = Queues!AdmitDeferredReady(q)
  BY DEF Work!AdmitDeferredReady, Queues!AdmitDeferredReady, Work!Queue, Queues!Queue
<1>4. \A q : Work!DropFront(q) = Queues!DropFront(q)
  BY DEF Work!DropFront, Queues!DropFront, Work!Queue, Queues!Queue
<1>5. \A q : Work!NextItem(q) = Queues!NextItem(q) /\ Work!PopNext(q) = Queues!PopNext(q)
  BY <1>3, <1>4 DEF Work!NextItem, Queues!NextItem, Work!PopNext, Queues!PopNext
<1>6. \A q : Work!HasReadyWork(q) <=> Queues!HasReadyWork(q)
  BY DEF Work!HasReadyWork, Queues!HasReadyWork
<1>7. \A item, limit : Work!NewQueue(item, limit) = Queues!NewQueue(item, limit)
  BY DEF Work!NewQueue, Queues!NewQueue, Work!Queue, Queues!Queue, Work!AtLeastOne,
         Queues!AtLeastOne
<1> QED
  BY <1>1, <1>2, <1>5, <1>6, <1>7

\* What EvalScheduler assumes of its constants.
LEMMA QueuesAssumed == 0 \in Nat /\ Missing \notin {} /\ {0} \subseteq Nat /\ {0} # {}
OBVIOUS

\* A queue's items may be taken from a larger set.
LEMMA SoundInMore ==
    ASSUME NEW q, NEW S, NEW T, S \subseteq T, Queues!Sound(q, S)
    PROVE  Queues!Sound(q, T)
<1>1. PICK ready \in Seq(S), deferred \in Seq(S), limit \in Nat \ {0} :
          /\ q = Queues!Queue(ready, deferred, limit)
          /\ Len(ready) <= limit
          /\ ready = <<>> => deferred = <<>>
  BY DEF Queues!Sound
<1>2. ready \in Seq(T) /\ deferred \in Seq(T)
  OBVIOUS
<1> QED
  BY <1>1, <1>2 DEF Queues!Sound

\* What the items of a queue are.
LEMMA QueueItems ==
    ASSUME NEW q, QueueOK(q)
    PROVE  /\ \E S : Work!PopOrder(q) \in Seq(S)
           /\ Work!HasReadyWork(q) <=> Work!PopOrder(q) # <<>>
<1>1. PICK S : Queues!Sound(q, S)
  BY DEF QueueOK
<1>2. PICK ready \in Seq(S), deferred \in Seq(S), limit \in Nat \ {0} :
          q = Queues!Queue(ready, deferred, limit)
  BY <1>1 DEF Queues!Sound
<1>3. q.ready = ready /\ q.deferred_ready = deferred
  BY <1>2 DEF Queues!Queue
<1>4. Work!PopOrder(q) = ready \o deferred
  BY <1>3, Zenon DEF Work!PopOrder
<1>5. ready \o deferred \in Seq(S) /\ Len(ready \o deferred) = Len(ready) + Len(deferred)
  OBVIOUS
<1>6. ready \o deferred # <<>> <=> ready # <<>> \/ deferred # <<>>
  BY <1>5
<1> QED
  BY <1>3, <1>4, <1>5, <1>6 DEF Work!HasReadyWork

\* schedule_next adds an item with a key of its own.
LEMMA PushKeys ==
    ASSUME NEW q, QueueOK(q), Unrepeated(q), NEW item, Key(item) \notin KeySet(q)
    PROVE  LET p == Work!ScheduleNext(q, item)
           IN  /\ QueueOK(p) /\ Unrepeated(p)
               /\ KeySet(p) = KeySet(q) \cup {Key(item)}
               /\ Work!PopOrder(p) # <<>>
<1>1. PICK p : p = Work!ScheduleNext(q, item)
  OBVIOUS
<1>2. PICK S : Queues!Sound(q, S) /\ item \in S
  <2>1. PICK S0 : Queues!Sound(q, S0)
    BY DEF QueueOK
  <2>2. PICK S : S = S0 \cup {item}
    OBVIOUS
  <2>3. Queues!Sound(q, S) /\ item \in S
    BY <2>1, <2>2, SoundInMore
  <2> QED
    BY <2>3
<1>3. Queues!Sound(p, S) /\ Work!PopOrder(p) = <<item>> \o Work!PopOrder(q)
  <2>1. Queues!Sound(Queues!ScheduleNext(q, item), S)
        /\ Queues!PopOrder(Queues!ScheduleNext(q, item)) = <<item>> \o Queues!PopOrder(q)
    BY <1>2, QueuesAssumed, Queues!SoundSchedule
  <2> QED
    BY <1>1, <2>1, SameQueues, Zenon
<1>4. PICK T : Work!PopOrder(q) \in Seq(T) /\ item \in T
  <2>1. PICK T0 : Work!PopOrder(q) \in Seq(T0)
    BY QueueItems
  <2>2. PICK T : T = T0 \cup {item}
    OBVIOUS
  <2>3. Work!PopOrder(q) \in Seq(T) /\ item \in T
    BY <2>1, <2>2
  <2> QED
    BY <2>3
<1>5. PICK s \in Seq(T) : s = Work!PopOrder(q)
  BY <1>4
<1>6. PICK u \in Seq(T) : u = <<item>> \o s
  <2>1. <<item>> \in Seq(T)
    BY <1>4
  <2>2. <<item>> \o s \in Seq(T)
    BY <2>1
  <2> QED
    BY <2>2
<1>7. /\ Len(u) = Len(s) + 1 /\ Len(s) \in Nat
      /\ u[1] = item /\ \A i \in 1..Len(s) : u[i + 1] = s[i]
  BY <1>4, <1>6
<1>8. Work!PopOrder(p) = u
  BY <1>3, <1>5, <1>6
<1>9. KeySet(p) = KeySet(q) \cup {Key(item)}
  <2>1. \A j \in 1..Len(u) : u[j] = item \/ \E i \in 1..Len(s) : u[j] = s[i]
    <3>1. ASSUME NEW j \in 1..Len(u), j # 1 PROVE j - 1 \in 1..Len(s) /\ u[j] = s[j - 1]
      BY <1>7, <3>1
    <3> QED
      BY <1>7, <3>1
  <2>2. \A i \in 1..Len(s) : i + 1 \in 1..Len(u)
    BY <1>7
  <2>3. KeySet(p) = {Key(u[j]) : j \in 1..Len(u)} /\ KeySet(q) = {Key(s[i]) : i \in 1..Len(s)}
    BY <1>5, <1>8 DEF KeySet
  <2>4. 1 \in 1..Len(u)
    BY <1>7
  <2> QED
    BY <1>7, <2>1, <2>2, <2>3, <2>4
<1>10. Unrepeated(p)
  <2>1. \A i, j \in 1..Len(s) : Key(s[i]) = Key(s[j]) => i = j
    BY <1>5 DEF Unrepeated
  <2>2. \A i \in 1..Len(s) : Key(s[i]) # Key(item)
    BY <1>5 DEF KeySet
  <2>3. ASSUME NEW i \in 1..Len(u), NEW j \in 1..Len(u), Key(u[i]) = Key(u[j])
        PROVE  i = j
    <3>1. \A k \in 1..Len(u) : k # 1 => k - 1 \in 1..Len(s) /\ u[k] = s[k - 1]
      <4>1. ASSUME NEW k \in 1..Len(u), k # 1
            PROVE  k - 1 \in 1..Len(s) /\ u[k] = s[k - 1]
        <5>1. k - 1 \in 1..Len(s) /\ (k - 1) + 1 = k
          BY <1>7, <4>1
        <5> QED
          BY <1>7, <5>1
      <4> QED
        BY <4>1
    <3>2. CASE i = 1 /\ j # 1
      BY <1>7, <2>2, <2>3, <3>1, <3>2
    <3>3. CASE i # 1 /\ j = 1
      BY <1>7, <2>2, <2>3, <3>1, <3>3
    <3>4. CASE i # 1 /\ j # 1
      <4>1. i - 1 \in 1..Len(s) /\ j - 1 \in 1..Len(s) /\ u[i] = s[i - 1] /\ u[j] = s[j - 1]
        BY <3>1, <3>4
      <4>2. i - 1 = j - 1
        BY <2>1, <2>3, <4>1
      <4> QED
        BY <4>2
    <3> QED
      BY <3>2, <3>3, <3>4
  <2> QED
    BY <1>8, <2>3 DEF Unrepeated
<1> QED
  BY <1>1, <1>3, <1>7, <1>8, <1>9, <1>10 DEF QueueOK

\* pop_next takes the item it returns and no other.
LEMMA PopKeys ==
    ASSUME NEW q, QueueOK(q), Unrepeated(q), Work!PopOrder(q) # <<>>
    PROVE  LET p == Work!PopNext(q)
               k == Key(Work!NextItem(q))
           IN  /\ QueueOK(p) /\ Unrepeated(p)
               /\ k \in KeySet(q) /\ KeySet(p) = KeySet(q) \ {k}
<1>1. PICK p, item : p = Work!PopNext(q) /\ item = Work!NextItem(q)
  OBVIOUS
<1>2. PICK S : Queues!Sound(q, S)
  BY DEF QueueOK
<1>3. /\ Queues!Sound(p, S) /\ Work!PopOrder(q) \in Seq(S)
      /\ item = Head(Work!PopOrder(q)) /\ Work!PopOrder(p) = Tail(Work!PopOrder(q))
  <2>1. Queues!HasReadyWork(q)
    BY QueueItems, SameQueues
  <2>2. /\ Queues!Sound(Queues!PopNext(q), S)
        /\ Queues!PopOrder(q) \in Seq(S)
        /\ Queues!NextItem(q) = Head(Queues!PopOrder(q))
        /\ Queues!PopOrder(Queues!PopNext(q)) = Tail(Queues!PopOrder(q))
    BY <1>2, <2>1, QueuesAssumed, Queues!SoundPop
  <2> QED
    BY <1>1, <2>2, SameQueues, Zenon
<1>4. PICK s \in Seq(S) : s = Work!PopOrder(q) /\ s # <<>>
  BY <1>3
<1>5. PICK u \in Seq(S) : u = Tail(s)
  <2>1. Tail(s) \in Seq(S)
    BY <1>4
  <2> QED
    BY <2>1, Zenon
<1>6. /\ Len(s) = Len(u) + 1 /\ Len(u) \in Nat
      /\ item = s[1] /\ \A i \in 1..Len(u) : u[i] = s[i + 1]
  BY <1>3, <1>4, <1>5
<1>7. \A i, j \in 1..Len(s) : Key(s[i]) = Key(s[j]) => i = j
  BY <1>4 DEF Unrepeated
<1>8. \A i \in 1..Len(u) : i + 1 \in 1..Len(s) /\ i + 1 # 1
  BY <1>6
<1>9. KeySet(p) = {Key(u[j]) : j \in 1..Len(u)} /\ KeySet(q) = {Key(s[i]) : i \in 1..Len(s)}
  BY <1>3, <1>4, <1>5 DEF KeySet
<1>10. 1 \in 1..Len(s)
  BY <1>6
<1>11. Key(item) \in KeySet(q)
  BY <1>6, <1>9, <1>10
<1>12. KeySet(p) = KeySet(q) \ {Key(item)}
  <2>1. \A j \in 1..Len(u) : Key(u[j]) # Key(item)
    BY <1>6, <1>7, <1>8, <1>10
  <2>2. ASSUME NEW i \in 1..Len(s), i # 1 PROVE i - 1 \in 1..Len(u) /\ s[i] = u[i - 1]
    BY <1>6, <2>2
  <2>3. ASSUME NEW k \in KeySet(p) PROVE k \in KeySet(q) \ {Key(item)}
    BY <1>6, <1>8, <1>9, <2>1, <2>3
  <2>4. ASSUME NEW k \in KeySet(q) \ {Key(item)} PROVE k \in KeySet(p)
    <3>1. PICK i \in 1..Len(s) : k = Key(s[i])
      BY <1>9, <2>4
    <3>2. i # 1
      BY <1>6, <2>4, <3>1
    <3> QED
      BY <1>9, <2>2, <3>1, <3>2
  <2> QED
    BY <2>3, <2>4
<1>13. Unrepeated(p)
  <2>1. ASSUME NEW i \in 1..Len(u), NEW j \in 1..Len(u), Key(u[i]) = Key(u[j])
        PROVE  i = j
    BY <1>6, <1>7, <1>8, <2>1
  <2> QED
    BY <1>3, <1>4, <1>5, <2>1 DEF Unrepeated
<1> QED
  BY <1>1, <1>3, <1>11, <1>12, <1>13 DEF QueueOK

\* What FrameTree assumes of its bounds.
LEMMA FramesAssumed == MaxFrames \in Nat /\ MaxFan \in Nat
BY EvaluatorBounds

\* The least element of a set of numbers.
LEMMA LeastNumber ==
    ASSUME NEW T, T \subseteq Nat, T # {}
    PROVE  \E x \in T : \A y \in T : x <= y
BY FramesAssumed, Frames!LeastElement

\* One turn of the loop that queues the children of a frame.
QueueStep(ids, q, k) == Work!ScheduleNext(q, EnterItem(ids[Len(ids) - k + 1]))

\* ScheduleItems is its loop.
LEMMA ScheduleLoop ==
    ASSUME NEW q, NEW ids, Len(ids) \in Nat
    PROVE  \E after :
               /\ after = [k \in 0..Len(ids) |->
                            IF k = 0 THEN q ELSE QueueStep(ids, after[k - 1], k)]
               /\ ScheduleItems(q, ids) = after[Len(ids)]
<1> DEFINE N == Len(ids)
           Loop(g, m) ==
               g = [k \in 0..m |-> IF k = 0 THEN q ELSE QueueStep(ids, g[k - 1], k)]
           B == {m \in 0..N : ~\E g : Loop(g, m)}
           rec == CHOOSE g : Loop(g, N)
<1>1. N \in Nat
  OBVIOUS
<1>2. ScheduleItems(q, ids) = rec[N]
  BY DEF ScheduleItems, QueueStep
<1>3. B = {}
  <2> SUFFICES ASSUME B # {} PROVE FALSE
    OBVIOUS
  <2>1. B \subseteq Nat
    BY <1>1
  <2>2. PICK m \in B : \A y \in B : m <= y
    <3> HIDE DEF B
    <3> QED
      BY <2>1, LeastNumber
  <2>3. m \in 0..N /\ ~\E g : Loop(g, m)
    BY <2>2
  <2>4. CASE m = 0
    <3> DEFINE g == [k \in 0..0 |-> q]
    <3>1. Loop(g, 0)
      OBVIOUS
    <3> QED
      BY <2>3, <2>4, <3>1
  <2>5. CASE m # 0
    <3>1. m - 1 \in 0..N /\ m \in Nat /\ m - 1 \notin B
      <4>1. m - 1 \in 0..N /\ ~(m <= m - 1) /\ m \in Nat
        BY <1>1, <2>3, <2>5
      <4> HIDE DEF B
      <4> QED
        BY <2>2, <4>1
    <3>2. PICK g : Loop(g, m - 1)
      BY <3>1
    <3> DEFINE h == [k \in 0..m |-> IF k = m THEN QueueStep(ids, g[m - 1], m) ELSE g[k]]
    <3>3. ASSUME NEW k \in 0..m
          PROVE  h[k] = IF k = 0 THEN q ELSE QueueStep(ids, h[k - 1], k)
      <4>1. CASE k = m
        <5>1. h[k] = QueueStep(ids, g[m - 1], m) /\ h[k - 1] = g[m - 1]
          BY <2>5, <3>1, <4>1
        <5> HIDE DEF h
        <5> QED
          BY <2>5, <4>1, <5>1
      <4>2. CASE k # m
        <5>1. k \in 0..m - 1 /\ h[k] = g[k] /\ (k # 0 => h[k - 1] = g[k - 1])
          BY <3>1, <4>2
        <5>2. g[k] = IF k = 0 THEN q ELSE QueueStep(ids, g[k - 1], k)
          BY <3>2, <5>1
        <5> HIDE DEF h
        <5> QED
          BY <5>1, <5>2
      <4> QED
        BY <4>1, <4>2
    <3>4. Loop(h, m)
      <4>1. h = [k \in 0..m |-> h[k]]
        OBVIOUS
      <4> HIDE DEF h
      <4> QED
        BY <3>3, <4>1
    <3> QED
      BY <2>3, <3>4
  <2> QED
    BY <2>4, <2>5
<1>4. \E g : Loop(g, N)
  BY <1>1, <1>3
<1>5. Loop(rec, N)
  BY <1>4
<1> HIDE DEF rec
<1> QED
  BY <1>2, <1>5

EnterKeys(ids) == {<<x, NoChild>> : x \in ids}

\* Queueing the enter items of new frames.
LEMMA ScheduleKeys ==
    ASSUME NEW q, QueueOK(q), Unrepeated(q), NEW N \in Nat, NEW n \in Nat,
           \A x \in N..N + n - 1 : <<x, NoChild>> \notin KeySet(q)
    PROVE  LET p == ScheduleItems(q, [i \in 1..n |-> N + i - 1])
           IN  /\ QueueOK(p) /\ Unrepeated(p)
               /\ KeySet(p) = KeySet(q) \cup EnterKeys(N..N + n - 1)
<1> DEFINE ids == [i \in 1..n |-> N + i - 1]
           Done(p, k) == /\ QueueOK(p) /\ Unrepeated(p)
                         /\ KeySet(p) = KeySet(q) \cup EnterKeys(N + n - k..N + n - 1)
<1>1. Len(ids) = n
  OBVIOUS
<1>2. PICK after : /\ after = [k \in 0..n |->
                                 IF k = 0 THEN q ELSE QueueStep(ids, after[k - 1], k)]
                   /\ ScheduleItems(q, ids) = after[n]
  <2> HIDE DEF ids
  <2>1. Len(ids) \in Nat
    BY <1>1
  <2> QED
    BY <1>1, <2>1, ScheduleLoop
<1> DEFINE B == {k \in 0..n : ~Done(after[k], k)}
<1>3. B = {}
  <2> SUFFICES ASSUME B # {} PROVE FALSE
    OBVIOUS
  <2>1. B \subseteq Nat
    OBVIOUS
  <2>2. PICK k \in B : \A y \in B : k <= y
    <3> HIDE DEF B
    <3> QED
      BY <2>1, LeastNumber
  <2>3. k \in 0..n /\ ~Done(after[k], k)
    BY <2>2
  <2>4. CASE k = 0
    <3>1. after[0] = q
      BY <1>2
    <3>2. EnterKeys(N + n - 0..N + n - 1) = {}
      BY DEF EnterKeys
    <3>3. Done(after[0], 0)
      BY <3>1, <3>2
    <3> QED
      BY <2>3, <2>4, <3>3
  <2>5. CASE k # 0
    <3>1. k - 1 \in 0..n /\ k \in Nat /\ k - 1 \notin B
      <4>1. k - 1 \in 0..n /\ ~(k <= k - 1) /\ k \in Nat
        BY <2>3, <2>5
      <4> HIDE DEF B
      <4> QED
        BY <2>2, <4>1
    <3>2. Done(after[k - 1], k - 1)
      BY <3>1
    <3>3. PICK p, x : p = after[k - 1] /\ x = N + n - k
      OBVIOUS
    <3>4. after[k] = Work!ScheduleNext(p, EnterItem(x))
      <4>1. after[k] = QueueStep(ids, p, k)
        BY <1>2, <2>3, <2>5, <3>3
      <4>2. ids[n - k + 1] = x
        BY <2>3, <2>5, <3>3
      <4> HIDE DEF ids
      <4> QED
        BY <1>1, <4>1, <4>2 DEF QueueStep
    <3>5. Key(EnterItem(x)) = <<x, NoChild>>
      BY DEF Key, EnterItem
    <3>6. <<x, NoChild>> \notin KeySet(p)
      <4>1. x \in N..N + n - 1 /\ x \notin N + n - (k - 1)..N + n - 1
        BY <2>3, <2>5, <3>3
      <4>2. <<x, NoChild>> \notin KeySet(q)
        BY <4>1
      <4> QED
        BY <3>2, <3>3, <4>1, <4>2 DEF EnterKeys
    <3>7. PICK r : r = after[k] /\ QueueOK(r) /\ Unrepeated(r)
                   /\ KeySet(r) = KeySet(p) \cup {<<x, NoChild>>}
      <4>1. QueueOK(p) /\ Unrepeated(p) /\ Key(EnterItem(x)) \notin KeySet(p)
        BY <3>2, <3>3, <3>5, <3>6
      <4> QED
        BY <3>4, <3>5, <4>1, PushKeys
    <3>8. EnterKeys(N + n - k..N + n - 1)
              = EnterKeys(N + n - (k - 1)..N + n - 1) \cup {<<x, NoChild>>}
      <4>1. N + n - k..N + n - 1 = (N + n - (k - 1)..N + n - 1) \cup {x}
        BY <2>3, <2>5, <3>3
      <4> QED
        BY <4>1 DEF EnterKeys
    <3>9. Done(r, k)
      BY <3>2, <3>3, <3>7, <3>8
    <3> QED
      BY <2>3, <3>7, <3>9
  <2> QED
    BY <2>4, <2>5
<1>4. Done(after[n], n)
  BY <1>3
<1>5. N + n - n = N
  OBVIOUS
<1> QED
  BY <1>2, <1>4, <1>5

-----------------------------------------------------------------------------
(* Frames.                                                                  *)

FrameFields == {"kind", "parent", "expr", "env", "state", "children", "values",
                "remaining", "next", "func", "cells", "task"}

UnaryKinds == {"ApplyUnary", "UnaryFilterMap", "UnaryMap", "UnaryFilter", "UnaryFlatMap"}

SequentialKinds == Searches \cup FoldKinds \cup Equalities \cup {"Sum", "Mean"} \cup UnaryKinds

GoodTask(t) ==
    \/ /\ t.kind \in FanOutKinds
       /\ DOMAIN t = {"kind", "func", "args", "keys", "entries", "children", "output", "remaining"}
    \/ /\ t.kind \in SequentialKinds
       /\ DOMAIN t = {"kind", "func", "values", "other", "acc", "state", "next_index", "step"}
       /\ t.kind = "Sum" => t.state \in {"Enter", "ApplyFirst", "ApplySecond"}

GoodFrame(frame) ==
    /\ DOMAIN frame = FrameFields
    /\ frame.kind \in {"Expr", "NativeCall", "NativeHost"}
    /\ frame.kind = "NativeCall" => GoodTask(frame.task)

\* The frames that count the results they still expect, and their count.
Collecting(frame) ==
    IF frame.kind = "NativeCall"
    THEN frame.state = "Waiting" /\ frame.task.kind \in FanOutKinds
    ELSE /\ frame.kind = "Expr"
         /\ \/ frame.expr.e = "sequence" /\ frame.state = "EvalItem"
            \/ frame.expr.e = "update" /\ frame.state = "EvalUpdate"
            \/ frame.expr.e = "app" /\ frame.state = "EvalChildren"

Outstanding(frame) == IF frame.kind = "NativeCall" THEN frame.task.remaining ELSE frame.remaining

-----------------------------------------------------------------------------
(* The tasks of natives.                                                    *)

FanOutShape(t) ==
    /\ t.kind \in FanOutKinds
    /\ DOMAIN t = {"kind", "func", "args", "keys", "entries", "children", "output", "remaining"}

SequentialShape(t) ==
    /\ t.kind \in SequentialKinds
    /\ DOMAIN t = {"kind", "func", "values", "other", "acc", "state", "next_index", "step"}
    /\ t.kind = "Sum" => t.state \in {"Enter", "ApplyFirst", "ApplySecond"}

\* The two shapes of a good task.
LEMMA TaskShapes ==
    ASSUME NEW t
    PROVE  /\ GoodTask(t) <=> FanOutShape(t) \/ SequentialShape(t)
           /\ ~(t.kind \in FanOutKinds /\ t.kind \in SequentialKinds)
BY DEF GoodTask, FanOutShape, SequentialShape, SequentialKinds, UnaryKinds, FanOutKinds,
       Predicates, OptionCallbacks, Searches, FoldKinds, Equalities

\* The answer of a native that may call back.
Prepared(answer) ==
    /\ answer.op \in {"Ready", "Task", "Error"}
    /\ answer.op = "Task" => GoodTask(answer.task)

\* NewTask and FanOutTask make good tasks, with nothing outstanding.
LEMMA NewTasks ==
    /\ \A kind \in FanOutKinds : \A func, args, keys, entries :
           Prepared(Task(FanOut(kind, func, args, keys, entries)))
    /\ \A kind \in SequentialKinds : \A func, values, other, acc :
           Prepared(Task(Sequential(kind, func, values, other, acc)))
    /\ \A v : Prepared(Ready(v)) /\ Prepared(NoTask(v))
BY DEF Prepared, Task, Ready, NoTask, FanOut, Sequential, GoodTask

\* A native over a container starts with a task for its elements.
LEMMA OverContainerTasks ==
    ASSUME NEW listKind \in FanOutKinds, NEW unaryKind \in UnaryKinds, NEW func, NEW v
    PROVE  Prepared(OverContainer(listKind, unaryKind, func, v))
<1>1. unaryKind \in SequentialKinds
  BY DEF SequentialKinds
<1>2. PICK shape : shape = CASE unaryKind = "UnaryFilter" -> v
                             [] OTHER -> IF IsOption(v) THEN "Option" ELSE "Result"
  OBVIOUS
<1>3. OverContainer(listKind, unaryKind, func, v) =
          IF v[1] = "list" THEN Task(FanOut(listKind, func, v[2], <<>>, <<>>))
          ELSE IF v[2] \in {"None", "Err"} THEN Ready(v)
          ELSE Task(Sequential(unaryKind, func, <<>>, shape, v[3][1]))
  BY <1>2, Zenon DEF OverContainer
<1> QED
  BY <1>1, <1>3, NewTasks, Zenon

\* Whatever the arguments of a native that may call back, it answers at once
\* or with a task that is one of the coroutines.
LEMMA SchedulerNativeTasks ==
    ASSUME NEW name \in CallbackNatives, NEW args
    PROVE  Prepared(SchedulerNative(name, args))
<1> DEFINE answer == SchedulerNative(name, args)
<1>1. CASE name \in {"prim_map", "prim_filter", "prim_filter_map", "prim_flat_map"}
  <2>1. /\ {"SequenceMap", "SequenceFilter", "SequenceFilterMap", "SequenceFlatMap"} \subseteq FanOutKinds
        /\ {"UnaryMap", "UnaryFilter", "UnaryFilterMap", "UnaryFlatMap"} \subseteq UnaryKinds
    BY DEF FanOutKinds, Predicates, OptionCallbacks, UnaryKinds
  <2>2. \E listKind \in FanOutKinds, unaryKind \in UnaryKinds :
            answer = OverContainer(listKind, unaryKind, args[1], args[2])
    BY <1>1, <2>1 DEF SchedulerNative, PrimMap, PrimFilter, PrimFilterMap, PrimFlatMap
  <2> QED
    BY <2>2, OverContainerTasks
<1>2. CASE name = "prim_or_else"
  <2>1. "ApplyUnary" \in SequentialKinds
    BY DEF SequentialKinds, UnaryKinds
  <2>2. answer = OrElse(args[1], args[2])
    BY <1>2 DEF SchedulerNative
  <2> QED
    BY <2>1, <2>2, NewTasks, Zenon DEF OrElse
<1>3. CASE name \in {"list_any", "list_all", "list_find", "list_find_index", "prim_foldl",
                      "prim_fold", "prim_foldr", "prim_list_eq", "prim_list_ne", "sum", "mean"}
  <2>1. {"Any", "All", "Find", "FindIndex", "FoldLeft", "FoldRight", "ArrayEq", "ArrayNe",
         "Sum", "Mean"} \subseteq SequentialKinds
    BY DEF SequentialKinds, Searches, FoldKinds, Equalities
  <2>2. \/ answer = NoTask("EmptySequence")
        \/ \E kind \in SequentialKinds : \E func, values, other, acc :
               answer = Task(Sequential(kind, func, values, other, acc))
    <3>1. CASE name \in {"list_any", "list_all", "list_find", "list_find_index"}
      BY <2>1, <3>1 DEF SchedulerNative, ListSearch
    <3>2. CASE name \in {"prim_foldl", "prim_fold", "prim_foldr"}
      BY <2>1, <3>2 DEF SchedulerNative, PrimFoldLeft, PrimFoldRight
    <3>3. CASE name \in {"prim_list_eq", "prim_list_ne"}
      BY <2>1, <3>3 DEF SchedulerNative, PrimListEq
    <3>4. CASE name \in {"sum", "mean"}
      BY <2>1, <3>4 DEF SchedulerNative, Sum, Mean
    <3> QED
      BY <1>3, <3>1, <3>2, <3>3, <3>4
  <2> QED
    BY <2>2, NewTasks
<1>4. CASE name \in {"list_count", "list_partition", "prim_dict_map", "prim_dict_filter",
                      "prim_dict_filter_map", "dict_map", "dict_filter", "dict_update"}
  <2>1. {"Count", "Partition", "DictMap", "DictFilter", "DictFilterMap", "DictEntryMap",
         "DictUpdate"} \subseteq FanOutKinds
    BY DEF FanOutKinds, Predicates, OptionCallbacks
  <2>2. \E kind \in FanOutKinds : \E func, values, keys, entries :
            answer = Task(FanOut(kind, func, values, keys, entries))
    <3>1. CASE name \in {"list_count", "list_partition"}
      BY <2>1, <3>1 DEF SchedulerNative, ListPredicate
    <3>2. CASE name \in {"prim_dict_map", "prim_dict_filter", "prim_dict_filter_map"}
      BY <2>1, <3>2 DEF SchedulerNative, OverEntries
    <3>3. CASE name \in {"dict_map", "dict_filter"}
      BY <2>1, <3>3 DEF SchedulerNative, OverPairs
    <3>4. CASE name = "dict_update"
      BY <2>1, <3>4 DEF SchedulerNative, DictUpdate
    <3> QED
      BY <1>4, <3>1, <3>2, <3>3, <3>4
  <2> QED
    BY <2>2, NewTasks
<1> QED
  BY <1>1, <1>2, <1>3, <1>4 DEF CallbackNatives

\* The steps of a coroutine when it starts.  Only a fan-out task schedules, and
\* then it counts one result for every argument.
Starts(t, stepped) ==
    /\ GoodTask(stepped.task) /\ stepped.task.kind = t.kind
    /\ IF t.kind \in FanOutKinds
       THEN /\ stepped.step.op \in {"Schedule", "Return"}
            /\ stepped.step.op = "Schedule" =>
                   /\ t.args # <<>>
                   /\ stepped.task.args = t.args /\ stepped.task.remaining = Len(t.args)
       ELSE stepped.step.op \in {"Push", "PushVar", "Return", "Error"}

\* What the first step of a task asks for: one callback or method, or all at once.
LEMMA TaskStarts ==
    ASSUME NEW t, GoodTask(t)
    PROVE  Starts(t, TaskEnter(t))
<1> USE DEF Stepped, Push, PushVar, ScheduleAll, Return, Error
<1>1. CASE FanOutShape(t)
  <2>1. TaskEnter(t) = FanOutEnter(t) /\ t.kind \in FanOutKinds
    BY <1>1 DEF TaskEnter, FanOutShape, FanOutKinds, Predicates, OptionCallbacks, Searches,
                FoldKinds, Equalities
  <2>2. CASE t.args = <<>>
    BY <2>1, <2>2 DEF FanOutEnter, Starts
  <2>3. CASE t.args # <<>>
    <3>1. PICK u : u = [t EXCEPT !.children = <<>>,
                                 !.output = [i \in 1..Len(t.args) |-> Missing],
                                 !.remaining = Len(t.args)]
      OBVIOUS
    <3>2. /\ DOMAIN u = DOMAIN t /\ u.kind = t.kind /\ u.args = t.args
          /\ u.remaining = Len(t.args)
      BY <1>1, <3>1 DEF FanOutShape
    <3>3. GoodTask(u)
      BY <1>1, <3>2, TaskShapes DEF FanOutShape
    <3>4. TaskEnter(t) = Stepped(u, ScheduleAll)
      BY <2>1, <2>3, <3>1 DEF FanOutEnter
    <3> QED
      BY <2>1, <2>3, <3>2, <3>3, <3>4 DEF Starts
  <2> QED
    BY <2>2, <2>3
<1>2. CASE SequentialShape(t)
  <2> DEFINE Same(u) == /\ DOMAIN u = DOMAIN t /\ u.kind = t.kind
                        /\ t.kind = "Sum" => u.state \in {"Enter", "ApplyFirst", "ApplySecond"}
  <2>1. t.kind \notin FanOutKinds
    BY <1>2, TaskShapes DEF SequentialShape
  <2>2. \A u : Same(u) => GoodTask(u) /\ u.kind = t.kind
    BY <1>2, TaskShapes DEF SequentialShape
  <2>3. Same(t)
    BY <1>2 DEF SequentialShape
  <2>4. /\ Same(TaskEnter(t).task)
        /\ TaskEnter(t).step.op \in {"Push", "PushVar", "Return", "Error"}
    <3>1. CASE t.kind \in Searches
      <4>1. TaskEnter(t) = ListSearchEnter(t)
        BY <2>1, <3>1 DEF TaskEnter, Searches, FoldKinds, Equalities
      <4> QED
        BY <2>3, <4>1 DEF ListSearchEnter, Exhausted
    <3>2. CASE t.kind \in FoldKinds
      <4>1. TaskEnter(t) = FoldEnter(t) /\ t.kind # "Sum"
        BY <2>1, <3>2 DEF TaskEnter, Searches, FoldKinds, Equalities
      <4>2. PICK u : u = [t EXCEPT !.state = "ApplyFirst", !.next_index = 0]
        OBVIOUS
      <4>3. Same(u)
        BY <1>2, <4>1, <4>2 DEF SequentialShape
      <4>4. /\ TaskEnter(t).task \in {t, u}
            /\ TaskEnter(t).step.op \in {"Push", "PushVar", "Return", "Error"}
        BY <4>1, <4>2 DEF FoldEnter, FoldFirst
      <4> QED
        BY <2>3, <4>3, <4>4
    <3>3. CASE t.kind \in Equalities
      <4>1. TaskEnter(t) = ArrayEqEnter(t) /\ t.kind # "Sum"
        BY <2>1, <3>3 DEF TaskEnter, Searches, FoldKinds, Equalities
      <4>2. PICK u : u = [t EXCEPT !.state = "ApplyFirst", !.next_index = 0]
        OBVIOUS
      <4>3. Same(u)
        BY <1>2, <4>1, <4>2 DEF SequentialShape
      <4>4. /\ TaskEnter(t).task \in {t, u}
            /\ TaskEnter(t).step.op \in {"Push", "PushVar", "Return", "Error"}
        BY <4>1, <4>2 DEF ArrayEqEnter, EqResult, EqFirst
      <4> QED
        BY <2>3, <4>3, <4>4
    <3>4. CASE t.kind = "Sum"
      <4>1. TaskEnter(t) = SumEnter(t)
        BY <2>1, <3>4 DEF TaskEnter, Searches, FoldKinds, Equalities
      <4>2. PICK u : u = [t EXCEPT !.acc = t.values[1], !.next_index = 1, !.state = "ApplyFirst"]
        OBVIOUS
      <4>3. Same(u)
        BY <1>2, <4>2 DEF SequentialShape
      <4>4. /\ TaskEnter(t).task \in {t, u}
            /\ TaskEnter(t).step.op \in {"Push", "PushVar", "Return", "Error"}
        BY <4>1, <4>2 DEF SumEnter
      <4> QED
        BY <2>3, <4>3, <4>4
    <3>5. CASE t.kind = "Mean"
      <4>1. TaskEnter(t) = MeanEnter(t)
        BY <2>1, <3>5 DEF TaskEnter, Searches, FoldKinds, Equalities
      <4>2. PICK u : u = [t EXCEPT !.acc = t.values[1], !.next_index = 1, !.state =
                              IF Len(t.values) = 1 THEN "ApplyDivFirst" ELSE "ApplyPlusFirst"]
        OBVIOUS
      <4>3. Same(u)
        BY <1>2, <3>5, <4>2 DEF SequentialShape
      <4>4. /\ TaskEnter(t).task \in {t, u}
            /\ TaskEnter(t).step.op \in {"Push", "PushVar", "Return", "Error"}
        BY <4>1, <4>2 DEF MeanEnter
      <4> QED
        BY <2>3, <4>3, <4>4
    <3>6. CASE t.kind \in UnaryKinds
      <4>1. TaskEnter(t) = Stepped(t, Push(t.func, t.acc))
        BY <2>1, <3>6 DEF TaskEnter, Searches, FoldKinds, Equalities, UnaryKinds
      <4> QED
        BY <2>3, <4>1
    <3> QED
      BY <1>2, <3>1, <3>2, <3>3, <3>4, <3>5, <3>6 DEF SequentialShape, SequentialKinds
  <2> HIDE DEF Same
  <2> QED
    BY <2>1, <2>2, <2>4 DEF Starts
<1> QED
  BY <1>1, <1>2, TaskShapes

\* The steps of a coroutine that gets a result.  A fan-out task waits as long as
\* results are missing and ends with the last one; the others never wait.
Resumes(t, stepped) ==
    /\ GoodTask(stepped.task) /\ stepped.task.kind = t.kind
    /\ IF t.kind \in FanOutKinds
       THEN /\ stepped.step.op \in {"Wait", "Return", "Error"}
            /\ stepped.step.op = "Wait" =>
                   stepped.task.remaining = t.remaining - 1 /\ stepped.task.remaining # 0
            /\ stepped.step.op = "Return" => t.remaining - 1 = 0
       ELSE stepped.step.op \in {"Push", "Return", "Error"}

\* What a task does with a result.
LEMMA TaskResumes ==
    ASSUME NEW t, GoodTask(t), NEW child, NEW value
    PROVE  Resumes(t, TaskReceive(t, child, value))
<1> USE DEF Stepped, Push, PushVar, Wait, Return, Error
<1>1. CASE FanOutShape(t)
  <2>1. TaskReceive(t, child, value) = FanOutReceive(t, child, value) /\ t.kind \in FanOutKinds
    BY <1>1 DEF TaskReceive, FanOutShape, FanOutKinds, Predicates, OptionCallbacks, Searches,
                FoldKinds, Equalities
  <2>2. PICK places, slot :
            /\ places = {i \in 1..Len(t.children) : t.children[i] = child}
            /\ slot = CHOOSE i \in places : TRUE
    OBVIOUS
  <2>3. PICK u : u = [t EXCEPT !.output[slot] = value, !.remaining = @ - 1]
    OBVIOUS
  <2>4. DOMAIN u = DOMAIN t /\ u.kind = t.kind /\ u.remaining = t.remaining - 1
    BY <1>1, <2>3 DEF FanOutShape
  <2>5. GoodTask(u)
    BY <1>1, <2>4, TaskShapes DEF FanOutShape
  <2>6. \/ TaskReceive(t, child, value) = Stepped(t, Error("Internal"))
        \/ TaskReceive(t, child, value) = Stepped(t, Error("NativeType"))
        \/ TaskReceive(t, child, value)
               = Stepped(u, IF u.remaining = 0 THEN Return(Finish(u)) ELSE Wait)
    <3> HIDE DEF Stepped, Wait, Return, Error
    <3> QED
      BY <2>1, <2>2, <2>3, Zenon DEF FanOutReceive
  <2>7. CASE \E kind : TaskReceive(t, child, value) = Stepped(t, Error(kind))
    BY <2>1, <2>7 DEF Resumes
  <2>8. CASE TaskReceive(t, child, value)
                 = Stepped(u, IF u.remaining = 0 THEN Return(Finish(u)) ELSE Wait)
    <3>1. CASE u.remaining = 0
      <4>1. TaskReceive(t, child, value) = Stepped(u, Return(Finish(u)))
        BY <2>8, <3>1
      <4>2. PICK r : /\ r = TaskReceive(t, child, value)
                     /\ r.task = u /\ r.step.op = "Return"
        BY <4>1
      <4> QED
        BY <2>1, <2>4, <2>5, <3>1, <4>2 DEF Resumes
    <3>2. CASE u.remaining # 0
      <4>1. TaskReceive(t, child, value) = Stepped(u, Wait)
        BY <2>8, <3>2
      <4>2. PICK r : /\ r = TaskReceive(t, child, value)
                     /\ r.task = u /\ r.step.op = "Wait"
        BY <4>1
      <4> QED
        BY <2>1, <2>4, <2>5, <3>2, <4>2 DEF Resumes
    <3> QED
      BY <3>1, <3>2
  <2> QED
    BY <2>6, <2>7, <2>8
<1>2. CASE SequentialShape(t)
  <2> DEFINE Same(u) == /\ DOMAIN u = DOMAIN t /\ u.kind = t.kind
                        /\ t.kind = "Sum" => u.state \in {"Enter", "ApplyFirst", "ApplySecond"}
  <2>1. t.kind \notin FanOutKinds
    BY <1>2, TaskShapes DEF SequentialShape
  <2>2. \A u : Same(u) => GoodTask(u) /\ u.kind = t.kind
    BY <1>2, TaskShapes DEF SequentialShape
  <2>3. Same(t)
    BY <1>2 DEF SequentialShape
  <2>4. /\ Same(TaskReceive(t, child, value).task)
        /\ TaskReceive(t, child, value).step.op \in {"Push", "Return", "Error"}
    <3>1. CASE t.kind \in Searches
      <4>1. TaskReceive(t, child, value) = ListSearchReceive(t, value)
        BY <2>1, <3>1 DEF TaskReceive, Searches, FoldKinds, Equalities
      <4>2. PICK moved : moved = [t EXCEPT !.next_index = @ + 1]
        OBVIOUS
      <4>3. Same(moved)
        BY <1>2, <3>1, <4>1, <4>2 DEF SequentialShape, Searches, FoldKinds, Equalities
      <4>4. /\ TaskReceive(t, child, value).task \in {t, moved}
            /\ TaskReceive(t, child, value).step.op \in {"Push", "Return", "Error"}
        BY <1>2, <3>1, <4>1, <4>2 DEF ListSearchReceive, Exhausted
      <4> QED
        BY <2>3, <4>3, <4>4
    <3>2. CASE t.kind \in FoldKinds
      <4>1. TaskReceive(t, child, value) = FoldReceive(t, value)
        BY <2>1, <3>2 DEF TaskReceive, Searches, FoldKinds, Equalities
      <4>2. PICK second : second = [t EXCEPT !.step = value, !.state = "ApplySecond"]
        OBVIOUS
      <4>3. PICK next : next = [t EXCEPT !.acc = value, !.step = Missing,
                                   !.next_index = @ + 1, !.state = "ApplyFirst"]
        OBVIOUS
      <4>4. Same(second) /\ Same(next)
        BY <1>2, <3>2, <4>1, <4>2, <4>3 DEF SequentialShape, Searches, FoldKinds, Equalities
      <4>5. /\ TaskReceive(t, child, value).task \in {t, second, next}
            /\ TaskReceive(t, child, value).step.op \in {"Push", "Return", "Error"}
        BY <1>2, <3>2, <4>1, <4>2, <4>3 DEF FoldReceive, FoldFirst, FoldSecond
      <4> QED
        BY <2>3, <4>4, <4>5
    <3>3. CASE t.kind \in Equalities
      <4>1. TaskReceive(t, child, value) = ArrayEqReceive(t, value)
        BY <2>1, <3>3 DEF TaskReceive, Searches, FoldKinds, Equalities
      <4>2. PICK second : second = [t EXCEPT !.step = value, !.state = "ApplySecond"]
        OBVIOUS
      <4>3. PICK next : next = [t EXCEPT !.step = Missing, !.next_index = @ + 1,
                                   !.state = "ApplyFirst"]
        OBVIOUS
      <4>4. Same(second) /\ Same(next)
        BY <1>2, <3>3, <4>1, <4>2, <4>3 DEF SequentialShape, Searches, FoldKinds, Equalities
      <4>5. /\ TaskReceive(t, child, value).task \in {t, second, next}
            /\ TaskReceive(t, child, value).step.op \in {"Push", "Return", "Error"}
        BY <1>2, <3>3, <4>1, <4>2, <4>3 DEF ArrayEqReceive, EqFirst, EqResult
      <4> QED
        BY <2>3, <4>4, <4>5
    <3>4. CASE t.kind = "Sum"
      <4>1. TaskReceive(t, child, value) = SumReceive(t, value)
        BY <2>1, <3>4 DEF TaskReceive, Searches, FoldKinds, Equalities
      <4>2. PICK second : second = [t EXCEPT !.step = value, !.state = "ApplySecond"]
        OBVIOUS
      <4>3. PICK next : next = [t EXCEPT !.acc = value, !.step = Missing,
                                   !.next_index = @ + 1, !.state = "ApplyFirst"]
        OBVIOUS
      <4>4. Same(second) /\ Same(next)
        BY <1>2, <3>4, <4>1, <4>2, <4>3 DEF SequentialShape, Searches, FoldKinds, Equalities
      <4>5. /\ TaskReceive(t, child, value).task \in {t, second, next}
            /\ TaskReceive(t, child, value).step.op \in {"Push", "Return", "Error"}
        BY <1>2, <3>4, <4>1, <4>2, <4>3 DEF SumReceive, SequentialShape
      <4> QED
        BY <2>3, <4>4, <4>5
    <3>5. CASE t.kind = "Mean"
      <4>1. TaskReceive(t, child, value) = MeanReceive(t, value)
        BY <2>1, <3>5 DEF TaskReceive, Searches, FoldKinds, Equalities
      <4>2. PICK plus : plus = [t EXCEPT !.step = value, !.state = "ApplyPlusSecond"]
        OBVIOUS
      <4>3. PICK div : div = [t EXCEPT !.step = value, !.state = "ApplyDivSecond"]
        OBVIOUS
      <4>4. PICK next : next = [t EXCEPT !.acc = value, !.step = Missing, !.next_index = @ + 1,
                        !.state = IF IsLast(t) THEN "ApplyDivFirst" ELSE "ApplyPlusFirst"]
        OBVIOUS
      <4>5. Same(plus) /\ Same(div) /\ Same(next)
        BY <1>2, <3>5, <4>1, <4>2, <4>3, <4>4 DEF SequentialShape, Searches, FoldKinds, Equalities
      <4>6. /\ TaskReceive(t, child, value).task \in {t, plus, div, next}
            /\ TaskReceive(t, child, value).step.op \in {"Push", "Return", "Error"}
        BY <1>2, <3>5, <4>1, <4>2, <4>3, <4>4 DEF MeanReceive
      <4> QED
        BY <2>3, <4>5, <4>6
    <3>6. CASE t.kind \in UnaryKinds
      <4>1. TaskReceive(t, child, value) = UnaryReceive(t, value)
        BY <2>1, <3>6 DEF TaskReceive, Searches, FoldKinds, Equalities, UnaryKinds
      <4>2. /\ UnaryReceive(t, value).task = t
            /\ UnaryReceive(t, value).step.op \in {"Return", "Error"}
        BY <3>6 DEF UnaryReceive, UnaryKinds
      <4> QED
        BY <2>3, <4>1, <4>2
    <3> QED
      BY <1>2, <3>1, <3>2, <3>3, <3>4, <3>5, <3>6 DEF SequentialShape, SequentialKinds
  <2> HIDE DEF Same
  <2> QED
    BY <2>1, <2>2, <2>4 DEF Resumes
<1> QED
  BY <1>1, <1>2, TaskShapes

-----------------------------------------------------------------------------
(* Applying a function value.                                               *)

\* What an application or a lookup answers.
Answers(answer) ==
    /\ answer.op \in {"Value", "Push", "PushFrame", "AwaitNative", "Error"}
    /\ answer.op = "PushFrame" => GoodTask(answer.task)

\* A native with all its arguments answers, starts a frame, calls the host or fails.
LEMMA CallNativeAnswers ==
    ASSUME NEW name, NEW args
    PROVE  Answers(CallNative(name, args))
<1> USE DEF Answers, Value, Error, PushFrame, AwaitNative
<1>1. CASE Natives[name].callable = "constant"
  BY <1>1 DEF CallNative
<1>2. CASE /\ Natives[name].callable = "scheduler"
           /\ name \in ReadyNatives \cup CallbackNatives
  <2>1. PICK answer : answer = IF name \in ReadyNatives THEN Intrinsic(name, args)
                               ELSE SchedulerNative(name, args)
    OBVIOUS
  <2>2. Prepared(answer)
    <3>1. CASE name \in ReadyNatives
      BY <2>1, <3>1, NewTasks DEF ReadyNatives, Intrinsic
    <3>2. CASE name \notin ReadyNatives
      BY <1>2, <2>1, <3>2, SchedulerNativeTasks
    <3> QED
      BY <3>1, <3>2
  <2>3. CallNative(name, args) = CASE answer.op = "Ready" -> Value(answer.value)
                                   [] answer.op = "Task"  -> PushFrame(answer.task)
                                   [] OTHER               -> Error(answer.error)
    BY <1>2, <2>1 DEF CallNative
  <2> QED
    BY <2>2, <2>3 DEF Prepared
<1>3. CASE /\ Natives[name].callable # "constant"
           /\ ~(/\ Natives[name].callable = "scheduler"
                /\ name \in ReadyNatives \cup CallbackNatives)
  BY <1>3 DEF CallNative
<1> QED
  BY <1>1, <1>2, <1>3

\* A class method answers, is evaluated or fails.
LEMMA MethodPlanAnswers ==
    ASSUME NEW name, NEW inst, NEW arrows
    PROVE  /\ Answers(MethodPlan(name, inst, arrows))
           /\ MethodPlan(name, inst, arrows).op # "PushFrame"
<1> USE DEF Answers, Value, Error, Evaluate
<1>1. CASE inst \in DOMAIN Methods[name].instances
  <2>1. CASE inst # "?"
    BY <1>1, <2>1 DEF MethodPlan
  <2>2. CASE inst = "?"
    BY <1>1, <2>2 DEF MethodPlan
  <2> QED
    BY <2>1, <2>2
<1>2. CASE inst \notin DOMAIN Methods[name].instances
  BY <1>2 DEF MethodPlan
<1> QED
  BY <1>1, <1>2

\* Applying a function answers, starts one frame, calls the host or fails.
LEMMA ApplyAnswers ==
    ASSUME NEW func, NEW arg
    PROVE  Answers(ApplyArg(func, arg))
<1>1. CASE func[1] = "closure"
  BY <1>1 DEF ApplyArg, Answers, Evaluate
<1>2. CASE func[1] = "native"
  <2>1. ApplyArg(func, arg) = NativeApply(func, arg)
    BY <1>2 DEF ApplyArg
  <2>2. PICK applied : applied = Append(func[4], arg)
    OBVIOUS
  <2>3. \/ NativeApply(func, arg).op \in {"Error", "Value"}
        \/ NativeApply(func, arg) = CallNative(func[2], applied)
    <3>1. CASE Natives[func[2]].arity = 0 \/ func[3] = 0 \/ func[3] > 1
      BY <3>1 DEF NativeApply, Error, Value
    <3>2. CASE ~(Natives[func[2]].arity = 0 \/ func[3] = 0 \/ func[3] > 1)
      BY <2>2, <3>2, Zenon DEF NativeApply
    <3> QED
      BY <3>1, <3>2
  <2> QED
    BY <2>1, <2>3, CallNativeAnswers DEF Answers
<1>3. CASE func[1] = "overloaded"
  <2>1. ApplyArg(func, arg) = OverloadedApply(func, arg)
    BY <1>3 DEF ApplyArg
  <2>2. PICK applied : applied = Append(func[3], arg)
    OBVIOUS
  <2>3. PICK plan : plan = MethodPlan(func[2], applied[1][1], Methods[func[2]].arrows)
    OBVIOUS
  <2>4. \/ OverloadedApply(func, arg) = Value(OverloadedValue(func[2], applied))
        \/ OverloadedApply(func, arg) = plan
        \/ OverloadedApply(func, arg) = Evaluate(SyntheticApp(plan.expr, applied),
                                                 ArgEnv(applied) @@ plan.env)
    BY <2>2, <2>3, Zenon DEF OverloadedApply
  <2>5. Answers(plan)
    BY <2>3, MethodPlanAnswers
  <2> QED
    BY <2>1, <2>4, <2>5 DEF Answers, Value, Evaluate
<1>4. CASE func[1] \notin {"closure", "native", "overloaded"}
  BY <1>4 DEF ApplyArg, Answers, Error
<1> QED
  BY <1>1, <1>2, <1>3, <1>4

\* So does looking up a value,
LEMMA LookedUpAnswers ==
    ASSUME NEW v
    PROVE  Answers(LookedUp(v))
<1>1. LookedUp(v) \in {CallNative(v[2], <<>>), Value(v)}
  BY DEF LookedUp
<1>2. Answers(Value(v))
  BY DEF Answers, Value
<1> QED
  BY <1>1, <1>2, CallNativeAnswers

\* and looking up a name.
LEMMA ResolveAnswers ==
    ASSUME NEW m, NEW env, NEW x
    PROVE  Answers(Resolve(m, env, x))
<1>1. PICK a : a = LookedUp(Cell(m, env[x.name]))
  OBVIOUS
<1>2. PICK b : b = MethodPlan(x.name, x.inst, x.arrows)
  OBVIOUS
<1>3. PICK c : c = LookedUp(NativeValue(x.name, x.arrows, <<>>))
  OBVIOUS
<1>4. Answers(a) /\ Answers(b) /\ Answers(c) /\ Answers(Error("UnknownVar"))
  <2>1. Answers(a) /\ Answers(c)
    BY <1>1, <1>3, LookedUpAnswers
  <2>2. Answers(b)
    BY <1>2, MethodPlanAnswers
  <2>3. Answers(Error("UnknownVar"))
    BY DEF Answers, Error
  <2> QED
    BY <2>1, <2>2, <2>3
<1>5. Resolve(m, env, x) = CASE x.name \in DOMAIN env     -> a
                             [] x.name \in DOMAIN Methods -> b
                             [] x.name \in DOMAIN Natives -> c
                             [] OTHER                     -> Error("UnknownVar")
  BY <1>1, <1>2, <1>3, Zenon DEF Resolve
<1> QED
  BY <1>4, <1>5

-----------------------------------------------------------------------------
(* What a step may do with the frame whose item it took.                    *)

MachineFields == {"frames", "next_id", "slots"}

\* The frames the machine n has in place of those of m: only frame id differs,
\* and not in its parent or its kind.
Kept(m, id, n) ==
    /\ DOMAIN n = MachineFields
    /\ DOMAIN n.frames = DOMAIN m.frames /\ n.next_id = m.next_id
    /\ \A x \in DOMAIN m.frames \ {id} : n.frames[x] = m.frames[x]
    /\ GoodFrame(n.frames[id])
    /\ n.frames[id].parent = m.frames[id].parent /\ n.frames[id].kind = m.frames[id].kind

\* One new frame is asked for and the frame counts nothing.
Asks(m, id, did) ==
    /\ did.control.op \in {"Push", "PushFrame", "AwaitNative"}
    /\ did.control.op = "PushFrame" => GoodTask(did.control.task)
    /\ Kept(m, id, did.m) /\ ~Collecting(did.m.frames[id])

\* A frame that was just made for a child of id.
Made(frame, id) ==
    GoodFrame(frame) /\ frame.parent = id /\ ~Collecting(frame)

\* n frames are new and the frame counts them.
FansTo(m, id, did, n) ==
    LET new == m.next_id .. m.next_id + n - 1
        all == did.m.frames
    IN  /\ did.control = Schedule(NewIds(m, n))
        /\ DOMAIN all = DOMAIN m.frames \cup new
        /\ did.m.next_id = m.next_id + n
        /\ \A x \in new : Made(all[x], id)
        /\ \A x \in DOMAIN m.frames \ {id} : all[x] = m.frames[x]
        /\ GoodFrame(all[id])
        /\ all[id].parent = m.frames[id].parent /\ all[id].kind = m.frames[id].kind
        /\ Collecting(all[id]) /\ Outstanding(all[id]) = n

Fans(m, id, did) == \E n \in 1..MaxFan : FansTo(m, id, did, n)

Returns(m, id, did) == did.control.op = "Return" /\ Kept(m, id, did.m)

\* The frame goes on counting.
Waits(m, id, did) ==
    /\ did.control.op = "Wait"
    /\ Kept(m, id, did.m) /\ Collecting(did.m.frames[id])
    /\ Outstanding(did.m.frames[id]) = Outstanding(m.frames[id]) - 1

Fails(did) ==
    did.control.op \notin {"Push", "PushFrame", "Schedule", "Wait", "AwaitNative", "Return"}

\* A frame that may take the place of frame id.
Alike(m, id, frame) ==
    /\ GoodFrame(frame)
    /\ frame.parent = m.frames[id].parent /\ frame.kind = m.frames[id].kind

\* A list of things to schedule, within the bound.
Bounded(s) == s = [i \in 1..Len(s) |-> s[i]] /\ Len(s) \in 0..MaxFan - 1

\* A machine with a good frame id, whose fan-out is within bounds.
WellFormed(m, id) ==
    /\ DOMAIN m = MachineFields /\ m.next_id \in Nat
    /\ \A x \in DOMAIN m.frames : x \in 0..m.next_id - 1
    /\ id \in DOMAIN m.frames /\ GoodFrame(m.frames[id])
    /\ Bounded(FanOutOf(m.frames[id]))

\* The two parts of what an operation leaves.
LEMMA DidIs == \A m, control : Did(m, control).m = m /\ Did(m, control).control = control
BY DEF Did

\* A new frame for an expression.
LEMMA FrameForMade ==
    ASSUME NEW id, NEW expr, NEW env
    PROVE  Made(FrameFor(id, expr, env), id) /\ FrameFor(id, expr, env).kind = "Expr"
BY DEF Made, FrameFor, GoodFrame, FrameFields, Collecting

\* The machine with a frame replaced.
LEMMA ReplaceIs ==
    ASSUME NEW m, DOMAIN m = MachineFields, NEW id \in DOMAIN m.frames, NEW frame
    PROVE  LET n == Replace(m, id, frame)
           IN  /\ DOMAIN n = MachineFields /\ DOMAIN n.frames = DOMAIN m.frames
               /\ n.next_id = m.next_id /\ n.frames[id] = frame
               /\ \A x \in DOMAIN m.frames \ {id} : n.frames[x] = m.frames[x]
BY DEF Replace, MachineFields

\* The machine with frames inserted.
LEMMA InsertIs ==
    ASSUME NEW m, DOMAIN m = MachineFields, NEW new, Len(new) \in Nat
    PROVE  LET n   == InsertAll(m, new)
               ids == m.next_id .. m.next_id + Len(new) - 1
           IN  /\ DOMAIN n.frames = DOMAIN m.frames \cup ids
               /\ n.next_id = m.next_id + Len(new)
               /\ \A x \in ids : n.frames[x] = new[x - m.next_id + 1]
               /\ \A x \in DOMAIN m.frames \ ids : n.frames[x] = m.frames[x]
BY DEF InsertAll, MachineFields

\* Frame id becomes frame and gets n children made for it.
LEMMA FanIs ==
    ASSUME NEW m, NEW id, WellFormed(m, id), NEW frame, NEW n \in 1..MaxFan, NEW new,
           Len(new) = n, \A i \in 1..n : Made(new[i], id),
           Alike(m, id, frame), Collecting(frame), Outstanding(frame) = n
    PROVE  FansTo(m, id, Did(InsertAll(Replace(m, id, frame), new), Schedule(NewIds(m, n))), n)
<1>1. PICK r : r = Replace(m, id, frame)
  OBVIOUS
<1>2. /\ DOMAIN r = MachineFields /\ DOMAIN r.frames = DOMAIN m.frames
      /\ r.next_id = m.next_id /\ r.frames[id] = frame
      /\ \A x \in DOMAIN m.frames \ {id} : r.frames[x] = m.frames[x]
  <2>1. DOMAIN m = MachineFields /\ id \in DOMAIN m.frames
    BY DEF WellFormed
  <2> QED
    BY <1>1, <2>1, ReplaceIs
<1>3. PICK a, ids : a = InsertAll(r, new) /\ ids = m.next_id .. m.next_id + n - 1
  OBVIOUS
<1>4. /\ DOMAIN a.frames = DOMAIN m.frames \cup ids
      /\ a.next_id = m.next_id + n
      /\ \A x \in ids : a.frames[x] = new[x - m.next_id + 1]
      /\ \A x \in DOMAIN m.frames \ ids : a.frames[x] = r.frames[x]
  <2>1. Len(new) \in Nat
    BY FramesAssumed
  <2>2. PICK k : k = r.next_id .. r.next_id + Len(new) - 1
    OBVIOUS
  <2>3. /\ DOMAIN a.frames = DOMAIN r.frames \cup k
        /\ a.next_id = r.next_id + Len(new)
        /\ \A x \in k : a.frames[x] = new[x - r.next_id + 1]
        /\ \A x \in DOMAIN r.frames \ k : a.frames[x] = r.frames[x]
    <3>1. a = InsertAll(r, new) /\ DOMAIN r = MachineFields
      BY <1>2, <1>3
    <3> QED
      BY ONLY <2>1, <2>2, <3>1, InsertIs, ZenonT(40)
  <2>4. k = ids
    BY <1>2, <1>3, <2>2
  <2> QED
    BY <1>2, <2>3, <2>4
<1>5. m.next_id \in Nat /\ \A x \in DOMAIN m.frames : x \notin ids
  BY <1>3, FramesAssumed DEF WellFormed
<1>6. \A x \in ids : x - m.next_id + 1 \in 1..n
  BY <1>3, <1>5, FramesAssumed
<1>7. \A x \in ids : Made(a.frames[x], id)
  BY <1>4, <1>6
<1>8. a.frames[id] = frame /\ \A x \in DOMAIN m.frames \ {id} : a.frames[x] = m.frames[x]
  BY <1>2, <1>4, <1>5 DEF WellFormed
<1>9. PICK did : did = Did(a, Schedule(NewIds(m, n)))
  OBVIOUS
<1>10. FansTo(m, id, did, n)
  <2>1. did.m = a /\ did.control = Schedule(NewIds(m, n))
    BY <1>9, DidIs
  <2> QED
    BY <1>3, <1>4, <1>7, <1>8, <2>1 DEF FansTo, Alike
<1> QED
  BY <1>1, <1>3, <1>9, <1>10

\* FanOutTo is such a step, for frames that keep a place for each result.
LEMMA FanOutIs ==
    ASSUME NEW m, NEW id, WellFormed(m, id), NEW frame, NEW exprs, Len(exprs) \in 1..MaxFan,
           Alike(m, id, frame), frame.kind = "Expr", Collecting(frame)
    PROVE  Fans(m, id, FanOutTo(m, id, frame, exprs))
<1>1. PICK n \in 1..MaxFan : n = Len(exprs)
  OBVIOUS
<1>2. PICK g : g = [frame EXCEPT !.children = NewIds(m, n),
                                 !.values = [i \in 1..n |-> Missing],
                                 !.remaining = n]
  OBVIOUS
<1>3. Alike(m, id, g) /\ Collecting(g) /\ Outstanding(g) = n
  BY <1>2 DEF Alike, GoodFrame, FrameFields, Collecting, Outstanding
<1>4. PICK new : new = [i \in 1..n |-> FrameFor(id, exprs[i], frame.env)]
  OBVIOUS
<1>5. Len(new) = n /\ \A i \in 1..n : Made(new[i], id)
  BY <1>4, FrameForMade, FramesAssumed
<1>6. FanOutTo(m, id, frame, exprs)
          = Did(InsertAll(Replace(m, id, g), new), Schedule(NewIds(m, n)))
  BY <1>1, <1>2, <1>4, Zenon DEF FanOutTo
<1>7. FansTo(m, id, FanOutTo(m, id, frame, exprs), n)
  BY <1>3, <1>5, <1>6, FanIs
<1> QED
  BY <1>7 DEF Fans

\* Frame id is replaced, or nothing changes.
LEMMA ReplaceKeeps ==
    ASSUME NEW m, NEW id, WellFormed(m, id), NEW n, DOMAIN n = MachineFields,
           n.frames = m.frames, n.next_id = m.next_id, NEW frame, Alike(m, id, frame)
    PROVE  Kept(m, id, Replace(n, id, frame)) /\ Replace(n, id, frame).frames[id] = frame
<1>1. PICK r : r = Replace(n, id, frame)
  OBVIOUS
<1>2. /\ DOMAIN r = MachineFields /\ DOMAIN r.frames = DOMAIN m.frames
      /\ r.next_id = m.next_id /\ r.frames[id] = frame
      /\ \A x \in DOMAIN m.frames \ {id} : r.frames[x] = m.frames[x]
  <2>1. id \in DOMAIN n.frames
    BY DEF WellFormed
  <2> QED
    BY <1>1, <2>1, ReplaceIs
<1>3. Kept(m, id, r)
  BY <1>2 DEF Kept, Alike
<1> QED
  BY <1>1, <1>2, <1>3

\* Frame id is replaced by one like it.
LEMMA ReplaceSameKeeps ==
    ASSUME NEW m, NEW id, WellFormed(m, id), NEW frame, Alike(m, id, frame)
    PROVE  Kept(m, id, Replace(m, id, frame)) /\ Replace(m, id, frame).frames[id] = frame
<1>1. DOMAIN m = MachineFields
  BY DEF WellFormed
<1> QED
  BY <1>1, ReplaceKeeps

\* Nothing changes.
LEMMA SameKeeps ==
    ASSUME NEW m, NEW id, WellFormed(m, id)
    PROVE  Kept(m, id, m)
BY DEF Kept, WellFormed

\* A list within bounds is a sequence.
LEMMA BoundedIsSeq ==
    ASSUME NEW s, Bounded(s)
    PROVE  /\ Len(s) \in Nat /\ Len(s) \in 0..MaxFan - 1
           /\ s # <<>> => Len(s) \in 1..MaxFan
           /\ \E S : s \in Seq(S)
<1>1. PICK n \in 0..MaxFan - 1 : n = Len(s)
  BY DEF Bounded
<1>2. n \in Nat
  BY FramesAssumed
<1>3. PICK S : S = {s[i] : i \in 1..n}
  OBVIOUS
<1>4. s = [i \in 1..n |-> s[i]]
  BY <1>1 DEF Bounded
<1>5. [i \in 1..n |-> s[i]] \in Seq(S)
  BY <1>2, <1>3
<1>6. s \in Seq(S)
  BY <1>4, <1>5, Zenon
<1>7. s # <<>> => n # 0
  BY <1>1, <1>6
<1>8. s # <<>> => n \in 1..MaxFan
  BY <1>2, <1>7, FramesAssumed
<1>9. \E T : s \in Seq(T)
  BY <1>6
<1> QED
  BY <1>1, <1>2, <1>8, <1>9

\* How did follows the turn that the task of frame id has taken.
NativeTurns(m, id, stepped, did) ==
    LET t  == stepped.task
        op == stepped.step.op
    IN  /\ op \in {"Push", "PushVar"} /\ t.kind \notin FanOutKinds => Asks(m, id, did)
        /\ /\ op = "Schedule" /\ t.kind \in FanOutKinds /\ t.args # <<>>
           /\ t.args = m.frames[id].task.args /\ t.remaining = Len(t.args)
           => Fans(m, id, did)
        /\ op \notin {"Push", "PushVar", "Schedule"} =>
               /\ did.control = stepped.step /\ Kept(m, id, did.m)
               /\ did.m.frames[id].kind = "NativeCall"
               /\ did.m.frames[id].state = "Waiting" /\ did.m.frames[id].task = t

\* native_step_to_control.
LEMMA NativeControlIs ==
    ASSUME NEW m, NEW id, WellFormed(m, id), m.frames[id].kind = "NativeCall",
           NEW stepped, GoodTask(stepped.task), stepped.task.kind = m.frames[id].task.kind
    PROVE  NativeTurns(m, id, stepped, NativeControl(m, id, stepped))
<1>1. PICK t, step, did : /\ t = stepped.task /\ step = stepped.step
                          /\ did = NativeControl(m, id, stepped)
  OBVIOUS
<1>2. PICK g : g = [m.frames[id] EXCEPT !.state = "Waiting", !.task = t]
  OBVIOUS
<1>3. /\ Alike(m, id, g)
      /\ g.kind = "NativeCall" /\ g.state = "Waiting" /\ g.task = t
      /\ Collecting(g) <=> t.kind \in FanOutKinds
  BY <1>1, <1>2 DEF WellFormed, Alike, GoodFrame, FrameFields, Collecting
<1>4. Kept(m, id, Replace(m, id, g)) /\ Replace(m, id, g).frames[id] = g
  BY <1>3, ReplaceSameKeeps
<1>5. ASSUME step.op \in {"Push", "PushVar"}
      PROVE  \E expr, env : did = Did(Replace(m, id, g), Evaluate(expr, env))
  BY <1>1, <1>2, <1>5 DEF NativeControl
<1>6. ASSUME step.op \in {"Push", "PushVar"}, t.kind \notin FanOutKinds
      PROVE  Asks(m, id, did)
  <2>1. PICK expr, env : did = Did(Replace(m, id, g), Evaluate(expr, env))
    BY <1>5, <1>6
  <2>2. did.m = Replace(m, id, g) /\ did.control.op = "Push"
    BY <2>1, DidIs DEF Evaluate
  <2> QED
    BY <1>3, <1>4, <1>6, <2>2 DEF Asks
<1>7. ASSUME step.op = "Schedule", t.kind \in FanOutKinds, t.args # <<>>,
             t.args = m.frames[id].task.args, t.remaining = Len(t.args)
      PROVE  Fans(m, id, did)
  <2>1. FanOutOf(m.frames[id]) = t.args
    BY <1>1, <1>7 DEF FanOutOf
  <2>2. PICK n \in 1..MaxFan : n = Len(t.args)
    <3>1. Bounded(t.args)
      BY <2>1 DEF WellFormed
    <3>2. Len(t.args) \in 1..MaxFan
      BY <1>7, <3>1, BoundedIsSeq
    <3> QED
      BY <3>2
  <2>3. PICK h : h = [g EXCEPT !.task = WithChildren(t, NewIds(m, n))]
    OBVIOUS
  <2>4. /\ WithChildren(t, NewIds(m, n)).kind = t.kind
        /\ WithChildren(t, NewIds(m, n)).remaining = t.remaining
        /\ GoodTask(WithChildren(t, NewIds(m, n)))
    <3>1. FanOutShape(t)
      BY <1>1, <1>7, TaskShapes DEF SequentialShape
    <3>2. PICK u : u = WithChildren(t, NewIds(m, n))
      OBVIOUS
    <3>3. DOMAIN u = DOMAIN t /\ u.kind = t.kind /\ u.remaining = t.remaining
      BY <3>1, <3>2 DEF WithChildren, FanOutShape
    <3>4. GoodTask(u)
      BY <3>1, <3>3, TaskShapes DEF FanOutShape
    <3> QED
      BY <3>2, <3>3, <3>4
  <2>5. Alike(m, id, h) /\ Collecting(h) /\ Outstanding(h) = n
    BY <1>3, <1>7, <2>2, <2>3, <2>4 DEF Alike, GoodFrame, FrameFields, Collecting, Outstanding
  <2>6. PICK new : /\ did = Did(InsertAll(Replace(m, id, h), new), Schedule(NewIds(m, n)))
                   /\ Len(new) = n
                   /\ \A i \in 1..n : \E expr, env : new[i] = FrameFor(id, expr, env)
    <3> DEFINE Applied(func, arg) ==
            [expr |-> App(Var(FuncName, 1, "none"), <<Var(ArgName(1), 0, "none")>>),
             env  |-> (FuncName :> func) @@ (ArgName(1) :> arg)]
        Child(arg) == FrameFor(id, Applied(t.func, arg).expr, Applied(t.func, arg).env)
        new == [i \in 1..n |-> Child(t.args[i])]
    <3>1. did = Did(InsertAll(Replace(m, id, h), new), Schedule(NewIds(m, n)))
      BY <1>1, <1>2, <1>7, <2>2, <2>3 DEF NativeControl
    <3> HIDE DEF Applied
    <3>2. Len(new) = n /\ \A i \in 1..n : new[i] = Child(t.args[i])
      BY FramesAssumed
    <3> HIDE DEF new
    <3> QED
      BY <3>1, <3>2
  <2>7. \A i \in 1..n : Made(new[i], id)
    BY <2>6, FrameForMade
  <2>8. FansTo(m, id, did, n)
    BY <2>5, <2>6, <2>7, FanIs
  <2> QED
    BY <2>8 DEF Fans
<1>8. ASSUME step.op \notin {"Push", "PushVar", "Schedule"}
      PROVE  /\ did.control = step /\ Kept(m, id, did.m)
             /\ did.m.frames[id].kind = "NativeCall"
             /\ did.m.frames[id].state = "Waiting" /\ did.m.frames[id].task = t
  <2>1. did = Did(Replace(m, id, g), step)
    BY <1>1, <1>2, <1>8 DEF NativeControl
  <2> QED
    BY <1>3, <1>4, <2>1, DidIs
<1> QED
  BY <1>1, <1>6, <1>7, <1>8 DEF NativeTurns

\* The next argument of an application is being applied.
Applying(m, id, frame, func, arg, next) ==
    Did(Replace(m, id, [frame EXCEPT !.func = func, !.next = next, !.state = "ApplyArg"]),
        ApplyArg(func, arg))

\* continue_app_after_apply: the application is complete, or goes on.
LEMMA ContinueAppIs ==
    ASSUME NEW m, NEW id, NEW frame
    PROVE  \/ \E v : ContinueApp(m, id, frame) = Did(m, Return(v))
           \/ \E func, arg, next : ContinueApp(m, id, frame)
                                       = Applying(m, id, frame, func, arg, next)
BY Zenon DEF ContinueApp, Applying

\* An application goes on, with a value or with one frame for its next argument.
LEMMA ContinueAppOutcome ==
    ASSUME NEW m, NEW id, WellFormed(m, id), NEW frame, Alike(m, id, frame),
           frame.kind = "Expr"
    PROVE  LET did == ContinueApp(m, id, frame)
           IN  Returns(m, id, did) \/ Asks(m, id, did) \/ Fails(did)
<1>1. ASSUME NEW v PROVE Returns(m, id, Did(m, Return(v)))
  <2>1. Did(m, Return(v)).m = m /\ Did(m, Return(v)).control.op = "Return"
    BY DidIs DEF Return
  <2> QED
    BY <2>1, SameKeeps DEF Returns
<1>2. ASSUME NEW func, NEW arg, NEW next
      PROVE  \/ Asks(m, id, Applying(m, id, frame, func, arg, next))
             \/ Fails(Applying(m, id, frame, func, arg, next))
  <2>1. PICK g : g = [frame EXCEPT !.func = func, !.next = next, !.state = "ApplyArg"]
    OBVIOUS
  <2>2. Alike(m, id, g) /\ ~Collecting(g)
    BY <2>1 DEF Alike, GoodFrame, FrameFields, Collecting
  <2>3. Kept(m, id, Replace(m, id, g)) /\ Replace(m, id, g).frames[id] = g
    BY <2>2, ReplaceSameKeeps
  <2>4. PICK did : did = Did(Replace(m, id, g), ApplyArg(func, arg))
    OBVIOUS
  <2>5. did.m = Replace(m, id, g) /\ did.control = ApplyArg(func, arg)
    BY <2>4, DidIs
  <2>6. Answers(did.control)
    BY <2>5, ApplyAnswers
  <2>7. Asks(m, id, did) \/ Fails(did)
    BY <2>2, <2>3, <2>5, <2>6 DEF Asks, Fails, Answers
  <2> QED
    BY <2>1, <2>4, <2>7 DEF Applying
<1>3. CASE \E v : ContinueApp(m, id, frame) = Did(m, Return(v))
  BY <1>1, <1>3
<1>4. CASE \E func, arg, next : ContinueApp(m, id, frame)
                                    = Applying(m, id, frame, func, arg, next)
  BY <1>2, <1>4
<1> QED
  BY <1>3, <1>4, ContinueAppIs

-----------------------------------------------------------------------------
(* Entering.                                                                *)

\* A frame starts by evaluating one expression, with a new state.
LEMMA StartAsks ==
    ASSUME NEW m, NEW id, WellFormed(m, id), m.frames[id].kind = "Expr",
           NEW state, state \notin {"EvalItem", "EvalUpdate", "EvalChildren"},
           NEW expr, NEW env, NEW did,
           did = Did(Replace(m, id, [m.frames[id] EXCEPT !.state = state]), Evaluate(expr, env))
    PROVE  Asks(m, id, did)
<1>1. PICK g : g = [m.frames[id] EXCEPT !.state = state]
  OBVIOUS
<1>2. Alike(m, id, g) /\ ~Collecting(g)
  BY <1>1 DEF WellFormed, Alike, GoodFrame, FrameFields, Collecting
<1>3. Kept(m, id, Replace(m, id, g)) /\ Replace(m, id, g).frames[id] = g
  BY <1>2, ReplaceSameKeeps
<1>4. did.m = Replace(m, id, g) /\ did.control.op = "Push"
  BY <1>1, DidIs DEF Evaluate
<1> QED
  BY <1>2, <1>3, <1>4 DEF Asks

EnterDoes(m, id, did) ==
    Asks(m, id, did) \/ Fans(m, id, did) \/ Returns(m, id, did) \/ Fails(did)

\* A native call frame enters.
LEMMA EnterNative ==
    ASSUME NEW m, NEW id, WellFormed(m, id), m.frames[id].kind = "NativeCall"
    PROVE  EnterDoes(m, id, NativeControl(m, id, TaskEnter(m.frames[id].task)))
<1>1. PICK t, stepped, did : /\ t = m.frames[id].task /\ stepped = TaskEnter(t)
                             /\ did = NativeControl(m, id, stepped)
  OBVIOUS
<1>2. GoodTask(t)
  BY <1>1 DEF WellFormed, GoodFrame
<1>3. Starts(t, stepped)
  BY <1>1, <1>2, TaskStarts
<1>4. /\ stepped.step.op \in {"Push", "PushVar"} /\ stepped.task.kind \notin FanOutKinds
         => Asks(m, id, did)
      /\ /\ stepped.step.op = "Schedule" /\ stepped.task.kind \in FanOutKinds
         /\ stepped.task.args # <<>> /\ stepped.task.args = t.args
         /\ stepped.task.remaining = Len(stepped.task.args)
         => Fans(m, id, did)
      /\ stepped.step.op \notin {"Push", "PushVar", "Schedule"}
         => did.control = stepped.step /\ Kept(m, id, did.m)
  <2>1. GoodTask(stepped.task) /\ stepped.task.kind = m.frames[id].task.kind
    BY <1>1, <1>3 DEF Starts
  <2>2. WellFormed(m, id) /\ m.frames[id].kind = "NativeCall"
    OBVIOUS
  <2>3. NativeTurns(m, id, stepped, did)
    <3>1. NativeTurns(m, id, stepped, NativeControl(m, id, stepped))
      BY ONLY <2>1, <2>2, NativeControlIs
    <3> QED
      BY ONLY <1>1, <3>1
  <2> QED
    BY ONLY <1>1, <2>3 DEF NativeTurns
<1>5. CASE stepped.step.op \in {"Push", "PushVar"}
  BY <1>1, <1>3, <1>4, <1>5 DEF Starts, EnterDoes
<1>6. CASE stepped.step.op = "Schedule"
  BY <1>1, <1>3, <1>4, <1>6 DEF Starts, EnterDoes
<1>7. CASE stepped.step.op \in {"Return", "Error"}
  BY <1>1, <1>4, <1>7 DEF EnterDoes, Returns, Fails
<1> QED
  BY <1>1, <1>3, <1>5, <1>6, <1>7 DEF Starts

\* A tuple, list, dictionary or record update enters.
LEMMA EnterSequenceDoes ==
    ASSUME NEW m, NEW id, WellFormed(m, id), m.frames[id].kind = "Expr",
           m.frames[id].expr.e = "sequence"
    PROVE  EnterDoes(m, id, EnterSequence(m, id))
<1>1. PICK frame, items : frame = m.frames[id] /\ items = frame.expr.items
  OBVIOUS
<1>2. CASE items = <<>>
  <2>1. EnterSequence(m, id) = Did(m, Return(SequenceValue(frame.expr, <<>>)))
    BY <1>1, <1>2, Zenon DEF EnterSequence
  <2>2. EnterSequence(m, id).m = m /\ EnterSequence(m, id).control.op = "Return"
    BY <2>1, DidIs DEF Return
  <2> QED
    BY <2>2, SameKeeps DEF EnterDoes, Returns
<1>3. CASE items # <<>>
  <2>1. PICK g : g = [frame EXCEPT !.state = "EvalItem"]
    OBVIOUS
  <2>2. EnterSequence(m, id) = FanOutTo(m, id, g, items)
    BY <1>1, <1>3, <2>1, Zenon DEF EnterSequence
  <2>3. GoodFrame(frame)
    BY <1>1 DEF WellFormed
  <2>4. Alike(m, id, g) /\ Collecting(g) /\ g.kind = "Expr"
    BY <1>1, <2>1, <2>3 DEF Alike, GoodFrame, FrameFields, Collecting
  <2>5. Bounded(items)
    <3>1. FanOutOf(frame) = items
      BY <1>1 DEF FanOutOf
    <3> QED
      BY <1>1, <3>1 DEF WellFormed
  <2>6. Len(items) \in 1..MaxFan
    BY <1>3, <2>5, BoundedIsSeq
  <2>7. Fans(m, id, EnterSequence(m, id))
    BY <1>1, <2>2, <2>4, <2>6, FanOutIs
  <2> QED
    BY <2>7 DEF EnterDoes
<1> QED
  BY <1>2, <1>3

\* An application enters.
LEMMA EnterAppDoes ==
    ASSUME NEW m, NEW id, WellFormed(m, id), m.frames[id].kind = "Expr",
           m.frames[id].expr.e = "app"
    PROVE  EnterDoes(m, id, EnterApp(m, id))
<1>1. PICK frame, args : frame = m.frames[id] /\ args = frame.expr.args
  OBVIOUS
<1>2. PICK g, exprs : /\ g = [frame EXCEPT !.state = "EvalChildren"]
                      /\ exprs = <<frame.expr.head>> \o args
  OBVIOUS
<1>3. EnterApp(m, id) = FanOutTo(m, id, g, exprs)
  BY <1>1, <1>2, Zenon DEF EnterApp
<1>4. GoodFrame(frame)
  BY <1>1 DEF WellFormed
<1>5. Alike(m, id, g) /\ Collecting(g) /\ g.kind = "Expr"
  BY <1>1, <1>2, <1>4 DEF Alike, GoodFrame, FrameFields, Collecting
<1>6. Bounded(args)
  <2>1. FanOutOf(frame) = args
    BY <1>1 DEF FanOutOf
  <2> QED
    BY <1>1, <2>1 DEF WellFormed
<1>7. Len(exprs) \in 1..MaxFan
  <2>1. PICK S : args \in Seq(S)
    BY <1>6, BoundedIsSeq
  <2>2. PICK T : T = S \cup {frame.expr.head}
    OBVIOUS
  <2>3. args \in Seq(T) /\ <<frame.expr.head>> \in Seq(T) /\ Len(<<frame.expr.head>>) = 1
    BY <2>1, <2>2
  <2>4. Len(exprs) = 1 + Len(args)
    BY <1>2, <2>3
  <2>5. Len(args) \in 0..MaxFan - 1
    BY <1>6, BoundedIsSeq
  <2> QED
    BY <2>4, <2>5, FramesAssumed
<1>8. Fans(m, id, EnterApp(m, id))
  BY <1>1, <1>3, <1>5, <1>7, FanOutIs
<1> QED
  BY <1>8 DEF EnterDoes

\* A let rec enters.
LEMMA EnterLetRecDoes ==
    ASSUME NEW m, NEW id, WellFormed(m, id), m.frames[id].kind = "Expr",
           m.frames[id].expr.e = "letrec"
    PROVE  EnterDoes(m, id, EnterLetRec(m, id))
<1>1. PICK frame : frame = m.frames[id] /\ GoodFrame(frame)
  BY DEF WellFormed
<1> DEFINE x     == frame.expr
           cells == [i \in 1..Len(x.names) |-> Len(m.slots) + i]
           env   == [name \in {x.names[i] : i \in 1..Len(x.names)} |->
                        <<"slot", cells[CHOOSE i \in 1..Len(x.names) : x.names[i] = name]>>]
                    @@ frame.env
           state == IF x.names = <<>> THEN "EvalBody" ELSE "EvalBinding"
           expr  == IF x.names = <<>> THEN x.body ELSE x.defs[1]
           moreCells == m.slots \o [i \in 1..Len(x.names) |-> Uninitialized]
           more  == [m EXCEPT !.slots = moreCells]
           g     == [frame EXCEPT !.cells = cells, !.env = env, !.state = state]
<1>2. EnterLetRec(m, id) = Did(Replace(more, id, g), Evaluate(expr, env))
  BY <1>1 DEF EnterLetRec
<1>3. DOMAIN more = MachineFields /\ more.frames = m.frames /\ more.next_id = m.next_id
  <2> HIDE DEF moreCells
  <2> QED
    BY DEF WellFormed, MachineFields
<1>4. state \in {"EvalBody", "EvalBinding"}
  OBVIOUS
<1> HIDE DEF more, cells, env, state, expr
<1>5. Alike(m, id, g) /\ ~Collecting(g)
  BY <1>1, <1>4 DEF Alike, GoodFrame, FrameFields, Collecting
<1> HIDE DEF g
<1>6. Kept(m, id, Replace(more, id, g)) /\ Replace(more, id, g).frames[id] = g
  BY <1>1, <1>3, <1>5, ReplaceKeeps
<1>7. PICK did : did = EnterLetRec(m, id)
  OBVIOUS
<1>8. did.m = Replace(more, id, g) /\ did.control.op = "Push"
  BY <1>2, <1>4, <1>7, DidIs DEF Evaluate
<1>9. Asks(m, id, did)
  BY <1>5, <1>6, <1>8 DEF Asks
<1> QED
  BY <1>7, <1>9 DEF EnterDoes

\* A frame that is entered and makes no child answers or fails as it is.
LEMMA SameDoes ==
    ASSUME NEW m, NEW id, WellFormed(m, id), NEW control, control.op \in {"Return", "Error"}
    PROVE  Returns(m, id, Did(m, control)) \/ Fails(Did(m, control))
<1>1. Did(m, control).m = m /\ Did(m, control).control = control
  BY DidIs
<1> QED
  BY <1>1, SameKeeps DEF Returns, Fails

\* A variable enters.
LEMMA EnterVarDoes ==
    ASSUME NEW m, NEW id, WellFormed(m, id), m.frames[id].kind = "Expr",
           m.frames[id].expr.e = "var", NEW answer, Answers(answer)
    PROVE  EnterDoes(m, id, Did(m, AsControl(answer)))
<1>1. CASE answer.op \in {"Value", "Error"}
  <2>1. AsControl(answer).op \in {"Return", "Error"}
    BY <1>1 DEF AsControl, Return
  <2> QED
    BY <2>1, SameDoes DEF EnterDoes
<1>2. CASE answer.op \in {"Push", "PushFrame", "AwaitNative"}
  <2>1. PICK did : did = Did(m, AsControl(answer))
    OBVIOUS
  <2>2. did.m = m /\ did.control = answer
    BY <1>2, <2>1, DidIs DEF AsControl
  <2>3. ~Collecting(m.frames[id]) /\ Kept(m, id, m)
    BY SameKeeps DEF Collecting
  <2>4. Asks(m, id, did)
    BY <1>2, <2>2, <2>3 DEF Asks, Answers
  <2> QED
    BY <2>1, <2>4 DEF EnterDoes
<1> QED
  BY <1>1, <1>2 DEF Answers

\* Whatever its kind, a frame that enters asks for one frame, fans out, returns or fails.
LEMMA EnterOutcome ==
    ASSUME NEW m, NEW id, WellFormed(m, id)
    PROVE  EnterDoes(m, id, Enter(m, id))
<1>1. PICK frame, x : frame = m.frames[id] /\ x = frame.expr /\ GoodFrame(frame)
  BY DEF WellFormed
<1>2. CASE frame.kind = "NativeCall"
  <2>1. Enter(m, id) = NativeControl(m, id, TaskEnter(frame.task))
    BY <1>1, <1>2 DEF Enter
  <2> QED
    BY <1>1, <1>2, <2>1, EnterNative
<1>3. CASE frame.kind = "NativeHost"
  <2>1. Enter(m, id) = Did(m, Error("Internal")) /\ Error("Internal").op = "Error"
    BY <1>1, <1>3 DEF Enter, Error
  <2> QED
    BY <2>1, SameDoes DEF EnterDoes
<1>4. CASE frame.kind = "Expr"
  <2>1. Enter(m, id) =
          CASE x.e = "literal"  -> Did(m, Return(x.value))
            [] x.e = "sequence" -> EnterSequence(m, id)
            [] x.e = "update"   -> StartWith(m, id, "EvalBase", x.base)
            [] x.e = "var"      -> Did(m, AsControl(Resolve(m, frame.env, x)))
            [] x.e = "app"      -> EnterApp(m, id)
            [] x.e = "project"  -> StartWith(m, id, "Enter", x.base)
            [] x.e = "lam"      -> Did(m, Return(Closure(frame.env, x.param, x.body)))
            [] x.e = "let"      -> StartWith(m, id, "EvalDef", x.def)
            [] x.e = "letrec"   -> EnterLetRec(m, id)
            [] x.e = "ite"      -> StartWith(m, id, "EvalCondition", x.cond)
            [] x.e = "match"    -> StartWith(m, id, "EvalScrutinee", x.scrutinee)
            [] OTHER            -> Did(m, Error("UnsupportedExpr"))
    BY <1>1, <1>4 DEF Enter
  <2>2. CASE x.e \in {"literal", "lam"}
    <3>1. PICK v : Enter(m, id) = Did(m, Return(v)) /\ Return(v).op = "Return"
      BY <2>1, <2>2 DEF Return
    <3> QED
      BY <3>1, SameDoes DEF EnterDoes
  <2>3. CASE x.e = "sequence"
    BY <1>1, <1>4, <2>1, <2>3, EnterSequenceDoes
  <2>4. CASE x.e \in {"update", "project", "let", "ite", "match"}
    <3>1. PICK state, expr :
              /\ Enter(m, id) = StartWith(m, id, state, expr)
              /\ state \notin {"EvalItem", "EvalUpdate", "EvalChildren"}
      BY <2>1, <2>4
    <3>2. Enter(m, id) = Did(Replace(m, id, [m.frames[id] EXCEPT !.state = state]),
                             Evaluate(expr, m.frames[id].env))
      BY <3>1 DEF StartWith
    <3> QED
      BY <1>1, <1>4, <3>1, <3>2, StartAsks DEF EnterDoes
  <2>5. CASE x.e = "var"
    <3>1. Enter(m, id) = Did(m, AsControl(Resolve(m, frame.env, x)))
      BY <2>1, <2>5
    <3>2. Answers(Resolve(m, frame.env, x))
      BY ResolveAnswers
    <3> QED
      BY <1>1, <1>4, <2>5, <3>1, <3>2, EnterVarDoes
  <2>6. CASE x.e = "app"
    BY <1>1, <1>4, <2>1, <2>6, EnterAppDoes
  <2>7. CASE x.e = "letrec"
    BY <1>1, <1>4, <2>1, <2>7, EnterLetRecDoes
  <2>8. CASE x.e \notin {"literal", "sequence", "update", "var", "app", "project", "lam", "let",
                         "letrec", "ite", "match"}
    <3>1. Enter(m, id) = Did(m, Error("UnsupportedExpr"))
      BY <2>1, <2>8
    <3>2. Error("UnsupportedExpr").op = "Error"
      BY DEF Error
    <3> QED
      BY <3>1, <3>2, SameDoes DEF EnterDoes
  <2> QED
    BY <2>2, <2>3, <2>4, <2>5, <2>6, <2>7, <2>8
<1> QED
  BY <1>1, <1>2, <1>3, <1>4 DEF GoodFrame

-----------------------------------------------------------------------------
(* Receiving.                                                               *)

\* A frame that counts waits unless the result is the last; any other frame, and
\* one that gets its last result, goes on.  A host call's frame only returns.
ReceiveDoes(m, id, did) ==
    LET frame == m.frames[id]
    IN  \/ Fails(did)
        \/ Collecting(frame) /\ Outstanding(frame) # 1 /\ Waits(m, id, did)
        \/ /\ Collecting(frame) => Outstanding(frame) = 1
           /\ \/ Returns(m, id, did)
              \/ frame.kind # "NativeHost" /\ (Asks(m, id, did) \/ Fans(m, id, did))

\* The frame counts at least the result it receives.
CountsOne(frame) == Collecting(frame) => Outstanding(frame) \in Nat \ {0}

\* The frame answers or fails as it is.
LEMMA SameReceives ==
    ASSUME NEW m, NEW id, WellFormed(m, id), ~Collecting(m.frames[id]),
           NEW control, control.op \in {"Return", "Error"}
    PROVE  ReceiveDoes(m, id, Did(m, control))
BY SameDoes DEF ReceiveDoes

\* EvalControl::Error ends the evaluation.
LEMMA ErrorFails == \A m, kind : Fails(Did(m, Error(kind)))
BY DidIs DEF Fails, Error

\* A result that is stored is counted once.
LEMMA StoredIs ==
    ASSUME NEW m, NEW id, WellFormed(m, id), m.frames[id].kind = "Expr",
           Collecting(m.frames[id]), NEW child, NEW value
    PROVE  LET stored == Stored(m.frames[id], child, value)
           IN  /\ Alike(m, id, stored) /\ Collecting(stored) /\ stored.kind = "Expr"
               /\ stored.remaining = m.frames[id].remaining - 1
<1>1. PICK frame : frame = m.frames[id] /\ GoodFrame(frame)
  BY DEF WellFormed
<1>2. PICK at : at = CHOOSE i \in 1..Len(frame.children) : frame.children[i] = child
  OBVIOUS
<1>3. PICK values : values = [frame.values EXCEPT ![at] = value]
  OBVIOUS
<1>4. PICK stored : stored = [frame EXCEPT !.values = values, !.remaining = frame.remaining - 1]
  OBVIOUS
<1>5. Stored(m.frames[id], child, value) = stored
  BY <1>1, <1>2, <1>3, <1>4 DEF Stored
<1>6. /\ Alike(m, id, stored) /\ Collecting(stored) /\ stored.kind = "Expr"
      /\ stored.remaining = frame.remaining - 1
  BY <1>1, <1>4 DEF Alike, GoodFrame, FrameFields, Collecting
<1> QED
  BY <1>1, <1>5, <1>6

\* A frame that keeps a place for each result.
LEMMA CollectDoes ==
    ASSUME NEW m, NEW id, WellFormed(m, id), m.frames[id].kind = "Expr",
           Collecting(m.frames[id]), CountsOne(m.frames[id]), NEW child, NEW value,
           NEW done, Returns(m, id, done) \/ Asks(m, id, done) \/ Fails(done),
           NEW did, NEW stored, stored = Stored(m.frames[id], child, value),
           did = IF ~Expected(m.frames[id], child) THEN Did(m, Error("Internal"))
                 ELSE IF stored.remaining > 0 THEN Did(Replace(m, id, stored), Wait)
                 ELSE done
    PROVE  ReceiveDoes(m, id, did)
<1>1. PICK frame : frame = m.frames[id]
  OBVIOUS
<1>2. /\ Alike(m, id, stored) /\ Collecting(stored) /\ stored.kind = "Expr"
      /\ stored.remaining = frame.remaining - 1
  BY <1>1, StoredIs
<1>3. Outstanding(frame) = frame.remaining /\ Outstanding(stored) = stored.remaining
  BY <1>1, <1>2 DEF Outstanding
<1>4. frame.remaining \in Nat \ {0}
  BY <1>1, <1>3 DEF CountsOne
<1>5. CASE ~Expected(m.frames[id], child)
  BY <1>5, ErrorFails DEF ReceiveDoes
<1>6. CASE did = Did(Replace(m, id, stored), Wait) /\ stored.remaining > 0
  <2>1. did.m = Replace(m, id, stored) /\ did.control.op = "Wait"
    BY <1>6, DidIs DEF Wait
  <2>2. Kept(m, id, Replace(m, id, stored)) /\ Replace(m, id, stored).frames[id] = stored
    BY <1>2, ReplaceSameKeeps
  <2>3. Waits(m, id, did)
    BY <1>1, <1>2, <1>3, <2>1, <2>2 DEF Waits
  <2>4. Outstanding(frame) # 1
    BY <1>2, <1>3, <1>4, <1>6
  <2> QED
    BY <1>1, <2>3, <2>4 DEF ReceiveDoes
<1>7. CASE did = done /\ ~(stored.remaining > 0)
  <2>1. Outstanding(frame) = 1
    BY <1>2, <1>3, <1>4, <1>7
  <2> QED
    BY <1>1, <1>7, <2>1 DEF ReceiveDoes
<1> QED
  BY <1>5, <1>6, <1>7

\* A record update returns or fails.
LEMMA UpdateRecordIs ==
    ASSUME NEW base, NEW keys, NEW values
    PROVE  UpdateRecord(base, keys, values).op \in {"Return", "Error"}
BY DEF UpdateRecord, Return, Error

\* A tuple, list or dictionary receives.
LEMMA ReceiveSequenceDoes ==
    ASSUME NEW m, NEW id, WellFormed(m, id), m.frames[id].kind = "Expr",
           CountsOne(m.frames[id]), m.frames[id].expr.e = "sequence", NEW child, NEW value
    PROVE  ReceiveDoes(m, id, ReceiveSequence(m, id, child, value))
<1>1. CASE m.frames[id].state # "EvalItem"
  BY <1>1, ErrorFails DEF ReceiveSequence, ReceiveDoes
<1>2. CASE m.frames[id].state = "EvalItem"
  <2>1. PICK stored, did :
            /\ stored = Stored(m.frames[id], child, value)
            /\ did = ReceiveSequence(m, id, child, value)
    OBVIOUS
  <2>2. PICK done : done = Did(m, Return(SequenceValue(stored.expr, stored.values)))
    OBVIOUS
  <2>3. did = IF ~Expected(m.frames[id], child) THEN Did(m, Error("Internal"))
              ELSE IF stored.remaining > 0 THEN Did(Replace(m, id, stored), Wait)
              ELSE done
    BY <1>2, <2>1, <2>2, Zenon DEF ReceiveSequence, Collect
  <2>4. Returns(m, id, done) \/ Fails(done)
    BY <2>2, SameDoes DEF Return
  <2>5. Collecting(m.frames[id])
    BY <1>2 DEF Collecting
  <2>6. ReceiveDoes(m, id, did)
    BY <2>1, <2>3, <2>4, <2>5, CollectDoes
  <2> QED
    BY <2>1, <2>6
<1> QED
  BY <1>1, <1>2

\* A record update receives.
LEMMA ReceiveUpdateDoes ==
    ASSUME NEW m, NEW id, WellFormed(m, id), m.frames[id].kind = "Expr",
           CountsOne(m.frames[id]), m.frames[id].expr.e = "update", NEW child, NEW value
    PROVE  ReceiveDoes(m, id, ReceiveUpdate(m, id, child, value))
<1>1. PICK frame, x : frame = m.frames[id] /\ x = frame.expr /\ GoodFrame(frame)
  BY DEF WellFormed
<1>2. CASE frame.state = "EvalBase"
  <2>1. ~Collecting(frame)
    BY <1>1, <1>2 DEF Collecting
  <2>2. PICK g : g = [frame EXCEPT !.func = value, !.state = "EvalUpdate"]
    OBVIOUS
  <2>3. ReceiveUpdate(m, id, child, value)
            = IF x.items = <<>> THEN Did(m, UpdateRecord(value, <<>>, <<>>))
              ELSE FanOutTo(m, id, g, x.items)
    BY <1>1, <1>2, <2>2 DEF ReceiveUpdate
  <2>4. CASE x.items = <<>>
    BY <1>1, <2>1, <2>3, <2>4, UpdateRecordIs, SameReceives
  <2>5. CASE x.items # <<>>
    <3>1. Alike(m, id, g) /\ Collecting(g) /\ g.kind = "Expr"
      BY <1>1, <2>2 DEF Alike, GoodFrame, FrameFields, Collecting
    <3>2. Bounded(x.items)
      <4>1. FanOutOf(frame) = x.items
        BY <1>1 DEF FanOutOf
      <4> QED
        BY <1>1, <4>1 DEF WellFormed
    <3>3. Len(x.items) \in 1..MaxFan
      BY <2>5, <3>2, BoundedIsSeq
    <3>4. Fans(m, id, ReceiveUpdate(m, id, child, value))
      BY <2>3, <2>5, <3>1, <3>3, FanOutIs
    <3> QED
      BY <1>1, <2>1, <3>4 DEF ReceiveDoes
  <2> QED
    BY <2>4, <2>5
<1>3. CASE frame.state = "EvalUpdate"
  <2>1. PICK stored, did :
            /\ stored = Stored(m.frames[id], child, value)
            /\ did = ReceiveUpdate(m, id, child, value)
    OBVIOUS
  <2>2. PICK done : done = Did(m, UpdateRecord(stored.func, x.keys, stored.values))
    OBVIOUS
  <2>3. did = IF ~Expected(m.frames[id], child) THEN Did(m, Error("Internal"))
              ELSE IF stored.remaining > 0 THEN Did(Replace(m, id, stored), Wait)
              ELSE done
    BY <1>1, <1>3, <2>1, <2>2 DEF ReceiveUpdate, Collect
  <2>4. Returns(m, id, done) \/ Fails(done)
    BY <2>2, UpdateRecordIs, SameDoes
  <2>5. Collecting(m.frames[id])
    BY <1>1, <1>3 DEF Collecting
  <2>6. ReceiveDoes(m, id, did)
    BY <2>1, <2>3, <2>4, <2>5, CollectDoes
  <2> QED
    BY <2>1, <2>6
<1>4. CASE frame.state \notin {"EvalBase", "EvalUpdate"}
  BY <1>1, <1>4, ErrorFails DEF ReceiveUpdate, ReceiveDoes
<1> QED
  BY <1>2, <1>3, <1>4

\* An application receives.
LEMMA ReceiveAppDoes ==
    ASSUME NEW m, NEW id, WellFormed(m, id), m.frames[id].kind = "Expr",
           CountsOne(m.frames[id]), m.frames[id].expr.e = "app", NEW child, NEW value
    PROVE  ReceiveDoes(m, id, ReceiveApp(m, id, child, value))
<1>1. PICK frame : frame = m.frames[id] /\ GoodFrame(frame)
  BY DEF WellFormed
<1>2. CASE frame.state = "EvalChildren"
  <2>1. PICK stored, did :
            /\ stored = Stored(m.frames[id], child, value)
            /\ did = ReceiveApp(m, id, child, value)
    OBVIOUS
  <2>2. PICK g : g = [stored EXCEPT !.func = stored.values[1], !.next = 0]
    OBVIOUS
  <2>3. PICK done : done = ContinueApp(m, id, g)
    OBVIOUS
  <2>4. did = IF ~Expected(m.frames[id], child) THEN Did(m, Error("Internal"))
              ELSE IF stored.remaining > 0 THEN Did(Replace(m, id, stored), Wait)
              ELSE done
    BY <1>1, <1>2, <2>1, <2>2, <2>3 DEF ReceiveApp, Collect
  <2>5. Collecting(m.frames[id])
    BY <1>1, <1>2 DEF Collecting
  <2>6. Alike(m, id, stored) /\ stored.kind = "Expr"
    BY <2>1, <2>5, StoredIs
  <2>7. Alike(m, id, g) /\ g.kind = "Expr"
    BY <2>2, <2>6 DEF Alike, GoodFrame, FrameFields
  <2>8. Returns(m, id, done) \/ Asks(m, id, done) \/ Fails(done)
    BY <2>3, <2>7, ContinueAppOutcome
  <2>9. ReceiveDoes(m, id, did)
    BY <2>1, <2>4, <2>5, <2>8, CollectDoes
  <2> QED
    BY <2>1, <2>9
<1>3. CASE frame.state = "ApplyArg"
  <2>1. PICK g : g = [frame EXCEPT !.func = value, !.next = @ + 1]
    OBVIOUS
  <2>2. PICK did : did = ContinueApp(m, id, g)
    OBVIOUS
  <2>3. ReceiveApp(m, id, child, value) = did
    BY <1>1, <1>3, <2>1, <2>2 DEF ReceiveApp
  <2>4. Alike(m, id, g) /\ g.kind = "Expr" /\ ~Collecting(frame)
    BY <1>1, <1>3, <2>1 DEF Alike, GoodFrame, FrameFields, Collecting
  <2>5. Returns(m, id, did) \/ Asks(m, id, did) \/ Fails(did)
    BY <2>2, <2>4, ContinueAppOutcome
  <2> QED
    BY <1>1, <2>3, <2>4, <2>5 DEF ReceiveDoes
<1>4. CASE frame.state \notin {"EvalChildren", "ApplyArg"}
  BY <1>1, <1>4, ErrorFails DEF ReceiveApp, ReceiveDoes
<1> QED
  BY <1>2, <1>3, <1>4

\* A frame with one child at a time goes on to the next.
LEMMA ContinueReceives ==
    ASSUME NEW m, NEW id, WellFormed(m, id), m.frames[id].kind = "Expr",
           ~Collecting(m.frames[id]),
           NEW state, state \notin {"EvalItem", "EvalUpdate", "EvalChildren"},
           NEW expr, NEW env
    PROVE  ReceiveDoes(m, id, Continue(m, id, state, expr, env))
<1>1. Asks(m, id, Continue(m, id, state, expr, env))
  BY StartAsks DEF Continue
<1> QED
  BY <1>1 DEF ReceiveDoes

\* A let receives.
LEMMA ReceiveLetDoes ==
    ASSUME NEW m, NEW id, WellFormed(m, id), m.frames[id].kind = "Expr",
           m.frames[id].expr.e = "let", NEW value
    PROVE  ReceiveDoes(m, id, ReceiveLet(m, id, value))
<1>1. PICK frame : frame = m.frames[id]
  OBVIOUS
<1>2. ~Collecting(m.frames[id])
  BY DEF Collecting
<1>3. CASE frame.state = "EvalDef"
  <2>1. PICK expr, env : ReceiveLet(m, id, value) = Continue(m, id, "EvalBody", expr, env)
    BY <1>1, <1>3 DEF ReceiveLet
  <2> QED
    BY <1>2, <2>1, ContinueReceives
<1>4. CASE frame.state = "EvalBody"
  <2>1. ReceiveLet(m, id, value) = Did(m, Return(value)) /\ Return(value).op = "Return"
    BY <1>1, <1>4 DEF ReceiveLet, Return
  <2> QED
    BY <1>2, <2>1, SameReceives
<1>5. CASE frame.state \notin {"EvalDef", "EvalBody"}
  BY <1>1, <1>5, ErrorFails DEF ReceiveLet, ReceiveDoes
<1> QED
  BY <1>3, <1>4, <1>5

\* A conditional receives.
LEMMA ReceiveIteDoes ==
    ASSUME NEW m, NEW id, WellFormed(m, id), m.frames[id].kind = "Expr",
           m.frames[id].expr.e = "ite", NEW value
    PROVE  ReceiveDoes(m, id, ReceiveIte(m, id, value))
<1>1. PICK frame : frame = m.frames[id]
  OBVIOUS
<1>2. ~Collecting(m.frames[id])
  BY DEF Collecting
<1>3. CASE frame.state = "EvalCondition"
  <2>1. \/ ReceiveIte(m, id, value) = Did(m, Error("ExpectedBool"))
        \/ \E expr, env : ReceiveIte(m, id, value) = Continue(m, id, "EvalSelected", expr, env)
    BY <1>1, <1>3 DEF ReceiveIte
  <2>2. CASE ReceiveIte(m, id, value) = Did(m, Error("ExpectedBool"))
    BY <2>2, ErrorFails DEF ReceiveDoes
  <2>3. CASE \E expr, env : ReceiveIte(m, id, value) = Continue(m, id, "EvalSelected", expr, env)
    BY <1>2, <2>3, ContinueReceives
  <2> QED
    BY <2>1, <2>2, <2>3
<1>4. CASE frame.state = "EvalSelected"
  <2>1. ReceiveIte(m, id, value) = Did(m, Return(value)) /\ Return(value).op = "Return"
    BY <1>1, <1>4 DEF ReceiveIte, Return
  <2> QED
    BY <1>2, <2>1, SameReceives
<1>5. CASE frame.state \notin {"EvalCondition", "EvalSelected"}
  BY <1>1, <1>5, ErrorFails DEF ReceiveIte, ReceiveDoes
<1> QED
  BY <1>3, <1>4, <1>5

\* A match receives.
LEMMA ReceiveMatchDoes ==
    ASSUME NEW m, NEW id, WellFormed(m, id), m.frames[id].kind = "Expr",
           m.frames[id].expr.e = "match", NEW value
    PROVE  ReceiveDoes(m, id, ReceiveMatch(m, id, value))
<1>1. PICK frame : frame = m.frames[id]
  OBVIOUS
<1>2. ~Collecting(m.frames[id])
  BY DEF Collecting
<1>3. CASE frame.state = "EvalScrutinee"
  <2>1. \/ ReceiveMatch(m, id, value) = Did(m, Error("MatchFailure"))
        \/ \E expr, env : ReceiveMatch(m, id, value) = Continue(m, id, "EvalArm", expr, env)
    BY <1>1, <1>3 DEF ReceiveMatch
  <2>2. CASE ReceiveMatch(m, id, value) = Did(m, Error("MatchFailure"))
    BY <2>2, ErrorFails DEF ReceiveDoes
  <2>3. CASE \E expr, env : ReceiveMatch(m, id, value) = Continue(m, id, "EvalArm", expr, env)
    BY <1>2, <2>3, ContinueReceives
  <2> QED
    BY <2>1, <2>2, <2>3
<1>4. CASE frame.state = "EvalArm"
  <2>1. ReceiveMatch(m, id, value) = Did(m, Return(value)) /\ Return(value).op = "Return"
    BY <1>1, <1>4 DEF ReceiveMatch, Return
  <2> QED
    BY <1>2, <2>1, SameReceives
<1>5. CASE frame.state \notin {"EvalScrutinee", "EvalArm"}
  BY <1>1, <1>5, ErrorFails DEF ReceiveMatch, ReceiveDoes
<1> QED
  BY <1>3, <1>4, <1>5

\* A let rec receives.
LEMMA ReceiveLetRecDoes ==
    ASSUME NEW m, NEW id, WellFormed(m, id), m.frames[id].kind = "Expr",
           m.frames[id].expr.e = "letrec", NEW value
    PROVE  ReceiveDoes(m, id, ReceiveLetRec(m, id, value))
<1>1. PICK frame, x : frame = m.frames[id] /\ x = frame.expr /\ GoodFrame(frame)
  BY DEF WellFormed
<1>2. ~Collecting(m.frames[id])
  BY DEF Collecting
<1>3. CASE frame.state = "EvalBinding"
  <2> DEFINE f2    == [frame EXCEPT !.next = @ + 1]
             r     == Replace(m, id, f2)
             cells == [r.slots EXCEPT ![frame.cells[frame.next + 1]] = value]
             moved == [r EXCEPT !.slots = cells]
             f3    == [f2 EXCEPT !.state = "EvalBody"]
  <2>1. Alike(m, id, f2) /\ ~Collecting(f2) /\ Alike(m, id, f3) /\ ~Collecting(f3)
    BY <1>1, <1>2 DEF Alike, GoodFrame, FrameFields, Collecting
  <2>2. ReceiveLetRec(m, id, value)
            = IF frame.next + 1 = Len(x.names)
              THEN Continue(moved, id, "EvalBody", x.body, frame.env)
              ELSE Did(moved, Evaluate(x.defs[frame.next + 2], frame.env))
    BY <1>1, <1>3 DEF ReceiveLetRec
  <2> HIDE DEF f2, f3
  <2>3. /\ DOMAIN r = MachineFields /\ DOMAIN r.frames = DOMAIN m.frames
        /\ r.next_id = m.next_id /\ r.frames[id] = f2
        /\ \A y \in DOMAIN m.frames \ {id} : r.frames[y] = m.frames[y]
    <3>1. DOMAIN m = MachineFields /\ id \in DOMAIN m.frames
      BY DEF WellFormed
    <3> QED
      BY <3>1, ReplaceIs
  <2> HIDE DEF r, cells
  <2>4. moved.frames = r.frames /\ moved.next_id = r.next_id /\ DOMAIN moved = MachineFields
    BY <2>3 DEF MachineFields
  <2> HIDE DEF moved
  <2>5. PICK did : did = ReceiveLetRec(m, id, value)
    OBVIOUS
  <2>6. CASE frame.next + 1 = Len(x.names)
    <3>1. did = Did(Replace(moved, id, f3), Evaluate(x.body, frame.env))
      BY <2>2, <2>3, <2>4, <2>5, <2>6 DEF Continue, f3
    <3>2. /\ DOMAIN did.m = MachineFields /\ DOMAIN did.m.frames = DOMAIN m.frames
          /\ did.m.next_id = m.next_id /\ did.m.frames[id] = f3
          /\ \A y \in DOMAIN m.frames \ {id} : did.m.frames[y] = m.frames[y]
          /\ did.control.op = "Push"
      <4>1. did.m = Replace(moved, id, f3) /\ did.control.op = "Push"
        BY <3>1, DidIs DEF Evaluate
      <4>2. DOMAIN moved = MachineFields /\ id \in DOMAIN moved.frames
        BY <2>3, <2>4 DEF WellFormed
      <4> QED
        BY <2>3, <2>4, <4>1, <4>2, ReplaceIs
    <3>3. Asks(m, id, did)
      BY <2>1, <3>2 DEF Asks, Kept, Alike
    <3> QED
      BY <1>2, <2>5, <3>3 DEF ReceiveDoes
  <2>7. CASE frame.next + 1 # Len(x.names)
    <3>1. did.m = moved /\ did.control.op = "Push"
      BY <2>2, <2>5, <2>7, DidIs DEF Evaluate
    <3>2. Asks(m, id, did)
      BY <2>1, <2>3, <2>4, <3>1 DEF Asks, Kept, Alike
    <3> QED
      BY <1>2, <2>5, <3>2 DEF ReceiveDoes
  <2> QED
    BY <2>6, <2>7
<1>4. CASE frame.state = "EvalBody"
  <2>1. ReceiveLetRec(m, id, value) = Did(m, Return(value)) /\ Return(value).op = "Return"
    BY <1>1, <1>4 DEF ReceiveLetRec, Return
  <2> QED
    BY <1>2, <2>1, SameReceives
<1>5. CASE frame.state \notin {"EvalBinding", "EvalBody"}
  BY <1>1, <1>5, ErrorFails DEF ReceiveLetRec, ReceiveDoes
<1> QED
  BY <1>3, <1>4, <1>5

\* A native call frame receives.
LEMMA ReceiveNativeDoes ==
    ASSUME NEW m, NEW id, WellFormed(m, id), m.frames[id].kind = "NativeCall",
           m.frames[id].state = "Waiting", CountsOne(m.frames[id]), NEW child, NEW value
    PROVE  ReceiveDoes(m, id, NativeControl(m, id, TaskReceive(m.frames[id].task, child, value)))
<1>1. PICK t, stepped, did : /\ t = m.frames[id].task /\ stepped = TaskReceive(t, child, value)
                             /\ did = NativeControl(m, id, stepped)
  OBVIOUS
<1>2. GoodTask(t)
  BY <1>1 DEF WellFormed, GoodFrame
<1>3. Resumes(t, stepped)
  BY <1>1, <1>2, TaskResumes
<1>4. /\ stepped.step.op \in {"Push", "PushVar"} /\ stepped.task.kind \notin FanOutKinds
         => Asks(m, id, did)
      /\ stepped.step.op \notin {"Push", "PushVar", "Schedule"} =>
             /\ did.control = stepped.step /\ Kept(m, id, did.m)
             /\ did.m.frames[id].kind = "NativeCall"
             /\ did.m.frames[id].state = "Waiting" /\ did.m.frames[id].task = stepped.task
  <2>1. GoodTask(stepped.task) /\ stepped.task.kind = m.frames[id].task.kind
    BY <1>1, <1>3 DEF Resumes
  <2>2. WellFormed(m, id) /\ m.frames[id].kind = "NativeCall"
    OBVIOUS
  <2>3. NativeTurns(m, id, stepped, did)
    <3>1. NativeTurns(m, id, stepped, NativeControl(m, id, stepped))
      BY ONLY <2>1, <2>2, NativeControlIs
    <3> QED
      BY ONLY <1>1, <3>1
  <2> QED
    BY ONLY <1>1, <2>3 DEF NativeTurns
<1>5. /\ Collecting(m.frames[id]) <=> t.kind \in FanOutKinds
      /\ Outstanding(m.frames[id]) = t.remaining
  BY <1>1 DEF Collecting, Outstanding
<1>6. CASE t.kind \in FanOutKinds
  <2>1. t.remaining \in Nat \ {0}
    BY <1>5, <1>6 DEF CountsOne
  <2>2. CASE stepped.step.op = "Wait"
    <3>1. Waits(m, id, did)
      BY <1>3, <1>4, <1>5, <1>6, <2>2 DEF Waits, Resumes, Collecting, Outstanding
    <3>2. t.remaining # 1
      BY <1>3, <1>6, <2>1, <2>2 DEF Resumes
    <3> QED
      BY <1>1, <1>5, <1>6, <3>1, <3>2 DEF ReceiveDoes
  <2>3. CASE stepped.step.op = "Return"
    <3>1. Returns(m, id, did)
      BY <1>4, <2>3 DEF Returns
    <3>2. t.remaining = 1
      BY <1>3, <1>6, <2>1, <2>3 DEF Resumes
    <3> QED
      BY <1>1, <1>5, <1>6, <3>1, <3>2 DEF ReceiveDoes
  <2>4. CASE stepped.step.op = "Error"
    BY <1>1, <1>4, <2>4 DEF ReceiveDoes, Fails
  <2> QED
    BY <1>3, <1>6, <2>2, <2>3, <2>4 DEF Resumes
<1>7. CASE t.kind \notin FanOutKinds
  <2>1. CASE stepped.step.op = "Push"
    BY <1>1, <1>3, <1>4, <1>5, <1>7, <2>1 DEF ReceiveDoes, Resumes
  <2>2. CASE stepped.step.op = "Return"
    BY <1>1, <1>4, <1>5, <1>7, <2>2 DEF ReceiveDoes, Returns
  <2>3. CASE stepped.step.op = "Error"
    BY <1>1, <1>4, <2>3 DEF ReceiveDoes, Fails
  <2> QED
    BY <1>3, <1>7, <2>1, <2>2, <2>3 DEF Resumes
<1> QED
  BY <1>6, <1>7

\* Whatever its kind, a frame that receives waits exactly when others are outstanding.
LEMMA ReceiveOutcome ==
    ASSUME NEW m, NEW id, WellFormed(m, id), CountsOne(m.frames[id]), NEW child, NEW value
    PROVE  ReceiveDoes(m, id, Receive(m, id, child, value))
<1>1. PICK frame, x : frame = m.frames[id] /\ x = frame.expr /\ GoodFrame(frame)
  BY DEF WellFormed
<1>2. CASE frame.kind = "NativeCall"
  <2>1. CASE frame.state = "Waiting"
    <3>1. Receive(m, id, child, value)
              = NativeControl(m, id, TaskReceive(m.frames[id].task, child, value))
      BY <1>1, <1>2, <2>1 DEF Receive
    <3> QED
      BY <1>1, <1>2, <2>1, <3>1, ReceiveNativeDoes
  <2>2. CASE frame.state # "Waiting"
    BY <1>1, <1>2, <2>2, ErrorFails DEF Receive, ReceiveDoes
  <2> QED
    BY <2>1, <2>2
<1>3. CASE frame.kind = "NativeHost"
  <2>1. Receive(m, id, child, value) = Did(m, Return(value)) /\ Return(value).op = "Return"
    BY <1>1, <1>3 DEF Receive, Return
  <2>2. ~Collecting(m.frames[id])
    BY <1>1, <1>3 DEF Collecting
  <2> QED
    BY <2>1, <2>2, SameReceives
<1>4. CASE frame.kind = "Expr"
  <2>1. Receive(m, id, child, value) =
          CASE x.e = "sequence" -> ReceiveSequence(m, id, child, value)
            [] x.e = "update"   -> ReceiveUpdate(m, id, child, value)
            [] x.e = "var"      -> Did(m, Return(value))
            [] x.e = "app"      -> ReceiveApp(m, id, child, value)
            [] x.e = "project"  -> Did(m, ProjectField(x, value))
            [] x.e = "let"      -> ReceiveLet(m, id, value)
            [] x.e = "letrec"   -> ReceiveLetRec(m, id, value)
            [] x.e = "ite"      -> ReceiveIte(m, id, value)
            [] x.e = "match"    -> ReceiveMatch(m, id, value)
            [] OTHER            -> Did(m, Error("Internal"))
    BY <1>1, <1>4 DEF Receive
  <2>2. CASE x.e = "sequence"
    BY <1>1, <1>4, <2>1, <2>2, ReceiveSequenceDoes
  <2>3. CASE x.e = "update"
    BY <1>1, <1>4, <2>1, <2>3, ReceiveUpdateDoes
  <2>4. CASE x.e = "app"
    BY <1>1, <1>4, <2>1, <2>4, ReceiveAppDoes
  <2>5. CASE x.e \in {"var", "project"}
    <3>1. PICK control : /\ Receive(m, id, child, value) = Did(m, control)
                         /\ control.op \in {"Return", "Error"}
      <4>1. CASE x.e = "var"
        BY <2>1, <4>1 DEF Return
      <4>2. CASE x.e = "project"
        <5>1. ProjectField(x, value).op \in {"Return", "Error"}
          BY DEF ProjectField, Return, Error
        <5> QED
          BY <2>1, <4>2, <5>1
      <4> QED
        BY <2>5, <4>1, <4>2
    <3>2. ~Collecting(m.frames[id])
      BY <1>1, <1>4, <2>5 DEF Collecting
    <3> QED
      BY <3>1, <3>2, SameReceives
  <2>6. CASE x.e = "let"
    BY <1>1, <1>4, <2>1, <2>6, ReceiveLetDoes
  <2>7. CASE x.e = "letrec"
    BY <1>1, <1>4, <2>1, <2>7, ReceiveLetRecDoes
  <2>8. CASE x.e = "ite"
    BY <1>1, <1>4, <2>1, <2>8, ReceiveIteDoes
  <2>9. CASE x.e = "match"
    BY <1>1, <1>4, <2>1, <2>9, ReceiveMatchDoes
  <2>10. CASE x.e \notin {"sequence", "update", "var", "app", "project", "let", "letrec", "ite",
                          "match"}
    <3>1. Receive(m, id, child, value) = Did(m, Error("Internal"))
      BY <2>1, <2>10
    <3> QED
      BY <3>1, ErrorFails DEF ReceiveDoes
  <2> QED
    BY <2>2, <2>3, <2>4, <2>5, <2>6, <2>7, <2>8, <2>9, <2>10
<1> QED
  BY <1>1, <1>2, <1>3, <1>4 DEF GoodFrame

-----------------------------------------------------------------------------
(* What FrameTree sees of the evaluator.                                    *)

\* The receive items and the frames of the enter items among a set of keys.
RetOf(K) == {k \in K : k[2] # NoChild}
EntOf(K) == {k[1] : k \in {j \in K : j[2] = NoChild}}

Seconds(A) == {item[2] : item \in A}

\* Whose results frame f expects, given the frames, the receive items and the
\* frames of host calls.
Expects(F, R, H, f) ==
    {c \in DOMAIN F : F[c].parent = f}
        \cup Seconds({r \in R : r[1] = f})
        \cup (IF f \in H THEN {f} ELSE {})

\* The keys of the items there will be once the completion is queued.
Keys ==
    KeySet(queue) \cup (IF completed = <<>> THEN {} ELSE {<<completed[1], completed[1]>>})

\* The same for any queue and completion.
QueuedItems(q) == {Work!PopOrder(q)[i] : i \in 1..Len(Work!PopOrder(q))}

ReturnedOf(q, done) ==
    {<<item.frame, item.child>> : item \in {i \in QueuedItems(q) : i.child # NoChild}}
        \cup (IF done = <<>> THEN {} ELSE {<<done[1], done[1]>>})

EnteringOf(q) == {item.frame : item \in {i \in QueuedItems(q) : i.child = NoChild}}

KeysWith(q, done) == KeySet(q) \cup (IF done = <<>> THEN {} ELSE {<<done[1], done[1]>>})

\* Items and keys give the same view.
LEMMA KeysWithView ==
    ASSUME NEW q, NEW done, done = <<>> \/ done[1] # NoChild
    PROVE  ReturnedOf(q, done) = RetOf(KeysWith(q, done)) /\ EnteringOf(q) = EntOf(KeysWith(q, done))
<1>1. KeySet(q) = {<<item.frame, item.child>> : item \in QueuedItems(q)}
  BY DEF KeySet, Key, QueuedItems
<1>2. RetOf(KeySet(q)) = {<<item.frame, item.child>> : item \in {i \in QueuedItems(q) : i.child # NoChild}}
  <2>1. ASSUME NEW item \in QueuedItems(q), item.child # NoChild
        PROVE  <<item.frame, item.child>> \in RetOf(KeySet(q))
    BY <1>1, <2>1 DEF RetOf
  <2>2. ASSUME NEW k \in RetOf(KeySet(q))
        PROVE  \E item \in QueuedItems(q) : item.child # NoChild /\ k = <<item.frame, item.child>>
    BY <1>1 DEF RetOf
  <2> QED
    BY <2>1, <2>2
<1>3. EntOf(KeySet(q)) = {item.frame : item \in {i \in QueuedItems(q) : i.child = NoChild}}
  <2>1. ASSUME NEW item \in QueuedItems(q), item.child = NoChild
        PROVE  item.frame \in EntOf(KeySet(q))
    <3>1. PICK k : k = <<item.frame, item.child>>
      OBVIOUS
    <3>2. k \in KeySet(q) /\ k[2] = NoChild /\ k[1] = item.frame
      BY <1>1, <2>1, <3>1
    <3> QED
      BY <3>2 DEF EntOf
  <2>2. ASSUME NEW x \in EntOf(KeySet(q))
        PROVE  \E item \in QueuedItems(q) : item.child = NoChild /\ x = item.frame
    <3>1. PICK k \in KeySet(q) : k[2] = NoChild /\ x = k[1]
      BY DEF EntOf
    <3>2. PICK item \in QueuedItems(q) : k = <<item.frame, item.child>>
      BY <1>1
    <3> QED
      BY <3>1, <3>2
  <2> QED
    BY <2>1, <2>2
<1>4. ReturnedOf(q, done) = RetOf(KeysWith(q, done))
  <2>1. CASE done = <<>>
    BY <1>2, <2>1 DEF ReturnedOf, KeysWith, RetOf
  <2>2. CASE done # <<>>
    <3>1. ReturnedOf(q, done) = RetOf(KeySet(q)) \cup {<<done[1], done[1]>>}
      BY <1>2, <2>2 DEF ReturnedOf
    <3>2. KeysWith(q, done) = KeySet(q) \cup {<<done[1], done[1]>>}
      BY <2>2 DEF KeysWith
    <3> QED
      BY <2>2, <3>1, <3>2 DEF RetOf
  <2> QED
    BY <2>1, <2>2
<1>5. EnteringOf(q) = EntOf(KeysWith(q, done))
  <2>1. EnteringOf(q) = EntOf(KeySet(q))
    BY <1>3 DEF EnteringOf
  <2> QED
    BY <2>1 DEF KeysWith, EntOf
<1> QED
  BY <1>4, <1>5

\* So they do in a state of the evaluator.
LEMMA KeysView ==
    ASSUME completed = <<>> \/ completed[1] # NoChild
    PROVE  /\ Returned = RetOf(Keys) /\ TreeEntering = EntOf(Keys)
           /\ \A f : WaitingFor(f) = Expects(frames, Returned, DOMAIN host, f)
<1>1. Returned = ReturnedOf(queue, completed) /\ TreeEntering = EnteringOf(queue)
  BY DEF Returned, TreeEntering, ReturnedOf, EnteringOf, Items, QueuedItems
<1>2. Keys = KeysWith(queue, completed)
  BY DEF Keys, KeysWith
<1>3. \A f : WaitingFor(f) = Expects(frames, Returned, DOMAIN host, f)
  BY DEF WaitingFor, Expects, Seconds
<1> QED
  BY <1>1, <1>2, <1>3, KeysWithView

\* A key is a pair.
LEMMA KeyPairs ==
    ASSUME NEW q
    PROVE  \A k \in KeySet(q) : k = <<k[1], k[2]>>
BY DEF KeySet, Key

\* How the two views of the keys change with new enter items.
LEMMA ViewPushEnter ==
    ASSUME NEW K, NEW ids
    PROVE  /\ RetOf(K \cup EnterKeys(ids)) = RetOf(K)
           /\ EntOf(K \cup EnterKeys(ids)) = EntOf(K) \cup ids
<1>1. RetOf(K \cup EnterKeys(ids)) = RetOf(K)
  BY DEF RetOf, EnterKeys
<1>2. ASSUME NEW x \in ids PROVE x \in EntOf(K \cup EnterKeys(ids))
  <2>1. <<x, NoChild>> \in EnterKeys(ids)
    BY DEF EnterKeys
  <2> QED
    BY <2>1 DEF EntOf
<1>3. ASSUME NEW x \in EntOf(K) PROVE x \in EntOf(K \cup EnterKeys(ids))
  BY DEF EntOf
<1>4. ASSUME NEW x \in EntOf(K \cup EnterKeys(ids)) PROVE x \in EntOf(K) \cup ids
  <2>1. PICK k \in K \cup EnterKeys(ids) : k[2] = NoChild /\ x = k[1]
    BY DEF EntOf
  <2> QED
    BY <2>1 DEF EntOf, EnterKeys
<1> QED
  BY <1>1, <1>2, <1>3, <1>4

\* Frames, receive items and host calls are numbered below N and belong to
\* frames that are there.
Placed(F, R, H, N) ==
    /\ N \in Nat /\ DOMAIN F \subseteq 0..N - 1
    /\ \A r \in R : r[1] \in DOMAIN F
    /\ H \subseteq DOMAIN F
    /\ \A x \in DOMAIN F : F[x].parent \in DOMAIN F \cup {NoParent}

\* Nobody works for frame f.
Idle(F, H, f) == f \in DOMAIN F /\ f \notin H /\ \A x \in DOMAIN F : F[x].parent # f

\* The items that are not for frame f.
Others(R, f) == {item \in R : item[1] # f}

\* G is F with new frames that work for f.
GrownBy(F, G, f, new) ==
    /\ new \cap DOMAIN F = {} /\ NoParent \notin new
    /\ DOMAIN G = DOMAIN F \cup new
    /\ \A x \in new : G[x].parent = f
    /\ \A x \in DOMAIN F : G[x].parent = F[x].parent

\* New frames for f.
LEMMA ExpectsGrown ==
    ASSUME NEW F, NEW R, NEW H, NEW N, Placed(F, R, H, N), NEW f, Idle(F, H, f),
           NEW G, NEW new, GrownBy(F, G, f, new)
    PROVE  /\ Expects(G, Others(R, f), H, f) = new
           /\ \A x \in new : Expects(G, Others(R, f), H, x) = {}
           /\ \A x \in DOMAIN F \ {f} : Expects(G, Others(R, f), H, x) = Expects(F, R, H, x)
<1> DEFINE S == Others(R, f)
<1> USE DEF Others, GrownBy
<1>1. new \cap DOMAIN F = {} /\ NoParent \notin new
  OBVIOUS
<1>2. Expects(G, S, H, f) = new
  BY <1>1 DEF Expects, Seconds, Idle
<1>3. ASSUME NEW x \in new PROVE Expects(G, S, H, x) = {}
  <2>1. x \notin DOMAIN F /\ x # NoParent /\ x # f
    BY <1>1 DEF Idle
  <2>2. \A c \in DOMAIN G : G[c].parent # x
    BY <2>1 DEF Placed
  <2>3. \A r \in S : r[1] # x
    BY <2>1 DEF Placed
  <2>4. x \notin H
    BY <2>1 DEF Placed
  <2> QED
    BY <2>2, <2>3, <2>4 DEF Expects, Seconds
<1>4. ASSUME NEW x \in DOMAIN F \ {f} PROVE Expects(G, S, H, x) = Expects(F, R, H, x)
  <2>1. {c \in DOMAIN G : G[c].parent = x} = {c \in DOMAIN F : F[c].parent = x}
    BY <1>1
  <2>2. {r \in S : r[1] = x} = {r \in R : r[1] = x}
    OBVIOUS
  <2> QED
    BY <2>1, <2>2 DEF Expects
<1> QED
  BY <1>2, <1>3, <1>4

\* A host call for f.
LEMMA ExpectsAwaited ==
    ASSUME NEW F, NEW R, NEW H, NEW N, Placed(F, R, H, N), NEW f, Idle(F, H, f),
           NEW G, NEW new, GrownBy(F, G, f, new), new = {N}, NEW H1, H1 = H \cup new
    PROVE  /\ Expects(G, Others(R, f), H1, f) = new
           /\ Expects(G, Others(R, f), H1, N) = new
           /\ \A x \in DOMAIN F \ {f} :
                  Expects(G, Others(R, f), H1, x) = Expects(F, R, H, x)
<1> DEFINE S == Others(R, f)
<1> USE DEF Others, GrownBy
<1>1. N \notin DOMAIN F /\ N # NoParent /\ N \in Nat /\ N # f
  BY DEF Placed, NoParent, Idle
<1>2. Expects(G, S, H \cup {N}, f) = {N}
  BY <1>1 DEF Expects, Seconds, Idle
<1>3. Expects(G, S, H \cup {N}, N) = {N}
  <2>1. \A c \in DOMAIN G : G[c].parent # N
    BY <1>1 DEF Placed
  <2>2. \A r \in S : r[1] # N
    BY <1>1 DEF Placed
  <2> QED
    BY <2>1, <2>2 DEF Expects, Seconds
<1>4. ASSUME NEW x \in DOMAIN F \ {f}
      PROVE  Expects(G, S, H \cup {N}, x) = Expects(F, R, H, x)
  <2>1. {c \in DOMAIN G : G[c].parent = x} = {c \in DOMAIN F : F[c].parent = x}
    BY <1>1
  <2>2. {r \in S : r[1] = x} = {r \in R : r[1] = x}
    OBVIOUS
  <2>3. x \in H \cup {N} <=> x \in H
    BY <1>1
  <2> QED
    BY <2>1, <2>2, <2>3 DEF Expects
<1> QED
  BY <1>2, <1>3, <1>4

\* The children of one more item.
LEMMA SecondsOfMore ==
    ASSUME NEW A, NEW x, NEW y
    PROVE  Seconds(A \cup {<<x, y>>}) = Seconds(A) \cup {y}
<1>1. PICK p : p = <<x, y>>
  OBVIOUS
<1>2. p[2] = y
  BY <1>1
<1>3. {r[2] : r \in A \cup {p}} = {r[2] : r \in A} \cup {p[2]}
  BY Zenon
<1> QED
  BY <1>1, <1>2, <1>3 DEF Seconds

\* G is F without f.
ShrunkBy(F, G, f) ==
    DOMAIN G = DOMAIN F \ {f} /\ \A x \in DOMAIN F \ {f} : G[x].parent = F[x].parent

\* Frame f is gone, and its result is on its way to its parent.
LEMMA ExpectsReturned ==
    ASSUME NEW F, NEW R, NEW H, NEW N, Placed(F, R, H, N), NEW f, Idle(F, H, f),
           NEW G, ShrunkBy(F, G, f), NEW S, S = Others(R, f) \cup
                      (IF F[f].parent = NoParent THEN {} ELSE {<<F[f].parent, f>>})
    PROVE  \A x \in DOMAIN F \ {f} : Expects(G, S, H, x) = Expects(F, R, H, x)
<1> SUFFICES ASSUME NEW x \in DOMAIN F \ {f}
             PROVE  Expects(G, S, H, x) = Expects(F, R, H, x)
  OBVIOUS
<1> USE DEF Others, ShrunkBy
<1>1. x # NoParent
  BY DEF Placed, NoParent
<1>2. CASE F[f].parent = x
  <2>1. {c \in DOMAIN F : F[c].parent = x} = {c \in DOMAIN G : G[c].parent = x} \cup {f}
    BY <1>2 DEF Idle
  <2>2. S = Others(R, f) \cup {<<x, f>>}
    BY <1>1, <1>2
  <2>3. PICK A, B : A = {r \in R : r[1] = x} /\ B = {r \in S : r[1] = x}
    OBVIOUS
  <2>4. B = A \cup {<<x, f>>}
    BY <2>2, <2>3
  <2>5. Seconds(B) = Seconds(A) \cup {f}
    BY <2>4, SecondsOfMore
  <2> QED
    BY <2>1, <2>3, <2>5 DEF Expects
<1>3. CASE F[f].parent # x
  <2>1. {c \in DOMAIN F : F[c].parent = x} = {c \in DOMAIN G : G[c].parent = x}
    BY <1>3
  <2>2. {r \in S : r[1] = x} = {r \in R : r[1] = x}
    BY <1>3
  <2> QED
    BY <2>1, <2>2 DEF Expects
<1> QED
  BY <1>2, <1>3

\* S and G are what R and F become when frame f takes the result of c, a frame
\* that is gone.
ReceivedBy(F, R, H, f, c, G, S) ==
    /\ f \in DOMAIN F /\ f \notin H
    /\ \A r \in R : r = <<r[1], r[2]>>
    /\ ~(c \in DOMAIN F /\ F[c].parent = f)
    /\ DOMAIN G = DOMAIN F /\ \A x \in DOMAIN F : G[x].parent = F[x].parent
    /\ S = R \ {<<f, c>>}

\* Frame f has received from c and goes on waiting.
LEMMA ExpectsReceived ==
    ASSUME NEW F, NEW R, NEW H, NEW f, NEW c, NEW G, NEW S, ReceivedBy(F, R, H, f, c, G, S)
    PROVE  /\ Expects(G, S, H, f) = Expects(F, R, H, f) \ {c}
           /\ \A x \in DOMAIN F \ {f} : Expects(G, S, H, x) = Expects(F, R, H, x)
<1> USE DEF ReceivedBy
<1>1. \A x : {y \in DOMAIN G : G[y].parent = x} = {y \in DOMAIN F : F[y].parent = x}
  OBVIOUS
<1>2. Expects(G, S, H, f) = Expects(F, R, H, f) \ {c}
  <2>1. Seconds({s \in S : s[1] = f}) = Seconds({s \in R : s[1] = f}) \ {c}
    BY DEF Seconds
  <2>2. c \notin {y \in DOMAIN F : F[y].parent = f}
    OBVIOUS
  <2> QED
    BY <1>1, <2>1, <2>2 DEF Expects
<1>3. ASSUME NEW x \in DOMAIN F \ {f} PROVE Expects(G, S, H, x) = Expects(F, R, H, x)
  <2>1. {s \in S : s[1] = x} = {s \in R : s[1] = x}
    OBVIOUS
  <2> QED
    BY <1>1, <2>1 DEF Expects
<1> QED
  BY <1>2, <1>3

\* The call of frame h has its answer.
LEMMA ExpectsAnswered ==
    ASSUME NEW F, NEW R, NEW H, NEW h \in H
    PROVE  \A x : Expects(F, R \cup {<<h, h>>}, H \ {h}, x) = Expects(F, R, H, x)
<1> SUFFICES ASSUME NEW x
             PROVE  Expects(F, R \cup {<<h, h>>}, H \ {h}, x) = Expects(F, R, H, x)
  OBVIOUS
<1> DEFINE S == R \cup {<<h, h>>}
<1>1. CASE x = h
  <2>1. PICK A, B : A = {r \in R : r[1] = x} /\ B = {r \in S : r[1] = x}
    OBVIOUS
  <2>2. B = A \cup {<<h, h>>}
    BY <1>1, <2>1
  <2>3. Seconds(B) = Seconds(A) \cup {h}
    BY <2>2, SecondsOfMore
  <2> QED
    BY <1>1, <2>1, <2>3 DEF Expects
<1>2. CASE x # h
  <2>1. {s \in S : s[1] = x} = {s \in R : s[1] = x}
    BY <1>2
  <2> QED
    BY <1>2, <2>1 DEF Expects
<1> QED
  BY <1>1, <1>2

\* A frame that counts has the count of the results on their way to it; any
\* other frame has one at most.
Counted(frame, W) ==
    IF Collecting(frame) THEN Outstanding(frame) = Cardinality(W)
    ELSE \A c, d \in W : c = d

FramesGood ==
    \A f \in DOMAIN frames :
        /\ GoodFrame(frames[f])
        /\ frames[f].parent = NoParent <=> f = Root
        /\ Counted(frames[f], WaitingFor(f))

HostFramesGood ==
    /\ \A f \in DOMAIN host : f \in DOMAIN frames => frames[f].kind = "NativeHost"
    /\ \A r \in Returned : r[1] = r[2] /\ r[1] \in DOMAIN frames => frames[r[1]].kind = "NativeHost"

Running == status \in {"poll", "cycle"}

\* What the frame protocol does not say of the main loop: a running evaluation
\* has good frames and a sound queue without duplicates; a cycle has an item.
LoopInv ==
    /\ status \in {"poll", "cycle", "completed", "failed"}
    /\ Running =>
           /\ FramesGood /\ HostFramesGood
           /\ QueueOK(queue) /\ Unrepeated(queue)
           /\ status = "poll" => completed = <<>>
           /\ completed # <<>> => /\ completed[1] # NoChild
                                  /\ <<completed[1], completed[1]>> \notin KeySet(queue)
           /\ status = "cycle" => completed # <<>> \/ Work!HasReadyWork(queue)

-----------------------------------------------------------------------------
(* The state before and after a step, as FrameTree sees it.                 *)

\* The state of a running evaluation.
LEMMA RunningView ==
    ASSUME Frames!IInv, LoopInv, Running
    PROVE  /\ TreeStatus = "running" /\ TreeParent = [f \in DOMAIN frames |->
                  IF frames[f].parent = NoParent THEN Root ELSE frames[f].parent]
           /\ Returned = RetOf(Keys) /\ TreeEntering = EntOf(Keys)
           /\ TreeWaiting = [f \in DOMAIN frames |-> Expects(frames, Returned, DOMAIN host, f)]
           /\ Placed(frames, Returned, DOMAIN host, next_id)
           /\ \A r \in Returned : r = <<r[1], r[2]>>
           /\ \A f \in DOMAIN frames :
                  /\ GoodFrame(frames[f])
                  /\ frames[f].parent = NoParent <=> f = Root
                  /\ Counted(frames[f], Expects(frames, Returned, DOMAIN host, f))
<1>1. FramesGood /\ (completed = <<>> \/ completed[1] # NoChild)
  BY DEF LoopInv
<1>2. /\ Returned = RetOf(Keys) /\ TreeEntering = EntOf(Keys)
      /\ \A f : WaitingFor(f) = Expects(frames, Returned, DOMAIN host, f)
  BY <1>1, KeysView
<1>3. TreeStatus = "running"
  BY DEF Running, TreeStatus
<1>4. Frames!TypeOK /\ Frames!TreeShape /\ Frames!NoStrayItem
  BY <1>3 DEF Frames!IInv, Frames!RunningInv
<1>5. Placed(frames, Returned, DOMAIN host, next_id)
  <2>1. next_id \in Nat /\ DOMAIN frames \subseteq 0..next_id - 1
    BY <1>4 DEF Frames!TypeOK
  <2>2. \A r \in Returned : r[1] \in DOMAIN frames
    BY <1>4 DEF Frames!NoStrayItem
  <2>3. DOMAIN host \subseteq DOMAIN frames
    BY <1>4 DEF Frames!NoStrayItem
  <2>4. \A x \in DOMAIN frames : frames[x].parent \in DOMAIN frames \cup {NoParent}
    BY <1>1, <1>4 DEF Frames!TreeShape, TreeParent, FramesGood, Root, Frames!Root
  <2> QED
    BY <2>1, <2>2, <2>3, <2>4 DEF Placed
<1>6. \A r \in Returned : r = <<r[1], r[2]>>
  BY <1>4 DEF Frames!TypeOK
<1> QED
  BY <1>1, <1>2, <1>3, <1>5, <1>6 DEF FramesGood, TreeWaiting, TreeParent

\* The state after a step that takes the completion with it.
LEMMA ViewAfter ==
    ASSUME completed' = <<>>
    PROVE  /\ Returned' = RetOf(KeySet(queue')) /\ TreeEntering' = EntOf(KeySet(queue'))
           /\ \A f : WaitingFor(f)' = Expects(frames', Returned', DOMAIN host', f)
<1>1. Returned' = ReturnedOf(queue', completed') /\ TreeEntering' = EnteringOf(queue')
  BY DEF Returned, TreeEntering, ReturnedOf, EnteringOf, Items, QueuedItems, Work!PopOrder
<1>2. KeysWith(queue', completed') = KeySet(queue')
  BY DEF KeysWith
<1>3. \A f : WaitingFor(f)' = Expects(frames', Returned', DOMAIN host', f)
  BY DEF WaitingFor, Expects, Seconds
<1> QED
  BY <1>1, <1>2, <1>3, KeysWithView

\* The invariant after a step that leaves the evaluation running, from the frames,
\* the keys and the host calls there are then.
LEMMA LoopAfter ==
    ASSUME status' = "poll", completed' = <<>>, QueueOK(queue'), Unrepeated(queue'),
           NEW R, R = RetOf(KeySet(queue')),
           \A x \in DOMAIN frames' :
               /\ GoodFrame(frames'[x])
               /\ frames'[x].parent = NoParent <=> x = Root
               /\ Counted(frames'[x], Expects(frames', R, DOMAIN host', x)),
           \A x \in DOMAIN host' : x \in DOMAIN frames' => frames'[x].kind = "NativeHost",
           \A r \in R : r[1] = r[2] /\ r[1] \in DOMAIN frames' =>
               frames'[r[1]].kind = "NativeHost"
    PROVE  LoopInv'
<1>1. /\ Returned' = R
      /\ \A f : WaitingFor(f)' = Expects(frames', R, DOMAIN host', f)
  BY ViewAfter
<1>2. FramesGood'
  BY <1>1 DEF FramesGood, GoodFrame, GoodTask, Counted, Collecting, Outstanding, NoParent, Root
<1>3. HostFramesGood'
  BY <1>1 DEF HostFramesGood
<1>4. QueueOK(queue)' /\ Unrepeated(queue)'
  BY DEF QueueOK, Unrepeated, Key, Work!PopOrder, Queues!Sound, Queues!Queue
<1> QED
  BY <1>2, <1>3, <1>4 DEF LoopInv, Running

\* A frame that is free of its item.
LEMMA FreedView ==
    ASSUME Frames!IInv, LoopInv, Running, NEW f, NEW E, NEW R, Frames!Freed(f, E, R)
    PROVE  /\ Idle(frames, DOMAIN host, f)
           /\ R = Others(Returned, f)
<1>1. /\ f \in DOMAIN frames /\ f \notin DOMAIN host
      /\ \A x \in DOMAIN frames \ {Root} : TreeParent[x] # f
      /\ R = Others(Returned, f)
  BY DEF Frames!Freed, Root, Frames!Root, Others
<1>2. ASSUME NEW x \in DOMAIN frames PROVE frames[x].parent # f
  <2>1. f # NoParent
    BY <1>1, RunningView DEF Placed, NoParent
  <2>2. CASE x = Root
    BY <2>1, <2>2, RunningView
  <2>3. CASE x # Root
    <3>1. TreeParent[x] = frames[x].parent
      BY <2>3, RunningView
    <3> QED
      BY <1>1, <2>3, <3>1
  <2> QED
    BY <2>2, <2>3
<1> QED
  BY <1>1, <1>2 DEF Idle

\* What a step does that gives frame f the frames new to work for it.
Grows(f, n, new, E, R) ==
    /\ new = next_id..next_id + n - 1 /\ next_id + n <= MaxFrames
    /\ DOMAIN frames' = DOMAIN frames \cup new /\ next_id' = next_id + n
    /\ \A x \in new : Made(frames'[x], f)
    /\ \A x \in DOMAIN frames \ {f} : frames'[x] = frames[x]
    /\ GoodFrame(frames'[f]) /\ frames'[f].parent = frames[f].parent
    /\ frames'[f].kind = frames[f].kind /\ Counted(frames'[f], new)
    /\ QueueOK(queue') /\ Unrepeated(queue')
    /\ RetOf(KeySet(queue')) = R /\ EntOf(KeySet(queue')) = E \cup new
    /\ host' = host /\ status' = "poll" /\ completed' = <<>>

\* Such a step is FrameTree's Schedule.
LEMMA GrowStep ==
    ASSUME Frames!IInv, LoopInv, Running, NEW f, NEW E, NEW R, Frames!Freed(f, E, R),
           NEW n \in 1..MaxFan, NEW new, Grows(f, n, new, E, R)
    PROVE  Frames!Schedule(f, n, E, R) /\ LoopInv'
<1> USE DEF Grows
<1>1. /\ Idle(frames, DOMAIN host, f) /\ R = Others(Returned, f)
      /\ Placed(frames, Returned, DOMAIN host, next_id)
  BY FreedView, RunningView
<1>2. /\ f \in DOMAIN frames /\ new \cap DOMAIN frames = {} /\ f # NoParent /\ f \notin new
      /\ NoParent \notin new /\ n \in Nat /\ Root \notin new
  <2>1. f \in DOMAIN frames /\ f # NoParent /\ n \in Nat
    BY <1>1, EvaluatorBounds DEF Idle, Placed, NoParent
  <2>2. new \cap DOMAIN frames = {} /\ NoParent \notin new
    BY <1>1, <2>1 DEF Placed, NoParent
  <2>3. Root \in DOMAIN frames
    BY RunningView DEF Frames!IInv, Frames!RunningInv, Root, Frames!Root
  <2> QED
    BY <2>1, <2>2, <2>3
<1>3. \A x \in DOMAIN frames : frames'[x].parent = frames[x].parent
  OBVIOUS
<1>4. \A x \in new : frames'[x].parent = f /\ GoodFrame(frames'[x]) /\ ~Collecting(frames'[x])
  BY DEF Made
<1>5. /\ Expects(frames', R, DOMAIN host, f) = new
      /\ \A x \in new : Expects(frames', R, DOMAIN host, x) = {}
      /\ \A x \in DOMAIN frames \ {f} :
             Expects(frames', R, DOMAIN host, x) = Expects(frames, Returned, DOMAIN host, x)
  <2>1. GrownBy(frames, frames', f, new)
    BY <1>1, <1>2, <1>3, <1>4 DEF GrownBy
  <2> QED
    BY ONLY <1>1, <2>1, ExpectsGrown
<1>6. /\ Returned' = R /\ TreeEntering' = E \cup new
      /\ \A x : WaitingFor(x)' = Expects(frames', R, DOMAIN host, x)
  BY ViewAfter
<1>7. Frames!Schedule(f, n, E, R)
  <2>1. TreeParent' = [x \in DOMAIN frames \cup new |-> IF x \in new THEN f ELSE TreeParent[x]]
    BY <1>2, <1>3, <1>4, RunningView DEF TreeParent
  <2>2. TreeWaiting' = [x \in DOMAIN frames \cup new |->
            IF x = f THEN new ELSE IF x \in new THEN {} ELSE TreeWaiting[x]]
    <3>1. TreeWaiting' = [x \in DOMAIN frames \cup new |-> Expects(frames', R, DOMAIN host, x)]
      BY <1>6 DEF TreeWaiting
    <3>2. \A x \in DOMAIN frames \ {f} :
              TreeWaiting[x] = Expects(frames', R, DOMAIN host, x)
      BY <1>5, RunningView
    <3> QED
      BY <1>2, <1>5, <3>1, <3>2
  <2>3. TreeStatus' = TreeStatus
    BY DEF TreeStatus, Running
  <2> QED
    BY <1>6, <2>1, <2>2, <2>3 DEF Frames!Schedule
<1>8. LoopInv'
  <2>1. ASSUME NEW x \in DOMAIN frames'
        PROVE  /\ GoodFrame(frames'[x])
               /\ frames'[x].parent = NoParent <=> x = Root
               /\ Counted(frames'[x], Expects(frames', R, DOMAIN host', x))
    <3>1. CASE x = f
      BY <1>2, <1>5, <3>1, RunningView
    <3>2. CASE x \in new
      BY <1>2, <1>4, <1>5, <3>2 DEF Counted
    <3>3. CASE x \in DOMAIN frames \ {f}
      BY <1>5, <3>3, RunningView
    <3> QED
      BY <3>1, <3>2, <3>3
  <2>2. /\ \A x \in DOMAIN host : frames[x].kind = "NativeHost" /\ x \in DOMAIN frames
        /\ \A r \in Returned : r[1] \in DOMAIN frames
        /\ \A r \in Returned : r[1] = r[2] => frames[r[1]].kind = "NativeHost"
    BY <1>1 DEF LoopInv, HostFramesGood, Placed
  <2>3. \A x \in DOMAIN frames : frames'[x].kind = frames[x].kind
    OBVIOUS
  <2>4. \A x \in DOMAIN host' : x \in DOMAIN frames' => frames'[x].kind = "NativeHost"
    BY <2>2, <2>3
  <2>5. \A r \in R : r[1] = r[2] /\ r[1] \in DOMAIN frames' =>
            frames'[r[1]].kind = "NativeHost"
    BY <1>1, <2>2, <2>3 DEF Others
  <2> QED
    BY <2>1, <2>4, <2>5, LoopAfter
<1> QED
  BY <1>7, <1>8

\* The kinds of the frames of host calls.
LEMMA HostKinds ==
    ASSUME Frames!IInv, LoopInv, Running
    PROVE  /\ \A x \in DOMAIN host : frames[x].kind = "NativeHost" /\ x \in DOMAIN frames
           /\ \A r \in Returned : r[1] \in DOMAIN frames
           /\ \A r \in Returned : r[1] = r[2] => frames[r[1]].kind = "NativeHost"
BY RunningView DEF LoopInv, HostFramesGood, Placed

\* The frame calls the host.
Awaits(f, c, E, R) ==
    /\ c = next_id /\ next_id < MaxFrames
    /\ DOMAIN frames' = DOMAIN frames \cup {c} /\ next_id' = next_id + 1
    /\ Made(frames'[c], f) /\ frames'[c].kind = "NativeHost"
    /\ \A x \in DOMAIN frames \ {f} : frames'[x] = frames[x]
    /\ GoodFrame(frames'[f]) /\ frames'[f].parent = frames[f].parent
    /\ frames'[f].kind = frames[f].kind /\ ~Collecting(frames'[f])
    /\ QueueOK(queue') /\ Unrepeated(queue')
    /\ RetOf(KeySet(queue')) = R /\ EntOf(KeySet(queue')) = E
    /\ DOMAIN host' = DOMAIN host \cup {c} /\ status' = "poll" /\ completed' = <<>>

\* Such a step is FrameTree's AwaitNative.
LEMMA AwaitStep ==
    ASSUME Frames!IInv, LoopInv, Running, NEW f, NEW E, NEW R, Frames!Freed(f, E, R),
           NEW c, Awaits(f, c, E, R)
    PROVE  Frames!AwaitNative(f, E, R) /\ LoopInv'
<1> USE DEF Awaits
<1>1. /\ Idle(frames, DOMAIN host, f) /\ R = Others(Returned, f)
      /\ Placed(frames, Returned, DOMAIN host, next_id)
  BY FreedView, RunningView
<1>2. /\ f \in DOMAIN frames /\ c \notin DOMAIN frames /\ f # NoParent /\ c # f
      /\ c # NoParent /\ c # Root
  <2>1. f \in DOMAIN frames /\ f # NoParent /\ c \notin DOMAIN frames /\ c # NoParent
    BY <1>1, EvaluatorBounds DEF Idle, Placed, NoParent
  <2>2. Root \in DOMAIN frames
    BY RunningView DEF Frames!IInv, Frames!RunningInv, Root, Frames!Root
  <2> QED
    BY <2>1, <2>2
<1>3. \A x \in DOMAIN frames : frames'[x].parent = frames[x].parent
  OBVIOUS
<1>4. frames'[c].parent = f /\ GoodFrame(frames'[c]) /\ ~Collecting(frames'[c])
  BY DEF Made
<1>5. /\ Expects(frames', R, DOMAIN host', f) = {c}
      /\ Expects(frames', R, DOMAIN host', c) = {c}
      /\ \A x \in DOMAIN frames \ {f} :
             Expects(frames', R, DOMAIN host', x) = Expects(frames, Returned, DOMAIN host, x)
  <2>1. PICK new, H : new = {c} /\ H = DOMAIN host \cup new
    OBVIOUS
  <2>2. GrownBy(frames, frames', f, new)
    BY <1>1, <1>2, <1>3, <1>4, <2>1 DEF GrownBy
  <2>3. Placed(frames, Returned, DOMAIN host, c)
    BY <1>1
  <2>4. /\ Expects(frames', R, H, f) = new /\ Expects(frames', R, H, c) = new
        /\ \A x \in DOMAIN frames \ {f} :
               Expects(frames', R, H, x) = Expects(frames, Returned, DOMAIN host, x)
    BY ONLY <1>1, <2>1, <2>2, <2>3, ExpectsAwaited
  <2>5. DOMAIN host' = H
    BY <2>1
  <2> QED
    BY ONLY <2>1, <2>4, <2>5
<1>6. /\ Returned' = R /\ TreeEntering' = E
      /\ \A x : WaitingFor(x)' = Expects(frames', R, DOMAIN host', x)
  BY ViewAfter
<1>7. Frames!AwaitNative(f, E, R)
  <2>1. TreeParent' = [x \in DOMAIN frames \cup {c} |-> IF x = c THEN f ELSE TreeParent[x]]
    BY <1>2, <1>3, <1>4, RunningView DEF TreeParent
  <2>2. TreeWaiting' = [x \in DOMAIN frames \cup {c} |->
            IF x \in {f, c} THEN {c} ELSE TreeWaiting[x]]
    <3>1. TreeWaiting' = [x \in DOMAIN frames \cup {c} |-> Expects(frames', R, DOMAIN host', x)]
      BY <1>6 DEF TreeWaiting
    <3>2. \A x \in DOMAIN frames \ {f} :
              TreeWaiting[x] = Expects(frames', R, DOMAIN host', x)
      BY <1>5, RunningView
    <3> QED
      BY <1>2, <1>5, <3>1, <3>2
  <2>3. TreeStatus' = TreeStatus
    BY DEF TreeStatus, Running
  <2> QED
    BY <1>6, <2>1, <2>2, <2>3 DEF Frames!AwaitNative
<1>8. LoopInv'
  <2>1. ASSUME NEW x \in DOMAIN frames'
        PROVE  /\ GoodFrame(frames'[x])
               /\ frames'[x].parent = NoParent <=> x = Root
               /\ Counted(frames'[x], Expects(frames', R, DOMAIN host', x))
    <3>1. CASE x = f
      BY <1>2, <1>5, <3>1, RunningView DEF Counted
    <3>2. CASE x = c
      BY <1>2, <1>4, <1>5, <3>2 DEF Counted
    <3>3. CASE x \in DOMAIN frames \ {f}
      BY <1>5, <3>3, RunningView
    <3> QED
      BY <3>1, <3>2, <3>3
  <2>2. \A x \in DOMAIN frames : frames'[x].kind = frames[x].kind
    OBVIOUS
  <2>3. \A x \in DOMAIN host' : x \in DOMAIN frames' => frames'[x].kind = "NativeHost"
    BY <2>2, HostKinds
  <2>4. \A r \in R : r[1] = r[2] /\ r[1] \in DOMAIN frames' =>
            frames'[r[1]].kind = "NativeHost"
    BY <1>1, <2>2, HostKinds DEF Others
  <2> QED
    BY <2>1, <2>3, <2>4, LoopAfter
<1> QED
  BY <1>7, <1>8

\* The frame returns: to its parent, or, the root, to the caller.
Leaves(f, E, R) ==
    /\ DOMAIN frames' = DOMAIN frames \ {f} /\ next_id' = next_id
    /\ \A x \in DOMAIN frames \ {f} : frames'[x] = frames[x]
    /\ QueueOK(queue') /\ Unrepeated(queue')
    /\ RetOf(KeySet(queue')) =
           R \cup (IF frames[f].parent = NoParent THEN {} ELSE {<<frames[f].parent, f>>})
    /\ EntOf(KeySet(queue')) = E
    /\ host' = host /\ completed' = <<>>
    /\ status' = IF frames[f].parent = NoParent THEN "completed" ELSE "poll"

\* Such a step is FrameTree's Return.
LEMMA ReturnStep ==
    ASSUME Frames!IInv, LoopInv, Running, NEW f, NEW E, NEW R, Frames!Freed(f, E, R),
           Leaves(f, E, R)
    PROVE  Frames!Return(f, E, R) /\ LoopInv'
<1> USE DEF Leaves
<1>1. /\ Idle(frames, DOMAIN host, f) /\ R = Others(Returned, f)
      /\ Placed(frames, Returned, DOMAIN host, next_id)
  BY FreedView, RunningView
<1>2. f \in DOMAIN frames /\ frames[f].parent # f /\ (frames[f].parent = NoParent <=> f = Root)
  BY <1>1, RunningView DEF Idle
<1>3. PICK S : S = RetOf(KeySet(queue'))
  OBVIOUS
<1>4. \A x \in DOMAIN frames \ {f} :
          Expects(frames', S, DOMAIN host, x) = Expects(frames, Returned, DOMAIN host, x)
  <2>1. ShrunkBy(frames, frames', f)
    BY DEF ShrunkBy
  <2>2. S = Others(Returned, f) \cup
               (IF frames[f].parent = NoParent THEN {} ELSE {<<frames[f].parent, f>>})
    BY <1>1, <1>3
  <2> QED
    BY ONLY <1>1, <2>1, <2>2, ExpectsReturned
<1>5. /\ Returned' = S /\ TreeEntering' = E
      /\ \A x : WaitingFor(x)' = Expects(frames', S, DOMAIN host, x)
  BY <1>3, ViewAfter
<1>6. Frames!Return(f, E, R)
  <2>1. TreeParent' = [x \in DOMAIN frames \ {f} |-> TreeParent[x]]
    BY RunningView DEF TreeParent
  <2>2. TreeWaiting' = [x \in DOMAIN frames \ {f} |-> TreeWaiting[x]]
    BY <1>4, <1>5, RunningView DEF TreeWaiting
  <2>3. TreeStatus' = IF f = Frames!Root THEN "completed" ELSE TreeStatus
    BY <1>2 DEF TreeStatus, Running, Root, Frames!Root
  <2>4. Returned' = IF f = Frames!Root THEN R ELSE R \cup {<<TreeParent[f], f>>}
    BY <1>2, <1>3, <1>5, RunningView DEF Root, Frames!Root
  <2> QED
    BY <1>5, <2>1, <2>2, <2>3, <2>4 DEF Frames!Return
<1>7. LoopInv'
  <2>1. CASE frames[f].parent = NoParent
    BY <2>1 DEF LoopInv, Running
  <2>2. CASE frames[f].parent # NoParent
    <3>1. \A x \in DOMAIN frames' :
              /\ GoodFrame(frames'[x])
              /\ frames'[x].parent = NoParent <=> x = Root
              /\ Counted(frames'[x], Expects(frames', S, DOMAIN host', x))
      BY <1>4, RunningView
    <3>2. \A x \in DOMAIN host' : x \in DOMAIN frames' => frames'[x].kind = "NativeHost"
      BY HostKinds
    <3>3. S = R \cup {<<frames[f].parent, f>>}
      BY <1>3, <2>2
    <3>4. \A r \in S : r[1] = r[2] /\ r[1] \in DOMAIN frames' =>
              frames'[r[1]].kind = "NativeHost"
      BY <1>1, <1>2, <3>3, HostKinds DEF Others
    <3> QED
      BY <1>3, <2>2, <3>1, <3>2, <3>4, LoopAfter
  <2> QED
    BY <2>1, <2>2
<1> QED
  BY <1>6, <1>7

\* The frame receives one of several results.
Counts(f, c) ==
    /\ f \in DOMAIN frames /\ <<f, c>> \in Returned
    /\ Collecting(frames[f]) /\ Outstanding(frames[f]) # 1
    /\ DOMAIN frames' = DOMAIN frames /\ next_id' = next_id
    /\ \A x \in DOMAIN frames \ {f} : frames'[x] = frames[x]
    /\ GoodFrame(frames'[f]) /\ frames'[f].parent = frames[f].parent
    /\ frames'[f].kind = frames[f].kind /\ Collecting(frames'[f])
    /\ Outstanding(frames'[f]) = Outstanding(frames[f]) - 1
    /\ QueueOK(queue') /\ Unrepeated(queue')
    /\ RetOf(KeySet(queue')) = Returned \ {<<f, c>>} /\ EntOf(KeySet(queue')) = TreeEntering
    /\ host' = host /\ status' = "poll" /\ completed' = <<>>

\* Such a step is FrameTree's ReceiveAndWait.
LEMMA WaitStep ==
    ASSUME Frames!IInv, LoopInv, Running, NEW f, NEW c, Counts(f, c)
    PROVE  Frames!ReceiveAndWait(f, c) /\ LoopInv'
<1> USE DEF Counts
<1>1. /\ Placed(frames, Returned, DOMAIN host, next_id)
      /\ \A r \in Returned : r = <<r[1], r[2]>>
  BY RunningView
<1>2. PICK W : W = Expects(frames, Returned, DOMAIN host, f)
  OBVIOUS
<1>3. TreeWaiting[f] = W /\ Outstanding(frames[f]) = Cardinality(W) /\ c \in W
  <2>1. TreeWaiting[f] = W /\ Counted(frames[f], W)
    BY <1>2, RunningView
  <2>2. c \in TreeWaiting[f]
    BY RunningView DEF Frames!IInv, Frames!RunningInv, Frames!NoStrayItem
  <2> QED
    BY <2>1, <2>2 DEF Counted
<1>4. IsFiniteSet(W)
  <2>1. W \in SUBSET (0..next_id - 1) /\ next_id \in Nat
    BY <1>3 DEF Frames!IInv, Frames!TypeOK
  <2>2. IsFiniteSet(0..next_id - 1)
    BY <2>1, FS_Interval
  <2> QED
    BY <2>1, <2>2, FS_Subset
<1>5. W # {c}
  BY <1>3, FS_Singleton
<1>6. f \notin DOMAIN host /\ ~(c \in DOMAIN frames /\ frames[c].parent = f)
  <2>1. /\ Frames!Awaited /\ Frames!NoStrayItem /\ Frames!TypeOK
    BY RunningView DEF Frames!IInv, Frames!RunningInv
  <2>2. f \notin DOMAIN host
    BY <1>3, <1>5, <2>1 DEF Frames!NoStrayItem
  <2>3. c \notin DOMAIN frames
    BY <1>3, <1>5, <2>1 DEF Frames!Awaited
  <2> QED
    BY <2>2, <2>3
<1>7. \A x \in DOMAIN frames : frames'[x].parent = frames[x].parent
  OBVIOUS
<1>8. PICK S : S = Returned \ {<<f, c>>}
  OBVIOUS
<1>9. /\ Expects(frames', S, DOMAIN host, f) = W \ {c}
      /\ \A x \in DOMAIN frames \ {f} :
             Expects(frames', S, DOMAIN host, x) = Expects(frames, Returned, DOMAIN host, x)
  <2>1. ReceivedBy(frames, Returned, DOMAIN host, f, c, frames', S)
    BY <1>1, <1>6, <1>7, <1>8 DEF ReceivedBy
  <2> QED
    BY ONLY <1>2, <2>1, ExpectsReceived
<1>10. /\ Returned' = S /\ TreeEntering' = TreeEntering
       /\ \A x : WaitingFor(x)' = Expects(frames', S, DOMAIN host, x)
  BY <1>8, ViewAfter
<1>11. Frames!ReceiveAndWait(f, c)
  <2>1. TreeParent' = TreeParent
    BY <1>7 DEF TreeParent
  <2>2. TreeWaiting' = [TreeWaiting EXCEPT ![f] = @ \ {c}]
    <3>1. TreeWaiting' = [x \in DOMAIN frames |-> Expects(frames', S, DOMAIN host, x)]
      BY <1>10 DEF TreeWaiting
    <3>2. \A x \in DOMAIN frames \ {f} :
              TreeWaiting[x] = Expects(frames', S, DOMAIN host, x)
      BY <1>9, RunningView
    <3>3. DOMAIN TreeWaiting = DOMAIN frames
          /\ TreeWaiting = [x \in DOMAIN frames |-> TreeWaiting[x]]
      BY DEF TreeWaiting
    <3> QED
      BY <1>3, <1>9, <3>1, <3>2, <3>3
  <2>3. TreeStatus' = TreeStatus
    BY DEF TreeStatus, Running
  <2> QED
    BY <1>3, <1>5, <1>8, <1>10, <2>1, <2>2, <2>3, RunningView DEF Frames!ReceiveAndWait
<1>12. LoopInv'
  <2>1. Cardinality(W \ {c}) = Cardinality(W) - 1
    BY <1>3, <1>4, FS_RemoveElement
  <2>2. ASSUME NEW x \in DOMAIN frames'
        PROVE  /\ GoodFrame(frames'[x])
               /\ frames'[x].parent = NoParent <=> x = Root
               /\ Counted(frames'[x], Expects(frames', S, DOMAIN host', x))
    <3>1. CASE x = f
      BY <1>3, <1>9, <2>1, <3>1, RunningView DEF Counted
    <3>2. CASE x # f
      BY <1>9, <3>2, RunningView
    <3> QED
      BY <3>1, <3>2
  <2>3. \A x \in DOMAIN frames : frames'[x].kind = frames[x].kind
    OBVIOUS
  <2>4. \A x \in DOMAIN host' : x \in DOMAIN frames' => frames'[x].kind = "NativeHost"
    BY <2>3, HostKinds
  <2>5. \A r \in S : r[1] = r[2] /\ r[1] \in DOMAIN frames' =>
            frames'[r[1]].kind = "NativeHost"
    BY <1>8, <2>3, HostKinds
  <2> QED
    BY <1>8, <2>2, <2>4, <2>5, LoopAfter
<1> QED
  BY <1>11, <1>12

\* The evaluation fails.
LEMMA FailStep ==
    ASSUME LoopInv, Running, NEW error, FailWith(error)
    PROVE  Frames!Fail /\ LoopInv'
<1>1. /\ status' = "failed" /\ completed' = <<>> /\ next_id' = next_id
      /\ DOMAIN frames' = {} /\ DOMAIN host' = {}
      /\ queue' = Work!Queue(<<>>, <<>>, queue.ready_work_limit)
  BY DEF FailWith
<1>2. KeySet(queue') = {}
  <2>1. Work!PopOrder(queue') = <<>>
    BY <1>1 DEF Work!PopOrder, Work!Queue
  <2> QED
    BY <2>1 DEF KeySet
<1>3. Returned' = {} /\ TreeEntering' = {}
  BY <1>1, <1>2, ViewAfter DEF RetOf, EntOf
<1>4. /\ TreeParent' = [f \in {} |-> Frames!Root] /\ TreeWaiting' = [f \in {} |-> {}]
      /\ TreeStatus' = "failed" /\ TreeStatus = "running"
  BY <1>1 DEF TreeParent, TreeWaiting, TreeStatus, Running
<1>5. Frames!Fail
  BY <1>1, <1>3, <1>4 DEF Frames!Fail
<1>6. LoopInv'
  BY <1>1 DEF LoopInv, Running
<1> QED
  BY <1>5, <1>6

\* The host has answered the call of frame h.
LEMMA AnswerStep ==
    ASSUME Frames!IInv, LoopInv, NEW h \in DOMAIN host, PollCompletes(h)
    PROVE  Frames!NativeCompleted(h) /\ LoopInv'
<1>1. /\ status = "poll" /\ status' = "cycle" /\ completed' = <<h, HostAnswer(host[h])>>
      /\ DOMAIN host' = DOMAIN host \ {h}
      /\ frames' = frames /\ next_id' = next_id /\ queue' = queue
  BY DEF PollCompletes
<1>2. Running /\ completed = <<>>
  BY <1>1 DEF Running, LoopInv
<1>3. completed' # <<>> /\ completed'[1] = h
  BY <1>1
<1>4. h \in DOMAIN frames /\ h # NoChild /\ <<h, h>> \notin Returned
  <2>1. Frames!NoStrayItem /\ Frames!Awaited /\ Frames!TypeOK
    BY <1>2, RunningView DEF Frames!IInv, Frames!RunningInv
  <2>2. h \in DOMAIN frames /\ TreeWaiting[h] = {h}
    BY <2>1 DEF Frames!NoStrayItem
  <2>3. h # NoChild
    BY <2>1, <2>2 DEF Frames!TypeOK, NoChild
  <2>4. <<h, h>> \notin Returned
    BY <2>1, <2>2 DEF Frames!Awaited
  <2> QED
    BY <2>2, <2>3, <2>4
<1>5. Returned = RetOf(KeySet(queue)) /\ TreeEntering = EntOf(KeySet(queue))
  BY <1>2, RunningView DEF Keys
<1>6. Returned' = Returned \cup {<<h, h>>} /\ TreeEntering' = TreeEntering
  <2>1. Returned' = ReturnedOf(queue', completed') /\ TreeEntering' = EnteringOf(queue')
    BY DEF Returned, TreeEntering, ReturnedOf, EnteringOf, Items, QueuedItems, Work!PopOrder
  <2>2. PICK K, L : K = KeySet(queue) /\ L = KeysWith(queue', completed')
    OBVIOUS
  <2>3. L = K \cup {<<h, h>>}
    BY <1>1, <1>3, <2>2 DEF KeysWith
  <2>4. Returned' = RetOf(L) /\ TreeEntering' = EntOf(L)
    <3>1. PICK q, done : q = queue' /\ done = completed'
      OBVIOUS
    <3>2. done[1] # NoChild
      BY <1>3, <1>4, <3>1
    <3>3. /\ ReturnedOf(q, done) = RetOf(KeysWith(q, done))
          /\ EnteringOf(q) = EntOf(KeysWith(q, done))
      BY ONLY <3>2, KeysWithView
    <3> QED
      BY ONLY <2>1, <2>2, <3>1, <3>3
  <2>5. RetOf(L) = RetOf(K) \cup {<<h, h>>} /\ EntOf(L) = EntOf(K)
    BY ONLY <1>4, <2>3 DEF RetOf, EntOf
  <2> QED
    BY ONLY <1>5, <2>2, <2>4, <2>5
<1>7. \A x : WaitingFor(x)' = Expects(frames, Returned, DOMAIN host, x)
  <2>1. \A x : WaitingFor(x)' = Expects(frames', Returned', DOMAIN host', x)
    BY DEF WaitingFor, Expects, Seconds
  <2>2. PICK F, S, H : F = frames /\ S = Returned' /\ H = DOMAIN host'
    OBVIOUS
  <2>3. \A x : Expects(F, S, H, x) = Expects(F, Returned, DOMAIN host, x)
    BY ONLY <1>1, <1>6, <2>2, h \in DOMAIN host, ExpectsAnswered
  <2> QED
    BY <1>1, <2>1, <2>2, <2>3
<1>8. Frames!NativeCompleted(h)
  <2>1. TreeParent' = TreeParent /\ TreeStatus' = TreeStatus /\ TreeStatus = "running"
    BY <1>1 DEF TreeParent, TreeStatus
  <2>2. TreeWaiting' = TreeWaiting
    BY <1>1, <1>2, <1>7, RunningView DEF TreeWaiting
  <2> QED
    BY <1>1, <1>6, <2>1, <2>2 DEF Frames!NativeCompleted
<1>9. LoopInv'
  <2>1. FramesGood'
    BY <1>1, <1>2, <1>7, RunningView
       DEF FramesGood, GoodFrame, GoodTask, Counted, Collecting, Outstanding, NoParent, Root
  <2>2. HostFramesGood'
    BY <1>1, <1>2, <1>6, HostKinds DEF HostFramesGood
  <2>3. QueueOK(queue)' /\ Unrepeated(queue)'
    <3>1. QueueOK(queue) /\ Unrepeated(queue)
      BY <1>2 DEF LoopInv
    <3>2. QueueOK(queue)'
      BY <1>1, <3>1 DEF QueueOK, Queues!Sound, Queues!Queue
    <3>3. Unrepeated(queue)'
      BY <1>1, <3>1 DEF Unrepeated, Key, Work!PopOrder
    <3> QED
      BY <3>2, <3>3
  <2>4. <<h, h>> \notin KeySet(queue)
    BY <1>4, <1>5 DEF RetOf
  <2>5. <<completed'[1], completed'[1]>> \notin KeySet(queue)'
    BY <1>1, <1>3, <2>4 DEF KeySet, Key, Work!PopOrder
  <2> QED
    BY <1>1, <1>3, <1>4, <2>1, <2>2, <2>3, <2>5 DEF LoopInv, Running
<1> QED
  BY <1>8, <1>9

-----------------------------------------------------------------------------
(* Obeying the control of a step.                                           *)

\* Frame f has given up its item and q is the queue without it.
Free(f, q) ==
    /\ QueueOK(q) /\ Unrepeated(q)
    /\ Frames!Freed(f, EntOf(KeySet(q)), RetOf(KeySet(q)))

\* The items a step schedules are new.
LEMMA FreshKeys ==
    ASSUME Frames!IInv, LoopInv, Running, NEW f, NEW q, Free(f, q)
    PROVE  /\ \A x : x \notin DOMAIN frames => <<x, NoChild>> \notin KeySet(q)
           /\ frames[f].parent # NoParent => <<frames[f].parent, f>> \notin KeySet(q)
<1>1. PICK E, R : E = EntOf(KeySet(q)) /\ R = RetOf(KeySet(q))
  OBVIOUS
<1>2. Frames!Freed(f, E, R) /\ Idle(frames, DOMAIN host, f) /\ R = Others(Returned, f)
  BY <1>1, FreedView DEF Free
<1>3. ASSUME NEW x, <<x, NoChild>> \in KeySet(q) PROVE x \in DOMAIN frames
  <2>1. x \in E
    BY <1>1, <1>3 DEF EntOf
  <2> QED
    BY <1>2, <2>1 DEF Frames!Freed
<1>4. ASSUME frames[f].parent # NoParent, <<frames[f].parent, f>> \in KeySet(q) PROVE FALSE
  <2>1. f \in DOMAIN frames /\ f # NoChild /\ f # frames[f].parent
    BY <1>2, RunningView DEF Idle, Placed, NoChild
  <2>2. <<frames[f].parent, f>> \in Returned
    BY <1>1, <1>2, <1>4, <2>1 DEF RetOf, Others
  <2>3. frames[f].parent \in DOMAIN frames /\ f \in TreeWaiting[frames[f].parent]
    BY <2>2, RunningView DEF Frames!IInv, Frames!RunningInv, Frames!NoStrayItem
  <2> QED
    BY <2>1, <2>2, <2>3, RunningView DEF Frames!IInv, Frames!RunningInv, Frames!Awaited
<1> QED
  BY <1>3, <1>4

\* ScheduleKeys for the frames N, N + 1, ...
Unscheduled(q, N, n) == \A x \in N..N + n - 1 : <<x, NoChild>> \notin KeySet(q)

Scheduled(q, N, n) ==
    LET p == ScheduleItems(q, [i \in 1..n |-> N + i - 1])
    IN  /\ QueueOK(p) /\ Unrepeated(p)
        /\ KeySet(p) = KeySet(q) \cup EnterKeys(N..N + n - 1)

\* ScheduleItems queues an enter item for each.
LEMMA NewScheduled ==
    ASSUME NEW q, QueueOK(q), Unrepeated(q), NEW N \in Nat, NEW n \in Nat, Unscheduled(q, N, n)
    PROVE  Scheduled(q, N, n)
<1>1. \A x \in N..N + n - 1 : <<x, NoChild>> \notin KeySet(q)
  BY DEF Unscheduled
<1>2. LET p == ScheduleItems(q, [i \in 1..n |-> N + i - 1])
      IN  /\ QueueOK(p) /\ Unrepeated(p)
          /\ KeySet(p) = KeySet(q) \cup EnterKeys(N..N + n - 1)
  BY <1>1, ScheduleKeys
<1> QED
  BY <1>2 DEF Scheduled

\* The cycle that goes on, and the one that finds nothing to go on with.
LEMMA GoOnIs ==
    ASSUME LoopInv, Running, NEW m, NEW p, NEW h, NEW bag, GoOn(m, p, h, bag)
    PROVE  \/ Frames!Fail /\ LoopInv'
           \/ /\ frames' = m.frames /\ next_id' = m.next_id /\ queue' = p /\ host' = h
              /\ status' = "poll" /\ completed' = <<>>
<1>1. CASE Carries(p, h)
  BY <1>1 DEF GoOn
<1>2. CASE ~Carries(p, h)
  BY <1>2, FailStep DEF GoOn
<1> QED
  BY <1>1, <1>2

\* Frame f has n new frames.
LEMMA ObeyFans ==
    ASSUME Frames!IInv, LoopInv, Running, WithinBounds', NEW f, NEW q, Free(f, q),
           NEW did, NEW n \in 1..MaxFan, FansTo(Machine, f, did, n), Obey(f, did, q)
    PROVE  /\ LoopInv'
           /\ \/ Frames!Fail
              \/ Frames!Schedule(f, n, EntOf(KeySet(q)), RetOf(KeySet(q)))
<1>1. PICK new, E, R : new = next_id..next_id + n - 1 /\ E = EntOf(KeySet(q)) /\ R = RetOf(KeySet(q))
  OBVIOUS
<1>2. Machine.frames = frames /\ Machine.next_id = next_id
  BY DEF Machine
<1>3. PICK ids : ids = [i \in 1..n |-> next_id + i - 1]
  OBVIOUS
<1>4. did.control.op = "Schedule" /\ did.control.ids = ids
  BY <1>2, <1>3 DEF FansTo, Schedule, NewIds
<1>5. PICK p : p = ScheduleItems(q, ids)
  OBVIOUS
<1>6. GoOn(did.m, p, host, issued)
  BY <1>4, <1>5 DEF Obey
<1>7. next_id \in Nat /\ n \in Nat /\ DOMAIN frames \subseteq 0..next_id - 1
  BY RunningView, EvaluatorBounds DEF Placed
<1>8. QueueOK(p) /\ Unrepeated(p) /\ KeySet(p) = KeySet(q) \cup EnterKeys(new)
  <2>1. QueueOK(q) /\ Unrepeated(q)
    BY DEF Free
  <2>2. \A x \in next_id..next_id + n - 1 : <<x, NoChild>> \notin KeySet(q)
    <3>1. \A x : x \notin DOMAIN frames => <<x, NoChild>> \notin KeySet(q)
      BY FreshKeys
    <3>2. \A x \in next_id..next_id + n - 1 : x \notin DOMAIN frames
      BY ONLY <1>7
    <3> QED
      BY ONLY <3>1, <3>2
  <2>3. Scheduled(q, next_id, n)
    BY ONLY <1>7, <2>1, <2>2, NewScheduled DEF Unscheduled
  <2>4. p = ScheduleItems(q, [i \in 1..n |-> next_id + i - 1])
    BY ONLY <1>3, <1>5
  <2>5. /\ QueueOK(p) /\ Unrepeated(p)
        /\ KeySet(p) = KeySet(q) \cup EnterKeys(next_id..next_id + n - 1)
    BY ONLY <2>3, <2>4 DEF Scheduled
  <2> QED
    BY ONLY <1>1, <2>5
<1>9. RetOf(KeySet(p)) = R /\ EntOf(KeySet(p)) = E \cup new
  <2>1. PICK K, L : K = KeySet(q) /\ L = KeySet(p)
    OBVIOUS
  <2>2. L = K \cup EnterKeys(new) /\ E = EntOf(K) /\ R = RetOf(K)
    BY ONLY <1>1, <1>8, <2>1
  <2>3. RetOf(K \cup EnterKeys(new)) = RetOf(K) /\ EntOf(K \cup EnterKeys(new)) = EntOf(K) \cup new
    BY ONLY ViewPushEnter, Zenon
  <2> QED
    BY ONLY <2>1, <2>2, <2>3
<1>10. CASE Frames!Fail /\ LoopInv'
  BY <1>10
<1>11. CASE /\ frames' = did.m.frames /\ next_id' = did.m.next_id /\ queue' = p /\ host' = host
            /\ status' = "poll" /\ completed' = <<>>
  <2>1. /\ DOMAIN frames' = DOMAIN frames \cup new /\ next_id' = next_id + n
        /\ \A x \in new : Made(frames'[x], f)
        /\ \A x \in DOMAIN frames \ {f} : frames'[x] = frames[x]
        /\ GoodFrame(frames'[f]) /\ frames'[f].parent = frames[f].parent
        /\ frames'[f].kind = frames[f].kind
        /\ Collecting(frames'[f]) /\ Outstanding(frames'[f]) = n
    BY <1>1, <1>2, <1>11 DEF FansTo
  <2>2. next_id + n <= MaxFrames
    BY <2>1 DEF WithinBounds
  <2>3. Counted(frames'[f], new)
    <3>1. Cardinality(new) = n
      BY <1>1, <1>7, FS_Interval
    <3> QED
      BY <2>1, <3>1 DEF Counted
  <2>4. Frames!Freed(f, E, R)
    BY <1>1 DEF Free
  <2>5. Frames!Schedule(f, n, E, R) /\ LoopInv'
    <3>1. Grows(f, n, new, E, R)
      BY <1>1, <1>8, <1>9, <1>11, <2>1, <2>2, <2>3 DEF Grows
    <3> QED
      BY <2>4, <3>1, GrowStep
  <2> QED
    BY <1>1, <2>5
<1> QED
  BY <1>6, <1>10, <1>11, GoOnIs

\* The frame with the next number is inserted for frame f.
LEMMA InsertOneIs ==
    ASSUME NEW f, NEW m, Kept(Machine, f, m), next_id \in Nat,
           DOMAIN frames \subseteq 0..next_id - 1, f \in DOMAIN frames, NEW frame
    PROVE  LET r == InsertAll(m, <<frame>>)
           IN  /\ DOMAIN r.frames = DOMAIN frames \cup {next_id} /\ r.next_id = next_id + 1
               /\ r.frames[next_id] = frame /\ r.frames[f] = m.frames[f]
               /\ \A x \in DOMAIN frames \ {f} : r.frames[x] = frames[x]
<1>1. Machine.frames = frames /\ Machine.next_id = next_id
  BY DEF Machine
<1>2. PICK r, new : new = <<frame>> /\ r = InsertAll(m, new)
  OBVIOUS
<1>3. Len(new) = 1 /\ new[1] = frame
  BY <1>2
<1>4. PICK k : k = m.next_id .. m.next_id + Len(new) - 1
  OBVIOUS
<1>5. /\ DOMAIN r.frames = DOMAIN m.frames \cup k
      /\ r.next_id = m.next_id + Len(new)
      /\ \A x \in k : r.frames[x] = new[x - m.next_id + 1]
      /\ \A x \in DOMAIN m.frames \ k : r.frames[x] = m.frames[x]
  <2>1. Len(new) \in Nat
    BY <1>3
  <2>2. DOMAIN m = MachineFields
    BY DEF Kept
  <2>3. r = InsertAll(m, new)
    BY <1>2
  <2> QED
    BY ONLY <1>4, <2>1, <2>2, <2>3, InsertIs, ZenonT(40)
<1>6. m.next_id = next_id /\ DOMAIN m.frames = DOMAIN frames
      /\ \A x \in DOMAIN frames \ {f} : m.frames[x] = frames[x]
  BY <1>1 DEF Kept
<1>7. next_id .. next_id + 1 - 1 = {next_id} /\ next_id - next_id + 1 = 1
  OBVIOUS
<1>8. \A x \in DOMAIN frames : x # next_id
  OBVIOUS
<1>9. /\ DOMAIN r.frames = DOMAIN frames \cup {next_id} /\ r.next_id = next_id + 1
      /\ r.frames[next_id] = frame
      /\ \A x \in DOMAIN frames : r.frames[x] = m.frames[x]
  BY <1>3, <1>4, <1>5, <1>6, <1>7, <1>8
<1> QED
  BY <1>2, <1>6, <1>9

\* Frame f has one new frame, for an expression, a native or a host call.
LEMMA ObeyAsks ==
    ASSUME Frames!IInv, LoopInv, Running, WithinBounds', NEW f, NEW q, Free(f, q),
           NEW did, Asks(Machine, f, did), Obey(f, did, q), 1 \in 1..MaxFan
    PROVE  /\ LoopInv'
           /\ \/ Frames!Fail
              \/ Frames!Schedule(f, 1, EntOf(KeySet(q)), RetOf(KeySet(q)))
              \/ Frames!AwaitNative(f, EntOf(KeySet(q)), RetOf(KeySet(q)))
<1>1. PICK E, R : E = EntOf(KeySet(q)) /\ R = RetOf(KeySet(q))
  OBVIOUS
<1>2. Machine.frames = frames /\ Machine.next_id = next_id
  BY DEF Machine
<1>3. Frames!Freed(f, E, R) /\ QueueOK(q) /\ Unrepeated(q)
  BY <1>1 DEF Free
<1>4. /\ next_id \in Nat /\ DOMAIN frames \subseteq 0..next_id - 1
      /\ f \in DOMAIN frames
  BY <1>3, RunningView, FreedView DEF Placed, Idle
<1>5. /\ Kept(Machine, f, did.m) /\ ~Collecting(did.m.frames[f])
      /\ did.m.next_id = next_id
      /\ GoodFrame(did.m.frames[f]) /\ did.m.frames[f].parent = frames[f].parent
      /\ did.m.frames[f].kind = frames[f].kind
  BY <1>2 DEF Asks, Kept
<1>6. next_id \notin DOMAIN frames
  BY <1>4
<1>7. ASSUME NEW frame, Made(frame, f),
             GoOn(InsertAll(did.m, <<frame>>), Work!ScheduleNext(q, EnterItem(next_id)), host, issued)
      PROVE  LoopInv' /\ (Frames!Fail \/ Frames!Schedule(f, 1, E, R))
  <2>1. PICK r, p, new : /\ r = InsertAll(did.m, <<frame>>) /\ new = {next_id}
                         /\ p = Work!ScheduleNext(q, EnterItem(next_id))
    OBVIOUS
  <2>2. /\ DOMAIN r.frames = DOMAIN frames \cup {next_id} /\ r.next_id = next_id + 1
        /\ r.frames[next_id] = frame /\ r.frames[f] = did.m.frames[f]
        /\ \A x \in DOMAIN frames \ {f} : r.frames[x] = frames[x]
    BY <1>4, <1>5, <2>1, InsertOneIs
  <2>3. Key(EnterItem(next_id)) = <<next_id, NoChild>>
    BY DEF Key, EnterItem
  <2>4. QueueOK(p) /\ Unrepeated(p) /\ KeySet(p) = KeySet(q) \cup {<<next_id, NoChild>>}
    <3>1. <<next_id, NoChild>> \notin KeySet(q)
      BY <1>6, FreshKeys
    <3> QED
      BY <1>3, <2>1, <2>3, <3>1, PushKeys
  <2>5. RetOf(KeySet(p)) = R /\ EntOf(KeySet(p)) = E \cup new
    <3>1. EnterKeys(new) = {<<next_id, NoChild>>}
      BY <2>1 DEF EnterKeys
    <3>2. PICK K, L : K = KeySet(q) /\ L = KeySet(p)
      OBVIOUS
    <3>3. L = K \cup EnterKeys(new) /\ E = EntOf(K) /\ R = RetOf(K)
      BY ONLY <1>1, <2>4, <3>1, <3>2
    <3>4. RetOf(K \cup EnterKeys(new)) = RetOf(K) /\ EntOf(K \cup EnterKeys(new)) = EntOf(K) \cup new
      BY ONLY ViewPushEnter, Zenon
    <3> QED
      BY ONLY <3>2, <3>3, <3>4
  <2>6. CASE Frames!Fail /\ LoopInv'
    BY <2>6
  <2>7. CASE /\ frames' = r.frames /\ next_id' = r.next_id /\ queue' = p /\ host' = host
             /\ status' = "poll" /\ completed' = <<>>
    <3>1. next_id + 1 <= MaxFrames
      BY <2>2, <2>7 DEF WithinBounds
    <3>2. Counted(frames'[f], new)
      BY <1>5, <2>1, <2>2, <2>7 DEF Counted
    <3>3. new = next_id..next_id + 1 - 1
      BY <1>4, <2>1
    <3>4. Grows(f, 1, new, E, R)
      BY <1>5, <1>7, <2>1, <2>2, <2>4, <2>5, <2>7, <3>1, <3>2, <3>3 DEF Grows
    <3> QED
      BY <1>3, <3>4, GrowStep
  <2> QED
    BY <1>7, <2>1, <2>6, <2>7, GoOnIs
<1>8. CASE did.control.op = "Push"
  <2>1. GoOn(InsertAll(did.m, <<FrameFor(f, did.control.expr, did.control.env)>>),
             Work!ScheduleNext(q, EnterItem(next_id)), host, issued)
    BY <1>5, <1>8 DEF Obey
  <2>2. Made(FrameFor(f, did.control.expr, did.control.env), f)
    BY FrameForMade
  <2> QED
    BY <1>1, <1>7, <2>1, <2>2
<1>9. CASE did.control.op = "PushFrame"
  <2>1. GoOn(InsertAll(did.m, <<NativeCallFrame(f, did.control.task)>>),
             Work!ScheduleNext(q, EnterItem(next_id)), host, issued)
    BY <1>5, <1>9 DEF Obey
  <2>2. Made(NativeCallFrame(f, did.control.task), f)
    <3>1. GoodTask(did.control.task)
      BY <1>9 DEF Asks
    <3> QED
      BY <3>1 DEF Made, NativeCallFrame, FrameFor, GoodFrame, FrameFields, Collecting
  <2> QED
    BY <1>1, <1>7, <2>1, <2>2
<1>10. CASE did.control.op = "AwaitNative"
  <2>1. PICK r, h, bag :
            /\ r = InsertAll(did.m, <<NativeHostFrame(f)>>)
            /\ h = [other \in DOMAIN host \cup {next_id} |->
                       IF other = next_id THEN did.control.call ELSE host[other]]
            /\ GoOn(r, q, h, bag)
    BY <1>5, <1>10 DEF Obey
  <2>2. /\ DOMAIN r.frames = DOMAIN frames \cup {next_id} /\ r.next_id = next_id + 1
        /\ r.frames[next_id] = NativeHostFrame(f) /\ r.frames[f] = did.m.frames[f]
        /\ \A x \in DOMAIN frames \ {f} : r.frames[x] = frames[x]
    BY <1>4, <1>5, <2>1, InsertOneIs
  <2>3. Made(NativeHostFrame(f), f) /\ NativeHostFrame(f).kind = "NativeHost"
    BY DEF Made, NativeHostFrame, FrameFor, GoodFrame, FrameFields, Collecting
  <2>4. CASE Frames!Fail /\ LoopInv'
    BY <2>4
  <2>5. CASE /\ frames' = r.frames /\ next_id' = r.next_id /\ queue' = q /\ host' = h
             /\ status' = "poll" /\ completed' = <<>>
    <3>1. next_id < MaxFrames
      BY <1>4, <2>2, <2>5, EvaluatorBounds DEF WithinBounds
    <3>2. Awaits(f, next_id, E, R)
      BY <1>1, <1>3, <1>5, <2>1, <2>2, <2>3, <2>5, <3>1 DEF Awaits
    <3>3. Frames!AwaitNative(f, E, R) /\ LoopInv'
      BY <1>3, <3>2, AwaitStep
    <3> QED
      BY <1>1, <3>3
  <2> QED
    BY <2>1, <2>4, <2>5, GoOnIs
<1> QED
  BY <1>8, <1>9, <1>10 DEF Asks

\* Frame f returns.
LEMMA ObeyReturns ==
    ASSUME Frames!IInv, LoopInv, Running, NEW f, NEW q, Free(f, q),
           NEW did, Returns(Machine, f, did), Obey(f, did, q)
    PROVE  /\ LoopInv'
           /\ Frames!Fail \/ Frames!Return(f, EntOf(KeySet(q)), RetOf(KeySet(q)))
<1>1. PICK E, R : E = EntOf(KeySet(q)) /\ R = RetOf(KeySet(q))
  OBVIOUS
<1>2. Machine.frames = frames /\ Machine.next_id = next_id
  BY DEF Machine
<1>3. Frames!Freed(f, E, R) /\ QueueOK(q) /\ Unrepeated(q)
  BY <1>1 DEF Free
<1>4. f \in DOMAIN frames /\ f # NoChild
  BY <1>3, RunningView, FreedView DEF Placed, Idle, NoChild
<1>5. /\ Kept(Machine, f, did.m) /\ did.control.op = "Return"
      /\ did.m.next_id = next_id /\ DOMAIN did.m = MachineFields
      /\ DOMAIN did.m.frames = DOMAIN frames
      /\ \A x \in DOMAIN frames \ {f} : did.m.frames[x] = frames[x]
      /\ did.m.frames[f].parent = frames[f].parent
  BY <1>2 DEF Returns, Kept
<1>6. PICK r : r = [did.m EXCEPT !.frames = [other \in DOMAIN @ \ {f} |-> @[other]]]
  OBVIOUS
<1>7. /\ DOMAIN r.frames = DOMAIN frames \ {f} /\ r.next_id = next_id
      /\ \A x \in DOMAIN frames \ {f} : r.frames[x] = frames[x]
  BY <1>5, <1>6 DEF MachineFields
<1>8. CASE frames[f].parent # NoParent
  <2>1. PICK parent, item, p : /\ parent = frames[f].parent
                               /\ item = ReceiveItem(parent, f, did.control.value)
                               /\ p = Work!ScheduleNext(q, item)
    OBVIOUS
  <2>2. GoOn(r, p, host, issued)
    BY <1>5, <1>6, <1>8, <2>1 DEF Obey
  <2>3. Key(item) = <<parent, f>>
    BY <2>1 DEF Key, ReceiveItem
  <2>4. QueueOK(p) /\ Unrepeated(p) /\ KeySet(p) = KeySet(q) \cup {<<parent, f>>}
    <3>1. <<parent, f>> \notin KeySet(q)
      BY <1>8, <2>1, FreshKeys
    <3> QED
      BY <1>3, <2>1, <2>3, <3>1, PushKeys
  <2>5. RetOf(KeySet(p)) = R \cup {<<parent, f>>} /\ EntOf(KeySet(p)) = E
    BY <1>1, <1>4, <2>4 DEF RetOf, EntOf
  <2>6. CASE Frames!Fail /\ LoopInv'
    BY <2>6
  <2>7. CASE /\ frames' = r.frames /\ next_id' = r.next_id /\ queue' = p /\ host' = host
             /\ status' = "poll" /\ completed' = <<>>
    <3>1. Leaves(f, E, R)
      BY <1>7, <1>8, <2>1, <2>4, <2>5, <2>7 DEF Leaves
    <3>2. Frames!Return(f, E, R) /\ LoopInv'
      BY <1>3, <3>1, ReturnStep
    <3> QED
      BY <1>1, <3>2
  <2> QED
    BY <2>2, <2>6, <2>7, GoOnIs
<1>9. CASE frames[f].parent = NoParent
  <2>1. /\ status' = "completed" /\ frames' = r.frames /\ queue' = q /\ completed' = <<>>
        /\ next_id' = next_id /\ host' = host
    BY <1>5, <1>6, <1>9 DEF Obey
  <2>2. Leaves(f, E, R)
    BY <1>1, <1>3, <1>7, <1>9, <2>1 DEF Leaves
  <2>3. Frames!Return(f, E, R) /\ LoopInv'
    BY <1>3, <2>2, ReturnStep
  <2> QED
    BY <1>1, <2>3
<1> QED
  BY <1>8, <1>9

\* Frame f has received the result of c and goes on waiting; q is the queue
\* without the item.
LEMMA ObeyWaits ==
    ASSUME Frames!IInv, LoopInv, Running, NEW f \in DOMAIN frames, NEW c, NEW q,
           QueueOK(q), Unrepeated(q), <<f, c>> \in Returned,
           RetOf(KeySet(q)) = Returned \ {<<f, c>>}, EntOf(KeySet(q)) = TreeEntering,
           Collecting(frames[f]), Outstanding(frames[f]) # 1,
           NEW did, Waits(Machine, f, did), Obey(f, did, q)
    PROVE  LoopInv' /\ (Frames!Fail \/ Frames!ReceiveAndWait(f, c))
<1>1. Machine.frames = frames /\ Machine.next_id = next_id
  BY DEF Machine
<1>2. GoOn(did.m, q, host, issued)
  BY DEF Obey, Waits
<1>3. CASE Frames!Fail /\ LoopInv'
  BY <1>3
<1>4. CASE /\ frames' = did.m.frames /\ next_id' = did.m.next_id /\ queue' = q /\ host' = host
           /\ status' = "poll" /\ completed' = <<>>
  <2>1. Counts(f, c)
    BY <1>1, <1>4 DEF Counts, Waits, Kept
  <2> QED
    BY <2>1, WaitStep
<1> QED
  BY <1>2, <1>3, <1>4, GoOnIs

\* The step fails, and the evaluation with it.
LEMMA ObeyFails ==
    ASSUME LoopInv, Running, NEW f, NEW q, NEW did, Fails(did), Obey(f, did, q)
    PROVE  LoopInv' /\ Frames!Fail
<1>1. FailWith(did.control.error)
  BY DEF Fails, Obey
<1> QED
  BY <1>1, FailStep

-----------------------------------------------------------------------------
(* A cycle.                                                                 *)

\* The queue with the completion has a key for each item FrameTree sees.
LEMMA PendingView ==
    ASSUME LoopInv, status = "cycle"
    PROVE  /\ QueueOK(Pending) /\ Unrepeated(Pending)
           /\ Work!PopOrder(Pending) # <<>> /\ KeySet(Pending) = Keys
<1>1. /\ QueueOK(queue) /\ Unrepeated(queue)
      /\ completed # <<>> => <<completed[1], completed[1]>> \notin KeySet(queue)
      /\ completed # <<>> \/ Work!HasReadyWork(queue)
  BY DEF LoopInv, Running
<1>2. CASE completed = <<>>
  <2>1. Pending = queue /\ Keys = KeySet(queue)
    BY <1>2 DEF Pending, Keys
  <2> QED
    BY <1>1, <1>2, <2>1, QueueItems
<1>3. CASE completed # <<>>
  <2>1. PICK item : item = ReceiveItem(completed[1], completed[1], completed[2])
    OBVIOUS
  <2>2. Pending = Work!ScheduleNext(queue, item) /\ Keys = KeySet(queue) \cup {Key(item)}
    BY <1>3, <2>1 DEF Pending, Keys, Key, ReceiveItem
  <2>3. Key(item) \notin KeySet(queue)
    BY <1>1, <1>3, <2>1 DEF Key, ReceiveItem
  <2> QED
    BY <1>1, <2>2, <2>3, PushKeys
<1> QED
  BY <1>2, <1>3

\* A frame that counts counts the results it expects.
LEMMA FrameCounts ==
    ASSUME Frames!IInv, LoopInv, Running, NEW f \in DOMAIN frames, NEW c, c \in TreeWaiting[f]
    PROVE  /\ CountsOne(frames[f])
           /\ (Collecting(frames[f]) => Outstanding(frames[f]) = 1) => TreeWaiting[f] = {c}
<1>1. PICK W : W = TreeWaiting[f]
  OBVIOUS
<1>2. Counted(frames[f], W)
  BY <1>1, RunningView
<1>3. W \in SUBSET (0..next_id - 1) /\ next_id \in Nat
  BY <1>1 DEF Frames!IInv, Frames!TypeOK
<1>4. IsFiniteSet(W)
  <2>1. IsFiniteSet(0..next_id - 1)
    BY <1>3, FS_Interval
  <2> QED
    BY <1>3, <2>1, FS_Subset
<1>5. Cardinality(W) \in Nat /\ Cardinality(W) # 0 /\ c \in W
  BY <1>1, <1>4, FS_CardinalityType, FS_EmptySet
<1>6. CASE Collecting(frames[f])
  <2>1. Outstanding(frames[f]) = Cardinality(W)
    BY <1>2, <1>6 DEF Counted
  <2>2. Cardinality(W) = 1 => W = {c}
    BY <1>4, <1>5, FS_Singleton
  <2> QED
    BY <1>1, <1>5, <1>6, <2>1, <2>2 DEF CountsOne
<1>7. CASE ~Collecting(frames[f])
  <2>1. W = {c}
    BY <1>2, <1>5, <1>7 DEF Counted
  <2> QED
    BY <1>1, <1>7, <2>1 DEF CountsOne
<1> QED
  BY <1>6, <1>7

\* The item is an enter item.
LEMMA EnterCycle ==
    ASSUME Frames!IInv, LoopInv, Running, WithinBounds', NEW f \in DOMAIN frames, NEW q,
           f \in TreeEntering, WellFormed(Machine, f), 1 \in 1..MaxFan,
           QueueOK(q), Unrepeated(q),
           EntOf(KeySet(q)) = TreeEntering \ {f}, RetOf(KeySet(q)) = Returned,
           NEW did, did = Enter(Machine, f), Obey(f, did, q)
    PROVE  LoopInv' /\ (Frames!Fail \/ Frames!Enter(f))
<1>1. PICK E, R : E = EntOf(KeySet(q)) /\ R = RetOf(KeySet(q))
  OBVIOUS
<1>2. TreeStatus = "running" /\ E = TreeEntering \ {f} /\ R = Returned
  BY <1>1, RunningView
<1>3. Frames!Freed(f, TreeEntering \ {f}, Returned)
  BY <1>2, FramesAssumed, Frames!EnterFrees
<1>4. Free(f, q)
  BY <1>1, <1>2, <1>3 DEF Free
<1>5. EnterDoes(Machine, f, did)
  BY EnterOutcome
<1>6. LoopInv' /\ (\/ Frames!Fail \/ Frames!AwaitNative(f, E, R) \/ Frames!Return(f, E, R)
                   \/ \E n \in 1..MaxFan : Frames!Schedule(f, n, E, R))
  <2>1. CASE Asks(Machine, f, did)
    BY <1>1, <1>4, <2>1, ObeyAsks
  <2>2. CASE Fans(Machine, f, did)
    <3>1. PICK n \in 1..MaxFan : FansTo(Machine, f, did, n)
      BY <2>2 DEF Fans
    <3> QED
      BY <1>1, <1>4, <3>1, ObeyFans
  <2>3. CASE Returns(Machine, f, did)
    BY <1>1, <1>4, <2>3, ObeyReturns
  <2>4. CASE Fails(did)
    BY <2>4, ObeyFails
  <2> QED
    BY <1>5, <2>1, <2>2, <2>3, <2>4 DEF EnterDoes
<1>7. (\/ Frames!AwaitNative(f, E, R) \/ Frames!Return(f, E, R)
       \/ \E n \in 1..MaxFan : Frames!Schedule(f, n, E, R)) => Frames!Enter(f)
  BY <1>2 DEF Frames!Enter
<1> QED
  BY <1>6, <1>7

\* The item is the result of c.
LEMMA ReceiveCycle ==
    ASSUME Frames!IInv, LoopInv, Running, WithinBounds', NEW f \in DOMAIN frames, NEW q, NEW c,
           NEW value, <<f, c>> \in Returned, WellFormed(Machine, f), 1 \in 1..MaxFan,
           QueueOK(q), Unrepeated(q),
           EntOf(KeySet(q)) = TreeEntering, RetOf(KeySet(q)) = Returned \ {<<f, c>>},
           NEW did, did = Receive(Machine, f, c, value), Obey(f, did, q)
    PROVE  /\ LoopInv'
           /\ Frames!Fail \/ Frames!ReceiveAndWait(f, c) \/ Frames!ReceiveLast(f, c)
<1>1. TreeStatus = "running" /\ c \in TreeWaiting[f] /\ Machine.frames = frames
  BY RunningView DEF Frames!IInv, Frames!RunningInv, Frames!NoStrayItem, Machine
<1>2. /\ CountsOne(frames[f])
      /\ (Collecting(frames[f]) => Outstanding(frames[f]) = 1) => TreeWaiting[f] = {c}
  BY <1>1, FrameCounts
<1>3. ReceiveDoes(Machine, f, did)
  BY <1>1, <1>2, ReceiveOutcome
<1>4. CASE Fails(did)
  BY <1>4, ObeyFails
<1>5. CASE Collecting(frames[f]) /\ Outstanding(frames[f]) # 1 /\ Waits(Machine, f, did)
  BY <1>5, ObeyWaits
<1>6. CASE /\ Collecting(frames[f]) => Outstanding(frames[f]) = 1
           /\ \/ Returns(Machine, f, did)
              \/ frames[f].kind # "NativeHost" /\ (Asks(Machine, f, did) \/ Fans(Machine, f, did))
  <2>1. TreeWaiting[f] = {c}
    BY <1>2, <1>6
  <2>2. PICK E, R : E = EntOf(KeySet(q)) /\ R = RetOf(KeySet(q))
    OBVIOUS
  <2>3. E = TreeEntering /\ R = Returned \ {<<f, c>>}
    BY <2>2
  <2>4. Frames!Freed(f, TreeEntering, Returned \ {<<f, c>>})
    BY <1>1, <2>1, FramesAssumed, Frames!ReceiveFrees
  <2>5. Free(f, q)
    BY <2>2, <2>3, <2>4 DEF Free
  <2>6. CASE Returns(Machine, f, did)
    <3>1. LoopInv' /\ (Frames!Fail \/ Frames!Return(f, E, R))
      BY <2>2, <2>5, <2>6, ObeyReturns
    <3>2. Frames!Return(f, E, R) => Frames!ReceiveLast(f, c)
      BY <1>1, <2>1, <2>3 DEF Frames!ReceiveLast
    <3> QED
      BY <3>1, <3>2
  <2>7. CASE frames[f].kind # "NativeHost" /\ (Asks(Machine, f, did) \/ Fans(Machine, f, did))
    <3>1. c # f
      BY <2>7, HostKinds
    <3>2. LoopInv' /\ (\/ Frames!Fail \/ Frames!AwaitNative(f, E, R)
                       \/ \E n \in 1..MaxFan : Frames!Schedule(f, n, E, R))
      <4>1. CASE Asks(Machine, f, did)
        BY <2>2, <2>5, <4>1, ObeyAsks
      <4>2. CASE Fans(Machine, f, did)
        <5>1. PICK n \in 1..MaxFan : FansTo(Machine, f, did, n)
          BY <4>2 DEF Fans
        <5> QED
          BY <2>2, <2>5, <5>1, ObeyFans
      <4> QED
        BY <2>7, <4>1, <4>2
    <3>3. (\/ Frames!AwaitNative(f, E, R)
           \/ \E n \in 1..MaxFan : Frames!Schedule(f, n, E, R)) => Frames!ReceiveLast(f, c)
      BY <1>1, <2>1, <2>3, <3>1 DEF Frames!ReceiveLast
    <3> QED
      BY <3>2, <3>3
  <2> QED
    BY <1>6, <2>6, <2>7
<1> QED
  BY <1>1, <1>3, <1>4, <1>5, <1>6 DEF ReceiveDoes

\* A cycle is a step of FrameTree.
LEMMA CycleStep ==
    ASSUME Frames!IInv, LoopInv, WithinBounds, WithinBounds', Cycle
    PROVE  Frames!Next /\ LoopInv'
<1>1. status = "cycle" /\ Running
  BY DEF Cycle, Running
<1>2. /\ QueueOK(Pending) /\ Unrepeated(Pending)
      /\ Work!PopOrder(Pending) # <<>> /\ KeySet(Pending) = Keys
  BY <1>1, PendingView
<1>3. PICK item, q : item = Work!NextItem(Pending) /\ q = Work!PopNext(Pending)
  OBVIOUS
<1>4. PICK f, c : f = item.frame /\ c = item.child
  OBVIOUS
<1>5. PICK did : /\ did = IF f \notin DOMAIN frames THEN Did(Machine, Error("Internal"))
                          ELSE IF c = NoChild THEN Enter(Machine, f)
                          ELSE Receive(Machine, f, c, item.value)
                 /\ Obey(f, did, q)
  BY <1>3, <1>4 DEF Cycle, Pending
<1>6. /\ QueueOK(q) /\ Unrepeated(q)
      /\ <<f, c>> \in Keys /\ KeySet(q) = Keys \ {<<f, c>>}
  <2>1. Key(item) = <<f, c>>
    BY <1>4 DEF Key
  <2> QED
    BY <1>2, <1>3, <2>1, PopKeys
<1>7. Returned = RetOf(Keys) /\ TreeEntering = EntOf(Keys) /\ TreeStatus = "running"
  BY <1>1, RunningView
<1>8. \A k \in Keys : k = <<k[1], k[2]>>
  BY <1>2, KeyPairs
<1>9. f \in DOMAIN frames
  <2>1. Frames!Entered /\ Frames!NoStrayItem
    BY <1>7 DEF Frames!IInv, Frames!RunningInv
  <2>2. CASE c = NoChild
    <3>1. f \in TreeEntering
      BY <1>6, <1>7, <2>2 DEF EntOf
    <3> QED
      BY <2>1, <3>1 DEF Frames!Entered
  <2>3. CASE c # NoChild
    <3>1. <<f, c>> \in Returned
      BY <1>6, <1>7, <2>3 DEF RetOf
    <3> QED
      BY <2>1, <3>1 DEF Frames!NoStrayItem
  <2> QED
    BY <2>2, <2>3
<1>10. Bounded(FanOutOf(frames[f])) /\ 1 \in 1..MaxFan
  <2>1. Bounded(FanOutOf(frames[f]))
    BY <1>9 DEF WithinBounds, Bounded
  <2>2. 1 \in 1..MaxFan
    BY <2>1, EvaluatorBounds DEF Bounded
  <2> QED
    BY <2>1, <2>2
<1>11. WellFormed(Machine, f)
  <2>1. Machine.frames = frames /\ Machine.next_id = next_id /\ DOMAIN Machine = MachineFields
    BY DEF Machine, MachineFields
  <2>2. next_id \in Nat /\ DOMAIN frames \subseteq 0..next_id - 1 /\ GoodFrame(frames[f])
    BY <1>1, <1>9, RunningView DEF Placed
  <2> QED
    BY <1>9, <1>10, <2>1, <2>2 DEF WellFormed
<1>12. CASE c = NoChild
  <2>1. did = Enter(Machine, f)
    BY <1>5, <1>9, <1>12
  <2>2. /\ RetOf(KeySet(q)) = Returned /\ EntOf(KeySet(q)) = TreeEntering \ {f}
        /\ f \in TreeEntering
    BY <1>6, <1>7, <1>8, <1>12 DEF RetOf, EntOf
  <2>3. LoopInv' /\ (Frames!Fail \/ Frames!Enter(f))
    BY <1>1, <1>5, <1>6, <1>9, <1>10, <1>11, <2>1, <2>2, EnterCycle
  <2> QED
    BY <2>2, <2>3 DEF Frames!Next
<1>13. CASE c # NoChild
  <2>1. did = Receive(Machine, f, c, item.value)
    BY <1>5, <1>9, <1>13
  <2>2. /\ RetOf(KeySet(q)) = Returned \ {<<f, c>>} /\ EntOf(KeySet(q)) = TreeEntering
        /\ <<f, c>> \in Returned
    BY <1>6, <1>7, <1>13 DEF RetOf, EntOf
  <2>3. LoopInv' /\ (Frames!Fail \/ Frames!ReceiveAndWait(f, c) \/ Frames!ReceiveLast(f, c))
    BY <1>1, <1>5, <1>6, <1>9, <1>10, <1>11, <2>1, <2>2, ReceiveCycle
  <2>4. \E r \in Returned : r[1] = f /\ r[2] = c
    BY <2>2
  <2> QED
    BY <2>3, <2>4 DEF Frames!Next
<1> QED
  BY <1>12, <1>13

\* The poll has nothing, or the evaluation is over.
LEMMA IdleStep ==
    ASSUME LoopInv, PollIdle \/ Finished \/ UNCHANGED vars
    PROVE  UNCHANGED Frames!vars /\ LoopInv'
<1>1. /\ frames' = frames /\ next_id' = next_id /\ queue' = queue /\ host' = host
      /\ completed' = completed /\ TreeStatus' = TreeStatus
      /\ status' \in {"poll", "cycle", "completed", "failed"}
  <2>1. CASE PollIdle
    BY <2>1 DEF PollIdle, LoopInv, Running, TreeStatus
  <2>2. CASE Finished \/ UNCHANGED vars
    BY <2>2 DEF Finished, vars, LoopInv, TreeStatus
  <2> QED
    BY <2>1, <2>2
<1>2. UNCHANGED Frames!vars
  BY <1>1 DEF Frames!vars, TreeParent, TreeWaiting, TreeEntering, Returned, WaitingFor, Items,
              Work!PopOrder
<1>3. Running' => /\ Running /\ (status' = "poll" => completed = <<>>)
                  /\ (status' = "cycle" => completed # <<>> \/ Work!HasReadyWork(queue))
  <2>1. CASE PollIdle
    BY <2>1 DEF PollIdle, LoopInv, Running
  <2>2. CASE Finished \/ UNCHANGED vars
    BY <2>2 DEF Finished, vars, LoopInv, Running
  <2> QED
    BY <2>1, <2>2
<1>4. FramesGood <=> FramesGood'
  BY <1>1 DEF FramesGood, GoodFrame, GoodTask, Counted, Collecting, Outstanding, NoParent, Root,
              WaitingFor, Returned, Items, Work!PopOrder
<1>5. HostFramesGood <=> HostFramesGood'
  BY <1>1 DEF HostFramesGood, Returned, Items, Work!PopOrder
<1>6. /\ QueueOK(queue) <=> QueueOK(queue)'
      /\ Unrepeated(queue) <=> Unrepeated(queue)'
      /\ KeySet(queue)' = KeySet(queue)
      /\ Work!HasReadyWork(queue)' <=> Work!HasReadyWork(queue)
  BY <1>1 DEF QueueOK, Unrepeated, KeySet, Key, Work!PopOrder, Work!HasReadyWork,
              Queues!Sound, Queues!Queue
<1> QED
  BY <1>1, <1>2, <1>3, <1>4, <1>5, <1>6 DEF LoopInv

-----------------------------------------------------------------------------
\* A run starts with the root frame and its enter item.
LEMMA InitView == Init => Frames!Init /\ LoopInv
<1> SUFFICES ASSUME Init PROVE Frames!Init /\ LoopInv
  OBVIOUS
<1>1. PICK limit \in Limits : queue = Work!NewQueue(EnterItem(Root), limit)
  BY DEF Init
<1>2. PICK item, S : item = EnterItem(Root) /\ S = {item}
  OBVIOUS
<1>3. Queues!Sound(queue, S) /\ Work!PopOrder(queue) = <<item>>
  <2>1. limit \in Nat /\ item \in S
    BY <1>2, EvaluatorLimits
  <2>2. Queues!Sound(Queues!NewQueue(item, limit), S)
        /\ Queues!PopOrder(Queues!NewQueue(item, limit)) = <<item>>
    BY <2>1, QueuesAssumed, Queues!SoundNew
  <2> QED
    BY <1>1, <1>2, <2>2, SameQueues, Zenon
<1>4. PICK order : order = Work!PopOrder(queue)
  OBVIOUS
<1>5. order = <<item>> /\ Len(order) = 1 /\ order[1] = item
  BY <1>3, <1>4
<1>6. Key(item) = <<Root, NoChild>>
  BY <1>2 DEF Key, EnterItem
<1>7. QueueOK(queue) /\ Unrepeated(queue) /\ KeySet(queue) = {<<Root, NoChild>>}
  <2>1. QueueOK(queue)
    BY <1>3 DEF QueueOK
  <2>2. Unrepeated(queue)
    BY <1>4, <1>5 DEF Unrepeated
  <2>3. KeySet(queue) = {Key(order[i]) : i \in 1..1}
    BY <1>4, <1>5 DEF KeySet
  <2> QED
    BY <1>5, <1>6, <2>1, <2>2, <2>3
<1>8. completed = <<>> /\ next_id = 1 /\ status = "poll" /\ DOMAIN host = {}
  BY DEF Init
<1>9. Returned = {} /\ TreeEntering = {Root}
  <2>1. Keys = {<<Root, NoChild>>}
    BY <1>7, <1>8 DEF Keys
  <2>2. Returned = RetOf(Keys) /\ TreeEntering = EntOf(Keys)
    BY <1>8, KeysView
  <2>3. RetOf(Keys) = {}
    BY <2>1 DEF RetOf
  <2>4. EntOf(Keys) = {Root}
    <3>1. PICK k : k = <<Root, NoChild>>
      OBVIOUS
    <3>2. {j \in Keys : j[2] = NoChild} = {k}
      BY <2>1, <3>1
    <3>3. k[1] = Root
      BY <3>1
    <3> QED
      BY <3>2, <3>3 DEF EntOf
  <2> QED
    BY <2>2, <2>3, <2>4
<1>10. PICK frame : frames = [id \in {Root} |-> frame] /\ GoodFrame(frame) /\ ~Collecting(frame)
                    /\ frame.parent = NoParent
  <2>1. PICK expr, env : frames = [id \in {Root} |-> FrameFor(NoParent, expr, env)]
    BY DEF Init
  <2>2. Made(FrameFor(NoParent, expr, env), NoParent)
    BY FrameForMade
  <2> QED
    BY <2>1, <2>2 DEF Made
<1>11. WaitingFor(Root) = {}
  BY <1>8, <1>9, <1>10 DEF WaitingFor, Root, NoParent
<1>12. Frames!Init
  BY <1>8, <1>9, <1>10, <1>11
     DEF Frames!Init, TreeParent, TreeWaiting, TreeStatus, Root, Frames!Root
<1>13. LoopInv
  BY <1>7, <1>8, <1>9, <1>10, <1>11 DEF LoopInv, Running, FramesGood, HostFramesGood, Counted
<1> QED
  BY <1>12, <1>13

\* Every step of the evaluator is one of FrameTree or changes nothing it sees.
LEMMA StepView ==
    Frames!IInv /\ LoopInv /\ WithinBounds /\ WithinBounds' /\ [Next]_vars
        => [Frames!Next]_(Frames!vars) /\ LoopInv'
<1> SUFFICES ASSUME Frames!IInv, LoopInv, WithinBounds, WithinBounds', [Next]_vars
             PROVE  [Frames!Next]_(Frames!vars) /\ LoopInv'
  OBVIOUS
<1>1. ASSUME NEW h \in DOMAIN host, PollCompletes(h)
      PROVE  [Frames!Next]_(Frames!vars) /\ LoopInv'
  BY <1>1, AnswerStep DEF Frames!Next
<1>2. ASSUME NEW h \in DOMAIN host, HostFails(h)
      PROVE  [Frames!Next]_(Frames!vars) /\ LoopInv'
  <2>1. Running /\ FailWith("Host")
    BY <1>2 DEF HostFails, Running
  <2> QED
    BY <2>1, FailStep DEF Frames!Next
<1>3. CASE Cycle
  BY <1>3, CycleStep
<1>4. CASE PollIdle \/ Finished \/ UNCHANGED vars
  BY <1>4, IdleStep
<1> QED
  BY <1>1, <1>2, <1>3, <1>4 DEF Next

\* FrameTree's inductive invariant is kept.
LEMMA InvStep ==
    Frames!IInv /\ LoopInv /\ WithinBounds /\ WithinBounds' /\ [Next]_vars => Frames!IInv'
BY StepView, FramesAssumed, Frames!IInvNext

\* Both invariants hold at first.
LEMMA InvInit == Init => Frames!IInv /\ LoopInv
BY InitView, FramesAssumed, Frames!IInvInit

\* The two instances of the frame protocol are the same.
LEMMA SameTree ==
    /\ Frames!Init => Tree!Init
    /\ [Frames!Next]_(Frames!vars) => [Tree!Next]_(Tree!vars)
<1>1. Frames!Init => Tree!Init
  BY DEF Frames!Init, Tree!Init, Frames!Root, Tree!Root
<1>2. UNCHANGED Frames!vars => UNCHANGED Tree!vars
  BY DEF Frames!vars, Tree!vars
<1>3. Frames!Next => Tree!Next
  BY DEF Frames!Next, Frames!Enter, Frames!ReceiveAndWait, Frames!ReceiveLast,
         Frames!NativeCompleted, Frames!Fail, Frames!Finished, Frames!Schedule,
         Frames!AwaitNative, Frames!Return, Frames!Root, Frames!vars,
         Tree!Next, Tree!Enter, Tree!ReceiveAndWait, Tree!ReceiveLast,
         Tree!NativeCompleted, Tree!Fail, Tree!Finished, Tree!Schedule,
         Tree!AwaitNative, Tree!Return, Tree!Root, Tree!vars
<1> QED
  BY <1>1, <1>2, <1>3

(* The evaluator implements the frame protocol: whatever the program, the  *)
(* natives, the patterns and the answers of the host, every poll and every *)
(* cycle of run_runtime_cycle is one of the steps FrameTree allows, as     *)
(* long as the evaluation is within the bounds the two models share.       *)
THEOREM EvaluatorKeepsProtocol == Spec /\ []WithinBounds => ImplementsFrameTree
<1>1. Init => Tree!Init
  BY InitView, SameTree
<1>2. Frames!IInv /\ LoopInv /\ WithinBounds /\ WithinBounds' /\ [Next]_vars
          => [Tree!Next]_(Tree!vars)
  BY StepView, SameTree
<1>3. Frames!IInv /\ LoopInv /\ WithinBounds /\ WithinBounds' /\ [Next]_vars
          => (Frames!IInv /\ LoopInv)'
  BY StepView, InvStep
<1>4. Init => Frames!IInv /\ LoopInv
  BY InvInit
<1> QED
  BY <1>1, <1>2, <1>3, <1>4, PTL DEF Spec, ImplementsFrameTree

(* No internal error in the evaluator: every work item finds its frame,    *)
(* every result the frame that expects it, a running evaluation has an     *)
(* item or a host call, and when the root has returned there is neither    *)
(* frame, item nor host call left.                                         *)
THEOREM EvaluatorKeepsInvariants ==
    Spec /\ []WithinBounds => [](Tree!NoProtocolError /\ Tree!NothingLeftBehind)
<1>1. Frames!IInv => Tree!NoProtocolError /\ Tree!NothingLeftBehind
  <2> SUFFICES ASSUME Frames!IInv PROVE Tree!NoProtocolError /\ Tree!NothingLeftBehind
    OBVIOUS
  <2>1. Frames!NoProtocolError
    BY FramesAssumed, Frames!IInvSound
  <2>2. Tree!NoProtocolError
    BY <2>1 DEF Frames!NoProtocolError, Frames!ProtocolError,
                Tree!NoProtocolError, Tree!ProtocolError
  <2>3. Tree!NothingLeftBehind
    BY DEF Frames!IInv, Frames!NothingLeftBehind, Tree!NothingLeftBehind
  <2> QED
    BY <2>2, <2>3
<1>2. Frames!IInv /\ LoopInv /\ WithinBounds /\ WithinBounds' /\ [Next]_vars
          => (Frames!IInv /\ LoopInv)'
  BY StepView, InvStep
<1>3. Init => Frames!IInv /\ LoopInv
  BY InvInit
<1> QED
  BY <1>1, <1>2, <1>3, PTL DEF Spec

=============================================================================
