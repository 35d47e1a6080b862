------------------------ MODULE HostSchedulerProofs ------------------------
(***************************************************************************)
(* For any number of calls, any capacities and any number of changes of    *)
(* them: the permits of HostScheduler balance, its calls are conserved, no *)
(* wakeup is lost and none of its internal errors can happen.              *)
(*                                                                         *)
(* The proof follows the code: first what the operators of HostQueues do   *)
(* to a host record that is in order (Good), then what the answer of a     *)
(* poll promises (AnswerGood), then the steps of the task.                 *)
(***************************************************************************)
EXTENDS HostScheduler, TLAPS, FiniteSetTheorems, SequenceTheorems, WellFoundedInduction

HostType ==
    [pending : Seq(PendingCall), immediate : Seq(QueuedCall), deferred : Seq(QueuedCall),
     active : Nat, capacity : Capacities, waker : BOOLEAN, woken : BOOLEAN]

Holders(p) == {i \in 1..Len(p) : p[i].permit}

\* Calls wait in the order they were made.
Ordered(q) == \A i, j \in 1..Len(q) : i < j => q[i].frame < q[j].frame

\* No two calls are of one frame.
Distinct(q) == \A i, j \in 1..Len(q) : q[i].frame = q[j].frame => i = j

HostFrames(h) == Frames(h.immediate) \cup Frames(h.deferred) \cup Frames(h.pending)

Size(h) == Len(h.immediate) + Len(h.deferred) + Len(h.pending)

\* A host record in order: the controller's count is the number of permits
\* held, and every call is in one place and in one copy.
Good(h) ==
    /\ h \in HostType
    /\ h.active = Cardinality(Holders(h.pending))
    /\ Ordered(h.immediate) /\ Ordered(h.deferred) /\ Distinct(h.pending)
    /\ Frames(h.immediate) \cap Frames(h.deferred) = {}
    /\ Frames(h.immediate) \cap Frames(h.pending) = {}
    /\ Frames(h.deferred) \cap Frames(h.pending) = {}

-----------------------------------------------------------------------------
(* Sequences of calls.                                                      *)

LEMMA ElementOf == ASSUME NEW S, NEW q \in Seq(S), NEW i \in 1..Len(q) PROVE q[i] \in S
  OBVIOUS

LEMMA LenInNat == ASSUME NEW S, NEW q \in Seq(S) PROVE Len(q) \in Nat
  OBVIOUS

LEMMA MovedOne == ASSUME NEW a \in Nat, NEW b \in Nat, NEW c \in Nat PROVE (a - 1) + b + (c + 1) = a + b + c
  OBVIOUS

LEMMA MovedLater == ASSUME NEW a \in Nat, NEW b \in Nat, NEW c \in Nat PROVE a + (b - 1) + (c + 1) = a + b + c
  OBVIOUS

LEMMA FramesAppend ==
  ASSUME NEW S, NEW q \in Seq(S), NEW x \in S
  PROVE  /\ Append(q, x) \in Seq(S) /\ Len(Append(q, x)) = Len(q) + 1 /\ Len(q) \in Nat
         /\ Append(q, x)[Len(q) + 1] = x
         /\ \A i \in 1..Len(q) : Append(q, x)[i] = q[i]
         /\ Frames(Append(q, x)) = Frames(q) \cup {x.frame}
<1> DEFINE r == Append(q, x)
<1>1. /\ r \in Seq(S) /\ Len(r) = Len(q) + 1 /\ Len(q) \in Nat /\ r[Len(q) + 1] = x
      /\ \A i \in 1..Len(q) : r[i] = q[i]
  OBVIOUS
<1>2. \A i \in 1..Len(r) : i \in 1..Len(q) \/ i = Len(q) + 1
  BY <1>1
<1>3. 1..Len(q) \subseteq 1..Len(r) /\ Len(q) + 1 \in 1..Len(r)
  BY <1>1
<1> HIDE DEF r
<1>4. Frames(r) = Frames(q) \cup {x.frame}
  BY <1>1, <1>2, <1>3 DEF Frames
<1> QED
  BY <1>1, <1>4 DEF r

LEMMA FramesTail ==
  ASSUME NEW S, NEW q \in Seq(S), q # <<>>
  PROVE  /\ Tail(q) \in Seq(S) /\ Len(Tail(q)) = Len(q) - 1 /\ Len(q) \in Nat /\ Len(q) > 0
         /\ Head(q) = q[1] /\ Head(q) \in S
         /\ \A i \in 1..Len(Tail(q)) : Tail(q)[i] = q[i + 1]
         /\ Frames(q) = Frames(Tail(q)) \cup {Head(q).frame}
<1> DEFINE r == Tail(q)
<1>1. /\ r \in Seq(S) /\ Len(r) = Len(q) - 1 /\ Len(q) \in Nat /\ Len(q) > 0
      /\ Head(q) = q[1] /\ Head(q) \in S
      /\ \A i \in 1..Len(r) : r[i] = q[i + 1]
  OBVIOUS
<1> HIDE DEF r
<1>2. \A i \in 1..Len(r) : i + 1 \in 1..Len(q)
  BY <1>1
<1>3. ASSUME NEW i \in 1..Len(q) PROVE i = 1 \/ (i - 1 \in 1..Len(r) /\ r[i - 1] = q[i])
  <2>1. CASE i # 1
    <3>1. i - 1 \in 1..Len(r) /\ (i - 1) + 1 = i
      BY <1>1, <2>1
    <3> QED
      BY <1>1, <3>1
  <2> QED
    BY <2>1
<1>4. 1 \in 1..Len(q)
  BY <1>1
<1>5. Frames(q) = Frames(r) \cup {Head(q).frame}
  BY <1>1, <1>2, <1>3, <1>4 DEF Frames
<1> QED
  BY <1>1, <1>5 DEF r

LEMMA OrderedTail ==
  ASSUME NEW q \in Seq(QueuedCall), q # <<>>, Ordered(q)
  PROVE  Ordered(Tail(q)) /\ Head(q).frame \notin Frames(Tail(q))
<1>1. /\ Tail(q) \in Seq(QueuedCall) /\ Len(Tail(q)) = Len(q) - 1 /\ Len(q) \in Nat /\ Len(q) > 0
      /\ Head(q) = q[1]
      /\ \A i \in 1..Len(Tail(q)) : Tail(q)[i] = q[i + 1]
  BY FramesTail
<1>2. ASSUME NEW i \in 1..Len(Tail(q)), NEW j \in 1..Len(Tail(q)), i < j
      PROVE  Tail(q)[i].frame < Tail(q)[j].frame
  <2>1. i + 1 \in 1..Len(q) /\ j + 1 \in 1..Len(q) /\ i + 1 < j + 1
    BY <1>1, <1>2
  <2>2. q[i + 1].frame < q[j + 1].frame
    BY <2>1 DEF Ordered
  <2> QED
    BY <1>1, <2>2
<1>3. ASSUME NEW i \in 1..Len(Tail(q)) PROVE Tail(q)[i].frame # Head(q).frame
  <2>1. 1 \in 1..Len(q) /\ i + 1 \in 1..Len(q) /\ 1 < i + 1
    BY <1>1
  <2>2. q[1].frame < q[i + 1].frame
    BY <2>1 DEF Ordered
  <2>3. q[1] \in QueuedCall /\ q[i + 1] \in QueuedCall
    BY <2>1, ElementOf
  <2>4. q[1].frame \in Nat /\ q[i + 1].frame \in Nat
    BY <2>3, HostBounds DEF QueuedCall
  <2> QED
    BY <1>1, <2>2, <2>4
<1>4. Head(q).frame \notin Frames(Tail(q))
  BY <1>3 DEF Frames
<1>5. Ordered(Tail(q))
  BY <1>2 DEF Ordered
<1> QED
  BY <1>4, <1>5

LEMMA OrderedAppend ==
  ASSUME NEW q \in Seq(QueuedCall), NEW x \in QueuedCall, Ordered(q),
         \A f \in Frames(q) : f < x.frame
  PROVE  Ordered(Append(q, x))
<1> DEFINE r == Append(q, x)
<1>1. /\ r \in Seq(QueuedCall) /\ Len(r) = Len(q) + 1 /\ Len(q) \in Nat /\ r[Len(q) + 1] = x
      /\ \A i \in 1..Len(q) : r[i] = q[i]
  BY FramesAppend
<1> HIDE DEF r
<1>2. ASSUME NEW i \in 1..Len(r), NEW j \in 1..Len(r), i < j PROVE r[i].frame < r[j].frame
  <2>1. i \in 1..Len(q)
    BY <1>1, <1>2
  <2>2. CASE j \in 1..Len(q)
    BY <1>1, <1>2, <2>1, <2>2 DEF Ordered
  <2>3. CASE j = Len(q) + 1
    BY <1>1, <2>1, <2>3 DEF Frames
  <2> QED
    BY <1>1, <2>2, <2>3
<1>3. Ordered(r)
  BY <1>2 DEF Ordered
<1> QED
  BY <1>3 DEF r

-----------------------------------------------------------------------------
(* A pending call enters at the end and leaves from anywhere.               *)

LEMMA HoldersFinite ==
  ASSUME NEW p \in Seq(PendingCall)
  PROVE  IsFiniteSet(Holders(p)) /\ Cardinality(Holders(p)) \in Nat
<1>1. Len(p) \in Nat /\ Holders(p) \subseteq 1..Len(p)
  BY DEF Holders
<1>2. IsFiniteSet(1..Len(p))
  BY <1>1, FS_Interval
<1>3. IsFiniteSet(Holders(p))
  BY <1>1, <1>2, FS_Subset
<1> QED
  BY <1>3, FS_CardinalityType

LEMMA PendingAppend ==
  ASSUME NEW p \in Seq(PendingCall), NEW x \in PendingCall, Distinct(p), x.frame \notin Frames(p)
  PROVE  /\ Distinct(Append(p, x))
         /\ Cardinality(Holders(Append(p, x))) =
              IF x.permit THEN Cardinality(Holders(p)) + 1 ELSE Cardinality(Holders(p))
<1> DEFINE r == Append(p, x)
<1>1. /\ r \in Seq(PendingCall) /\ Len(r) = Len(p) + 1 /\ Len(p) \in Nat /\ r[Len(p) + 1] = x
      /\ \A i \in 1..Len(p) : r[i] = p[i]
  BY FramesAppend
<1> HIDE DEF r
<1>2. \A i \in 1..Len(p) : p[i].frame # x.frame
  BY DEF Frames
<1>3. \A i \in 1..Len(r) : i \in 1..Len(p) \/ i = Len(p) + 1
  BY <1>1
<1>4. Distinct(r)
  BY <1>1, <1>2, <1>3 DEF Distinct
<1>5. Len(p) + 1 \notin Holders(p)
  BY <1>1 DEF Holders
<1>6. CASE x.permit
  <2>1. Holders(r) = Holders(p) \cup {Len(p) + 1}
    BY <1>1, <1>3, <1>6 DEF Holders
  <2> QED
    BY <1>4, <1>5, <1>6, <2>1, HoldersFinite, FS_AddElement DEF r
<1>7. CASE ~x.permit
  <2>1. Holders(r) = Holders(p)
    BY <1>1, <1>3, <1>7 DEF Holders
  <2> QED
    BY <1>4, <1>7, <2>1 DEF r
<1> QED
  BY <1>6, <1>7

Without(p, i) == SubSeq(p, 1, i - 1) \o SubSeq(p, i + 1, Len(p))

LEMMA WithoutIs ==
  ASSUME NEW S, NEW p \in Seq(S), NEW i \in 1..Len(p)
  PROVE  /\ Without(p, i) \in Seq(S) /\ Len(Without(p, i)) = Len(p) - 1 /\ Len(p) \in Nat
         /\ \A j \in 1..(Len(p) - 1) : Without(p, i)[j] = IF j < i THEN p[j] ELSE p[j + 1]
<1> DEFINE a == SubSeq(p, 1, i - 1)
           b == SubSeq(p, i + 1, Len(p))
<1>1. Len(p) \in Nat /\ i \in Nat
  OBVIOUS
<1>2. /\ a \in Seq(S) /\ Len(a) = i - 1
      /\ \A j \in 1..(i - 1) : a[j] = p[j]
  OBVIOUS
<1>3. /\ b \in Seq(S) /\ Len(b) = Len(p) - i
      /\ \A j \in 1..(Len(p) - i) : b[j] = p[i + j]
  OBVIOUS
<1>4. Without(p, i) = a \o b
  BY DEF Without
<1> HIDE DEF a, b
<1>5. /\ a \o b \in Seq(S) /\ Len(a \o b) = Len(a) + Len(b)
      /\ \A j \in 1..(Len(a) + Len(b)) : (a \o b)[j] = IF j <= Len(a) THEN a[j] ELSE b[j - Len(a)]
  BY <1>2, <1>3, ConcatProperties
<1>6. ASSUME NEW j \in 1..(Len(p) - 1) PROVE (a \o b)[j] = IF j < i THEN p[j] ELSE p[j + 1]
  <2>1. CASE j < i
    <3>1. j \in 1..(i - 1) /\ j <= Len(a) /\ j \in 1..(Len(a) + Len(b))
      BY <1>1, <1>2, <1>3, <2>1
    <3> QED
      BY <1>2, <1>5, <2>1, <3>1
  <2>2. CASE ~(j < i)
    <3>1. /\ ~(j <= Len(a)) /\ j - Len(a) \in 1..(Len(p) - i) /\ j \in 1..(Len(a) + Len(b))
          /\ i + (j - Len(a)) = j + 1
      BY <1>1, <1>2, <1>3, <2>2
    <3> QED
      BY <1>3, <1>5, <2>2, <3>1
  <2> QED
    BY <2>1, <2>2
<1> QED
  BY <1>1, <1>2, <1>3, <1>4, <1>5, <1>6

\* Where the j-th call that stays was before the i-th was taken.
Old(j, i) == IF j < i THEN j ELSE j + 1

LEMMA PendingWithout ==
  ASSUME NEW p \in Seq(PendingCall), Distinct(p), NEW i \in 1..Len(p)
  PROVE  /\ Without(p, i) \in Seq(PendingCall) /\ Len(Without(p, i)) = Len(p) - 1 /\ Len(p) \in Nat
         /\ Distinct(Without(p, i))
         /\ Frames(Without(p, i)) = Frames(p) \ {p[i].frame}
         /\ Cardinality(Holders(Without(p, i))) =
              IF p[i].permit THEN Cardinality(Holders(p)) - 1 ELSE Cardinality(Holders(p))
<1> DEFINE r == Without(p, i)
<1>1. /\ r \in Seq(PendingCall) /\ Len(r) = Len(p) - 1 /\ Len(p) \in Nat
      /\ \A j \in 1..Len(r) : r[j] = p[Old(j, i)]
  BY WithoutIs DEF Old
<1> HIDE DEF r
<1>2. \A j \in 1..Len(r) : Old(j, i) \in 1..Len(p) /\ Old(j, i) # i
  BY <1>1 DEF Old
<1>3. \A j, k \in 1..Len(r) : Old(j, i) = Old(k, i) => j = k
  BY <1>1 DEF Old
<1>4. \A k \in 1..Len(p) : k # i => \E j \in 1..Len(r) : Old(j, i) = k
  <2> TAKE k \in 1..Len(p)
  <2> HAVE k # i
  <2> DEFINE j == IF k < i THEN k ELSE k - 1
  <2>1. j \in 1..Len(r) /\ Old(j, i) = k
    BY <1>1 DEF Old
  <2> QED
    BY <2>1
<1>5. Distinct(r)
  <2> SUFFICES ASSUME NEW j \in 1..Len(r), NEW k \in 1..Len(r), r[j].frame = r[k].frame
               PROVE  j = k
    BY DEF Distinct
  <2>1. Old(j, i) = Old(k, i)
    BY <1>1, <1>2 DEF Distinct
  <2> QED
    BY <1>3, <2>1
<1>6. Frames(r) = Frames(p) \ {p[i].frame}
  <2>1. ASSUME NEW f \in Frames(r) PROVE f \in Frames(p) /\ f # p[i].frame
    <3>1. PICK j \in 1..Len(r) : f = r[j].frame
      BY <2>1 DEF Frames
    <3>2. f = p[Old(j, i)].frame /\ Old(j, i) \in 1..Len(p) /\ Old(j, i) # i
      BY <1>1, <1>2, <3>1
    <3> QED
      BY <3>2 DEF Frames, Distinct
  <2>2. ASSUME NEW f \in Frames(p), f # p[i].frame PROVE f \in Frames(r)
    <3>1. PICK k \in 1..Len(p) : f = p[k].frame
      BY <2>2 DEF Frames
    <3>2. PICK j \in 1..Len(r) : Old(j, i) = k
      BY <1>4, <2>2, <3>1
    <3>3. f = r[j].frame
      BY <1>1, <3>1, <3>2
    <3> QED
      BY <3>3 DEF Frames
  <2> QED
    BY <2>1, <2>2
<1>7. Cardinality(Holders(r)) = Cardinality(Holders(p) \ {i})
  <2> DEFINE S == Holders(r)
             T == Holders(p) \ {i}
             f == [j \in S |-> Old(j, i)]
  <2>1. f \in [S -> T]
    BY <1>1, <1>2 DEF Holders
  <2>2. \A j, k \in S : f[j] = f[k] => j = k
    BY <1>3 DEF Holders
  <2>3. \A k \in T : \E j \in S : f[j] = k
    <3> TAKE k \in T
    <3>1. k \in 1..Len(p) /\ k # i /\ p[k].permit
      BY DEF Holders
    <3>2. PICK j \in 1..Len(r) : Old(j, i) = k
      BY <1>4, <3>1
    <3>3. j \in S
      BY <1>1, <3>1, <3>2 DEF Holders
    <3> QED
      BY <3>2, <3>3
  <2>4. f \in Bijection(S, T)
    BY <2>1, <2>2, <2>3 DEF Bijection, Injection, Surjection, IsInjective
  <2>5. ExistsBijection(S, T)
    BY <2>4 DEF ExistsBijection
  <2> HIDE DEF S, T, f
  <2>6. IsFiniteSet(S)
    BY <1>1, HoldersFinite DEF S
  <2>7. Cardinality(T) = Cardinality(S)
    BY <2>5, <2>6, FS_Bijection
  <2> QED
    BY <2>7 DEF S, T
<1>8. i \in Holders(p) <=> p[i].permit
  BY DEF Holders
<1>9. Cardinality(Holders(p) \ {i}) =
         IF i \in Holders(p) THEN Cardinality(Holders(p)) - 1 ELSE Cardinality(Holders(p))
  BY HoldersFinite, FS_RemoveElement
<1> QED
  BY <1>1, <1>5, <1>6, <1>7, <1>8, <1>9 DEF r

-----------------------------------------------------------------------------
(* The operators of HostQueues on a host record in order.                   *)

\* What no operator of the scheduler changes.
SameCalls(h, g) == HostFrames(g) = HostFrames(h) /\ Size(g) = Size(h)

\* Permits are only taken below the capacity, which stays what it is.
Within(h, g) == g.capacity = h.capacity /\ (g.active > h.active => g.active <= h.capacity)

LEMMA BooleanOr == ASSUME NEW a, NEW b PROVE (a \/ b) \in BOOLEAN
  OBVIOUS

LEMMA ReleaseIs ==
  ASSUME NEW h \in HostType, NEW n \in Nat, n <= h.active
  PROVE  /\ Release(h, n) \in HostType
         /\ Release(h, n).active = h.active - n /\ Release(h, n).capacity = h.capacity
         /\ Release(h, n).pending = h.pending
         /\ Release(h, n).immediate = h.immediate /\ Release(h, n).deferred = h.deferred
<1>1. CASE n = 0
  BY <1>1 DEF Release, HostType
<1>2. CASE n # 0
  <2> DEFINE m == h.active - n
             w == h.woken \/ h.waker
             g == [h EXCEPT !.active = m, !.woken = w, !.waker = FALSE]
  <2>1. m \in Nat
    BY DEF HostType
  <2>2. w \in BOOLEAN
    BY BooleanOr, Zenon
  <2>3. Release(h, n) = g
    BY <1>2, Zenon DEF Release
  <2> HIDE DEF m, w
  <2>4. /\ g \in HostType /\ g.active = m /\ g.capacity = h.capacity /\ g.pending = h.pending
        /\ g.immediate = h.immediate /\ g.deferred = h.deferred
    BY <2>1, <2>2 DEF HostType
  <2> HIDE DEF g
  <2> QED
    BY <2>3, <2>4 DEF m
<1> QED
  BY <1>1, <1>2

LEMMA ActivateIs ==
  ASSUME NEW h \in HostType, h.immediate # <<>>
  PROVE  LET g == ActivateImmediate(h)
             x == Invoked(Head(h.immediate), FALSE)
         IN  /\ g \in HostType /\ x \in PendingCall /\ ~x.permit /\ x.frame = Head(h.immediate).frame
             /\ g.pending = Append(h.pending, x)
             /\ g.immediate = Tail(h.immediate) /\ g.deferred = h.deferred
             /\ g.active = h.active /\ g.capacity = h.capacity
<1>1. h.immediate \in Seq(QueuedCall) /\ h.pending \in Seq(PendingCall)
  BY DEF HostType
<1>2. Head(h.immediate) \in QueuedCall /\ Tail(h.immediate) \in Seq(QueuedCall)
  BY <1>1, FramesTail
<1> DEFINE x == Invoked(Head(h.immediate), FALSE)
<1>3. x \in PendingCall /\ ~x.permit /\ x.frame = Head(h.immediate).frame
  BY <1>2 DEF Invoked, QueuedCall, PendingCall
<1>4. Append(h.pending, x) \in Seq(PendingCall)
  BY <1>1, <1>3, FramesAppend
<1> HIDE DEF x
<1> QED
  BY <1>2, <1>3, <1>4 DEF ActivateImmediate, HostType, x

LEMMA GoodTypes ==
  ASSUME NEW h, Good(h)
  PROVE  /\ h \in HostType
         /\ h.pending \in Seq(PendingCall) /\ h.immediate \in Seq(QueuedCall) /\ h.deferred \in Seq(QueuedCall)
         /\ h.active \in Nat /\ h.capacity \in Nat
         /\ Len(h.pending) \in Nat /\ Len(h.immediate) \in Nat /\ Len(h.deferred) \in Nat
<1>1. h \in HostType
  BY DEF Good
<1>2. /\ h.pending \in Seq(PendingCall) /\ h.immediate \in Seq(QueuedCall) /\ h.deferred \in Seq(QueuedCall)
      /\ h.active \in Nat /\ h.capacity \in Capacities
  BY <1>1 DEF HostType
<1>3. h.capacity \in Nat
  BY <1>2, HostBounds, Zenon
<1>4. Len(h.pending) \in Nat /\ Len(h.immediate) \in Nat /\ Len(h.deferred) \in Nat
  BY <1>2, LenInNat, Zenon
<1> QED
  BY <1>1, <1>2, <1>3, <1>4, Zenon

\* The oldest immediate call becomes pending.
LEMMA MoveImmediate ==
  ASSUME NEW h, Good(h), h.immediate # <<>>, NEW x \in PendingCall, NEW g \in HostType,
         x.frame = Head(h.immediate).frame, ~x.permit,
         g.pending = Append(h.pending, x), g.immediate = Tail(h.immediate), g.deferred = h.deferred,
         g.active = h.active
  PROVE  Good(g) /\ SameCalls(h, g) /\ Len(g.pending) = Len(h.pending) + 1
<1>1. /\ h.pending \in Seq(PendingCall) /\ h.immediate \in Seq(QueuedCall)
      /\ Len(h.pending) \in Nat /\ Len(h.immediate) \in Nat /\ Len(h.deferred) \in Nat
  BY GoodTypes
<1>2. /\ Frames(h.immediate) = Frames(g.immediate) \cup {x.frame} /\ Len(g.immediate) = Len(h.immediate) - 1
  BY <1>1, FramesTail
<1>3. x.frame \notin Frames(g.immediate) /\ Ordered(g.immediate)
  BY <1>1, OrderedTail DEF Good
<1>4. Frames(g.pending) = Frames(h.pending) \cup {x.frame} /\ Len(g.pending) = Len(h.pending) + 1
  BY <1>1, FramesAppend
<1>5. x.frame \notin Frames(h.pending) /\ x.frame \notin Frames(h.deferred)
  BY <1>2 DEF Good
<1>6. Distinct(g.pending) /\ Cardinality(Holders(g.pending)) = Cardinality(Holders(h.pending))
  BY <1>1, <1>5, PendingAppend DEF Good
<1>7. Good(g)
  BY <1>2, <1>3, <1>4, <1>5, <1>6 DEF Good
<1>8. HostFrames(g) = HostFrames(h)
  BY <1>2, <1>4, Zenon DEF HostFrames
<1>9. Size(g) = Size(h)
  <2>1. Size(g) = (Len(h.immediate) - 1) + Len(h.deferred) + (Len(h.pending) + 1)
    BY <1>2, <1>4, Zenon DEF Size
  <2> QED
    BY <1>1, <2>1, MovedOne, Zenon DEF Size
<1> QED
  BY <1>4, <1>7, <1>8, <1>9 DEF SameCalls

\* The oldest deferred call becomes pending, with the permit taken for it
\* unless it failed to start.
LEMMA MoveDeferred ==
  ASSUME NEW h, Good(h), h.deferred # <<>>, NEW x \in PendingCall, NEW g \in HostType,
         x.frame = Head(h.deferred).frame,
         g.pending = Append(h.pending, x), g.deferred = Tail(h.deferred), g.immediate = h.immediate,
         g.active = IF x.permit THEN h.active + 1 ELSE h.active
  PROVE  Good(g) /\ SameCalls(h, g) /\ Len(g.pending) = Len(h.pending) + 1
<1>1. /\ h.pending \in Seq(PendingCall) /\ h.deferred \in Seq(QueuedCall)
      /\ Len(h.pending) \in Nat /\ Len(h.immediate) \in Nat /\ Len(h.deferred) \in Nat
  BY GoodTypes
<1>2. /\ Frames(h.deferred) = Frames(g.deferred) \cup {x.frame} /\ Len(g.deferred) = Len(h.deferred) - 1
  BY <1>1, FramesTail
<1>3. x.frame \notin Frames(g.deferred) /\ Ordered(g.deferred)
  BY <1>1, OrderedTail DEF Good
<1>4. Frames(g.pending) = Frames(h.pending) \cup {x.frame} /\ Len(g.pending) = Len(h.pending) + 1
  BY <1>1, FramesAppend
<1>5. x.frame \notin Frames(h.pending) /\ x.frame \notin Frames(h.immediate)
  BY <1>2 DEF Good
<1>6. /\ Distinct(g.pending)
      /\ Cardinality(Holders(g.pending)) =
           IF x.permit THEN Cardinality(Holders(h.pending)) + 1 ELSE Cardinality(Holders(h.pending))
  BY <1>1, <1>5, PendingAppend DEF Good
<1>7. Good(g)
  BY <1>2, <1>3, <1>4, <1>5, <1>6 DEF Good
<1>8. HostFrames(g) = HostFrames(h)
  BY <1>2, <1>4, Zenon DEF HostFrames
<1>9. Size(g) = Size(h)
  <2>1. Size(g) = Len(h.immediate) + (Len(h.deferred) - 1) + (Len(h.pending) + 1)
    BY <1>2, <1>4, Zenon DEF Size
  <2> QED
    BY <1>1, <2>1, MovedLater, Zenon DEF Size
<1> QED
  BY <1>4, <1>7, <1>8, <1>9 DEF SameCalls

LEMMA ActivateGood ==
  ASSUME NEW h, Good(h)
  PROVE  LET g == ActivateImmediate(h)
         IN  /\ Good(g) /\ SameCalls(h, g) /\ g.active = h.active /\ g.capacity = h.capacity
             /\ Len(g.pending) >= Len(h.pending)
             /\ h.immediate # <<>> => Len(g.pending) > Len(h.pending)
             /\ g.deferred = h.deferred
<1>0. h \in HostType /\ Len(h.pending) \in Nat
  BY GoodTypes
<1>1. CASE h.immediate = <<>>
  BY <1>0, <1>1 DEF ActivateImmediate, SameCalls
<1>2. CASE h.immediate # <<>>
  <2> DEFINE g == ActivateImmediate(h)
             x == Invoked(Head(h.immediate), FALSE)
  <2>1. /\ g \in HostType /\ x \in PendingCall /\ ~x.permit /\ x.frame = Head(h.immediate).frame
        /\ g.pending = Append(h.pending, x)
        /\ g.immediate = Tail(h.immediate) /\ g.deferred = h.deferred
        /\ g.active = h.active /\ g.capacity = h.capacity
    BY <1>0, <1>2, ActivateIs
  <2> HIDE DEF g, x
  <2>2. Good(g) /\ SameCalls(h, g) /\ Len(g.pending) = Len(h.pending) + 1
    BY <1>2, <2>1, MoveImmediate
  <2> QED
    BY <1>0, <2>1, <2>2 DEF g
<1> QED
  BY <1>1, <1>2

LEMMA AdmitIs ==
  ASSUME NEW h \in HostType, PermitAvailable(h)
  PROVE  LET g == AdmitDeferred(h)
             x == Invoked(Head(h.deferred), TRUE)
         IN  /\ g \in HostType /\ x \in PendingCall /\ x.frame = Head(h.deferred).frame
             /\ g.pending = Append(h.pending, x)
             /\ g.deferred = Tail(h.deferred) /\ g.immediate = h.immediate
             /\ g.active = (IF x.permit THEN h.active + 1 ELSE h.active) /\ g.capacity = h.capacity
<1> DEFINE call == Head(h.deferred)
           x == Invoked(call, TRUE)
           d == Tail(h.deferred)
           n == h.active + 1
           p == Append(h.pending, x)
           moved == [h EXCEPT !.deferred = d, !.active = n, !.pending = p]
<1>1. h.deferred \in Seq(QueuedCall) /\ h.pending \in Seq(PendingCall) /\ h.active \in Nat
  BY DEF HostType
<1>2. h.deferred # <<>>
  BY DEF PermitAvailable
<1>3. call \in QueuedCall /\ Tail(h.deferred) \in Seq(QueuedCall)
  BY <1>1, <1>2, FramesTail
<1>4. x \in PendingCall /\ x.frame = call.frame /\ (x.permit <=> call.invoke = "ok")
  BY <1>3 DEF Invoked, QueuedCall, PendingCall
<1>5. Append(h.pending, x) \in Seq(PendingCall)
  BY <1>1, <1>4, FramesAppend
<1>6. AdmitDeferred(h) = IF call.invoke = "ok" THEN moved ELSE Release(moved, 1)
  BY <1>2, Zenon DEF AdmitDeferred
<1> HIDE DEF call, x
<1>7. /\ moved \in HostType /\ moved.pending = Append(h.pending, x)
      /\ moved.deferred = Tail(h.deferred) /\ moved.immediate = h.immediate
      /\ moved.active = h.active + 1 /\ moved.capacity = h.capacity
  <2>1. d \in Seq(QueuedCall) /\ n \in Nat /\ p \in Seq(PendingCall)
    BY <1>1, <1>3, <1>5
  <2> HIDE DEF d, n, p
  <2>2. /\ moved \in HostType /\ moved.pending = p /\ moved.deferred = d /\ moved.active = n
        /\ moved.immediate = h.immediate /\ moved.capacity = h.capacity
    BY <2>1 DEF HostType
  <2> QED
    BY <2>2, Zenon DEF d, n, p
<1> HIDE DEF moved
<1>8. CASE call.invoke = "ok"
  <2>1. AdmitDeferred(h) = moved /\ x.permit
    BY <1>4, <1>6, <1>8, Zenon
  <2> QED
    BY <1>4, <1>7, <2>1, Zenon DEF x, call
<1>9. CASE call.invoke # "ok"
  <2>1. AdmitDeferred(h) = Release(moved, 1) /\ ~x.permit
    BY <1>4, <1>6, <1>9, Zenon
  <2>2. 1 \in Nat /\ 1 <= moved.active /\ moved.active - 1 = h.active
    BY <1>1, <1>7
  <2>3. /\ Release(moved, 1) \in HostType
        /\ Release(moved, 1).active = h.active /\ Release(moved, 1).capacity = h.capacity
        /\ Release(moved, 1).pending = Append(h.pending, x)
        /\ Release(moved, 1).immediate = h.immediate /\ Release(moved, 1).deferred = Tail(h.deferred)
    BY <1>7, <2>2, ReleaseIs
  <2> QED
    BY <1>4, <2>1, <2>3, Zenon DEF x, call
<1> QED
  BY <1>8, <1>9

LEMMA AdmitGood ==
  ASSUME NEW h, Good(h), PermitAvailable(h)
  PROVE  LET g == AdmitDeferred(h)
         IN  /\ Good(g) /\ SameCalls(h, g) /\ Within(h, g)
             /\ Len(g.pending) = Len(h.pending) + 1
<1> DEFINE g == AdmitDeferred(h)
           x == Invoked(Head(h.deferred), TRUE)
<1>1. h \in HostType /\ h.active \in Nat /\ h.capacity \in Nat
  BY GoodTypes
<1>2. h.deferred # <<>> /\ h.active < h.capacity
  BY DEF PermitAvailable
<1>3. /\ g \in HostType /\ x \in PendingCall /\ x.frame = Head(h.deferred).frame
      /\ g.pending = Append(h.pending, x)
      /\ g.deferred = Tail(h.deferred) /\ g.immediate = h.immediate
      /\ g.active = (IF x.permit THEN h.active + 1 ELSE h.active) /\ g.capacity = h.capacity
  BY <1>1, AdmitIs
<1> HIDE DEF g, x
<1>4. Good(g) /\ SameCalls(h, g) /\ Len(g.pending) = Len(h.pending) + 1
  BY <1>2, <1>3, MoveDeferred
<1>5. g.active = h.active \/ g.active = h.active + 1
  BY <1>3, Zenon
<1>6. Within(h, g)
  BY <1>1, <1>2, <1>3, <1>5 DEF Within
<1> QED
  BY <1>4, <1>6 DEF g

\* Without a permit only the waker changes.
LEMMA AdmitInVain ==
  ASSUME NEW h, Good(h), ~PermitAvailable(h)
  PROVE  LET g == AdmitDeferred(h)
         IN  /\ Good(g) /\ SameCalls(h, g) /\ Within(h, g)
             /\ g.pending = h.pending /\ g.immediate = h.immediate /\ g.deferred = h.deferred
             /\ g.active = h.active
             /\ h.deferred # <<>> => g.waker
<1>1. h \in HostType /\ h.active \in Nat
  BY GoodTypes
<1>2. CASE h.deferred = <<>>
  <2>1. AdmitDeferred(h) = h
    BY <1>2, Zenon DEF AdmitDeferred
  <2> QED
    BY <1>1, <1>2, <2>1 DEF SameCalls, Within
<1>3. CASE h.deferred # <<>>
  <2> DEFINE g == [h EXCEPT !.waker = TRUE]
  <2>1. AdmitDeferred(h) = g
    BY <1>3, Zenon DEF AdmitDeferred
  <2>2. /\ g \in HostType /\ g.pending = h.pending /\ g.immediate = h.immediate /\ g.deferred = h.deferred
        /\ g.active = h.active /\ g.capacity = h.capacity /\ g.waker
    BY <1>1 DEF HostType
  <2> HIDE DEF g
  <2>3. Good(g)
    BY <2>2 DEF Good
  <2>4. SameCalls(h, g) /\ Within(h, g)
    BY <1>1, <2>2 DEF SameCalls, HostFrames, Size, Within
  <2> QED
    BY <2>1, <2>2, <2>3, <2>4
<1> QED
  BY <1>2, <1>3

LEMMA FirstReadyIs ==
  ASSUME NEW h, Good(h)
  PROVE  /\ FirstReady(h) = 0 => ReadyIndices(h) = {}
         /\ FirstReady(h) # 0 => FirstReady(h) \in ReadyIndices(h)
<1>1. ReadyIndices(h) \subseteq Nat /\ 0 \notin ReadyIndices(h)
  BY GoodTypes DEF ReadyIndices
<1>2. CASE ReadyIndices(h) = {}
  BY <1>2, Zenon DEF FirstReady
<1>3. CASE ReadyIndices(h) # {}
  <2>1. PICK x \in ReadyIndices(h) : \A y \in ReadyIndices(h) : ~(<<y, x>> \in OpToRel(<, Nat))
    BY <1>1, <1>3, NatLessThanWellFounded, WFMin
  <2>2. ASSUME NEW y \in ReadyIndices(h) PROVE x <= y
    <3>1. ~(<<y, x>> \in OpToRel(<, Nat))
      BY <2>1
    <3>2. ~(y < x)
      BY <1>1, <3>1 DEF OpToRel
    <3> QED
      BY <1>1, <3>2
  <2>3. \E i \in ReadyIndices(h) : \A j \in ReadyIndices(h) : i <= j
    BY <2>2
  <2>4. FirstReady(h) = CHOOSE i \in ReadyIndices(h) : \A j \in ReadyIndices(h) : i <= j
    BY <1>3, Zenon DEF FirstReady
  <2>5. FirstReady(h) \in ReadyIndices(h)
    BY <2>3, <2>4, Zenon
  <2> QED
    BY <1>1, <2>5, Zenon
<1> QED
  BY <1>2, <1>3

LEMMA PolledIs ==
  ASSUME NEW x \in PendingCall
  PROVE  /\ [x EXCEPT !.polled = TRUE] \in PendingCall /\ [x EXCEPT !.polled = TRUE].frame = x.frame
         /\ [x EXCEPT !.polled = TRUE].permit = x.permit /\ [x EXCEPT !.polled = TRUE].state = x.state
         /\ [x EXCEPT !.polled = TRUE].polled
  BY DEF PendingCall

\* A scan changes nothing but which futures know the task's waker.
LEMMA ScanIs ==
  ASSUME NEW h, Good(h)
  PROVE  LET g == PollPendingOnce(h)
         IN  /\ g \in HostType /\ Len(g.pending) = Len(h.pending)
             /\ \A i \in 1..Len(h.pending) : /\ g.pending[i].frame = h.pending[i].frame
                                             /\ g.pending[i].permit = h.pending[i].permit
                                             /\ g.pending[i].state = h.pending[i].state
             /\ FirstReady(h) = 0 => \A i \in 1..Len(h.pending) : g.pending[i].polled
             /\ g.immediate = h.immediate /\ g.deferred = h.deferred
             /\ g.active = h.active /\ g.capacity = h.capacity
<1> DEFINE p == h.pending
           k == FirstReady(h)
           r == [i \in 1..Len(p) |-> IF k = 0 \/ i <= k THEN [p[i] EXCEPT !.polled = TRUE] ELSE p[i]]
           g == [h EXCEPT !.pending = r]
<1>1. h \in HostType /\ p \in Seq(PendingCall) /\ Len(p) \in Nat
  BY GoodTypes
<1>2. g = PollPendingOnce(h)
  BY DEF PollPendingOnce
<1> HIDE DEF p, k
<1>3. ASSUME NEW i \in 1..Len(p)
      PROVE  /\ r[i] \in PendingCall /\ r[i].frame = p[i].frame /\ r[i].permit = p[i].permit
             /\ r[i].state = p[i].state /\ (k = 0 => r[i].polled)
  <2>1. p[i] \in PendingCall
    BY <1>1, ElementOf
  <2>2. r[i] = IF k = 0 \/ i <= k THEN [p[i] EXCEPT !.polled = TRUE] ELSE p[i]
    OBVIOUS
  <2> HIDE DEF r
  <2>3. CASE k = 0 \/ i <= k
    <3>1. r[i] = [p[i] EXCEPT !.polled = TRUE]
      BY <2>2, <2>3
    <3> QED
      BY <2>1, <3>1, PolledIs
  <2>4. CASE ~(k = 0 \/ i <= k)
    BY <2>1, <2>2, <2>4
  <2> QED
    BY <2>3, <2>4
<1>4. r \in Seq(PendingCall) /\ Len(r) = Len(p)
  BY <1>1, <1>3
<1> HIDE DEF r
<1>5. /\ g \in HostType /\ g.pending = r /\ g.immediate = h.immediate /\ g.deferred = h.deferred
      /\ g.active = h.active /\ g.capacity = h.capacity
  BY <1>1, <1>4 DEF HostType
<1> HIDE DEF g
<1>6. /\ Len(g.pending) = Len(p)
      /\ \A i \in 1..Len(p) : /\ g.pending[i].frame = p[i].frame
                              /\ g.pending[i].permit = p[i].permit
                              /\ g.pending[i].state = p[i].state
      /\ k = 0 => \A i \in 1..Len(p) : g.pending[i].polled
  BY <1>3, <1>4, <1>5, Zenon
<1> QED
  BY <1>2, <1>5, <1>6, Zenon DEF p, k

LEMMA ScanGood ==
  ASSUME NEW h, Good(h)
  PROVE  LET g == PollPendingOnce(h)
         IN  /\ Good(g) /\ SameCalls(h, g) /\ ReadyIndices(g) = ReadyIndices(h)
<1> DEFINE g == PollPendingOnce(h)
<1>1. /\ g \in HostType /\ Len(g.pending) = Len(h.pending)
      /\ \A i \in 1..Len(h.pending) : /\ g.pending[i].frame = h.pending[i].frame
                                      /\ g.pending[i].permit = h.pending[i].permit
                                      /\ g.pending[i].state = h.pending[i].state
      /\ g.immediate = h.immediate /\ g.deferred = h.deferred /\ g.active = h.active
  BY ScanIs
<1> HIDE DEF g
<1>2. Frames(g.pending) = Frames(h.pending)
  BY <1>1 DEF Frames
<1>3. Holders(g.pending) = Holders(h.pending)
  BY <1>1 DEF Holders
<1>4. Distinct(g.pending)
  BY <1>1 DEF Distinct, Good
<1>5. Good(g)
  BY <1>1, <1>2, <1>3, <1>4 DEF Good
<1>6. SameCalls(h, g)
  BY <1>1, <1>2, Zenon DEF SameCalls, HostFrames, Size
<1>7. ReadyIndices(g) = ReadyIndices(h)
  BY <1>1 DEF ReadyIndices
<1> QED
  BY <1>5, <1>6, <1>7 DEF g

LEMMA SumLess == ASSUME NEW a \in Nat, NEW b \in Nat, NEW c \in Nat PROVE a + b + c = a + b + (c - 1) + 1
  OBVIOUS

LEMMA TakeGood ==
  ASSUME NEW h, Good(h), NEW i \in 1..Len(h.pending)
  PROVE  LET g == TakePending(h, i)
             f == h.pending[i].frame
         IN  /\ Good(g) /\ g.active <= h.active /\ g.capacity = h.capacity
             /\ f \in 1..MaxCalls /\ f \notin HostFrames(g)
             /\ HostFrames(h) = HostFrames(g) \cup {f} /\ Size(h) = Size(g) + 1
<1> DEFINE p == h.pending
           r == Without(p, i)
           n == IF p[i].permit THEN 1 ELSE 0
           m == [h EXCEPT !.pending = r]
           g == TakePending(h, i)
           f == p[i].frame
<1>1. /\ h \in HostType /\ p \in Seq(PendingCall) /\ h.active \in Nat
      /\ Len(p) \in Nat /\ Len(h.immediate) \in Nat /\ Len(h.deferred) \in Nat
  BY GoodTypes
<1>2. /\ r \in Seq(PendingCall) /\ Len(r) = Len(p) - 1 /\ Distinct(r) /\ Frames(r) = Frames(p) \ {f}
      /\ Cardinality(Holders(r)) =
           IF p[i].permit THEN Cardinality(Holders(p)) - 1 ELSE Cardinality(Holders(p))
  BY <1>1, PendingWithout DEF Good
<1>3. g = Release(m, n)
  BY DEF TakePending, Without
<1>4. p[i] \in PendingCall
  BY <1>1, ElementOf
<1>5. f \in Frames(p) /\ f \in 1..MaxCalls
  BY <1>4 DEF Frames, PendingCall
<1>6. h.active = Cardinality(Holders(p)) /\ Cardinality(Holders(r)) \in Nat
  BY <1>2, HoldersFinite DEF Good
<1> HIDE DEF p, r, g, f
<1>7. n \in Nat /\ n <= h.active /\ Cardinality(Holders(r)) = h.active - n
  <2>1. CASE p[i].permit
    BY <1>1, <1>2, <1>6, <2>1
  <2>2. CASE ~p[i].permit
    BY <1>1, <1>2, <1>6, <2>2
  <2> QED
    BY <2>1, <2>2
<1> HIDE DEF n
<1>8. /\ m \in HostType /\ m.pending = r /\ m.active = h.active /\ m.capacity = h.capacity
      /\ m.immediate = h.immediate /\ m.deferred = h.deferred
  BY <1>1, <1>2 DEF HostType
<1> HIDE DEF m
<1>9. /\ g \in HostType /\ g.active = h.active - n /\ g.capacity = h.capacity /\ g.pending = r
      /\ g.immediate = h.immediate /\ g.deferred = h.deferred
  <2>1. n <= m.active
    BY <1>7, <1>8
  <2> QED
    BY <1>3, <1>7, <1>8, <2>1, ReleaseIs
<1>10. /\ f \notin Frames(g.immediate) /\ f \notin Frames(g.deferred)
  BY <1>5, <1>9 DEF Good, p
<1>11. Good(g)
  <2>1. /\ Frames(g.immediate) \cap Frames(g.pending) = {}
        /\ Frames(g.deferred) \cap Frames(g.pending) = {}
    BY <1>2, <1>9 DEF Good, p
  <2> QED
    BY <1>2, <1>7, <1>9, <2>1 DEF Good
<1>12. f \notin HostFrames(g)
  BY <1>2, <1>9, <1>10 DEF HostFrames
<1>13. HostFrames(h) = HostFrames(g) \cup {f}
  BY <1>2, <1>5, <1>9 DEF HostFrames, p
<1>14. Size(h) = Size(g) + 1
  <2>1. Size(g) = Len(h.immediate) + Len(h.deferred) + (Len(p) - 1)
    BY <1>2, <1>9, Zenon DEF Size
  <2>2. Size(h) = Len(h.immediate) + Len(h.deferred) + Len(p)
    BY DEF Size, p
  <2>3. Len(h.immediate) + Len(h.deferred) + Len(p) = Len(h.immediate) + Len(h.deferred) + (Len(p) - 1) + 1
    BY <1>1, SumLess
  <2> QED
    BY <2>1, <2>2, <2>3, Zenon
<1>15. g.active <= h.active
  BY <1>1, <1>7, <1>9
<1> QED
  BY <1>5, <1>9, <1>11, <1>12, <1>13, <1>14, <1>15, Zenon DEF g, f, p

LEMMA NothingPending ==
  ASSUME NEW h, Good(h), h.pending = <<>>
  PROVE  h.active = 0
<1>1. Holders(<<>>) = {}
  BY DEF Holders
<1> QED
  BY <1>1, FS_EmptySet DEF Good

\* An evaluation that ends early gives all permits back.
LEMMA DropGood ==
  ASSUME NEW h, Good(h)
  PROVE  LET g == DropHost(h)
         IN  /\ Good(g) /\ g.pending = <<>> /\ g.active = 0 /\ g.capacity = h.capacity
<1> DEFINE e == <<>>
           m == [h EXCEPT !.pending = e, !.immediate = e, !.deferred = e]
           n == Cardinality(Holders(h.pending))
           g == DropHost(h)
<1>1. h \in HostType /\ h.pending \in Seq(PendingCall) /\ h.active \in Nat
  BY GoodTypes
<1>2. g = Release(m, n)
  BY DEF DropHost, Holders
<1>3. n \in Nat /\ n = h.active
  BY <1>1, HoldersFinite DEF Good
<1> HIDE DEF n, g
<1>4. /\ m \in HostType /\ m.pending = <<>> /\ m.immediate = <<>> /\ m.deferred = <<>>
      /\ m.active = h.active /\ m.capacity = h.capacity
  <2>1. e \in Seq(PendingCall) /\ e \in Seq(QueuedCall)
    OBVIOUS
  <2> HIDE DEF e
  <2>2. /\ m \in HostType /\ m.pending = e /\ m.immediate = e /\ m.deferred = e
        /\ m.active = h.active /\ m.capacity = h.capacity
    BY <1>1, <2>1 DEF HostType
  <2> HIDE DEF m
  <2> QED
    BY <2>2, Zenon DEF e
<1> HIDE DEF m
<1>5. n <= m.active /\ m.active - n = 0
  BY <1>1, <1>3, <1>4
<1>6. /\ g \in HostType /\ g.active = 0 /\ g.capacity = h.capacity
      /\ g.pending = <<>> /\ g.immediate = <<>> /\ g.deferred = <<>>
  BY <1>2, <1>3, <1>4, <1>5, ReleaseIs
<1>7. /\ Frames(<<>>) = {} /\ Holders(<<>>) = {} /\ Ordered(<<>>) /\ Distinct(<<>>)
  BY DEF Frames, Holders, Ordered, Distinct
<1>8. Cardinality({}) = 0
  BY FS_EmptySet
<1>9. Good(g)
  BY <1>6, <1>7, <1>8 DEF Good
<1> QED
  BY <1>6, <1>9, Zenon DEF g

-----------------------------------------------------------------------------
(* What the answer of a poll promises.                                      *)

\* Whoever could have something for the task knows how to wake it: every
\* future was polled and has no answer yet, and a deferred call left the waker
\* with a controller that has no permit.
Quiet(h) ==
    /\ \A i \in 1..Len(h.pending) : h.pending[i].state = "polling" /\ h.pending[i].polled
    /\ h.deferred # <<>> => h.waker /\ h.active >= h.capacity

\* The one call that leaves the scheduler.
Taken(h, g, f) ==
    /\ f \in 1..MaxCalls /\ f \notin HostFrames(g)
    /\ HostFrames(h) = HostFrames(g) \cup {f} /\ Size(h) = Size(g) + 1

AnswerGood(h, a) ==
    /\ Good(a.host) /\ Within(h, a.host)
    /\ a.poll \in {"Idle", "Progress", "Completed", "Failed"} \cup Suspended
    /\ a.poll \in {"Completed", "Failed"} => Taken(h, a.host, a.frame)
    /\ a.poll \notin {"Completed", "Failed"} => SameCalls(h, a.host) /\ a.frame = NoFrame
    /\ a.poll = "Progress" => Len(a.host.pending) > 0
    /\ a.poll \in Suspended => Quiet(a.host)
    /\ a.poll = "AwaitPermit" => Len(a.host.pending) = 0

LEMMA WithinTrans ==
  ASSUME NEW h, Good(h), NEW g, Good(g), NEW k, Good(k), Within(h, g), Within(g, k)
  PROVE  Within(h, k)
<1>1. h.active \in Nat /\ g.active \in Nat /\ k.active \in Nat /\ h.capacity \in Nat
  BY GoodTypes
<1> QED
  BY <1>1 DEF Within

LEMMA AnswerAfter ==
  ASSUME NEW h, Good(h), NEW g, Good(g), SameCalls(h, g), Within(h, g), NEW a, AnswerGood(g, a)
  PROVE  AnswerGood(h, a)
<1>1. Within(h, a.host)
  BY WithinTrans DEF AnswerGood
<1> QED
  BY <1>1, Zenon DEF AnswerGood, Taken, SameCalls

\* An answer that takes nothing.
LEMMA AnswerIs ==
  ASSUME NEW h, NEW g, Good(g), Within(h, g), SameCalls(h, g),
         NEW s \in {"Idle", "Progress"} \cup Suspended,
         s = "Progress" => Len(g.pending) > 0,
         s \in Suspended => Quiet(g),
         s = "AwaitPermit" => Len(g.pending) = 0
  PROVE  AnswerGood(h, Answer(g, s))
<1>1. Answer(g, s).host = g /\ Answer(g, s).poll = s /\ Answer(g, s).frame = NoFrame
  BY DEF Answer
<1>2. s # "Completed" /\ s # "Failed"
  BY DEF Suspended
<1> QED
  BY <1>1, <1>2 DEF AnswerGood

LEMMA TakeReadyGood ==
  ASSUME NEW h, Good(h), NEW i \in 1..Len(h.pending)
  PROVE  AnswerGood(h, TakeReady(h, i))
<1> DEFINE a == TakeReady(h, i)
           g == TakePending(h, i)
<1>1. /\ Good(g) /\ g.active <= h.active /\ g.capacity = h.capacity /\ Taken(h, g, h.pending[i].frame)
  BY TakeGood DEF Taken
<1>2. a.host = g /\ a.frame = h.pending[i].frame /\ a.poll \in {"Completed", "Failed"}
  BY DEF TakeReady
<1> HIDE DEF a, g
<1>3. h.active \in Nat /\ g.active \in Nat
  BY <1>1, GoodTypes
<1>4. Within(h, g)
  BY <1>1, <1>3 DEF Within
<1>5. a.poll \notin Suspended /\ a.poll # "Progress" /\ a.poll # "AwaitPermit"
  BY <1>2 DEF Suspended
<1>6. AnswerGood(h, a)
  BY <1>1, <1>2, <1>4, <1>5, Zenon DEF AnswerGood
<1> QED
  BY <1>6 DEF a

LEMMA PollForPermitGood ==
  ASSUME NEW h, Good(h), Len(h.pending) = 0
  PROVE  AnswerGood(h, PollForPermit(h))
<1> DEFINE g == AdmitDeferred(h)
<1>1. CASE PermitAvailable(h)
  <2>1. Good(g) /\ SameCalls(h, g) /\ Within(h, g) /\ Len(g.pending) = Len(h.pending) + 1
    BY <1>1, AdmitGood
  <2> HIDE DEF g
  <2>2. Len(g.pending) > 0 /\ "Progress" \notin Suspended
    BY <2>1 DEF Suspended
  <2>3. AnswerGood(h, Answer(g, "Progress"))
    BY <2>1, <2>2, AnswerIs
  <2> QED
    BY <1>1, <2>3, Zenon DEF PollForPermit, g
<1>2. CASE ~PermitAvailable(h)
  <2>1. /\ Good(g) /\ SameCalls(h, g) /\ Within(h, g) /\ g.pending = h.pending
        /\ g.deferred = h.deferred /\ g.active = h.active /\ (h.deferred # <<>> => g.waker)
    BY <1>2, AdmitInVain
  <2> HIDE DEF g
  <2>2. g.capacity = h.capacity /\ h.active \in Nat /\ h.capacity \in Nat
    BY <2>1, GoodTypes DEF Within
  <2>3. Quiet(g)
    BY <1>2, <2>1, <2>2 DEF Quiet, PermitAvailable
  <2>4. AnswerGood(h, Answer(g, "AwaitPermit"))
    BY <2>1, <2>3, AnswerIs DEF Suspended
  <2> QED
    BY <1>2, <2>4, Zenon DEF PollForPermit, g
<1> QED
  BY <1>1, <1>2

LEMMA ScanWithin ==
  ASSUME NEW h, Good(h) PROVE Within(h, PollPendingOnce(h))
<1>1. PollPendingOnce(h).active = h.active /\ PollPendingOnce(h).capacity = h.capacity /\ h.active \in Nat
  BY ScanIs, GoodTypes
<1> QED
  BY <1>1 DEF Within

\* A ready call is taken after the scan.
LEMMA ScanAndTake ==
  ASSUME NEW h, Good(h), FirstReady(h) # 0
  PROVE  AnswerGood(h, TakeReady(PollPendingOnce(h), FirstReady(h)))
<1> DEFINE g == PollPendingOnce(h)
           k == FirstReady(h)
<1>1. Good(g) /\ SameCalls(h, g) /\ ReadyIndices(g) = ReadyIndices(h)
  BY ScanGood
<1>2. k \in ReadyIndices(h)
  BY FirstReadyIs
<1> HIDE DEF g, k
<1>3. k \in 1..Len(g.pending)
  BY <1>1, <1>2 DEF ReadyIndices
<1>4. AnswerGood(g, TakeReady(g, k))
  BY <1>1, <1>3, TakeReadyGood
<1>5. Within(h, g)
  BY ScanWithin DEF g
<1>6. AnswerGood(h, TakeReady(g, k))
  BY <1>1, <1>4, <1>5, AnswerAfter
<1> QED
  BY <1>6 DEF g, k

LEMMA PollForEventGood ==
  ASSUME NEW h, Good(h)
  PROVE  AnswerGood(h, PollForEvent(h))
<1> DEFINE s == PollPendingOnce(h)
           g == AdmitDeferred(s)
<1>1. CASE FirstReady(h) # 0
  BY <1>1, ScanAndTake, Zenon DEF PollForEvent
<1>2. CASE FirstReady(h) = 0
  <2>1. /\ Good(s) /\ SameCalls(h, s) /\ ReadyIndices(s) = ReadyIndices(h) /\ Within(h, s)
    BY ScanGood, ScanWithin
  <2>2. ReadyIndices(s) = {}
    BY <1>2, <2>1, FirstReadyIs
  <2>3. \A i \in 1..Len(s.pending) : s.pending[i].polled
    BY <1>2, ScanIs
  <2>4. PollForEvent(h) = Answer(g, IF PermitAvailable(s) THEN "Progress" ELSE "AwaitEvent")
    BY <1>2, Zenon DEF PollForEvent
  <2> HIDE DEF s
  <2>5. CASE PermitAvailable(s)
    <3>1. Good(g) /\ SameCalls(s, g) /\ Within(s, g) /\ Len(g.pending) = Len(s.pending) + 1
      BY <2>1, <2>5, AdmitGood
    <3>2. Len(s.pending) \in Nat
      BY <2>1, GoodTypes
    <3> HIDE DEF g
    <3>3. Len(g.pending) > 0 /\ "Progress" \notin Suspended
      BY <3>1, <3>2 DEF Suspended
    <3>4. AnswerGood(s, Answer(g, "Progress"))
      BY <3>1, <3>3, AnswerIs
    <3>5. AnswerGood(h, Answer(g, "Progress"))
      BY <2>1, <3>4, AnswerAfter
    <3> QED
      BY <2>4, <2>5, <3>5, Zenon
  <2>6. CASE ~PermitAvailable(s)
    <3>1. /\ Good(g) /\ SameCalls(s, g) /\ Within(s, g) /\ g.pending = s.pending
          /\ g.deferred = s.deferred /\ g.active = s.active /\ (s.deferred # <<>> => g.waker)
      BY <2>1, <2>6, AdmitInVain
    <3> HIDE DEF g
    <3>2. g.capacity = s.capacity /\ s.active \in Nat /\ s.capacity \in Nat
      BY <2>1, <3>1, GoodTypes DEF Within
    <3>3. \A i \in 1..Len(s.pending) : s.pending[i].state = "polling"
      BY <2>2 DEF ReadyIndices
    <3>4. Quiet(g)
      BY <2>3, <2>6, <3>1, <3>2, <3>3 DEF Quiet, PermitAvailable
    <3>5. AnswerGood(s, Answer(g, "AwaitEvent"))
      BY <3>1, <3>4, AnswerIs DEF Suspended
    <3>6. AnswerGood(h, Answer(g, "AwaitEvent"))
      BY <2>1, <3>5, AnswerAfter
    <3> QED
      BY <2>4, <2>6, <3>6, Zenon
  <2> QED
    BY <2>5, <2>6
<1> QED
  BY <1>1, <1>2

LEMMA PollNoWaitGood ==
  ASSUME NEW h, Good(h), NEW progressed \in BOOLEAN, progressed => Len(h.pending) > 0
  PROVE  AnswerGood(h, PollNoWait(h, progressed))
<1> DEFINE s == PollPendingOnce(h)
<1>1. CASE FirstReady(h) # 0
  BY <1>1, ScanAndTake, Zenon DEF PollNoWait
<1>2. CASE FirstReady(h) = 0
  <2>1. Good(s) /\ SameCalls(h, s) /\ Within(h, s) /\ Len(s.pending) = Len(h.pending)
    BY ScanGood, ScanWithin, ScanIs
  <2>2. PollNoWait(h, progressed) = Answer(s, IF progressed THEN "Progress" ELSE "Idle")
    BY <1>2, Zenon DEF PollNoWait
  <2> HIDE DEF s
  <2>3. CASE progressed
    <3>1. AnswerGood(h, Answer(s, "Progress"))
      BY <2>1, <2>3, AnswerIs DEF Suspended
    <3> QED
      BY <2>2, <2>3, <3>1, Zenon
  <2>4. CASE ~progressed
    <3>1. AnswerGood(h, Answer(s, "Idle"))
      BY <2>1, AnswerIs DEF Suspended
    <3> QED
      BY <2>2, <2>4, <3>1, Zenon
  <2> QED
    BY <2>3, <2>4
<1> QED
  BY <1>1, <1>2

LEMMA AdmitAny ==
  ASSUME NEW h, Good(h)
  PROVE  LET g == AdmitDeferred(h)
         IN  /\ Good(g) /\ SameCalls(h, g) /\ Within(h, g) /\ Len(g.pending) >= Len(h.pending)
             /\ HasQueuedNativeWork(h) => HasQueuedNativeWork(g) \/ Len(g.pending) > 0
<1> DEFINE g == AdmitDeferred(h)
<1>0. Len(h.pending) \in Nat
  BY GoodTypes
<1>1. CASE PermitAvailable(h)
  <2>1. Good(g) /\ SameCalls(h, g) /\ Within(h, g) /\ Len(g.pending) = Len(h.pending) + 1
    BY <1>1, AdmitGood
  <2> HIDE DEF g
  <2>2. Len(g.pending) >= Len(h.pending) /\ Len(g.pending) > 0
    BY <1>0, <2>1
  <2> QED
    BY <2>1, <2>2, Zenon DEF g
<1>2. CASE ~PermitAvailable(h)
  <2>1. /\ Good(g) /\ SameCalls(h, g) /\ Within(h, g) /\ g.pending = h.pending
        /\ g.immediate = h.immediate /\ g.deferred = h.deferred
    BY <1>2, AdmitInVain
  <2> HIDE DEF g
  <2>2. Len(g.pending) >= Len(h.pending)
    BY <1>0, <2>1
  <2> QED
    BY <2>1, <2>2, Zenon DEF g, HasQueuedNativeWork
<1> QED
  BY <1>1, <1>2

LEMMA NoElements ==
  ASSUME NEW S, NEW q \in Seq(S) PROVE q = <<>> <=> Len(q) = 0
  OBVIOUS

LEMMA PollGood ==
  ASSUME NEW h, Good(h), NEW wait \in BOOLEAN
  PROVE  LET a == PollPendingNative(h, wait)
         IN  /\ AnswerGood(h, a)
             /\ wait /\ a.poll = "Idle" => ~HasPendingNativeWork(h) /\ ~HasQueuedNativeWork(h)
<1> DEFINE s == ActivateImmediate(h)
           d == AdmitDeferred(s)
           progressed == Len(d.pending) > Len(h.pending)
           a == PollPendingNative(h, wait)
<1>1. /\ Good(s) /\ SameCalls(h, s) /\ s.active = h.active /\ s.capacity = h.capacity
      /\ Len(s.pending) >= Len(h.pending) /\ (h.immediate # <<>> => Len(s.pending) > Len(h.pending))
      /\ s.deferred = h.deferred
  BY ActivateGood
<1> HIDE DEF s
<1>2. /\ Good(d) /\ SameCalls(s, d) /\ Within(s, d) /\ Len(d.pending) >= Len(s.pending)
      /\ HasQueuedNativeWork(s) => HasQueuedNativeWork(d) \/ Len(d.pending) > 0
  BY <1>1, AdmitAny
<1> HIDE DEF d
<1>3. /\ h.active \in Nat /\ Len(h.pending) \in Nat /\ Len(s.pending) \in Nat /\ Len(d.pending) \in Nat
  BY <1>1, <1>2, GoodTypes
<1>4. SameCalls(h, d)
  BY <1>1, <1>2, Zenon DEF SameCalls
<1>5. Within(h, d)
  <2>1. Within(h, s)
    BY <1>1, <1>3 DEF Within
  <2> QED
    BY <1>1, <1>2, <2>1, WithinTrans
<1>6. HasPendingNativeWork(d) <=> Len(d.pending) > 0
  <2>1. d.pending \in Seq(PendingCall)
    BY <1>2, GoodTypes
  <2> QED
    BY <1>3, <2>1, NoElements DEF HasPendingNativeWork
<1>7. HasPendingNativeWork(h) <=> Len(h.pending) > 0
  <2>1. h.pending \in Seq(PendingCall)
    BY GoodTypes
  <2> QED
    BY <1>3, <2>1, NoElements DEF HasPendingNativeWork
<1>8. HasPendingNativeWork(h) \/ HasQueuedNativeWork(h) => HasPendingNativeWork(d) \/ HasQueuedNativeWork(d)
  <2>1. CASE HasPendingNativeWork(h)
    BY <1>1, <1>2, <1>3, <1>6, <1>7, <2>1
  <2>2. CASE h.immediate # <<>>
    BY <1>1, <1>2, <1>3, <1>6, <2>2
  <2>3. CASE h.deferred # <<>>
    BY <1>1, <1>2, <1>6, <2>3, Zenon DEF HasQueuedNativeWork
  <2> QED
    BY <2>1, <2>2, <2>3, Zenon DEF HasQueuedNativeWork
<1>9. progressed \in BOOLEAN /\ (progressed => Len(d.pending) > 0)
  BY <1>3
<1>10. a = IF ~HasPendingNativeWork(h) /\ ~HasQueuedNativeWork(h) THEN Answer(h, "Idle")
           ELSE IF HasPendingNativeWork(d)
                THEN IF wait THEN PollForEvent(d) ELSE PollNoWait(d, progressed)
           ELSE IF wait /\ HasQueuedNativeWork(d) THEN PollForPermit(d)
           ELSE Answer(d, IF progressed THEN "Progress" ELSE "Idle")
  BY Zenon DEF PollPendingNative, s, d
<1> HIDE DEF progressed, a
<1>11. CASE ~HasPendingNativeWork(h) /\ ~HasQueuedNativeWork(h)
  <2>1. a = Answer(h, "Idle")
    BY <1>10, <1>11, Zenon
  <2>2. SameCalls(h, h) /\ Within(h, h)
    BY <1>3 DEF SameCalls, Within
  <2>3. AnswerGood(h, Answer(h, "Idle"))
    BY <2>2, AnswerIs DEF Suspended
  <2> QED
    BY <1>11, <2>1, <2>3, Zenon DEF a
<1>12. CASE (HasPendingNativeWork(h) \/ HasQueuedNativeWork(h)) /\ HasPendingNativeWork(d)
  <2>1. a = IF wait THEN PollForEvent(d) ELSE PollNoWait(d, progressed)
    BY <1>10, <1>12, Zenon
  <2>2. CASE wait
    <3>1. AnswerGood(h, a)
      BY <1>2, <1>4, <1>5, <2>1, <2>2, PollForEventGood, AnswerAfter
    <3>2. a.poll # "Idle"
      BY <2>1, <2>2 DEF PollForEvent, TakeReady, Answer
    <3> QED
      BY <3>1, <3>2, Zenon DEF a
  <2>3. CASE ~wait
    <3>1. AnswerGood(d, PollNoWait(d, progressed))
      BY <1>2, <1>9, PollNoWaitGood
    <3>2. AnswerGood(h, a)
      BY <1>2, <1>4, <1>5, <2>1, <2>3, <3>1, AnswerAfter
    <3> QED
      BY <2>3, <3>2, Zenon DEF a
  <2> QED
    BY <2>2, <2>3
<1>13. CASE (HasPendingNativeWork(h) \/ HasQueuedNativeWork(h)) /\ ~HasPendingNativeWork(d)
  <2>1. Len(d.pending) = 0 /\ ~progressed /\ HasQueuedNativeWork(d)
    BY <1>3, <1>6, <1>8, <1>9, <1>13
  <2>2. CASE wait
    <3>1. a = PollForPermit(d)
      BY <1>10, <1>13, <2>1, <2>2, Zenon
    <3>2. AnswerGood(h, a)
      BY <1>2, <1>4, <1>5, <2>1, <3>1, PollForPermitGood, AnswerAfter
    <3>3. a.poll # "Idle"
      BY <3>1 DEF PollForPermit, Answer
    <3> QED
      BY <3>2, <3>3, Zenon DEF a
  <2>3. CASE ~wait
    <3>1. a = Answer(d, "Idle")
      BY <1>10, <1>13, <2>1, <2>3, Zenon
    <3>2. AnswerGood(h, Answer(d, "Idle"))
      BY <1>2, <1>4, <1>5, AnswerIs DEF Suspended
    <3> QED
      BY <2>3, <3>1, <3>2, Zenon DEF a
  <2> QED
    BY <2>2, <2>3
<1> QED
  BY <1>11, <1>12, <1>13, Zenon

-----------------------------------------------------------------------------
(* The inductive invariant of the task and its scheduler.                   *)

ControlType ==
    /\ task \in {"loop", "cycle"} \cup Suspended \cup Ended
    /\ boundary \in {"MoreInternalWork", "HostWork", "WaitingForHost", "none"}
    /\ internal \in 0..MaxInternal
    /\ completed \in {NoFrame} \cup 1..MaxCalls
    /\ calls \in 0..MaxCalls /\ delivered \subseteq 1..MaxCalls
    /\ changes \in 0..MaxChanges

\* Each call made so far is with the scheduler or was delivered, not both.
AccountedIn(h, D, n) ==
    /\ HostFrames(h) \cup D = 1..n
    /\ HostFrames(h) \cap D = {}
    /\ Size(h) + Cardinality(D) = n

Accounted == AccountedIn(host, delivered, calls)

\* The boundary is still right when the next poll acts on it.
BoundaryRight ==
    /\ boundary # "none"
    /\ boundary = "MoreInternalWork" => internal > 0
    /\ WaitForHost => HasQueuedNativeWork(host) \/ HasPendingNativeWork(host)

IInv ==
    /\ Good(host) /\ ControlType
    /\ task # "internal_error"
    /\ task \notin Ended => Accounted
    /\ task \in Ended => host.pending = <<>>
    /\ task = "loop" => BoundaryRight
    /\ task = "cycle" => internal > 0 \/ completed # NoFrame
    /\ task = "AwaitPermit" => host.pending = <<>>
    /\ task \in Suspended /\ ~host.woken => Quiet(host)

-----------------------------------------------------------------------------
(* The steps that change the record without a poll.                         *)

LEMMA OneMoreFirst == ASSUME NEW a \in Nat, NEW b \in Nat, NEW c \in Nat PROVE (a + 1) + b + c = a + b + c + 1
  OBVIOUS

LEMMA OneMoreSecond == ASSUME NEW a \in Nat, NEW b \in Nat, NEW c \in Nat PROVE a + (b + 1) + c = a + b + c + 1
  OBVIOUS

\* A call that is younger than all others joins either queue.
LEMMA ScheduleGood ==
  ASSUME NEW h, Good(h), NEW kind, NEW call \in QueuedCall, \A f \in HostFrames(h) : f < call.frame
  PROVE  LET g == ScheduleNative(h, kind, call)
         IN  /\ Good(g) /\ HostFrames(g) = HostFrames(h) \cup {call.frame} /\ Size(g) = Size(h) + 1
             /\ g.pending = h.pending /\ g.active = h.active /\ g.capacity = h.capacity
             /\ HasQueuedNativeWork(g)
<1> DEFINE g == ScheduleNative(h, kind, call)
           q == Append(h.immediate, call)
           r == Append(h.deferred, call)
           gi == [h EXCEPT !.immediate = q]
           gd == [h EXCEPT !.deferred = r]
<1>1. /\ h \in HostType /\ h.immediate \in Seq(QueuedCall) /\ h.deferred \in Seq(QueuedCall)
      /\ Len(h.pending) \in Nat /\ Len(h.immediate) \in Nat /\ Len(h.deferred) \in Nat
  BY GoodTypes
<1>2. /\ q \in Seq(QueuedCall) /\ Len(q) = Len(h.immediate) + 1 /\ Frames(q) = Frames(h.immediate) \cup {call.frame}
      /\ r \in Seq(QueuedCall) /\ Len(r) = Len(h.deferred) + 1 /\ Frames(r) = Frames(h.deferred) \cup {call.frame}
  BY <1>1, FramesAppend
<1>3. q # <<>> /\ r # <<>>
  <2>1. Len(q) # 0 /\ Len(r) # 0
    BY <1>1, <1>2
  <2>2. \A s : Len(s) # 0 => s # <<>>
    OBVIOUS
  <2> HIDE DEF q, r
  <2> QED
    BY <2>1, <2>2, Zenon
<1>4. /\ \A f \in Frames(h.immediate) : f < call.frame
      /\ \A f \in Frames(h.deferred) : f < call.frame
      /\ \A f \in Frames(h.pending) : f < call.frame
  BY DEF HostFrames
<1>5. Ordered(h.immediate) /\ Ordered(h.deferred)
  BY DEF Good
<1>6. Ordered(q) /\ Ordered(r)
  BY <1>1, <1>4, <1>5, OrderedAppend
<1>7. call.frame \in Int
  BY HostBounds DEF QueuedCall
<1>8. call.frame \notin Frames(h.immediate) /\ call.frame \notin Frames(h.deferred) /\ call.frame \notin Frames(h.pending)
  BY <1>4, <1>7
<1> HIDE DEF q, r
<1>9. CASE kind = "immediate"
  <2>1. g = gi
    BY <1>9, Zenon DEF ScheduleNative, q
  <2>2. /\ gi \in HostType /\ gi.immediate = q /\ gi.deferred = h.deferred /\ gi.pending = h.pending
        /\ gi.active = h.active /\ gi.capacity = h.capacity
    BY <1>1, <1>2 DEF HostType
  <2> HIDE DEF g, gi
  <2>3. Good(gi)
    BY <1>2, <1>6, <1>8, <2>2 DEF Good
  <2>4. HostFrames(gi) = HostFrames(h) \cup {call.frame}
    BY <1>2, <2>2, Zenon DEF HostFrames
  <2>5. Size(gi) = Size(h) + 1
    <3>1. Size(gi) = (Len(h.immediate) + 1) + Len(h.deferred) + Len(h.pending)
      BY <1>2, <2>2, Zenon DEF Size
    <3> QED
      BY <1>1, <3>1, OneMoreFirst, Zenon DEF Size
  <2>6. HasQueuedNativeWork(gi)
    BY <1>3, <2>2, Zenon DEF HasQueuedNativeWork
  <2> QED
    BY <2>1, <2>2, <2>3, <2>4, <2>5, <2>6, Zenon DEF g
<1>10. CASE kind # "immediate"
  <2>1. g = gd
    BY <1>10, Zenon DEF ScheduleNative, r
  <2>2. /\ gd \in HostType /\ gd.deferred = r /\ gd.immediate = h.immediate /\ gd.pending = h.pending
        /\ gd.active = h.active /\ gd.capacity = h.capacity
    BY <1>1, <1>2 DEF HostType
  <2> HIDE DEF g, gd
  <2>3. Good(gd)
    BY <1>2, <1>6, <1>8, <2>2 DEF Good
  <2>4. HostFrames(gd) = HostFrames(h) \cup {call.frame}
    BY <1>2, <2>2, Zenon DEF HostFrames
  <2>5. Size(gd) = Size(h) + 1
    <3>1. Size(gd) = Len(h.immediate) + (Len(h.deferred) + 1) + Len(h.pending)
      BY <1>2, <2>2, Zenon DEF Size
    <3> QED
      BY <1>1, <3>1, OneMoreSecond, Zenon DEF Size
  <2>6. HasQueuedNativeWork(gd)
    BY <1>3, <2>2, Zenon DEF HasQueuedNativeWork
  <2> QED
    BY <2>1, <2>2, <2>3, <2>4, <2>5, <2>6, Zenon DEF g
<1> QED
  BY <1>9, <1>10

\* What is not about wakers, capacity or the progress of futures keeps Good.
LEMMA SameGood ==
  ASSUME NEW h, Good(h), NEW g \in HostType, g.active = h.active,
         g.immediate = h.immediate, g.deferred = h.deferred, Len(g.pending) = Len(h.pending),
         \A i \in 1..Len(h.pending) : /\ g.pending[i].frame = h.pending[i].frame
                                      /\ g.pending[i].permit = h.pending[i].permit
  PROVE  Good(g) /\ SameCalls(h, g)
<1>1. Frames(g.pending) = Frames(h.pending)
  BY DEF Frames
<1>2. Holders(g.pending) = Holders(h.pending)
  BY DEF Holders
<1>3. Distinct(g.pending)
  BY DEF Distinct, Good
<1>4. Good(g)
  BY <1>1, <1>2, <1>3 DEF Good
<1>5. SameCalls(h, g)
  BY <1>1, Zenon DEF SameCalls, HostFrames, Size
<1> QED
  BY <1>4, <1>5

\* The task is polled again: the wakeup is used up.
LEMMA ResumeGood ==
  ASSUME NEW h, Good(h)
  PROVE  LET g == [h EXCEPT !.woken = FALSE]
         IN  Good(g) /\ SameCalls(h, g) /\ Within(h, g) /\ g.pending = h.pending
<1> DEFINE g == [h EXCEPT !.woken = FALSE]
<1>1. h \in HostType /\ h.active \in Nat
  BY GoodTypes
<1>2. /\ g \in HostType /\ g.active = h.active /\ g.capacity = h.capacity /\ g.pending = h.pending
      /\ g.immediate = h.immediate /\ g.deferred = h.deferred
  BY <1>1 DEF HostType
<1> HIDE DEF g
<1>3. Good(g) /\ SameCalls(h, g)
  BY <1>2, SameGood
<1>4. Within(h, g)
  BY <1>1, <1>2 DEF Within
<1> QED
  BY <1>2, <1>3, <1>4 DEF g

\* A future's answer wakes the task if the future was polled.
LEMMA CompleteGood ==
  ASSUME NEW h, Good(h), NEW i \in 1..Len(h.pending), NEW state \in {"ok", "err"}
  PROVE  LET g == [h EXCEPT !.pending[i].state = state, !.woken = @ \/ h.pending[i].polled]
         IN  /\ Good(g) /\ SameCalls(h, g) /\ g.active = h.active /\ g.capacity = h.capacity
             /\ Len(g.pending) = Len(h.pending)
             /\ g.immediate = h.immediate /\ g.deferred = h.deferred
             /\ ~g.woken => ~h.woken /\ ~h.pending[i].polled
<1> DEFINE p == h.pending
           x == [p[i] EXCEPT !.state = state]
           r == [p EXCEPT ![i] = x]
           w == h.woken \/ p[i].polled
           g == [h EXCEPT !.pending = r, !.woken = w]
           k == [h EXCEPT !.pending[i].state = state, !.woken = @ \/ h.pending[i].polled]
<1>1. h \in HostType /\ p \in Seq(PendingCall) /\ Len(p) \in Nat /\ i \in 1..Len(p)
  BY GoodTypes
<1>2. k = g
  BY Zenon
<1>3. p[i] \in PendingCall
  BY <1>1, ElementOf
<1>4. x \in PendingCall /\ x.frame = p[i].frame /\ x.permit = p[i].permit
  BY <1>3 DEF PendingCall
<1> HIDE DEF p, x
<1>5. /\ r \in Seq(PendingCall) /\ Len(r) = Len(p)
      /\ \A j \in 1..Len(p) : r[j].frame = p[j].frame /\ r[j].permit = p[j].permit
  <2>1. r \in Seq(PendingCall) /\ Len(r) = Len(p)
    BY <1>1, <1>4
  <2>2. \A j \in 1..Len(p) : r[j] = IF j = i THEN x ELSE p[j]
    BY <1>1
  <2> QED
    BY <1>4, <2>1, <2>2, Zenon
<1>6. w \in BOOLEAN /\ (~w => ~h.woken /\ ~p[i].polled)
  BY Zenon
<1> HIDE DEF r, w
<1>7. /\ g \in HostType /\ g.pending = r /\ g.woken = w /\ g.active = h.active /\ g.capacity = h.capacity
      /\ g.immediate = h.immediate /\ g.deferred = h.deferred
  BY <1>1, <1>5, <1>6 DEF HostType
<1> HIDE DEF g, k
<1>8. /\ Len(g.pending) = Len(h.pending)
      /\ \A j \in 1..Len(h.pending) : /\ g.pending[j].frame = h.pending[j].frame
                                      /\ g.pending[j].permit = h.pending[j].permit
  BY <1>5, <1>7, Zenon DEF p
<1>9. Good(g) /\ SameCalls(h, g)
  BY <1>7, <1>8, SameGood
<1> QED
  BY <1>2, <1>6, <1>7, <1>8, <1>9, Zenon DEF k, p

\* A change of the capacity wakes the task whose waker the controller holds.
LEMMA CapacityGood ==
  ASSUME NEW h, Good(h), NEW c \in Capacities
  PROVE  LET g == [h EXCEPT !.capacity = c, !.woken = @ \/ h.waker, !.waker = FALSE]
         IN  /\ Good(g) /\ SameCalls(h, g) /\ g.active = h.active
             /\ g.pending = h.pending /\ g.immediate = h.immediate /\ g.deferred = h.deferred
             /\ ~g.woken => ~h.woken /\ ~h.waker
<1> DEFINE w == h.woken \/ h.waker
           g == [h EXCEPT !.capacity = c, !.woken = w, !.waker = FALSE]
           k == [h EXCEPT !.capacity = c, !.woken = @ \/ h.waker, !.waker = FALSE]
<1>1. h \in HostType
  BY GoodTypes
<1>2. k = g
  BY Zenon
<1>3. w \in BOOLEAN /\ (~w => ~h.woken /\ ~h.waker)
  BY Zenon
<1> HIDE DEF w
<1>4. /\ g \in HostType /\ g.pending = h.pending /\ g.woken = w /\ g.active = h.active
      /\ g.immediate = h.immediate /\ g.deferred = h.deferred
  BY <1>1, <1>3 DEF HostType
<1> HIDE DEF g, k
<1>5. Good(g) /\ SameCalls(h, g)
  BY <1>4, SameGood
<1> QED
  BY <1>2, <1>3, <1>4, <1>5, Zenon DEF k

\* A fresh scheduler.
LEMMA NewGood ==
  ASSUME NEW c \in Capacities
  PROVE  LET g == NewHost(c) IN Good(g) /\ HostFrames(g) = {} /\ Size(g) = 0
<1> DEFINE g == NewHost(c)
<1>1. /\ g \in HostType /\ g.pending = <<>> /\ g.immediate = <<>> /\ g.deferred = <<>> /\ g.active = 0
  BY DEF NewHost, HostType
<1> HIDE DEF g
<1>2. /\ Frames(<<>>) = {} /\ Holders(<<>>) = {} /\ Ordered(<<>>) /\ Distinct(<<>>)
  BY DEF Frames, Holders, Ordered, Distinct
<1>3. Cardinality({}) = 0
  BY FS_EmptySet
<1>4. Good(g)
  BY <1>1, <1>2, <1>3 DEF Good
<1>5. HostFrames(g) = {}
  BY <1>1, <1>2 DEF HostFrames
<1>6. Size(g) = 0
  BY <1>1 DEF Size
<1> QED
  BY <1>4, <1>5, <1>6 DEF g

-----------------------------------------------------------------------------
(* The steps of the task.                                                   *)

LEMMA FromStateIs ==
  ASSUME NEW items \in Nat, NEW h
  PROVE  LET b == FromState(items, h)
         IN  /\ b \in {"MoreInternalWork", "HostWork", "WaitingForHost", "none"}
             /\ b = "MoreInternalWork" => items > 0
             /\ b \in {"HostWork", "WaitingForHost"} => HasQueuedNativeWork(h) \/ HasPendingNativeWork(h)
             /\ b = "none" <=> items = 0 /\ ~HasQueuedNativeWork(h) /\ ~HasPendingNativeWork(h)
<1>1. CASE items > 0
  BY <1>1 DEF FromState
<1>2. CASE ~(items > 0) /\ HasQueuedNativeWork(h)
  BY <1>2 DEF FromState
<1>3. CASE ~(items > 0) /\ ~HasQueuedNativeWork(h) /\ HasPendingNativeWork(h)
  BY <1>3 DEF FromState
<1>4. CASE ~(items > 0) /\ ~HasQueuedNativeWork(h) /\ ~HasPendingNativeWork(h)
  BY <1>4 DEF FromState
<1> QED
  BY <1>1, <1>2, <1>3, <1>4

LEMMA SumInNat == ASSUME NEW a \in Nat, NEW b \in Nat, NEW c \in Nat PROVE a + b + c \in Nat
  OBVIOUS

LEMMA SizeInNat == ASSUME NEW h, Good(h) PROVE Size(h) \in Nat
<1>1. Len(h.pending) \in Nat /\ Len(h.immediate) \in Nat /\ Len(h.deferred) \in Nat
  BY GoodTypes
<1> QED
  BY <1>1, SumInNat, Zenon DEF Size

\* A call that leaves the scheduler and is delivered is still accounted for.
LEMMA TakenAccounted ==
  ASSUME NEW h, NEW g, Good(g), NEW f, NEW D \in SUBSET (1..MaxCalls), NEW n,
         AccountedIn(h, D, n), Taken(h, g, f)
  PROVE  AccountedIn(g, D \cup {f}, n)
<1>1. IsFiniteSet(D)
  <2>1. IsFiniteSet(1..MaxCalls)
    BY HostBounds, FS_Interval
  <2> QED
    BY <2>1, FS_Subset
<1>2. f \notin D
  BY DEF AccountedIn, Taken
<1>3. Cardinality(D \cup {f}) = Cardinality(D) + 1 /\ Cardinality(D) \in Nat
  BY <1>1, <1>2, FS_AddElement, FS_CardinalityType
<1>4. Size(g) \in Nat
  BY SizeInNat
<1>5. Size(g) + Cardinality(D \cup {f}) = n
  BY <1>3, <1>4 DEF AccountedIn, Taken
<1> QED
  BY <1>5 DEF AccountedIn, Taken

\* What the loop does with an answer keeps the invariant and takes permits
\* only within the capacity.
LEMMA HandleKeeps ==
  ASSUME IInv, task \notin Ended, NEW answer, AnswerGood(host, answer), Handle(answer),
         answer.poll = "Idle" => ~WaitForHost /\ internal > 0
  PROVE  IInv' /\ Within(host, host')
<1> DEFINE g == answer.host
<1>1. Good(host) /\ ControlType /\ Accounted
  BY DEF IInv
<1>2. Good(g) /\ Within(host, g)
  BY DEF AnswerGood
<1>3. internal' = internal /\ calls' = calls /\ changes' = changes
  BY DEF Handle
<1>4. internal \in Nat /\ calls \in Nat
  BY <1>1, HostBounds DEF ControlType
<1> HIDE DEF g
<1>5. CASE answer.poll \in Suspended
  <2>1. /\ host' = g /\ task' = answer.poll
        /\ boundary' = boundary /\ completed' = completed /\ delivered' = delivered
    BY <1>5 DEF Handle, Suspended, g
  <2>2. task' \in Suspended /\ task' \notin Ended /\ task' # "internal_error" /\ task' # "loop" /\ task' # "cycle"
    BY <1>5, <2>1 DEF Suspended, Ended
  <2>3. SameCalls(host, g) /\ Quiet(g) /\ (answer.poll = "AwaitPermit" => Len(g.pending) = 0)
    BY <1>5 DEF AnswerGood, Suspended, g
  <2>4. ControlType'
    BY <1>1, <1>3, <2>1, <2>2 DEF ControlType
  <2>5. Accounted'
    BY <1>1, <1>3, <2>1, <2>3 DEF Accounted, AccountedIn, SameCalls
  <2>6. task' = "AwaitPermit" => host'.pending = <<>>
    BY <1>2, <2>1, <2>3, GoodTypes, NoElements
  <2>7. Good(host') /\ Quiet(host')
    BY <1>2, <2>1, <2>3
  <2>8. IInv'
    BY <2>2, <2>4, <2>5, <2>6, <2>7, Zenon DEF IInv
  <2> QED
    BY <1>2, <2>1, <2>8
<1>6. CASE answer.poll = "Progress"
  <2>1. /\ host' = g /\ boundary' = FromState(internal, g)
        /\ task' = IF boundary' = "none" THEN "internal_error" ELSE "loop"
        /\ completed' = completed /\ delivered' = delivered
    BY <1>6 DEF Handle, Suspended, g
  <2>2. SameCalls(host, g) /\ Len(g.pending) > 0
    BY <1>6 DEF AnswerGood, g
  <2>3. HasPendingNativeWork(g)
    BY <1>2, <2>2, GoodTypes, NoElements DEF HasPendingNativeWork
  <2>4. /\ boundary' \in {"MoreInternalWork", "HostWork", "WaitingForHost", "none"}
        /\ boundary' # "none" /\ (boundary' = "MoreInternalWork" => internal > 0)
        /\ boundary' \in {"HostWork", "WaitingForHost"} => HasQueuedNativeWork(g) \/ HasPendingNativeWork(g)
    BY <1>4, <2>1, <2>3, FromStateIs
  <2>5. task' = "loop"
    BY <2>1, <2>4, Zenon
  <2>6. task' \notin Ended /\ task' # "internal_error" /\ task' # "cycle" /\ task' # "AwaitPermit" /\ task' \notin Suspended
    BY <2>5 DEF Ended, Suspended
  <2>7. ControlType'
    BY <1>1, <1>3, <2>1, <2>4, <2>5 DEF ControlType
  <2>8. Accounted'
    BY <1>1, <1>3, <2>1, <2>2 DEF Accounted, AccountedIn, SameCalls
  <2>9. BoundaryRight'
    BY <1>3, <2>1, <2>4, Zenon DEF BoundaryRight, WaitForHost
  <2>10. Good(host')
    BY <1>2, <2>1
  <2>11. IInv'
    BY <2>6, <2>7, <2>8, <2>9, <2>10, Zenon DEF IInv
  <2> QED
    BY <1>2, <2>1, <2>11
<1>7. CASE answer.poll = "Idle"
  <2>1. /\ host' = g /\ completed' = answer.frame /\ boundary' = boundary
        /\ delivered' = delivered /\ task' = "cycle"
    BY <1>7 DEF Handle, Suspended, g
  <2>2. SameCalls(host, g) /\ answer.frame = NoFrame
    BY <1>7 DEF AnswerGood, g
  <2>3. task' \notin Ended /\ task' # "internal_error" /\ task' # "loop" /\ task' # "AwaitPermit" /\ task' \notin Suspended
    BY <2>1 DEF Ended, Suspended
  <2>4. ControlType'
    BY <1>1, <1>3, <2>1, <2>2 DEF ControlType
  <2>5. Accounted'
    BY <1>1, <1>3, <2>1, <2>2 DEF Accounted, AccountedIn, SameCalls
  <2>6. Good(host') /\ internal' > 0
    BY <1>2, <1>3, <1>7, <2>1
  <2>7. IInv'
    BY <2>3, <2>4, <2>5, <2>6, Zenon DEF IInv
  <2> QED
    BY <1>2, <2>1, <2>7
<1>8. CASE answer.poll = "Completed"
  <2>1. /\ host' = g /\ completed' = answer.frame /\ boundary' = boundary
        /\ delivered' = delivered \cup {answer.frame} /\ task' = "cycle"
    BY <1>8 DEF Handle, Suspended, g
  <2>2. Taken(host, g, answer.frame)
    BY <1>8 DEF AnswerGood, g
  <2>3. answer.frame \in 1..MaxCalls /\ answer.frame # NoFrame
    BY <2>2 DEF Taken, NoFrame
  <2>4. task' \notin Ended /\ task' # "internal_error" /\ task' # "loop" /\ task' # "AwaitPermit" /\ task' \notin Suspended
    BY <2>1 DEF Ended, Suspended
  <2>5. ControlType'
    BY <1>1, <1>3, <2>1, <2>3 DEF ControlType
  <2>6. Accounted'
    <3>1. delivered \in SUBSET (1..MaxCalls)
      BY <1>1 DEF ControlType
    <3>2. AccountedIn(g, delivered \cup {answer.frame}, calls)
      BY <1>1, <1>2, <2>2, <3>1, TakenAccounted DEF Accounted
    <3> QED
      BY <1>3, <2>1, <3>2 DEF Accounted
  <2>7. Good(host') /\ completed' # NoFrame
    BY <1>2, <2>1, <2>3
  <2>8. IInv'
    BY <2>4, <2>5, <2>6, <2>7, Zenon DEF IInv
  <2> QED
    BY <1>2, <2>1, <2>8
<1>9. CASE answer.poll = "Failed"
  <2>1. /\ host' = DropHost(g) /\ task' = "failed"
        /\ boundary' = boundary /\ completed' = completed /\ delivered' = delivered
    BY <1>9 DEF Handle, Suspended, g
  <2>2. Good(host') /\ host'.pending = <<>> /\ host'.active = 0 /\ host'.capacity = g.capacity
    BY <1>2, <2>1, DropGood
  <2>3. task' \in Ended /\ task' # "internal_error" /\ task' # "loop" /\ task' # "cycle" /\ task' \notin Suspended /\ task' # "AwaitPermit"
    BY <2>1 DEF Ended, Suspended
  <2>4. ControlType'
    BY <1>1, <1>3, <2>1, <2>3 DEF ControlType
  <2>5. IInv'
    BY <2>2, <2>3, <2>4, Zenon DEF IInv
  <2>6. host.active \in Nat
    BY <1>1, GoodTypes
  <2>7. Within(host, host')
    BY <1>2, <2>2, <2>6 DEF Within
  <2> QED
    BY <2>5, <2>7
<1> QED
  BY <1>5, <1>6, <1>7, <1>8, <1>9 DEF AnswerGood

\* A permit is taken only below the capacity of that moment.
AdmitsWithin == host'.active > host.active => host'.active <= host.capacity

LEMMA InitOK == ASSUME Init PROVE IInv
<1>1. PICK c \in Capacities : host = NewHost(c)
  BY DEF Init
<1>2. Good(host) /\ HostFrames(host) = {} /\ Size(host) = 0
  BY <1>1, NewGood
<1>3. /\ task = "loop" /\ boundary = "MoreInternalWork" /\ internal = 1 /\ completed = NoFrame
      /\ calls = 0 /\ delivered = {} /\ changes = 0
  BY DEF Init
<1>4. ControlType
  BY <1>3, HostBounds DEF ControlType
<1>5. Accounted
  <2>1. 1..0 = {} /\ Cardinality({}) = 0
    BY FS_EmptySet
  <2> QED
    BY <1>2, <1>3, <2>1 DEF Accounted, AccountedIn
<1>6. BoundaryRight
  BY <1>3 DEF BoundaryRight, WaitForHost
<1>7. task \notin Ended /\ task \notin Suspended /\ task # "cycle" /\ task # "internal_error" /\ task # "AwaitPermit"
  BY <1>3 DEF Ended, Suspended
<1> QED
  BY <1>2, <1>4, <1>5, <1>6, <1>7, Zenon DEF IInv

LEMMA PollKeeps == ASSUME IInv, Poll PROVE IInv' /\ AdmitsWithin
<1> DEFINE a == PollPendingNative(host, WaitForHost)
<1>1. Good(host) /\ BoundaryRight /\ ControlType
  BY DEF IInv, Poll
<1>2. WaitForHost \in BOOLEAN
  BY DEF WaitForHost
<1>3. /\ AnswerGood(host, a)
      /\ WaitForHost /\ a.poll = "Idle" => ~HasPendingNativeWork(host) /\ ~HasQueuedNativeWork(host)
  BY <1>1, <1>2, PollGood
<1>4. Handle(a) /\ task \notin Ended
  BY DEF Poll, Ended
<1> HIDE DEF a
<1>5. a.poll = "Idle" => ~WaitForHost /\ internal > 0
  BY <1>1, <1>3 DEF BoundaryRight, WaitForHost, ControlType
<1>6. IInv' /\ Within(host, host')
  BY <1>3, <1>4, <1>5, HandleKeeps
<1> QED
  BY <1>6 DEF Within, AdmitsWithin

LEMMA ResumeKeeps == ASSUME IInv, Resume PROVE IInv' /\ AdmitsWithin
<1> DEFINE h == [host EXCEPT !.woken = FALSE]
           a == IF task = "AwaitPermit" THEN PollForPermit(h) ELSE PollForEvent(h)
<1>1. Good(host)
  BY DEF IInv
<1>2. Good(h) /\ SameCalls(host, h) /\ Within(host, h) /\ h.pending = host.pending
  BY <1>1, ResumeGood
<1>3. Handle(a) /\ task \notin Ended
  BY DEF Resume, Suspended, Ended
<1> HIDE DEF h
<1>4. AnswerGood(h, a) /\ a.poll # "Idle"
  <2>1. CASE task = "AwaitPermit"
    <3>1. Len(h.pending) = 0
      BY <1>2, <2>1, GoodTypes, NoElements DEF IInv
    <3>2. AnswerGood(h, PollForPermit(h))
      BY <1>2, <3>1, PollForPermitGood
    <3>3. PollForPermit(h).poll # "Idle"
      BY DEF PollForPermit, Answer
    <3> QED
      BY <2>1, <3>2, <3>3, Zenon
  <2>2. CASE task # "AwaitPermit"
    <3>1. AnswerGood(h, PollForEvent(h))
      BY <1>2, PollForEventGood
    <3>2. PollForEvent(h).poll # "Idle"
      BY DEF PollForEvent, TakeReady, Answer
    <3> QED
      BY <2>2, <3>1, <3>2, Zenon
  <2> QED
    BY <2>1, <2>2
<1> HIDE DEF a
<1>5. AnswerGood(host, a)
  BY <1>1, <1>2, <1>4, AnswerAfter
<1>6. IInv' /\ Within(host, host')
  BY <1>3, <1>4, <1>5, HandleKeeps
<1> QED
  BY <1>6 DEF Within, AdmitsWithin

\* The evaluation ends early, in a cycle, with the controller or by the caller.
LEMMA DropKeeps ==
  ASSUME IInv, task' \in {"failed", "cancelled"}, host' = DropHost(host),
         UNCHANGED <<boundary, internal, completed, calls, delivered, changes>>
  PROVE  IInv' /\ AdmitsWithin
<1>1. Good(host) /\ ControlType
  BY DEF IInv
<1>2. Good(host') /\ host'.pending = <<>> /\ host'.active = 0
  BY <1>1, DropGood
<1>3. /\ task' \in Ended /\ task' # "internal_error" /\ task' # "loop" /\ task' # "cycle" /\ task' \notin Suspended
      /\ task' # "AwaitPermit"
  BY DEF Ended, Suspended
<1>4. ControlType'
  BY <1>1, <1>3 DEF ControlType
<1>5. IInv'
  BY <1>2, <1>3, <1>4, Zenon DEF IInv
<1>6. host.active \in Nat
  BY <1>1, GoodTypes
<1>7. AdmitsWithin
  BY <1>2, <1>6 DEF AdmitsWithin
<1> QED
  BY <1>5, <1>7

\* The call of a cycle is the youngest, so it is accounted for and in order.
LEMMA MadeAccounted ==
  ASSUME NEW h, Good(h), NEW D, NEW n \in Nat, n < MaxCalls, AccountedIn(h, D, n),
         IsFiniteSet(D), NEW kind, NEW invoke \in {"ok", "err"}
  PROVE  LET g == ScheduleNative(h, kind, [frame |-> n + 1, invoke |-> invoke])
         IN  Good(g) /\ AccountedIn(g, D, n + 1) /\ g.active = h.active
<1> DEFINE call == [frame |-> n + 1, invoke |-> invoke]
           g == ScheduleNative(h, kind, call)
<1>1. call \in QueuedCall /\ call.frame = n + 1
  BY HostBounds DEF QueuedCall
<1> HIDE DEF call
<1>2. \A f \in HostFrames(h) : f \in 1..n
  BY DEF AccountedIn
<1>3. \A f \in HostFrames(h) : f < call.frame
  BY <1>1, <1>2
<1>4. Good(g) /\ HostFrames(g) = HostFrames(h) \cup {call.frame} /\ Size(g) = Size(h) + 1 /\ g.active = h.active
  BY <1>1, <1>3, ScheduleGood
<1> HIDE DEF g
<1>5. Cardinality(D) \in Nat /\ Size(h) \in Nat
  BY SizeInNat, FS_CardinalityType
<1>6. Size(g) + Cardinality(D) = n + 1
  BY <1>4, <1>5 DEF AccountedIn
<1>7. 1..(n + 1) = 1..n \cup {n + 1} /\ n + 1 \notin 1..n
  OBVIOUS
<1>8. HostFrames(g) \cup D = 1..(n + 1)
  <2>1. HostFrames(g) \cup D = (HostFrames(h) \cup D) \cup {n + 1}
    BY <1>1, <1>4
  <2> QED
    BY <1>7, <2>1, Zenon DEF AccountedIn
<1>9. HostFrames(g) \cap D = {}
  <2>1. n + 1 \notin D
    BY <1>7 DEF AccountedIn
  <2> QED
    BY <1>1, <1>4, <2>1 DEF AccountedIn
<1>10. AccountedIn(g, D, n + 1)
  BY <1>6, <1>8, <1>9, Zenon DEF AccountedIn
<1> QED
  BY <1>4, <1>10, Zenon DEF g, call

LEMMA CycleKeeps ==
  ASSUME IInv, NEW new \in 0..MaxInternal, NEW call \in CallChoice, Cycle(new, call[1], call[2])
  PROVE  IInv' /\ AdmitsWithin
<1> DEFINE kind == call[1]
           items == internal + (IF completed = NoFrame THEN 0 ELSE 1)
           rest == items - 1 + new
           h == IF kind = "none" THEN host
                ELSE ScheduleNative(host, kind, [frame |-> calls + 1, invoke |-> call[2]])
           next == FromState(rest, h)
<1>1. /\ task = "cycle" /\ rest <= MaxInternal /\ (kind # "none" => calls < MaxCalls)
      /\ internal' = (IF items = 0 THEN 0 ELSE rest)
      /\ calls' = (IF kind = "none" THEN calls ELSE calls + 1)
      /\ host' = h
      /\ task' = (IF items = 0 THEN "internal_error" ELSE IF next = "none" THEN "completed" ELSE "loop")
      /\ boundary' = next /\ completed' = NoFrame /\ delivered' = delivered /\ changes' = changes
  BY DEF Cycle
<1>2. Good(host) /\ ControlType /\ (internal > 0 \/ completed # NoFrame)
  BY <1>1 DEF IInv
<1>3. Accounted
  BY <1>1 DEF IInv, Ended
<1>4. /\ internal \in Nat /\ calls \in 0..MaxCalls /\ calls \in Nat /\ delivered \subseteq 1..MaxCalls
      /\ new \in Nat /\ MaxCalls \in Nat
  BY <1>2, HostBounds DEF ControlType
<1>5. items \in Nat /\ items > 0
  <2>1. CASE completed = NoFrame
    BY <1>2, <1>4, <2>1
  <2>2. CASE completed # NoFrame
    BY <1>4, <2>2
  <2> QED
    BY <2>1, <2>2
<1> HIDE DEF items
<1>6. rest \in Nat /\ rest \in 0..MaxInternal /\ items # 0
  BY <1>1, <1>4, <1>5, HostBounds
<1> HIDE DEF rest
<1>7. IsFiniteSet(delivered)
  <2>1. IsFiniteSet(1..MaxCalls)
    BY <1>4, FS_Interval
  <2> QED
    BY <1>4, <2>1, FS_Subset
<1>8. /\ Good(h) /\ AccountedIn(h, delivered, calls') /\ h.active = host.active
      /\ calls' \in 0..MaxCalls
  <2>1. CASE kind = "none"
    BY <1>1, <1>2, <1>3, <1>4, <2>1, Zenon DEF Accounted
  <2>2. CASE kind # "none"
    <3> DEFINE g == ScheduleNative(host, kind, [frame |-> calls + 1, invoke |-> call[2]])
    <3>1. h = g /\ calls' = calls + 1 /\ calls < MaxCalls
      BY <1>1, <2>2, Zenon
    <3>2. call[2] \in {"ok", "err"}
      BY DEF CallChoice
    <3>3. AccountedIn(host, delivered, calls)
      BY <1>3 DEF Accounted
    <3>4. Good(g) /\ AccountedIn(g, delivered, calls + 1) /\ g.active = host.active
      <4>1. calls < MaxCalls /\ calls \in Nat /\ Good(host)
        BY <1>2, <1>4, <3>1
      <4> HIDE DEF kind, h
      <4> QED
        BY <1>7, <3>2, <3>3, <4>1, MadeAccounted
    <3>5. calls + 1 \in 0..MaxCalls
      BY <1>4, <3>1
    <3> HIDE DEF g, h
    <3> QED
      BY <3>1, <3>4, <3>5, Zenon
  <2> QED
    BY <2>1, <2>2
<1> HIDE DEF h
<1>9. /\ next \in {"MoreInternalWork", "HostWork", "WaitingForHost", "none"}
      /\ next = "MoreInternalWork" => rest > 0
      /\ next \in {"HostWork", "WaitingForHost"} => HasQueuedNativeWork(h) \/ HasPendingNativeWork(h)
      /\ next = "none" => ~HasPendingNativeWork(h)
  BY <1>6, FromStateIs
<1> HIDE DEF next
<1>10. internal' = rest /\ task' = IF next = "none" THEN "completed" ELSE "loop"
  BY <1>1, <1>6, Zenon
<1>11. host.active \in Nat
  BY <1>2, GoodTypes
<1>12. AdmitsWithin
  BY <1>1, <1>8, <1>11 DEF AdmitsWithin
<1>13. Accounted' /\ Good(host')
  BY <1>1, <1>8 DEF Accounted
<1>14. task' \in {"completed", "loop"}
  BY <1>10
<1>15. task' # "internal_error" /\ task' # "cycle" /\ task' \notin Suspended /\ task' # "AwaitPermit"
  BY <1>14 DEF Suspended
<1>16. ControlType'
  BY <1>1, <1>2, <1>6, <1>8, <1>9, <1>10, <1>14 DEF ControlType, Ended
<1>17. CASE next = "none"
  <2>1. task' = "completed"
    BY <1>10, <1>17
  <2>2. task' \in Ended /\ task' # "loop" /\ host'.pending = <<>>
    BY <1>1, <1>9, <1>17, <2>1 DEF Ended, HasPendingNativeWork
  <2> QED
    BY <1>12, <1>13, <1>15, <1>16, <2>2, Zenon DEF IInv
<1>18. CASE next # "none"
  <2>1. task' = "loop" /\ task' \notin Ended
    BY <1>10, <1>18 DEF Ended
  <2>2. BoundaryRight'
    BY <1>1, <1>9, <1>10, <1>18 DEF BoundaryRight, WaitForHost
  <2> QED
    BY <1>12, <1>13, <1>15, <1>16, <2>1, <2>2, Zenon DEF IInv
<1> QED
  BY <1>17, <1>18

LEMMA HostCompleteKeeps ==
  ASSUME IInv, NEW i \in 1..Len(host.pending), NEW state \in {"ok", "err"}, HostComplete(i, state)
  PROVE  IInv' /\ AdmitsWithin
<1>1. Good(host) /\ ControlType
  BY DEF IInv
<1>2. /\ host' = [host EXCEPT !.pending[i].state = state, !.woken = @ \/ host.pending[i].polled]
      /\ UNCHANGED <<task, boundary, internal, completed, calls, delivered, changes>>
  BY DEF HostComplete
<1>3. /\ Good(host') /\ SameCalls(host, host') /\ host'.active = host.active
      /\ Len(host'.pending) = Len(host.pending)
      /\ host'.immediate = host.immediate /\ host'.deferred = host.deferred
      /\ ~host'.woken => ~host.woken /\ ~host.pending[i].polled
  BY <1>1, <1>2, CompleteGood, ZenonT(60)
<1>4. host.active \in Nat /\ host.pending \in Seq(PendingCall) /\ host'.pending \in Seq(PendingCall)
  BY <1>1, <1>3, GoodTypes
<1>5. AdmitsWithin
  BY <1>3, <1>4 DEF AdmitsWithin
<1>6. ControlType'
  BY <1>1, <1>2 DEF ControlType
<1>7. Accounted => Accounted'
  BY <1>2, <1>3 DEF Accounted, AccountedIn, SameCalls
<1>8. host.pending # <<>> /\ host'.pending # <<>>
  BY <1>3, <1>4, NoElements
<1>9. BoundaryRight => BoundaryRight'
  BY <1>2, <1>8 DEF BoundaryRight, WaitForHost, HasPendingNativeWork
<1>10. task \notin Ended /\ task # "AwaitPermit"
  BY <1>8 DEF IInv
<1>11. task' \in Suspended => host'.woken
  <2>1. ASSUME task' \in Suspended, ~host'.woken PROVE FALSE
    <3>1. Quiet(host) /\ ~host.pending[i].polled
      BY <1>2, <1>3, <2>1 DEF IInv
    <3> QED
      BY <3>1 DEF Quiet
  <2> QED
    BY <2>1
<1>12. IInv'
  BY <1>2, <1>3, <1>6, <1>7, <1>9, <1>10, <1>11, Zenon DEF IInv
<1> QED
  BY <1>5, <1>12

LEMMA SetCapacityKeeps ==
  ASSUME IInv, NEW c \in Capacities, SetCapacity(c)
  PROVE  IInv' /\ AdmitsWithin
<1>1. Good(host) /\ ControlType
  BY DEF IInv
<1>2. /\ host' = [host EXCEPT !.capacity = c, !.woken = @ \/ host.waker, !.waker = FALSE]
      /\ changes < MaxChanges /\ changes' = changes + 1 /\ task \notin Ended
      /\ UNCHANGED <<task, boundary, internal, completed, calls, delivered>>
  BY DEF SetCapacity
<1>3. /\ Good(host') /\ SameCalls(host, host') /\ host'.active = host.active
      /\ host'.pending = host.pending /\ host'.immediate = host.immediate /\ host'.deferred = host.deferred
      /\ ~host'.woken => ~host.woken /\ ~host.waker
  BY <1>1, <1>2, CapacityGood
<1>4. host.active \in Nat
  BY <1>1, GoodTypes
<1>5. AdmitsWithin
  BY <1>3, <1>4 DEF AdmitsWithin
<1>6. ControlType'
  <2>1. changes' \in 0..MaxChanges
    BY <1>1, <1>2, HostBounds DEF ControlType
  <2> QED
    BY <1>1, <1>2, <2>1 DEF ControlType
<1>7. Accounted'
  BY <1>2, <1>3 DEF IInv, Accounted, AccountedIn, SameCalls
<1>8. BoundaryRight => BoundaryRight'
  BY <1>2, <1>3 DEF BoundaryRight, WaitForHost, HasPendingNativeWork, HasQueuedNativeWork
<1>9. task' \in Suspended /\ ~host'.woken => Quiet(host')
  <2>1. ASSUME task' \in Suspended, ~host'.woken PROVE Quiet(host')
    <3>1. Quiet(host) /\ ~host.waker
      BY <1>2, <1>3, <2>1 DEF IInv
    <3> QED
      BY <1>3, <3>1 DEF Quiet
  <2> QED
    BY <2>1
<1>10. IInv'
  BY <1>2, <1>3, <1>6, <1>7, <1>8, <1>9, Zenon DEF IInv
<1> QED
  BY <1>5, <1>10

LEMMA NextKeeps == ASSUME IInv, [Next]_vars PROVE IInv' /\ [AdmitsWithin]_vars
<1>1. CASE Poll
  BY <1>1, PollKeeps
<1>2. CASE Resume
  BY <1>2, ResumeKeeps
<1>3. ASSUME NEW new \in 0..MaxInternal, NEW call \in CallChoice, Cycle(new, call[1], call[2])
      PROVE  IInv' /\ AdmitsWithin
  BY <1>3, CycleKeeps
<1>4. CASE CycleFails
  BY <1>4, DropKeeps DEF CycleFails
<1>5. CASE ControllerFails
  BY <1>5, DropKeeps DEF ControllerFails
<1>6. CASE Cancel
  BY <1>6, DropKeeps DEF Cancel
<1>7. ASSUME NEW i \in 1..Len(host.pending), NEW state \in {"ok", "err"}, HostComplete(i, state)
      PROVE  IInv' /\ AdmitsWithin
  BY <1>7, HostCompleteKeeps
<1>8. ASSUME NEW c \in Capacities, SetCapacity(c)
      PROVE  IInv' /\ AdmitsWithin
  BY <1>8, SetCapacityKeeps
<1>9. CASE UNCHANGED vars
  <2>1. /\ host' = host /\ task' = task /\ boundary' = boundary /\ internal' = internal
        /\ completed' = completed /\ calls' = calls /\ delivered' = delivered /\ changes' = changes
    BY <1>9 DEF vars
  <2>2. IInv'
    BY <2>1, Zenon DEF IInv, ControlType, Accounted, BoundaryRight, WaitForHost
  <2> QED
    BY <1>9, <2>2
<1> QED
  BY <1>1, <1>2, <1>3, <1>4, <1>5, <1>6, <1>7, <1>8, <1>9, Zenon DEF Next, Finished

-----------------------------------------------------------------------------
(* What a run of the evaluation shows, for every value of the constants.    *)

LEMMA Inductive == Spec => []IInv
<1>1. Init => IInv
  BY InitOK
<1>2. IInv /\ [Next]_vars => IInv'
  BY NextKeeps
<1> QED
  BY <1>1, <1>2, PTL DEF Spec

\* The record of scheduler.rs stays what its operations expect, whatever the
\* order of completions, capacity changes and cancellations.
THEOREM HostTypeCorrect == Spec => []TypeOK
<1>1. IInv => TypeOK
  <2> SUFFICES ASSUME IInv PROVE TypeOK
    OBVIOUS
  <2>1. host \in HostType /\ ControlType
    BY DEF IInv, Good
  <2>2. /\ host.pending \in Seq(PendingCall)
        /\ host.immediate \in Seq(QueuedCall) /\ host.deferred \in Seq(QueuedCall)
        /\ host.active \in Nat /\ host.capacity \in Capacities
        /\ host.waker \in BOOLEAN /\ host.woken \in BOOLEAN
    BY <2>1 DEF HostType
  <2> QED
    BY <2>1, <2>2, Zenon DEF TypeOK, ControlType
<1> QED
  BY <1>1, Inductive, PTL

\* None of the internal errors of eval_typed_expr_inner and run_runtime_cycle
\* can be reported: the boundary is right when it is acted on.
THEOREM HostNeverInternalError == Spec => []NoInternalError
<1>1. IInv => NoInternalError
  BY DEF IInv, NoInternalError
<1> QED
  BY <1>1, Inductive, PTL

\* No call that schedule_native accepted is lost, duplicated or overtaken in
\* its queue.
THEOREM HostCallsConserved == Spec => []CallsConserved
<1>1. IInv => CallsConserved
  <2> SUFFICES ASSUME IInv, task \notin Ended PROVE CallsConserved
    BY DEF CallsConserved
  <2>1. AccountedIn(host, delivered, calls) /\ Good(host)
    BY DEF IInv, Accounted
  <2>2. Frames(host.immediate) \cup Frames(host.deferred) \cup Frames(host.pending) \cup delivered = 1..calls
    BY <2>1, Zenon DEF AccountedIn, HostFrames
  <2>3. Len(host.immediate) + Len(host.deferred) + Len(host.pending) + Cardinality(delivered) = calls
    BY <2>1, Zenon DEF AccountedIn, Size
  <2>4. \A i, j \in 1..Len(host.deferred) : i < j => host.deferred[i].frame < host.deferred[j].frame
    BY <2>1 DEF Good, Ordered
  <2> QED
    BY <2>2, <2>3, <2>4, Zenon DEF CallsConserved
<1> QED
  BY <1>1, Inductive, PTL

\* NativeAsyncPermit is neither leaked nor dropped twice.
THEOREM HostPermitsBalanced == Spec => []PermitsBalanced
<1>1. IInv => PermitsBalanced
  <2> SUFFICES ASSUME IInv PROVE PermitsBalanced
    OBVIOUS
  <2>1. Good(host)
    BY DEF IInv
  <2>2. host.active = Cardinality({i \in 1..Len(host.pending) : host.pending[i].permit})
    BY <2>1 DEF Good, Holders
  <2>3. task \in Ended => host.active = 0
    BY <2>1, NothingPending DEF IInv
  <2> QED
    BY <2>2, <2>3, Zenon DEF PermitsBalanced
<1> QED
  BY <1>1, Inductive, PTL

\* While poll_pending_native is suspended and not woken there is nothing it
\* could do: whoever will have something holds the task's waker.
THEOREM HostNoLostWakeup == Spec => []NoLostWakeup
<1>1. IInv => NoLostWakeup
  <2> SUFFICES ASSUME IInv, task \in Suspended, ~host.woken
               PROVE  ReadyIndices(host) = {} /\ ~PermitAvailable(host)
    BY DEF NoLostWakeup
  <2>1. Good(host) /\ Quiet(host)
    BY DEF IInv
  <2>2. host.active \in Nat /\ host.capacity \in Nat
    BY <2>1, GoodTypes
  <2>3. ReadyIndices(host) = {}
    BY <2>1 DEF Quiet, ReadyIndices
  <2>4. ~PermitAvailable(host)
    BY <2>1, <2>2 DEF Quiet, PermitAvailable
  <2> QED
    BY <2>3, <2>4
<1> QED
  BY <1>1, Inductive, PTL

\* poll_acquire_native_async gives out a permit only below the capacity.
THEOREM HostAdmitsWithinCapacity == Spec => AdmittedWithinCapacity
<1>1. IInv /\ [Next]_vars => [AdmitsWithin]_vars
  BY NextKeeps
<1>2. [AdmitsWithin]_vars => [host'.active > host.active => host'.active <= host.capacity]_vars
  BY DEF AdmitsWithin
<1> QED
  BY <1>1, <1>2, Inductive, PTL DEF Spec, AdmittedWithinCapacity

=============================================================================
