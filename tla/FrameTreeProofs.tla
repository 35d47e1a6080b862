-------------------------- MODULE FrameTreeProofs --------------------------
(***************************************************************************)
(* TLAPS proofs about the frame protocol, for every bound on frames and    *)
(* children and so for every program: the evaluator never meets one of its *)
(* internal errors, and a completed evaluation leaves nothing behind.      *)
(***************************************************************************)
EXTENDS FrameTree, WellFoundedInduction, TLAPS

(* A set of natural numbers has a least element; below a bound it has a    *)
(* greatest.  The first finds the oldest frame, the second the youngest.   *)
LEMMA LeastElement ==
    ASSUME NEW T, T \subseteq Nat, T # {}
    PROVE  \E x \in T : \A y \in T : x <= y
<1>1. PICK x \in T : \A y \in T : ~(<<y, x>> \in OpToRel(<, Nat))
  BY NatLessThanWellFounded, WFMin
<1>2. ASSUME NEW y \in T PROVE x <= y
  <2>1. ~(<<y, x>> \in OpToRel(<, Nat))
    BY <1>1
  <2>2. ~(y < x)
    BY <2>1 DEF OpToRel
  <2> QED
    BY <2>2
<1> QED
  BY <1>2

LEMMA GreatestElement ==
    ASSUME NEW n \in Nat, NEW T, T \subseteq 0..n, T # {}
    PROVE  \E x \in T : \A y \in T : y <= x
<1> DEFINE Distances == {n - t : t \in T}
<1>1. Distances \subseteq Nat /\ Distances # {}
  <2>1. \A t \in T : n - t \in Nat
    OBVIOUS
  <2>2. PICK t \in T : TRUE
    OBVIOUS
  <2>3. n - t \in Distances
    OBVIOUS
  <2> QED
    BY <2>1, <2>3
<1> HIDE DEF Distances
<1>2. PICK d \in Distances : \A e \in Distances : d <= e
  BY <1>1, LeastElement
<1>3. PICK x \in T : d = n - x
  BY <1>2 DEF Distances
<1>4. ASSUME NEW y \in T PROVE y <= x
  <2>1. n - y \in Distances
    BY DEF Distances
  <2>2. n - x <= n - y
    BY <1>2, <1>3, <2>1
  <2> QED
    BY <2>2
<1> QED
  BY <1>4

-----------------------------------------------------------------------------
\* The inductive invariant.
IInv == TypeOK /\ RunningInv /\ NothingLeftBehind

\* Frame f has given up the item it was taken for: it expects no live child
\* and no item is addressed to it; E and R are the items that are left.
Freed(f, E, R) ==
    /\ f \in live /\ f \notin host
    /\ \A x \in live \ {Root} : parent[x] # f
    /\ E = {x \in live : x # f /\ waiting[x] = {}}
    /\ R = {item \in returned : item[1] # f}

LEMMA EnterFrees ==
    ASSUME IInv, status = "running", NEW f \in entering, f \in live
    PROVE  Freed(f, entering \ {f}, returned)
<1> USE DEF IInv, RunningInv, Entered
<1>1. waiting[f] = {}
  OBVIOUS
<1>2. f \notin host
  BY <1>1 DEF NoStrayItem
<1>3. \A x \in live \ {Root} : parent[x] # f
  BY <1>1 DEF TreeShape
<1>4. entering \ {f} = {x \in live : x # f /\ waiting[x] = {}}
  OBVIOUS
<1>5. returned = {item \in returned : item[1] # f}
  BY <1>1 DEF NoStrayItem
<1> QED
  BY <1>2, <1>3, <1>4, <1>5 DEF Freed

LEMMA ReceiveFrees ==
    ASSUME IInv, status = "running", NEW f \in live, NEW c,
           <<f, c>> \in returned, waiting[f] = {c}
    PROVE  Freed(f, entering, returned \ {<<f, c>>})
<1> USE DEF IInv, RunningInv
<1>1. c # f => c \notin live
  BY DEF Awaited
<1>2. f \notin host
  BY DEF NoStrayItem, Awaited
<1>3. \A x \in live \ {Root} : parent[x] # f
  <2> SUFFICES ASSUME NEW x \in live \ {Root}, parent[x] = f PROVE FALSE
    OBVIOUS
  <2>1. x \in waiting[f] /\ f < x
    BY DEF TreeShape
  <2>2. x = c /\ x # f
    BY <2>1 DEF TypeOK
  <2> QED
    BY <1>1, <2>2
<1>4. entering = {x \in live : x # f /\ waiting[x] = {}}
  BY DEF Entered
<1>5. returned \ {<<f, c>>} = {item \in returned : item[1] # f}
  <2>1. ASSUME NEW item \in returned, item[1] = f PROVE item = <<f, c>>
    <3>1. item[2] \in waiting[f]
      BY <2>1 DEF NoStrayItem
    <3>2. item = <<item[1], item[2]>>
      BY DEF TypeOK
    <3> QED
      BY <2>1, <3>1, <3>2
  <2> QED
    BY <2>1
<1> QED
  BY <1>2, <1>3, <1>4, <1>5 DEF Freed

LEMMA ScheduleKeeps ==
    ASSUME IInv, status = "running", NEW f, NEW E, NEW R, Freed(f, E, R),
           NEW n \in 1..MaxChildren, Schedule(f, n, E, R)
    PROVE  IInv'
<1> USE BoundsAssumption DEF IInv, Freed
<1>1. PICK new : new = next_id .. next_id + n - 1
  OBVIOUS
<1>2. /\ live' = live \cup new
      /\ parent' = [x \in live \cup new |-> IF x \in new THEN f ELSE parent[x]]
      /\ waiting' = [x \in live \cup new |->
                         IF x = f THEN new ELSE IF x \in new THEN {} ELSE waiting[x]]
      /\ entering' = E \cup new /\ returned' = R /\ next_id' = next_id + n
      /\ host' = host /\ status' = status
  BY <1>1 DEF Schedule
<1>3. /\ new \cap live = {} /\ new # {} /\ f \notin new /\ Root \in live
      /\ \A x \in new : x \in Nat /\ f < x /\ x < next_id + n
      /\ \A x \in live : x \in Nat /\ x < next_id
      /\ f \in Nat /\ next_id \in Nat /\ n \in Nat
  <2>1. next_id \in Nat /\ n \in Nat /\ n >= 1
    BY DEF TypeOK
  <2>2. \A x \in live : x \in Nat /\ x < next_id
    BY <2>1 DEF TypeOK
  <2>3. \A x \in new : x \in Nat /\ next_id <= x /\ x < next_id + n
    BY <1>1, <2>1
  <2>4. new # {}
    <3>1. next_id \in next_id .. next_id + n - 1
      BY <2>1
    <3> QED
      BY <1>1, <3>1
  <2>5. f \in Nat /\ f < next_id /\ Root \in live
    BY <2>2 DEF RunningInv
  <2>6. new \cap live = {} /\ f \notin new
    <3>1. ASSUME NEW x \in new, x \in live PROVE FALSE
      BY <2>1, <2>2, <2>3, <3>1
    <3> QED
      BY <3>1
  <2>7. \A x \in new : f < x
    BY <2>1, <2>3, <2>5
  <2> QED
    BY <2>1, <2>2, <2>3, <2>4, <2>5, <2>6, <2>7
<1>4. \A x \in live : \A c \in waiting[x] : c \notin new
  BY <1>1 DEF TypeOK
<1>5. TypeOK'
  <2>1. live' \subseteq 0 .. next_id' - 1 /\ next_id' \in Nat
    <3>1. next_id' \in Nat /\ next_id < next_id' /\ next_id' = next_id + n
      BY <1>2, <1>3
    <3>2. \A x \in live' : x \in Nat /\ x < next_id'
      BY <1>2, <1>3, <3>1
    <3> QED
      BY <3>1, <3>2
  <2>2. parent' \in [live' -> Nat]
    BY <1>2, <1>3 DEF TypeOK
  <2>3. waiting' \in [live' -> SUBSET (0 .. next_id' - 1)]
    <3>1. new \subseteq 0 .. next_id' - 1
      BY <1>2, <1>3
    <3>2. \A x \in live : waiting[x] \subseteq 0 .. next_id' - 1
      BY <1>2, <1>3 DEF TypeOK
    <3> QED
      BY <1>2, <3>1, <3>2
  <2>4. entering' \subseteq Nat /\ returned' \subseteq Nat \X Nat
    BY <1>2, <1>3 DEF TypeOK
  <2> QED
    BY <1>2, <2>1, <2>2, <2>3, <2>4 DEF TypeOK
<1>6. TreeShape'
  BY <1>2, <1>3 DEF TreeShape, RunningInv, TypeOK
<1>7. Awaited'
  <2> SUFFICES ASSUME NEW x \in live', NEW c \in waiting'[x]
               PROVE  \/ c # x /\ c \in live' /\ parent'[c] = x /\ <<x, c>> \notin returned'
                      \/ c # x /\ c \notin live' /\ <<x, c>> \in returned'
                      \/ c = x /\ waiting'[x] = {x} /\ x \in host' /\ <<x, x>> \notin returned'
                      \/ c = x /\ waiting'[x] = {x} /\ x \notin host' /\ <<x, x>> \in returned'
    BY DEF Awaited
  <2>1. CASE x = f
    <3>1. c \in new
      BY <1>2, <2>1
    <3>2. <<x, c>> \notin R
      BY <2>1
    <3> QED
      BY <1>2, <1>3, <2>1, <3>1, <3>2
  <2>2. CASE x \in new
    BY <1>2, <1>3, <2>2
  <2>3. CASE x \in live /\ x # f
    <3>1. waiting'[x] = waiting[x] /\ c \notin new
      BY <1>2, <1>3, <1>4, <2>3
    <3>2. <<x, c>> \in R <=> <<x, c>> \in returned
      BY <2>3
    <3>3. <<x, x>> \in R <=> <<x, x>> \in returned
      BY <2>3
    <3> QED
      BY <1>2, <2>3, <3>1, <3>2, <3>3 DEF Awaited, RunningInv
  <2> QED
    BY <1>2, <2>1, <2>2, <2>3
<1>8. Entered'
  BY <1>2, <1>3 DEF Entered
<1>9. NoStrayItem'
  BY <1>2, <1>3 DEF NoStrayItem, RunningInv
<1> QED
  BY <1>2, <1>3, <1>5, <1>6, <1>7, <1>8, <1>9 DEF RunningInv, NothingLeftBehind

LEMMA AwaitKeeps ==
    ASSUME IInv, status = "running", NEW f, NEW E, NEW R, Freed(f, E, R),
           AwaitNative(f, E, R)
    PROVE  IInv'
<1> USE BoundsAssumption DEF IInv, Freed
<1>1. PICK h : h = next_id
  OBVIOUS
<1>2. /\ live' = live \cup {h}
      /\ parent' = [x \in live \cup {h} |-> IF x = h THEN f ELSE parent[x]]
      /\ waiting' = [x \in live \cup {h} |-> IF x \in {f, h} THEN {h} ELSE waiting[x]]
      /\ entering' = E /\ returned' = R /\ next_id' = h + 1
      /\ host' = host \cup {h} /\ status' = status
  BY <1>1 DEF AwaitNative
<1>3. /\ h \notin live /\ f # h /\ f < h /\ h \in Nat /\ Root \in live
      /\ \A x \in live : x \in Nat /\ x < h
      /\ Root # h
  BY <1>1 DEF TypeOK, RunningInv
<1>4. \A x \in live : h \notin waiting[x]
  BY <1>1 DEF TypeOK
<1>5. TypeOK'
  <2>1. live' \subseteq 0 .. next_id' - 1 /\ next_id' \in Nat
    BY <1>2, <1>3
  <2>2. parent' \in [live' -> Nat]
    BY <1>2, <1>3 DEF TypeOK
  <2>3. waiting' \in [live' -> SUBSET (0 .. next_id' - 1)]
    <3>1. {h} \subseteq 0 .. next_id' - 1
      BY <1>2, <1>3
    <3>2. \A x \in live : waiting[x] \subseteq 0 .. next_id' - 1
      BY <1>1, <1>2, <1>3 DEF TypeOK
    <3> QED
      BY <1>2, <3>1, <3>2
  <2>4. entering' \subseteq Nat /\ returned' \subseteq Nat \X Nat /\ host' \subseteq Nat
    BY <1>2, <1>3 DEF TypeOK
  <2> QED
    BY <1>2, <2>1, <2>2, <2>3, <2>4 DEF TypeOK
<1>6. TreeShape'
  BY <1>2, <1>3 DEF TreeShape, RunningInv, TypeOK
<1>7. Awaited'
  <2> SUFFICES ASSUME NEW x \in live', NEW c \in waiting'[x]
               PROVE  \/ c # x /\ c \in live' /\ parent'[c] = x /\ <<x, c>> \notin returned'
                      \/ c # x /\ c \notin live' /\ <<x, c>> \in returned'
                      \/ c = x /\ waiting'[x] = {x} /\ x \in host' /\ <<x, x>> \notin returned'
                      \/ c = x /\ waiting'[x] = {x} /\ x \notin host' /\ <<x, x>> \in returned'
    BY DEF Awaited
  <2>1. CASE x = f
    <3>1. c = h /\ <<x, c>> \notin R
      BY <1>2, <2>1
    <3> QED
      BY <1>2, <1>3, <2>1, <3>1
  <2>2. CASE x = h
    <3>1. <<h, h>> \notin R
      BY <1>3 DEF NoStrayItem, RunningInv
    <3> QED
      BY <1>2, <2>2, <3>1
  <2>3. CASE x \in live /\ x # f
    <3>1. waiting'[x] = waiting[x] /\ c # h /\ x # h
      BY <1>2, <1>3, <1>4, <2>3
    <3>2. <<x, c>> \in R <=> <<x, c>> \in returned
      BY <2>3
    <3>3. <<x, x>> \in R <=> <<x, x>> \in returned
      BY <2>3
    <3> QED
      BY <1>2, <2>3, <3>1, <3>2, <3>3 DEF Awaited, RunningInv
  <2> QED
    BY <1>2, <2>1, <2>2, <2>3
<1>8. Entered'
  BY <1>2, <1>3 DEF Entered
<1>9. NoStrayItem'
  BY <1>2, <1>3 DEF NoStrayItem, RunningInv
<1> QED
  BY <1>2, <1>3, <1>5, <1>6, <1>7, <1>8, <1>9 DEF RunningInv, NothingLeftBehind

\* When the root returns it is the last frame: the oldest other frame would
\* have a parent that is older still, and none waits on the root.
LEMMA RootReturnsLast ==
    ASSUME IInv, status = "running", NEW E, NEW R, Freed(Root, E, R)
    PROVE  live = {Root} /\ E = {} /\ R = {} /\ host = {}
<1> USE DEF IInv, RunningInv, Freed
<1>1. live \ {Root} = {}
  <2> SUFFICES ASSUME live \ {Root} # {} PROVE FALSE
    OBVIOUS
  <2>1. live \ {Root} \subseteq Nat
    BY DEF TypeOK
  <2>2. PICK x \in live \ {Root} : \A y \in live \ {Root} : x <= y
    BY <2>1, LeastElement
  <2>3. parent[x] \in live \ {Root} /\ parent[x] < x
    BY DEF TreeShape
  <2>4. x \in Nat /\ parent[x] \in Nat /\ x <= parent[x]
    BY <2>1, <2>2, <2>3
  <2> QED
    BY <2>3, <2>4
<1>2. live = {Root}
  BY <1>1
<1>3. E = {}
  BY <1>2
<1>4. R = {}
  BY <1>2 DEF NoStrayItem
<1>5. host = {}
  BY <1>2 DEF NoStrayItem
<1> QED
  BY <1>2, <1>3, <1>4, <1>5

LEMMA ReturnKeeps ==
    ASSUME IInv, status = "running", NEW f, NEW E, NEW R, Freed(f, E, R),
           Return(f, E, R)
    PROVE  IInv'
<1> USE DEF IInv, Freed
<1>1. /\ live' = live \ {f}
      /\ parent' = [x \in live \ {f} |-> parent[x]]
      /\ waiting' = [x \in live \ {f} |-> waiting[x]]
      /\ entering' = E /\ host' = host /\ next_id' = next_id
  BY DEF Return
<1>2. /\ next_id' \in Nat /\ live' \subseteq 0 .. next_id' - 1
      /\ parent' \in [live' -> Nat]
      /\ waiting' \in [live' -> SUBSET (0 .. next_id' - 1)]
      /\ entering' \subseteq Nat /\ host' \subseteq Nat
  <2>1. next_id' \in Nat /\ live' \subseteq 0 .. next_id' - 1
    BY <1>1 DEF TypeOK
  <2>2. parent' \in [live' -> Nat]
    BY <1>1 DEF TypeOK
  <2>3. waiting' \in [live' -> SUBSET (0 .. next_id' - 1)]
    BY <1>1 DEF TypeOK
  <2>4. entering' \subseteq Nat
    <3>1. live \subseteq Nat
      BY DEF TypeOK
    <3> QED
      BY <1>1, <3>1
  <2>5. host' \subseteq Nat
    BY <1>1 DEF TypeOK
  <2> QED
    BY <2>1, <2>2, <2>3, <2>4, <2>5
<1>3. CASE f = Root
  <2>1. live = {Root} /\ E = {} /\ R = {} /\ host = {}
    BY <1>3, RootReturnsLast
  <2>2. returned' = R /\ status' = "completed"
    BY <1>3 DEF Return
  <2>3. TypeOK'
    BY <1>2, <2>1, <2>2 DEF TypeOK, Status
  <2>4. NothingLeftBehind'
    BY <1>1, <1>3, <2>1, <2>2 DEF NothingLeftBehind
  <2> QED
    BY <2>2, <2>3, <2>4 DEF RunningInv
<1>4. CASE f # Root
  <2>1. PICK p : p = parent[f]
    OBVIOUS
  <2>2. /\ p \in live /\ p < f /\ f \in waiting[p]
        /\ p \in Nat /\ f \in Nat /\ p # f
    BY <1>4, <2>1 DEF TypeOK, RunningInv, TreeShape
  <2>3. returned' = R \cup {<<p, f>>} /\ status' = status
    BY <1>4, <2>1 DEF Return
  <2>4. TypeOK'
    <3>1. R \subseteq Nat \X Nat
      BY DEF TypeOK
    <3>2. returned' \subseteq Nat \X Nat
      BY <2>2, <2>3, <3>1
    <3>3. status' \in Status
      BY <2>3 DEF TypeOK
    <3> QED
      BY <1>2, <3>2, <3>3 DEF TypeOK
  <2>5. TreeShape'
    BY <1>1 DEF TreeShape, RunningInv
  <2>6. Awaited'
    <3> SUFFICES ASSUME NEW x \in live', NEW c \in waiting'[x]
                 PROVE  \/ c # x /\ c \in live' /\ parent'[c] = x /\ <<x, c>> \notin returned'
                        \/ c # x /\ c \notin live' /\ <<x, c>> \in returned'
                        \/ c = x /\ waiting'[x] = {x} /\ x \in host' /\ <<x, x>> \notin returned'
                        \/ c = x /\ waiting'[x] = {x} /\ x \notin host' /\ <<x, x>> \in returned'
      BY DEF Awaited
    <3>1. x \in live /\ x # f /\ waiting'[x] = waiting[x]
      BY <1>1
    <3>2. /\ <<x, c>> \in R <=> <<x, c>> \in returned
          /\ <<x, x>> \in R <=> <<x, x>> \in returned
      BY <3>1
    <3>3. CASE c = f
      <4>1. parent[f] = x
        BY <3>1, <3>3 DEF Awaited, RunningInv
      <4> QED
        BY <1>1, <2>1, <2>3, <3>1, <3>3, <4>1
    <3>4. CASE c # f
      <4>1. <<x, c>> # <<p, f>> /\ <<x, x>> # <<p, f>>
        BY <3>1, <3>4
      <4>2. c \in live' <=> c \in live
        BY <1>1, <3>4
      <4>3. c \in live => parent'[c] = parent[c]
        BY <1>1, <3>4
      <4> QED
        BY <1>1, <2>3, <3>1, <3>2, <4>1, <4>2, <4>3 DEF Awaited, RunningInv
    <3> QED
      BY <3>3, <3>4
  <2>7. Entered'
    BY <1>1 DEF Entered
  <2>8. NoStrayItem'
    <3>1. ASSUME NEW item \in returned'
          PROVE  item[1] \in live' /\ item[2] \in waiting'[item[1]]
      <4>1. CASE item = <<p, f>>
        BY <1>1, <2>2, <4>1
      <4>2. CASE item \in R
        BY <1>1, <4>2 DEF NoStrayItem, RunningInv
      <4> QED
        BY <2>3, <4>1, <4>2
    <3>2. \A c \in host' : c \in live' /\ waiting'[c] = {c}
      BY <1>1 DEF NoStrayItem, RunningInv
    <3> QED
      BY <3>1, <3>2 DEF NoStrayItem
  <2>9. (Root \in live /\ parent[Root] = Root /\ Root \notin host)'
    BY <1>1, <1>4 DEF RunningInv
  <2> QED
    BY <2>3, <2>4, <2>5, <2>6, <2>7, <2>8, <2>9 DEF RunningInv, NothingLeftBehind
<1> QED
  BY <1>3, <1>4

LEMMA ReceiveAndWaitKeeps ==
    ASSUME IInv, NEW f, NEW c, ReceiveAndWait(f, c)
    PROVE  IInv'
<1> USE DEF IInv
<1>1. /\ status = "running" /\ status' = "running"
      /\ f \in live /\ <<f, c>> \in returned /\ c \in waiting[f] /\ waiting[f] # {c}
      /\ returned' = returned \ {<<f, c>>}
      /\ waiting' = [waiting EXCEPT ![f] = waiting[f] \ {c}]
      /\ live' = live /\ parent' = parent /\ entering' = entering
      /\ host' = host /\ next_id' = next_id
  BY DEF ReceiveAndWait
<1>2. /\ DOMAIN waiting = live
      /\ waiting'[f] = waiting[f] \ {c} /\ waiting'[f] # {}
      /\ \A x \in live : x # f => waiting'[x] = waiting[x]
      /\ \A x \in live : waiting'[x] \subseteq waiting[x]
  BY <1>1 DEF TypeOK
<1>3. c # f /\ c \notin live /\ f \notin waiting[f]
  <2>1. f \in waiting[f] => waiting[f] = {f}
    BY <1>1 DEF RunningInv, Awaited
  <2>2. f \notin waiting[f]
    BY <1>1, <2>1
  <2>3. c # f
    BY <1>1, <2>2
  <2> QED
    BY <1>1, <2>2, <2>3 DEF RunningInv, Awaited
<1>4. TypeOK'
  BY <1>1 DEF TypeOK
<1>5. TreeShape'
  BY <1>1, <1>2, <1>3 DEF TreeShape, RunningInv
<1>6. Awaited'
  <2> SUFFICES ASSUME NEW x \in live, NEW d \in waiting'[x]
               PROVE  \/ d # x /\ d \in live /\ parent[d] = x /\ <<x, d>> \notin returned'
                      \/ d # x /\ d \notin live /\ <<x, d>> \in returned'
                      \/ d = x /\ waiting'[x] = {x} /\ x \in host /\ <<x, x>> \notin returned'
                      \/ d = x /\ waiting'[x] = {x} /\ x \notin host /\ <<x, x>> \in returned'
    BY <1>1, ZenonT(60) DEF Awaited
  <2>1. d \in waiting[x] /\ <<x, d>> # <<f, c>>
    BY <1>2
  <2>2. <<x, d>> \in returned' <=> <<x, d>> \in returned
    BY <1>1, <2>1
  <2>3. d = x => waiting'[x] = waiting[x]
    BY <1>2, <1>3, <2>1
  <2> QED
    BY <1>1, <2>1, <2>2, <2>3 DEF Awaited, RunningInv
<1>7. Entered'
  BY <1>1, <1>2 DEF Entered, RunningInv
<1>8. NoStrayItem'
  <2>1. ASSUME NEW item \in returned'
        PROVE  item[1] \in live /\ item[2] \in waiting'[item[1]]
    <3>1. item \in returned /\ item # <<f, c>> /\ item = <<item[1], item[2]>>
      BY <1>1 DEF TypeOK
    <3>2. item[1] \in live /\ item[2] \in waiting[item[1]]
      BY <1>1, <3>1 DEF NoStrayItem, RunningInv
    <3> QED
      BY <1>2, <3>1, <3>2
  <2>2. \A h \in host : h \in live /\ waiting'[h] = {h}
    BY <1>1, <1>2, <1>3 DEF NoStrayItem, RunningInv
  <2> QED
    BY <1>1, <2>1, <2>2 DEF NoStrayItem
<1> QED
  BY <1>1, <1>4, <1>5, <1>6, <1>7, <1>8 DEF RunningInv, NothingLeftBehind

LEMMA NativeCompletedKeeps ==
    ASSUME IInv, NEW h, NativeCompleted(h)
    PROVE  IInv'
<1> USE DEF IInv
<1>1. /\ status = "running" /\ status' = "running" /\ h \in host
      /\ host' = host \ {h} /\ returned' = returned \cup {<<h, h>>}
      /\ live' = live /\ parent' = parent /\ waiting' = waiting
      /\ entering' = entering /\ next_id' = next_id
  BY DEF NativeCompleted
<1>2. h \in live /\ waiting[h] = {h} /\ h \in Nat
  BY <1>1 DEF TypeOK, RunningInv, NoStrayItem
<1>3. TypeOK'
  BY <1>1, <1>2 DEF TypeOK
<1>4. TreeShape' /\ Entered'
  BY <1>1 DEF TreeShape, Entered, RunningInv
<1>5. Awaited'
  <2> SUFFICES ASSUME NEW x \in live, NEW d \in waiting[x]
               PROVE  \/ d # x /\ d \in live /\ parent[d] = x /\ <<x, d>> \notin returned'
                      \/ d # x /\ d \notin live /\ <<x, d>> \in returned'
                      \/ d = x /\ waiting[x] = {x} /\ x \in host' /\ <<x, x>> \notin returned'
                      \/ d = x /\ waiting[x] = {x} /\ x \notin host' /\ <<x, x>> \in returned'
    BY <1>1, ZenonT(60) DEF Awaited
  <2>1. CASE x = h
    BY <1>1, <1>2, <2>1
  <2>2. CASE x # h
    <3>1. <<x, d>> # <<h, h>> /\ <<x, x>> # <<h, h>>
      BY <2>2
    <3> QED
      BY <1>1, <2>2, <3>1 DEF Awaited, RunningInv
  <2> QED
    BY <2>1, <2>2
<1>6. NoStrayItem'
  <2>1. ASSUME NEW item \in returned'
        PROVE  item[1] \in live /\ item[2] \in waiting[item[1]]
    <3>1. CASE item = <<h, h>>
      BY <1>2, <3>1
    <3>2. CASE item \in returned
      BY <1>1, <3>2 DEF NoStrayItem, RunningInv
    <3> QED
      BY <1>1, <3>1, <3>2
  <2> QED
    BY <1>1, <2>1 DEF NoStrayItem, RunningInv
<1> QED
  BY <1>1, <1>3, <1>4, <1>5, <1>6 DEF RunningInv, NothingLeftBehind

-----------------------------------------------------------------------------
\* An evaluation starts with the root alone, its enter item scheduled.
LEMMA IInvInit == Init => IInv
<1> SUFFICES ASSUME Init PROVE IInv
  OBVIOUS
<1> USE DEF Init, Root
<1>1. TypeOK
  BY DEF TypeOK, Status
<1>2. TreeShape /\ Awaited /\ Entered /\ NoStrayItem
  BY DEF TreeShape, Awaited, Entered, NoStrayItem
<1> QED
  BY <1>1, <1>2 DEF IInv, RunningInv, NothingLeftBehind

LEMMA IInvNext == IInv /\ [Next]_vars => IInv'
<1> SUFFICES ASSUME IInv, [Next]_vars PROVE IInv'
  OBVIOUS
<1>1. ASSUME NEW f \in entering, Enter(f) PROVE IInv'
  <2>1. status = "running" /\ f \in live
    BY <1>1 DEF Enter
  <2>2. Freed(f, entering \ {f}, returned)
    BY <2>1, EnterFrees
  <2>3. ASSUME NEW n \in 1..MaxChildren, Schedule(f, n, entering \ {f}, returned)
        PROVE  IInv'
    BY <2>1, <2>2, <2>3, ScheduleKeeps
  <2>4. CASE AwaitNative(f, entering \ {f}, returned)
    BY <2>1, <2>2, <2>4, AwaitKeeps
  <2>5. CASE Return(f, entering \ {f}, returned)
    BY <2>1, <2>2, <2>5, ReturnKeeps
  <2> QED
    BY <1>1, <2>3, <2>4, <2>5 DEF Enter
<1>2. ASSUME NEW item \in returned, ReceiveAndWait(item[1], item[2]) PROVE IInv'
  BY <1>2, ReceiveAndWaitKeeps
<1>3. ASSUME NEW item \in returned, ReceiveLast(item[1], item[2]) PROVE IInv'
  <2>1. PICK f, c : f = item[1] /\ c = item[2]
    OBVIOUS
  <2>2. /\ status = "running" /\ f \in live
        /\ <<f, c>> \in returned /\ waiting[f] = {c}
    BY <1>3, <2>1 DEF ReceiveLast
  <2>3. Freed(f, entering, returned \ {<<f, c>>})
    BY <2>2, ReceiveFrees
  <2>4. ASSUME NEW n \in 1..MaxChildren,
               Schedule(f, n, entering, returned \ {<<f, c>>})
        PROVE  IInv'
    BY <2>2, <2>3, <2>4, ScheduleKeeps
  <2>5. CASE AwaitNative(f, entering, returned \ {<<f, c>>})
    BY <2>2, <2>3, <2>5, AwaitKeeps
  <2>6. CASE Return(f, entering, returned \ {<<f, c>>})
    BY <2>2, <2>3, <2>6, ReturnKeeps
  <2> QED
    BY <1>3, <2>1, <2>4, <2>5, <2>6 DEF ReceiveLast
<1>4. ASSUME NEW h \in host, NativeCompleted(h) PROVE IInv'
  BY <1>4, NativeCompletedKeeps
<1>5. CASE Fail
  BY <1>5 DEF Fail, IInv, TypeOK, Status, RunningInv, NothingLeftBehind
<1>6. CASE UNCHANGED vars
  BY <1>6 DEF vars, IInv, TypeOK, RunningInv, NothingLeftBehind,
              TreeShape, Awaited, Entered, NoStrayItem
<1> QED
  BY <1>1, <1>2, <1>3, <1>4, <1>5, <1>6 DEF Next, Finished

-----------------------------------------------------------------------------
(* The frames of a running evaluation are a tree: ids in the FrameStore     *)
(* stay below next_id, so none is handed out twice; parents are older than  *)
(* their children; every awaited child is live or has its result under way; *)
(* items and host calls belong to live frames that expect them.             *)
THEOREM FramesAreATree == Spec => [](TypeOK /\ RunningInv)
<1>1. IInv => TypeOK /\ RunningInv
  BY DEF IInv
<1> QED
  BY <1>1, IInvInit, IInvNext, PTL DEF Spec

\* The youngest live frame waits for no live frame, so there is work to do.
LEMMA IInvSound == IInv => NoProtocolError
<1> SUFFICES ASSUME IInv, status = "running" PROVE ~ProtocolError
  BY DEF NoProtocolError
<1> USE DEF IInv, RunningInv
<1>1. \A f \in entering : f \in live
  BY DEF Entered
<1>2. \A item \in returned : item[1] \in live /\ item[2] \in waiting[item[1]]
  BY DEF NoStrayItem
<1>3. ~(entering = {} /\ returned = {} /\ host = {})
  <2>1. live \subseteq 0 .. next_id /\ live # {} /\ next_id \in Nat
    BY DEF TypeOK
  <2>2. PICK x \in live : \A y \in live : y <= x
    BY <2>1, GreatestElement
  <2>3. CASE waiting[x] = {}
    BY <2>3 DEF Entered
  <2>4. CASE waiting[x] # {}
    <3>1. PICK c \in waiting[x] : TRUE
      BY <2>4
    <3>2. ~(c # x /\ c \in live /\ parent[c] = x)
      <4> SUFFICES ASSUME c # x, c \in live, parent[c] = x PROVE FALSE
        OBVIOUS
      <4>1. x < c
        BY DEF TreeShape
      <4>2. c <= x /\ x \in Nat /\ c \in Nat
        BY <2>2 DEF TypeOK
      <4> QED
        BY <4>1, <4>2
    <3> QED
      BY <3>1, <3>2 DEF Awaited
  <2> QED
    BY <2>3, <2>4
<1> QED
  BY <1>1, <1>2, <1>3 DEF ProtocolError

(* No internal error: the youngest live frame waits for no live frame, so   *)
(* it has an enter item, a result on the way, or its host call outstanding. *)
THEOREM FrameProtocolSound == Spec => []NoProtocolError
BY IInvSound, IInvInit, IInvNext, PTL DEF Spec

(* Structured concurrency: a completed evaluation has no frame, item or     *)
(* host call left.                                                          *)
THEOREM CompletionLeavesNothing == Spec => []NothingLeftBehind
<1>1. IInv => NothingLeftBehind
  BY DEF IInv
<1> QED
  BY <1>1, IInvInit, IInvNext, PTL DEF Spec
=============================================================================
