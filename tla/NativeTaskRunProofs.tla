------------------------ MODULE NativeTaskRunProofs ------------------------
(***************************************************************************)
(* Proofs about the natives that call back into the evaluator, for calls   *)
(* with arguments of any length and callbacks that compute anything.       *)
(*                                                                         *)
(* The state of a running native is a function of little: of a fan-out, of *)
(* which children are still out (Slots); of a sequential task, of the      *)
(* element it has come to.  The inductive invariant says which function,   *)
(* and how many callbacks have been asked for by then.                     *)
(***************************************************************************)
EXTENDS NativeTaskRun, TLAPS, FiniteSetTheorems, WellFoundedInduction

\* What the prelude answers to a call.
Asked(c) == SchedulerNative(c[1], c[2])

UnaryKinds == {"ApplyUnary", "UnaryMap", "UnaryFilter", "UnaryFilterMap", "UnaryFlatMap"}

SequentialKinds ==
    Searches \cup FoldKinds \cup Equalities \cup {"Sum", "Mean"} \cup UnaryKinds

\* The slots of a fan-out task when the children `out` have not returned.
Slots(t, out) ==
    [i \in 1..Len(t.args) |-> IF i \in out THEN Missing ELSE Apply(t.func, t.args[i])]

\* A fan-out task with these slots.
Partly(t, output, remaining) ==
    [kind |-> t.kind, func |-> t.func, args |-> t.args, keys |-> t.keys,
     entries |-> t.entries, children |-> [i \in 1..Len(t.args) |-> i],
     output |-> output, remaining |-> remaining]

Filled(t) == Partly(t, Calling(t.func, t.args), 0)

\* A sequential task on its way.
At(t, state, index, acc, step) ==
    [kind |-> t.kind, func |-> t.func, values |-> t.values, other |-> t.other, acc |-> acc,
     state |-> state, next_index |-> index, step |-> step]

\* The result for element i ends a search.
Decides(t, i) ==
    IF t.kind = "All" THEN ~Holds(Apply(t.func, t.values[i]))
    ELSE Holds(Apply(t.func, t.values[i]))

Deciding(t) == {i \in 1..Len(t.values) : Decides(t, i)}

Differing(t) == {i \in 1..Len(t.values) : t.values[i] # t.other[i]}

\* The number of callbacks a task asks for.
Cost(t) ==
    CASE t.kind \in FanOutKinds -> Len(t.args)
      [] t.kind \in Searches    ->
             IF Deciding(t) = {} THEN Len(t.values) ELSE Least(Deciding(t))
      [] t.kind \in FoldKinds   -> 2 * Len(t.values)
      [] t.kind \in Equalities  ->
             IF Len(t.values) # Len(t.other) THEN 0
             ELSE 2 * (IF Differing(t) = {} THEN Len(t.values) ELSE Least(Differing(t)))
      [] t.kind = "Sum"         -> IF t.values = <<>> THEN 1 ELSE 2 * (Len(t.values) - 1)
      [] t.kind = "Mean"        -> 2 * Len(t.values)
      [] OTHER                  -> 1

SearchAnswer(t) ==
    LET found == Deciding(t) # {}
        first == Least(Deciding(t))
    IN  CASE t.kind = "Any"  -> BoolValue(found)
          [] t.kind = "All"  -> BoolValue(~found)
          [] t.kind = "Find" -> IF found THEN Some(t.values[first]) ELSE None
          [] OTHER           -> IF found THEN Some(IntValue(first - 1)) ELSE None

UnaryAnswer(t) == UnaryReceive(t, Apply(t.func, t.acc)).step.value

\* What a fold, a sum or a mean has made of its first k elements.
FoldedTo(t, k) ==
    CASE t.kind = "FoldLeft"  -> Folded(t.func, t.acc, t.values, TRUE)[k]
      [] t.kind = "FoldRight" -> Folded(t.func, t.acc, t.values, FALSE)[k]
      [] OTHER -> Folded(Overloaded("+"), Head(t.values), Tail(t.values), TRUE)[k - 1]

\* The function it folds with, applied to the first of its two arguments, and
\* the second one, when k elements are behind it.
HalfApplied(t, k) ==
    Apply(IF t.kind \in FoldKinds THEN t.func ELSE Overloaded("+"),
          IF t.kind = "FoldRight" THEN t.values[Len(t.values) - k] ELSE FoldedTo(t, k))

SecondArgument(t, k) == IF t.kind = "FoldRight" THEN FoldedTo(t, k) ELSE t.values[k + 1]

\* A mean about to be divided by the number of its elements.
Averaging(t) == Apply(Overloaded("/"), FoldedTo(t, Len(t.values)))

SumAnswer(t) == IF t.values = <<>> THEN <<"var", "zero">> ELSE FoldedTo(t, Len(t.values))

MeanAnswer(t) == Apply(Averaging(t), IntValue(Len(t.values)))

\* What a task returns.
Answers(t, value) ==
    CASE t.kind \in FanOutKinds -> value = Finish(Filled(t))
      [] t.kind \in Searches    -> value = SearchAnswer(t)
      [] t.kind \in Equalities  -> value = BoolValue((t.values = t.other) <=> (t.kind = "ArrayEq"))
      [] t.kind \in UnaryKinds  -> value = UnaryAnswer(t)
      [] t.kind \in FoldKinds   -> value = FoldedTo(t, Len(t.values))
      [] t.kind = "Sum"         -> value = SumAnswer(t)
      [] OTHER                  -> value = MeanAnswer(t)

\* The only child is the last one, and returns v.
OneChild(v) == DOMAIN children = {next_id - 1} /\ children[next_id - 1] = v

FanOutRuns(t) ==
    LET out == DOMAIN children
    IN  /\ out # {} /\ out \subseteq 1..Len(t.args)
        /\ task = Partly(t, Slots(t, out), Cardinality(out))
        /\ \A i \in out : children[i] = Apply(t.func, t.args[i])
        /\ applied = Len(t.args)

SearchRuns(t) ==
    LET k == task.next_index
    IN  /\ k \in 0..Len(t.values) - 1
        /\ task = At(t, "Enter", k, t.acc, Missing)
        /\ OneChild(Apply(t.func, t.values[k + 1]))
        /\ applied = k + 1
        /\ \A i \in 1..k : ~Decides(t, i)

FoldRuns(t) ==
    LET k == task.next_index
    IN  /\ k \in 0..Len(t.values) - 1
        /\ task = At(t, task.state, k, FoldedTo(t, k), task.step)
        /\ \/ /\ task.state = "ApplyFirst" /\ applied = 2 * k + 1
              /\ OneChild(HalfApplied(t, k))
           \/ /\ task.state = "ApplySecond" /\ applied = 2 * k + 2
              /\ OneChild(FoldedTo(t, k + 1))

EqualityRuns(t) ==
    LET k == task.next_index
    IN  /\ k \in 0..Len(t.values) - 1
        /\ Len(t.values) = Len(t.other)
        /\ task = At(t, task.state, k, t.acc, task.step)
        /\ \A i \in 1..k : t.values[i] = t.other[i]
        /\ \/ /\ task.state = "ApplyFirst" /\ applied = 2 * k + 1
              /\ OneChild(Apply(Overloaded("=="), t.values[k + 1]))
           \/ /\ task.state = "ApplySecond" /\ applied = 2 * k + 2
              /\ OneChild(BoolValue(t.values[k + 1] = t.other[k + 1]))

SumRuns(t) ==
    LET k == task.next_index
    IN  /\ task = At(t, task.state, k, task.acc, task.step)
        /\ \/ /\ t.values = <<>> /\ task.state = "Enter" /\ applied = 1
              /\ OneChild(<<"var", "zero">>)
           \/ /\ k \in 1..Len(t.values) - 1
              /\ \/ /\ task.state = "ApplyFirst" /\ applied = 2 * k - 1
                    /\ OneChild(HalfApplied(t, k))
                 \/ /\ task.state = "ApplySecond" /\ applied = 2 * k
                    /\ OneChild(FoldedTo(t, k + 1))

MeanRuns(t) ==
    LET k == task.next_index
    IN  /\ task = At(t, task.state, k, task.acc, task.step)
        /\ \/ /\ k \in 1..Len(t.values) - 1
              /\ \/ /\ task.state = "ApplyPlusFirst" /\ applied = 2 * k - 1
                    /\ OneChild(HalfApplied(t, k))
                 \/ /\ task.state = "ApplyPlusSecond" /\ applied = 2 * k
                    /\ OneChild(FoldedTo(t, k + 1))
           \/ /\ k = Len(t.values)
              /\ \/ /\ task.state = "ApplyDivFirst" /\ applied = 2 * k - 1
                    /\ OneChild(Averaging(t))
                 \/ /\ task.state = "ApplyDivSecond" /\ applied = 2 * k
                    /\ OneChild(MeanAnswer(t))

UnaryRuns(t) == task = t /\ applied = 1 /\ OneChild(Apply(t.func, t.acc))

\* A task that has asked for callbacks and not returned.
Runs(t) ==
    CASE t.kind \in FanOutKinds -> FanOutRuns(t)
      [] t.kind \in Searches    -> SearchRuns(t)
      [] t.kind \in FoldKinds   -> FoldRuns(t)
      [] t.kind \in Equalities  -> EqualityRuns(t)
      [] t.kind = "Sum"         -> SumRuns(t)
      [] t.kind = "Mean"        -> MeanRuns(t)
      [] OTHER                  -> UnaryRuns(t)

Ended(t) ==
    /\ status = "returned" /\ DOMAIN children = {}
    /\ applied = Cost(t) /\ Answers(t, result)

IInv ==
    /\ call \in Calls /\ next_id \in Nat \ {0} /\ applied \in Nat
    /\ \/ status = "enter" /\ children = <<>> /\ next_id = 1 /\ applied = 0
       \/ Asked(call).op = "Task" /\ status = "running" /\ Runs(Asked(call).task)
       \/ Asked(call).op = "Task" /\ Ended(Asked(call).task)
       \/ /\ Asked(call).op # "Task" /\ children = <<>> /\ applied = 0
          /\ status = IF Asked(call).op = "Ready" THEN "returned" ELSE "failed"
          /\ result = IF Asked(call).op = "Ready" THEN Asked(call).value
                      ELSE <<"error", Asked(call).error>>

-----------------------------------------------------------------------------
(* Sequences, least elements and the keys of a dictionary.                  *)

\* What is used of a sequence.
LEMMA SequenceFacts ==
    ASSUME NEW s, IsSequence(s)
    PROVE  /\ Len(s) \in Nat /\ DOMAIN s = 1..Len(s) /\ s = [i \in 1..Len(s) |-> s[i]]
           /\ s = <<>> <=> Len(s) = 0
BY DEF IsSequence

\* A function on an interval is a sequence.
LEMMA IntervalIsSequence ==
    ASSUME NEW n \in Nat, NEW s, s = [i \in 1..n |-> s[i]]
    PROVE  IsSequence(s) /\ Len(s) = n
<1>1. s \in [1..n -> Range(s)]
  BY DEF Range
<1>. QED  BY <1>1 DEF IsSequence

\* A set of numbers that is not empty has a least element.
LEMMA LeastExists ==
    ASSUME NEW S, S \subseteq Nat, S # {}
    PROVE  Least(S) \in S /\ \A j \in S : Least(S) <= j
<1>1. PICK x \in S : \A y \in S : ~(<<y, x>> \in OpToRel(<, Nat))
  BY NatLessThanWellFounded, WFMin
<1>2. ASSUME NEW y \in S
      PROVE  x <= y
  <2>1. ~(<<y, x>> \in OpToRel(<, Nat))
    BY <1>1
  <2>2. ~(y < x)
    BY <2>1 DEF OpToRel
  <2>. QED  BY <2>2
<1>. QED  BY <1>2 DEF Least

\* The least element is the one below the others.
LEMMA LeastIs ==
    ASSUME NEW S, S \subseteq Nat, NEW k \in S, \A j \in S : k <= j
    PROVE  Least(S) = k
<1>1. Least(S) \in S /\ Least(S) <= k
  BY LeastExists
<1>2. Least(S) \in Nat /\ k \in Nat /\ k <= Least(S)
  BY <1>1
<1>. QED  BY <1>1, <1>2

-----------------------------------------------------------------------------
(* Loops.  A recursive function is the function its definition describes:   *)
(* there is one such function up to every step.                             *)

\* What becomes of one element.
KeepStep(s, W, kept, n) == IF n \in W THEN Append(kept, s[n]) ELSE kept

\* Keeping is its loop.
LEMMA KeepingLoop ==
    ASSUME NEW s, Len(s) \in Nat, NEW W
    PROVE  \E kept :
               /\ kept = [n \in 0..Len(s) |->
                           IF n = 0 THEN <<>> ELSE KeepStep(s, W, kept[n - 1], n)]
               /\ Keeping(s, W) = kept[Len(s)]
<1>. DEFINE N == Len(s)
            Loop(g, m) ==
                g = [n \in 0..m |-> IF n = 0 THEN <<>> ELSE KeepStep(s, W, g[n - 1], n)]
            B == {m \in 0..N : ~\E g : Loop(g, m)}
            rec == CHOOSE g : Loop(g, N)
<1>1. N \in Nat
  OBVIOUS
<1>2. Keeping(s, W) = rec[N]
  BY DEF Keeping, KeepStep
<1>3. B = {}
  <2>. SUFFICES ASSUME B # {} PROVE FALSE
    OBVIOUS
  <2>1. B \subseteq Nat
    BY <1>1
  <2>2. PICK m : m \in B /\ \A k \in B : m <= k
    <3>. HIDE DEF B
    <3>. QED  BY <2>1, LeastExists
  <2>3. m \in 0..N /\ ~\E g : Loop(g, m)
    BY <2>2
  <2>4. CASE m = 0
    <3>. DEFINE g == [n \in 0..0 |-> <<>>]
    <3>1. Loop(g, 0)
      OBVIOUS
    <3>. QED  BY <2>3, <2>4, <3>1
  <2>5. CASE m # 0
    <3>1. m - 1 \in 0..N /\ m \in Nat /\ m - 1 \notin B
      <4>1. m - 1 \in 0..N /\ ~(m <= m - 1) /\ m \in Nat
        BY <1>1, <2>3, <2>5
      <4>. HIDE DEF B
      <4>. QED  BY <2>2, <4>1
    <3>2. PICK g : Loop(g, m - 1)
      BY <3>1
    <3>. DEFINE h == [n \in 0..m |-> IF n = m THEN KeepStep(s, W, g[m - 1], m) ELSE g[n]]
    <3>3. ASSUME NEW n \in 0..m
          PROVE  h[n] = IF n = 0 THEN <<>> ELSE KeepStep(s, W, h[n - 1], n)
      <4>1. CASE n = m
        <5>1. h[n] = KeepStep(s, W, g[m - 1], m) /\ h[n - 1] = g[m - 1]
          BY <2>5, <3>1, <4>1
        <5>. HIDE DEF h
        <5>. QED  BY <2>5, <4>1, <5>1
      <4>2. CASE n # m
        <5>1. n \in 0..m - 1 /\ h[n] = g[n] /\ (n # 0 => h[n - 1] = g[n - 1])
          BY <3>1, <4>2
        <5>2. g[n] = IF n = 0 THEN <<>> ELSE KeepStep(s, W, g[n - 1], n)
          BY <3>2, <5>1
        <5>. HIDE DEF h
        <5>. QED  BY <5>1, <5>2
      <4>. QED  BY <4>1, <4>2
    <3>4. Loop(h, m)
      BY <3>3
    <3>. QED  BY <2>3, <3>4
  <2>. QED  BY <2>4, <2>5
<1>4. Loop(rec, N)
  <2>1. \E g : Loop(g, N)
    BY <1>1, <1>3
  <2>. QED  BY <2>1
<1>. QED  BY <1>2, <1>4

\* What a fold does with one element.
FoldStep(f, s, left, acc, n) ==
    IF left THEN Apply2(f, acc, s[n]) ELSE Apply2(f, s[Len(s) - n + 1], acc)

\* Folded is its loop.
LEMMA FoldedLoop ==
    ASSUME NEW f, NEW start, NEW s, Len(s) \in Nat, NEW left
    PROVE  \E acc :
               /\ acc = [n \in 0..Len(s) |->
                          IF n = 0 THEN start ELSE FoldStep(f, s, left, acc[n - 1], n)]
               /\ Folded(f, start, s, left) = acc
<1>. DEFINE N == Len(s)
            Loop(g, m) ==
                g = [n \in 0..m |-> IF n = 0 THEN start ELSE FoldStep(f, s, left, g[n - 1], n)]
            B == {m \in 0..N : ~\E g : Loop(g, m)}
            rec == CHOOSE g : Loop(g, N)
<1>1. N \in Nat
  OBVIOUS
<1>2. Folded(f, start, s, left) = rec
  BY DEF Folded, FoldStep
<1>3. B = {}
  <2>. SUFFICES ASSUME B # {} PROVE FALSE
    OBVIOUS
  <2>1. B \subseteq Nat
    BY <1>1
  <2>2. PICK m : m \in B /\ \A k \in B : m <= k
    <3>. HIDE DEF B
    <3>. QED  BY <2>1, LeastExists
  <2>3. m \in 0..N /\ ~\E g : Loop(g, m)
    BY <2>2
  <2>4. CASE m = 0
    <3>. DEFINE g == [n \in 0..0 |-> start]
    <3>1. Loop(g, 0)
      OBVIOUS
    <3>. QED  BY <2>3, <2>4, <3>1
  <2>5. CASE m # 0
    <3>1. m - 1 \in 0..N /\ m \in Nat /\ m - 1 \notin B
      <4>1. m - 1 \in 0..N /\ ~(m <= m - 1) /\ m \in Nat
        BY <1>1, <2>3, <2>5
      <4>. HIDE DEF B
      <4>. QED  BY <2>2, <4>1
    <3>2. PICK g : Loop(g, m - 1)
      BY <3>1
    <3>. DEFINE h == [n \in 0..m |-> IF n = m THEN FoldStep(f, s, left, g[m - 1], m) ELSE g[n]]
    <3>3. ASSUME NEW n \in 0..m
          PROVE  h[n] = IF n = 0 THEN start ELSE FoldStep(f, s, left, h[n - 1], n)
      <4>1. CASE n = m
        <5>1. h[n] = FoldStep(f, s, left, g[m - 1], m) /\ h[n - 1] = g[m - 1]
          BY <2>5, <3>1, <4>1
        <5>. HIDE DEF h
        <5>. QED  BY <2>5, <4>1, <5>1
      <4>2. CASE n # m
        <5>1. n \in 0..m - 1 /\ h[n] = g[n] /\ (n # 0 => h[n - 1] = g[n - 1])
          BY <3>1, <4>2
        <5>2. g[n] = IF n = 0 THEN start ELSE FoldStep(f, s, left, g[n - 1], n)
          BY <3>2, <5>1
        <5>. HIDE DEF h
        <5>. QED  BY <5>1, <5>2
      <4>. QED  BY <4>1, <4>2
    <3>4. Loop(h, m)
      BY <3>3
    <3>. QED  BY <2>3, <3>4
  <2>. QED  BY <2>4, <2>5
<1>4. Loop(rec, N)
  <2>1. \E g : Loop(g, N)
    BY <1>1, <1>3
  <2>. QED  BY <2>1
<1>. QED  BY <1>2, <1>4

\* What one more pair does to the dictionary.
InsertStep(results, dict, n) == Insert(dict, results[n][2][1][2], results[n][2][2])

\* EntriesInOrder is its loop.
LEMMA EntriesLoop ==
    ASSUME NEW results, Len(results) \in Nat
    PROVE  \E dict :
               /\ dict = [n \in 0..Len(results) |->
                           IF n = 0 THEN EmptyDict ELSE InsertStep(results, dict[n - 1], n)]
               /\ EntriesInOrder(results) = dict[Len(results)]
<1>. DEFINE N == Len(results)
            Loop(g, m) ==
                g = [n \in 0..m |-> IF n = 0 THEN EmptyDict ELSE InsertStep(results, g[n - 1], n)]
            B == {m \in 0..N : ~\E g : Loop(g, m)}
            rec == CHOOSE g : Loop(g, N)
<1>1. N \in Nat
  OBVIOUS
<1>2. EntriesInOrder(results) = rec[N]
  BY DEF EntriesInOrder, InsertStep
<1>3. B = {}
  <2>. SUFFICES ASSUME B # {} PROVE FALSE
    OBVIOUS
  <2>1. B \subseteq Nat
    BY <1>1
  <2>2. PICK m : m \in B /\ \A k \in B : m <= k
    <3>. HIDE DEF B
    <3>. QED  BY <2>1, LeastExists
  <2>3. m \in 0..N /\ ~\E g : Loop(g, m)
    BY <2>2
  <2>4. CASE m = 0
    <3>. DEFINE g == [n \in 0..0 |-> EmptyDict]
    <3>1. Loop(g, 0)
      OBVIOUS
    <3>. QED  BY <2>3, <2>4, <3>1
  <2>5. CASE m # 0
    <3>1. m - 1 \in 0..N /\ m \in Nat /\ m - 1 \notin B
      <4>1. m - 1 \in 0..N /\ ~(m <= m - 1) /\ m \in Nat
        BY <1>1, <2>3, <2>5
      <4>. HIDE DEF B
      <4>. QED  BY <2>2, <4>1
    <3>2. PICK g : Loop(g, m - 1)
      BY <3>1
    <3>. DEFINE h == [n \in 0..m |-> IF n = m THEN InsertStep(results, g[m - 1], m) ELSE g[n]]
    <3>3. ASSUME NEW n \in 0..m
          PROVE  h[n] = IF n = 0 THEN EmptyDict ELSE InsertStep(results, h[n - 1], n)
      <4>1. CASE n = m
        <5>1. h[n] = InsertStep(results, g[m - 1], m) /\ h[n - 1] = g[m - 1]
          BY <2>5, <3>1, <4>1
        <5>. HIDE DEF h
        <5>. QED  BY <2>5, <4>1, <5>1
      <4>2. CASE n # m
        <5>1. n \in 0..m - 1 /\ h[n] = g[n] /\ (n # 0 => h[n - 1] = g[n - 1])
          BY <3>1, <4>2
        <5>2. g[n] = IF n = 0 THEN EmptyDict ELSE InsertStep(results, g[n - 1], n)
          BY <3>2, <5>1
        <5>. HIDE DEF h
        <5>. QED  BY <5>1, <5>2
      <4>. QED  BY <4>1, <4>2
    <3>4. Loop(h, m)
      BY <3>3
    <3>. QED  BY <2>3, <3>4
  <2>. QED  BY <2>4, <2>5
<1>4. Loop(rec, N)
  <2>1. \E g : Loop(g, N)
    BY <1>1, <1>3
  <2>. QED  BY <2>1
<1>. QED  BY <1>2, <1>4

-----------------------------------------------------------------------------
(* Elements by their rank.                                                  *)

Rank(S, k) == Cardinality({j \in S : j <= k})

\* The elements of a finite set of integers are numbered in their order.
LEMMA NthFacts ==
    ASSUME NEW S, IsFiniteSet(S), S \subseteq Int
    PROVE  /\ Cardinality(S) \in Nat
           /\ \A k \in S : Rank(S, k) \in 1..Cardinality(S) /\ Nth(S, Rank(S, k)) = k
           /\ \A i \in 1..Cardinality(S) : Nth(S, i) \in S /\ Rank(S, Nth(S, i)) = i
           /\ \A k, l \in S : k < l => Rank(S, k) < Rank(S, l)
<1>. DEFINE n == Cardinality(S)
<1>1. n \in Nat
  BY FS_CardinalityType
<1>2. \A i : Nth(S, i) = CHOOSE k \in S : Rank(S, k) = i
  BY DEF Nth, Rank
<1>3. ASSUME NEW k \in S PROVE Rank(S, k) \in 1..n
  <2>. DEFINE below == {j \in S : j <= k}
  <2>1. below \in SUBSET S /\ k \in below
    OBVIOUS
  <2>2. Rank(S, k) = Cardinality(below)
    BY DEF Rank
  <2>. HIDE DEF below
  <2>3. IsFiniteSet(below) /\ Cardinality(below) <= n
    BY <2>1, FS_Subset
  <2>4. Cardinality(below) \in Nat /\ Cardinality(below) # 0
    BY <2>1, <2>3, FS_CardinalityType, FS_EmptySet
  <2>. QED  BY <1>1, <2>2, <2>3, <2>4
<1>4. ASSUME NEW k \in S, NEW l \in S, k < l PROVE Rank(S, k) < Rank(S, l)
  <2>. DEFINE low == {j \in S : j <= k}
              high == {j \in S : j <= l}
  <2>1. low \in SUBSET high /\ l \in high /\ l \notin low /\ high \in SUBSET S
    <3>1. \A j \in S : j <= k => j <= l
      BY <1>4
    <3>2. l <= l /\ ~(l <= k)
      BY <1>4
    <3>. QED  BY <3>1, <3>2, Zenon
  <2>2. Rank(S, k) = Cardinality(low) /\ Rank(S, l) = Cardinality(high)
    BY DEF Rank
  <2>. HIDE DEF low, high
  <2>3. IsFiniteSet(high)
    BY <2>1, FS_Subset
  <2>4. /\ IsFiniteSet(low) /\ Cardinality(low) <= Cardinality(high)
        /\ Cardinality(low) # Cardinality(high)
    BY <2>1, <2>3, FS_Subset
  <2>5. Cardinality(low) \in Nat /\ Cardinality(high) \in Nat
    BY <2>3, <2>4, FS_CardinalityType
  <2>. QED  BY <2>2, <2>4, <2>5
<1>5. ASSUME NEW k \in S, NEW l \in S, Rank(S, k) = Rank(S, l) PROVE k = l
  <2>1. k \in Int /\ l \in Int /\ Rank(S, k) \in Int
    BY <1>1, <1>3
  <2>2. ~(k < l) /\ ~(l < k)
    BY <1>4, <1>5, <2>1
  <2>. QED  BY <2>1, <2>2
<1>6. ASSUME NEW k \in S PROVE Nth(S, Rank(S, k)) = k
  BY <1>2, <1>5
<1>7. \A i \in 1..n : \E k \in S : Rank(S, k) = i
  <2>. DEFINE f == [k \in S |-> Rank(S, k)]
  <2>1. f \in Injection(S, 1..n)
    BY <1>3, <1>5 DEF Injection, IsInjective
  <2>2. IsFiniteSet(1..n) /\ Cardinality(1..n) = n
    BY <1>1, FS_Interval
  <2>. HIDE DEF f
  <2>3. f \in Surjection(S, 1..n)
    BY <2>1, <2>2, FS_Injection
  <2>4. \A i \in 1..n : \E k \in S : f[k] = i
    BY <2>3 DEF Surjection
  <2>. QED  BY <2>4 DEF f
<1>8. ASSUME NEW i \in 1..n PROVE Nth(S, i) \in S /\ Rank(S, Nth(S, i)) = i
  BY <1>2, <1>7
<1>. QED  BY <1>1, <1>3, <1>4, <1>6, <1>8

\* Nth once more: the element with that rank.
LEMMA NthIs ==
    ASSUME NEW S, IsFiniteSet(S), S \subseteq Int, NEW k \in S, NEW i, Rank(S, k) = i
    PROVE  Nth(S, i) = k
BY NthFacts

\* A finite set of integers that is not empty has a greatest element.
LEMMA GreatestExists ==
    ASSUME NEW S, IsFiniteSet(S), S \subseteq Int, S # {}
    PROVE  Greatest(S) \in S /\ \A j \in S : Greatest(S) >= j
<1>. DEFINE n == Cardinality(S)
            top == Nth(S, n)
<1>1. n \in Nat /\ n # 0
  BY FS_CardinalityType, FS_EmptySet
<1>2. top \in S /\ Rank(S, top) = n
  <2>1. n \in 1..n
    BY <1>1
  <2>. HIDE DEF n
  <2>2. n = Cardinality(S)
    BY DEF n
  <2>. QED  BY <2>1, <2>2, NthFacts
<1>3. ASSUME NEW j \in S PROVE top >= j
  <2>1. Rank(S, j) \in 1..n /\ (top < j => Rank(S, top) < Rank(S, j))
    BY <1>2, NthFacts
  <2>2. ~(top < j)
    BY <1>1, <1>2, <2>1
  <2>3. top \in Int /\ j \in Int
    BY <1>2
  <2>. HIDE DEF top
  <2>. QED  BY <2>2, <2>3
<1>. HIDE DEF top
<1>. QED  BY <1>2, <1>3 DEF Greatest

\* Keeping the elements one after the other keeps those at the positions W.
LEMMA SelectedIsKeeping ==
    ASSUME NEW s, Len(s) \in Nat, NEW W, W \subseteq 1..Len(s)
    PROVE  Selected(s, W) = Keeping(s, W)
<1>. DEFINE N == Len(s)
            Upto(m) == W \cap 1..m
<1>1. PICK kept : /\ kept = [n \in 0..N |-> IF n = 0 THEN <<>> ELSE KeepStep(s, W, kept[n - 1], n)]
                  /\ Keeping(s, W) = kept[N]
  BY KeepingLoop
<1>2. \A m \in 0..N : IsFiniteSet(Upto(m)) /\ Upto(m) \subseteq Int
  <2>. SUFFICES ASSUME NEW m \in 0..N PROVE IsFiniteSet(Upto(m)) /\ Upto(m) \subseteq Int
    OBVIOUS
  <2>1. IsFiniteSet(1..m) /\ Upto(m) \in SUBSET (1..m)
    BY FS_Interval
  <2>. HIDE DEF Upto
  <2>2. IsFiniteSet(Upto(m))
    BY <2>1, FS_Subset
  <2>. QED  BY <2>1, <2>2
<1>3. Selected(s, Upto(0)) = <<>>
  <2>1. Upto(0) = {}
    OBVIOUS
  <2>. HIDE DEF Upto
  <2>2. Cardinality({}) = 0
    BY FS_EmptySet
  <2>3. Selected(s, {}) = [j \in 1..0 |-> s[Nth({}, j)]]
    BY <2>2 DEF Selected
  <2>4. Selected(s, {}) = <<>>
    BY <2>3
  <2>. QED  BY <2>1, <2>4
<1>4. ASSUME NEW m \in 1..N, m \in W
      PROVE  Selected(s, Upto(m)) = Append(Selected(s, Upto(m - 1)), s[m])
  <2>. DEFINE V == Upto(m - 1)
              U == Upto(m)
              c == Cardinality(V)
  <2>1. U = V \cup {m} /\ m \notin V /\ m \in U /\ \A x \in V : x < m
    BY <1>4
  <2>2. IsFiniteSet(V) /\ V \subseteq Int /\ IsFiniteSet(U) /\ U \subseteq Int
    BY <1>2
  <2>. HIDE DEF U, V
  <2>3. c \in Nat /\ Cardinality(U) = c + 1
    BY <2>1, <2>2, FS_CardinalityType, FS_AddElement
  <2>4. ASSUME NEW j \in 1..c PROVE Nth(U, j) = Nth(V, j)
    <3>1. PICK x \in V : x = Nth(V, j) /\ Rank(V, x) = j
      BY <2>2, NthFacts
    <3>2. {y \in U : y <= x} = {y \in V : y <= x}
      <4>1. ~(m <= x)
        BY <2>1, <2>2, <3>1
      <4>. QED  BY <2>1, <4>1
    <3>3. Rank(U, x) = j
      BY <3>1, <3>2 DEF Rank
    <3>4. x \in U
      BY <2>1
    <3>. QED  BY <2>2, <3>1, <3>3, <3>4, NthIs
  <2>5. Nth(U, c + 1) = m
    <3>1. {y \in U : y <= m} = U
      <4>1. \A y \in U : y <= m
        BY <2>1, <2>2
      <4>. QED  BY <4>1, Zenon
    <3>2. Rank(U, m) = c + 1
      BY <2>3, <3>1 DEF Rank
    <3>. QED  BY <2>1, <2>2, <3>2, NthIs
  <2>. DEFINE q == Selected(s, V)
  <2>6. q = [j \in 1..c |-> s[Nth(V, j)]]
    BY DEF Selected
  <2>7. Selected(s, U) = [j \in 1..c + 1 |-> s[Nth(U, j)]]
    BY <2>3 DEF Selected
  <2>. HIDE DEF q, c
  <2>8. IsSequence(q) /\ Len(q) = c
    <3>1. q = [j \in 1..c |-> q[j]]
      BY <2>6
    <3>. QED  BY <2>3, <3>1, IntervalIsSequence
  <2>9. Append(q, s[m]) = [j \in 1..c + 1 |-> IF j = c + 1 THEN s[m] ELSE q[j]]
    BY <2>3, <2>8 DEF IsSequence
  <2>10. ASSUME NEW j \in 1..c + 1
         PROVE  s[Nth(U, j)] = IF j = c + 1 THEN s[m] ELSE q[j]
    <3>1. CASE j = c + 1
      BY <2>5, <3>1
    <3>2. CASE j # c + 1
      <4>1. j \in 1..c
        BY <2>3, <3>2
      <4>2. Nth(U, j) = Nth(V, j) /\ q[j] = s[Nth(V, j)]
        BY <2>4, <2>6, <4>1 DEF c
      <4>. QED  BY <3>2, <4>2
    <3>. QED  BY <3>1, <3>2
  <2>11. Selected(s, U) = Append(q, s[m])
    BY <2>7, <2>9, <2>10
  <2>. QED  BY <2>11 DEF q, U, V
<1>5. ASSUME NEW m \in 1..N, m \notin W PROVE Upto(m) = Upto(m - 1)
  <2>1. 1..m = (1..m - 1) \cup {m}
    OBVIOUS
  <2>. QED  BY <1>5, <2>1
<1>. DEFINE Wrong == {m \in 0..N : kept[m] # Selected(s, Upto(m))}
<1>. HIDE DEF Upto
<1>6. Wrong = {}
  <2>. SUFFICES ASSUME Wrong # {} PROVE FALSE
    OBVIOUS
  <2>1. Wrong \subseteq Nat
    OBVIOUS
  <2>2. PICK m : m \in Wrong /\ \A k \in Wrong : m <= k
    <3>. HIDE DEF Wrong
    <3>. QED  BY <2>1, LeastExists
  <2>3. m \in 0..N /\ kept[m] # Selected(s, Upto(m))
    BY <2>2
  <2>4. m # 0
    BY <1>1, <1>3, <2>3
  <2>5. m \in 1..N /\ m - 1 \in 0..N /\ ~(m <= m - 1)
    BY <2>3, <2>4
  <2>6. kept[m - 1] = Selected(s, Upto(m - 1))
    BY <2>2, <2>5
  <2>7. kept[m] = KeepStep(s, W, kept[m - 1], m)
    BY <1>1, <2>4, <2>5
  <2>. QED  BY <1>4, <1>5, <2>3, <2>5, <2>6, <2>7 DEF KeepStep
<1>7. Upto(N) = W
  BY DEF Upto
<1>8. kept[N] = Selected(s, Upto(N))
  BY <1>6
<1>. QED  BY <1>1, <1>7, <1>8

\* Entries inserted one after the other: there is one for every key, and the
\* last with its key stays.
LEMMA EntriesFacts ==
    ASSUME NEW results, Len(results) \in Nat
    PROVE  LET N == Len(results)
               dict == EntriesInOrder(results)
               Key(i) == results[i][2][1][2]
           IN  /\ dict = [k \in {Key(i) : i \in 1..N} |-> dict[k]]
               /\ \A i \in 1..N : (\A j \in 1..N : j > i => Key(j) # Key(i))
                                      => dict[Key(i)] = results[i][2][2]
<1>. DEFINE N == Len(results)
            Key(i) == results[i][2][1][2]
            Value(i) == results[i][2][2]
            Keys(m) == {Key(i) : i \in 1..m}
            Final(i, m) == \A j \in 1..m : j > i => Key(j) # Key(i)
<1>1. PICK dict : /\ dict = [n \in 0..N |-> IF n = 0 THEN EmptyDict
                                            ELSE Insert(dict[n - 1], Key(n), Value(n))]
                  /\ EntriesInOrder(results) = dict[N]
  BY EntriesLoop DEF InsertStep
<1>. DEFINE Right(m) == /\ dict[m] = [k \in Keys(m) |-> dict[m][k]]
                        /\ \A i \in 1..m : Final(i, m) => dict[m][Key(i)] = Value(i)
            Wrong == {m \in 0..N : ~Right(m)}
<1>2. Right(0)
  <2>1. dict[0] = [k \in {} |-> 0]
    BY <1>1 DEF EmptyDict
  <2>2. Keys(0) = {}
    OBVIOUS
  <2>. HIDE DEF Key, Value
  <2>. QED  BY <2>1, <2>2
<1>3. ASSUME NEW m \in 1..N, Right(m - 1) PROVE Right(m)
  <2>1. dict[m] = Insert(dict[m - 1], Key(m), Value(m))
    BY <1>1
  <2>. HIDE DEF Key, Value
  <2>2. DOMAIN dict[m - 1] = Keys(m - 1)
    BY <1>3
  <2>3. Keys(m) = Keys(m - 1) \cup {Key(m)}
    <3>1. 1..m = (1..m - 1) \cup {m}
      OBVIOUS
    <3>. QED  BY <3>1
  <2>4. dict[m] = [k \in Keys(m) |-> IF k = Key(m) THEN Value(m) ELSE dict[m - 1][k]]
    <3>. HIDE DEF Keys
    <3>. QED  BY <2>1, <2>2, <2>3 DEF Insert
  <2>5. dict[m] = [k \in Keys(m) |-> dict[m][k]]
    <3>. HIDE DEF Keys
    <3>. QED  BY <2>4
  <2>6. ASSUME NEW i \in 1..m, Final(i, m) PROVE dict[m][Key(i)] = Value(i)
    <3>1. Key(i) \in Keys(m)
      OBVIOUS
    <3>2. CASE i = m
      <4>. HIDE DEF Keys
      <4>. QED  BY <2>4, <3>1, <3>2
    <3>3. CASE i # m
      <4>1. i \in 1..m - 1 /\ Key(i) # Key(m)
        BY <2>6, <3>3
      <4>2. Final(i, m - 1)
        BY <2>6
      <4>3. dict[m - 1][Key(i)] = Value(i)
        BY <1>3, <4>1, <4>2
      <4>. HIDE DEF Keys
      <4>. QED  BY <2>4, <3>1, <4>1, <4>3
    <3>. QED  BY <3>2, <3>3
  <2>. QED  BY <2>5, <2>6
<1>. HIDE DEF Right
<1>4. Wrong = {}
  <2>. SUFFICES ASSUME Wrong # {} PROVE FALSE
    OBVIOUS
  <2>1. Wrong \subseteq Nat
    OBVIOUS
  <2>2. PICK m : m \in Wrong /\ \A k \in Wrong : m <= k
    <3>. HIDE DEF Wrong
    <3>. QED  BY <2>1, LeastExists
  <2>3. m \in 0..N /\ ~Right(m) /\ m # 0
    BY <1>2, <2>2
  <2>4. m \in 1..N /\ m - 1 \in 0..N /\ ~(m <= m - 1)
    BY <2>3
  <2>5. Right(m - 1)
    BY <2>2, <2>4
  <2>. QED  BY <1>3, <2>3, <2>4, <2>5
<1>5. Right(N)
  BY <1>4
<1>6. /\ dict[N] = [k \in Keys(N) |-> dict[N][k]]
      /\ \A i \in 1..N : Final(i, N) => dict[N][Key(i)] = Value(i)
  BY <1>5 DEF Right
<1>. QED  BY <1>1, <1>6

\* A dictionary has as many keys as its domain has elements.
LEMMA KeysCounted ==
    ASSUME NEW d, IsFiniteSet(DOMAIN d)
    PROVE  /\ Cardinality(DOMAIN d) \in Nat
           /\ IsSequence(KeysOf(d)) /\ Len(KeysOf(d)) = Cardinality(DOMAIN d)
           /\ IsSequence(EntriesOf(d)) /\ Len(EntriesOf(d)) = Cardinality(DOMAIN d)
           /\ IsSequence(PairsOf(d)) /\ Len(PairsOf(d)) = Cardinality(DOMAIN d)
<1>. DEFINE n == Cardinality(DOMAIN d)
<1>1. n \in Nat
  BY FS_CardinalityType
<1>. HIDE DEF n
<1>2. KeysOf(d) = [i \in 1..n |-> KeysOf(d)[i]]
  BY DEF KeysOf, n
<1>3. IsSequence(KeysOf(d)) /\ Len(KeysOf(d)) = n
  BY <1>1, <1>2, IntervalIsSequence
<1>4. EntriesOf(d) = [i \in 1..n |-> EntriesOf(d)[i]]
  BY <1>3 DEF EntriesOf
<1>5. IsSequence(EntriesOf(d)) /\ Len(EntriesOf(d)) = n
  BY <1>1, <1>4, IntervalIsSequence
<1>6. PairsOf(d) = [i \in 1..n |-> PairsOf(d)[i]]
  BY <1>3 DEF PairsOf
<1>7. IsSequence(PairsOf(d)) /\ Len(PairsOf(d)) = n
  BY <1>1, <1>6, IntervalIsSequence
<1>. QED  BY <1>1, <1>3, <1>5, <1>7 DEF n

-----------------------------------------------------------------------------
(* The tasks the prelude builds.                                            *)

FanOutTask(t) ==
    /\ t = FanOut(t.kind, t.func, t.args, t.keys, t.entries)
    /\ t.kind \in FanOutKinds /\ IsSequence(t.args)

SequentialTask(t) ==
    /\ t = Sequential(t.kind, t.func, t.values, t.other, t.acc)
    /\ t.kind \in SequentialKinds
    /\ t.kind \notin UnaryKinds => IsSequence(t.values)
    /\ t.kind \in Equalities => IsSequence(t.other)
    /\ t.kind = "Mean" => t.values # <<>>

WellBuilt(answer) ==
    /\ answer.op \in {"Task", "Ready", "Error"}
    /\ answer.op = "Task" => FanOutTask(answer.task) \/ SequentialTask(answer.task)

\* No task is of two kinds.
LEMMA KindsDisjoint ==
    ASSUME NEW kind
    PROVE  /\ kind \in FanOutKinds => kind \notin SequentialKinds
           /\ kind \in Searches => kind \notin FoldKinds \cup Equalities \cup {"Sum", "Mean"} \cup UnaryKinds
           /\ kind \in FoldKinds => kind \notin Equalities \cup {"Sum", "Mean"} \cup UnaryKinds
           /\ kind \in Equalities => kind \notin {"Sum", "Mean"} \cup UnaryKinds
           /\ kind \in {"Sum", "Mean"} => kind \notin UnaryKinds
BY DEF FanOutKinds, Predicates, OptionCallbacks, SequentialKinds, Searches, FoldKinds, Equalities,
       UnaryKinds

LEMMA FanOutBuilt ==
    ASSUME NEW kind \in FanOutKinds, NEW func, NEW args, NEW keys, NEW entries, IsSequence(args)
    PROVE  WellBuilt(Task(FanOut(kind, func, args, keys, entries)))
BY DEF WellBuilt, FanOutTask, FanOut, Task

LEMMA SequentialBuilt ==
    ASSUME NEW kind \in SequentialKinds, NEW func, NEW values, NEW other, NEW acc,
           kind \notin UnaryKinds => IsSequence(values),
           kind \in Equalities => IsSequence(other),
           kind = "Mean" => values # <<>>
    PROVE  WellBuilt(Task(Sequential(kind, func, values, other, acc)))
BY DEF WellBuilt, SequentialTask, Sequential, Task

LEMMA AnsweredAtOnce ==
    ASSUME NEW x
    PROVE  WellBuilt(Ready(x)) /\ WellBuilt(NoTask(x))
BY DEF WellBuilt, Ready, NoTask

LEMMA ContainerBuilt ==
    ASSUME NEW listKind \in FanOutKinds, NEW unaryKind \in UnaryKinds, NEW func, NEW v,
           v[1] = "list" => IsSequence(v[2])
    PROVE  WellBuilt(OverContainer(listKind, unaryKind, func, v))
<1>1. unaryKind \in SequentialKinds /\ unaryKind \notin Equalities /\ unaryKind # "Mean"
  BY DEF SequentialKinds, UnaryKinds, Equalities
<1>2. CASE v[1] = "list"
  BY <1>2, FanOutBuilt DEF OverContainer
<1>3. CASE v[1] # "list" /\ v[2] \in {"None", "Err"}
  BY <1>3, AnsweredAtOnce DEF OverContainer
<1>4. CASE v[1] # "list" /\ v[2] \notin {"None", "Err"}
  <2>. DEFINE other == CASE unaryKind = "UnaryFilter" -> v
                         [] OTHER -> IF IsOption(v) THEN "Option" ELSE "Result"
  <2>1. OverContainer(listKind, unaryKind, func, v)
            = Task(Sequential(unaryKind, func, <<>>, other, v[3][1]))
    BY <1>4, Zenon DEF OverContainer
  <2>. HIDE DEF other
  <2>. QED  BY <2>1, <1>1, SequentialBuilt
<1>. QED  BY <1>2, <1>3, <1>4

\* The elements of what can be folded.
LEMMA ElementsFacts ==
    ASSUME NEW v, IsList(v) \/ IsOptional(v)
    PROVE  IsSequence(Elements(v))
<1>1. CASE IsList(v)
  BY <1>1 DEF IsList, Elements
<1>2. CASE IsOptional(v)
  <2>1. IsSequence(<<>>)
    BY DEF IsSequence
  <2>2. ASSUME NEW x PROVE IsSequence(<<x>>)
    BY DEF IsSequence, Range
  <2>3. v[1] = "adt" /\ (v[3] = <<>> \/ v[3] = <<v[3][1]>>)
    BY <1>2 DEF IsOptional, None, Some, AdtValue
  <2>. QED  BY <2>1, <2>2, <2>3 DEF Elements
<1>. QED  BY <1>1, <1>2

\* Every call of the prelude's natives is answered with a task of one of the
\* two sorts, a value or an error.
LEMMA Built ==
    ASSUME NEW c \in Calls
    PROVE  /\ WellBuilt(Asked(c))
           /\ Asked(c).op = "Task" => CallbacksTyped(Asked(c).task)
<1>. DEFINE name == c[1]
            args == c[2]
<1>1. /\ name \in CallbackNatives /\ ArgumentsTyped(name, args)
      /\ Asked(c).op = "Task" => CallbacksTyped(Asked(c).task)
  BY CallsAssumption DEF Asked
<1>2. Asked(c) = SchedulerNative(name, args)
  BY DEF Asked
<1>. HIDE DEF name, args
<1>3. CASE name \in {"prim_map", "prim_filter", "prim_filter_map", "prim_flat_map"}
  <2>1. args[2][1] = "list" => IsSequence(args[2][2])
    BY <1>1, <1>3 DEF ArgumentsTyped, IsList, IsOptional, IsOutcome
  <2>2. /\ "SequenceMap" \in FanOutKinds /\ "SequenceFilter" \in FanOutKinds
        /\ "SequenceFilterMap" \in FanOutKinds /\ "SequenceFlatMap" \in FanOutKinds
    BY DEF FanOutKinds, Predicates, OptionCallbacks
  <2>3. /\ "UnaryMap" \in UnaryKinds /\ "UnaryFilter" \in UnaryKinds
        /\ "UnaryFilterMap" \in UnaryKinds /\ "UnaryFlatMap" \in UnaryKinds
    BY DEF UnaryKinds
  <2>4. CASE name = "prim_map"
    <3>1. Asked(c) = OverContainer("SequenceMap", "UnaryMap", args[1], args[2])
      BY <2>4, <1>2 DEF SchedulerNative, PrimMap
    <3>. QED  BY <3>1, <1>1, <2>1, <2>2, <2>3, ContainerBuilt
  <2>5. CASE name = "prim_filter"
    <3>1. Asked(c) = OverContainer("SequenceFilter", "UnaryFilter", args[1], args[2])
      BY <2>5, <1>2 DEF SchedulerNative, PrimFilter
    <3>. QED  BY <3>1, <1>1, <2>1, <2>2, <2>3, ContainerBuilt
  <2>6. CASE name = "prim_filter_map"
    <3>1. Asked(c) = OverContainer("SequenceFilterMap", "UnaryFilterMap", args[1], args[2])
      BY <2>6, <1>2 DEF SchedulerNative, PrimFilterMap
    <3>. QED  BY <3>1, <1>1, <2>1, <2>2, <2>3, ContainerBuilt
  <2>7. CASE name = "prim_flat_map"
    <3>1. Asked(c) = OverContainer("SequenceFlatMap", "UnaryFlatMap", args[1], args[2])
      BY <2>7, <1>2 DEF SchedulerNative, PrimFlatMap
    <3>. QED  BY <3>1, <1>1, <2>1, <2>2, <2>3, ContainerBuilt
  <2>. QED  BY <1>3, <1>1, <2>4, <2>5, <2>6, <2>7
<1>4. CASE name = "prim_or_else"
  <2>1. Asked(c) = OrElse(args[1], args[2])
    BY <1>2, <1>4 DEF SchedulerNative
  <2>2. "ApplyUnary" \in SequentialKinds \cap UnaryKinds /\ "ApplyUnary" \notin Equalities
    BY DEF SequentialKinds, UnaryKinds, Equalities
  <2>3. WellBuilt(Task(Sequential("ApplyUnary", args[1], <<>>, Missing, args[2])))
    BY <2>2, SequentialBuilt
  <2>. QED  BY <1>1, <2>1, <2>3, AnsweredAtOnce DEF OrElse
<1>5. CASE name \in {"list_any", "list_all", "list_find", "list_find_index"}
  <2>1. IsSequence(args[2][2])
    BY <1>1, <1>5 DEF ArgumentsTyped, IsList
  <2>2. \A k \in {"Any", "All", "Find", "FindIndex"} :
            k \in SequentialKinds /\ k \notin UnaryKinds /\ k \notin Equalities /\ k # "Mean"
    BY DEF SequentialKinds, Searches, UnaryKinds, Equalities
  <2>3. \A k \in {"Any", "All", "Find", "FindIndex"} : WellBuilt(ListSearch(k, args[1], args[2]))
    BY <2>1, <2>2, SequentialBuilt DEF ListSearch
  <2>. QED  BY <1>1, <1>2, <1>5, <2>3 DEF SchedulerNative
<1>6. CASE name \in {"list_count", "list_partition"}
  <2>1. IsSequence(args[2][2])
    BY <1>1, <1>6 DEF ArgumentsTyped, IsList
  <2>2. "Count" \in FanOutKinds /\ "Partition" \in FanOutKinds
    BY DEF FanOutKinds, Predicates
  <2>3. \A k \in {"Count", "Partition"} : WellBuilt(ListPredicate(k, args[1], args[2]))
    BY <2>1, <2>2, FanOutBuilt DEF ListPredicate
  <2>. QED  BY <1>1, <1>2, <1>6, <2>3 DEF SchedulerNative
<1>7. CASE name \in {"prim_foldl", "prim_fold", "prim_foldr"}
  <2>1. IsSequence(Elements(args[3]))
    BY <1>1, <1>7, ElementsFacts DEF ArgumentsTyped
  <2>2. \A k \in FoldKinds :
            k \in SequentialKinds /\ k \notin UnaryKinds /\ k \notin Equalities /\ k # "Mean"
    BY DEF SequentialKinds, FoldKinds, UnaryKinds, Equalities
  <2>3. /\ WellBuilt(PrimFoldLeft(args[1], args[2], args[3]))
        /\ WellBuilt(PrimFoldRight(args[1], args[2], args[3]))
    BY <2>1, <2>2, SequentialBuilt DEF PrimFoldLeft, PrimFoldRight, FoldKinds
  <2>. QED  BY <1>1, <1>2, <1>7, <2>3 DEF SchedulerNative
<1>8. CASE name \in {"prim_list_eq", "prim_list_ne"}
  <2>1. IsSequence(args[1][2]) /\ IsSequence(args[2][2])
    BY <1>1, <1>8 DEF ArgumentsTyped, IsList
  <2>2. \A k \in Equalities : k \in SequentialKinds /\ k \notin UnaryKinds /\ k # "Mean"
    BY DEF SequentialKinds, UnaryKinds, Equalities
  <2>3. \A k \in Equalities : WellBuilt(PrimListEq(k, args[1], args[2]))
    BY <2>1, <2>2, SequentialBuilt DEF PrimListEq
  <2>. QED  BY <1>1, <1>2, <1>8, <2>3 DEF SchedulerNative, Equalities
<1>9. CASE name \in {"sum", "mean"}
  <2>1. IsSequence(Elements(args[1]))
    BY <1>1, <1>9, ElementsFacts DEF ArgumentsTyped
  <2>2. \A k \in {"Sum", "Mean"} : k \in SequentialKinds /\ k \notin UnaryKinds /\ k \notin Equalities
    BY DEF SequentialKinds, UnaryKinds, Equalities
  <2>3. WellBuilt(Sum(args[1]))
    BY <2>1, <2>2, SequentialBuilt DEF Sum
  <2>4. WellBuilt(Mean(args[1]))
    BY <2>1, <2>2, SequentialBuilt, AnsweredAtOnce DEF Mean
  <2>. QED  BY <1>1, <1>2, <1>9, <2>3, <2>4 DEF SchedulerNative
<1>10. CASE name \in {"prim_dict_map", "prim_dict_filter", "prim_dict_filter_map",
                      "dict_map", "dict_filter"}
  <2>1. IsFiniteSet(DOMAIN args[2][2])
    BY <1>1, <1>10 DEF ArgumentsTyped, IsDict
  <2>2. IsSequence(EntriesOf(args[2][2])) /\ IsSequence(PairsOf(args[2][2]))
    BY <2>1, KeysCounted
  <2>3. \A k \in {"DictMap", "DictFilter", "DictFilterMap", "DictEntryMap"} : k \in FanOutKinds
    BY DEF FanOutKinds, Predicates, OptionCallbacks
  <2>4. \A k \in {"DictMap", "DictFilter", "DictFilterMap", "DictEntryMap"} :
            /\ WellBuilt(OverEntries(k, args[1], args[2][2]))
            /\ WellBuilt(OverPairs(k, args[1], args[2][2]))
    BY <2>2, <2>3, FanOutBuilt DEF OverEntries, OverPairs
  <2>. QED  BY <1>1, <1>2, <1>10, <2>4 DEF SchedulerNative
<1>11. CASE name = "dict_update"
  <2>1. ASSUME NEW x PROVE IsSequence(<<x>>)
    BY DEF IsSequence, Range
  <2>2. "DictUpdate" \in FanOutKinds
    BY DEF FanOutKinds, OptionCallbacks
  <2>3. WellBuilt(DictUpdate(args[1][2], args[2], args[3][2]))
    BY <2>1, <2>2, FanOutBuilt DEF DictUpdate
  <2>. QED  BY <1>1, <1>2, <1>11, <2>3 DEF SchedulerNative
<1>. QED
  BY <1>1, <1>3, <1>4, <1>5, <1>6, <1>7, <1>8, <1>9, <1>10, <1>11 DEF CallbackNatives

-----------------------------------------------------------------------------
(* What the evaluator makes of each step of a task.                         *)

\* The task u has asked for a callback that will return v.
Asks(u, v) ==
    /\ call' = call /\ task' = u /\ status' = "running"
    /\ next_id' = next_id + 1 /\ applied' = applied + 1
    /\ DOMAIN children' = {next_id' - 1} /\ children'[next_id' - 1] = v

\* The task has returned v; its children left are still out.
Returns(v, left) ==
    /\ call' = call /\ status' = "returned" /\ result' = v
    /\ children' = left /\ next_id' = next_id /\ applied' = applied

LEMMA TakesPush ==
    ASSUME NEW u, NEW func, NEW arg, NEW left, DOMAIN left = {}, next_id \in Nat,
           Take(Stepped(u, Push(func, arg)), left)
    PROVE  Asks(u, Apply(func, arg))
<1>. DEFINE stepped == Stepped(u, Push(func, arg))
<1>1. stepped.task = u /\ stepped.step.op = "Push"
      /\ stepped.step.func = func /\ stepped.step.arg = arg
  BY DEF Stepped, Push
<1>. HIDE DEF stepped
<1>2. Take(stepped, left)
  BY DEF stepped
<1>3. /\ call' = call /\ task' = u /\ status' = "running"
      /\ next_id' = next_id + 1 /\ applied' = applied + 1
      /\ children' = [id \in (next_id .. next_id + 1 - 1) \cup DOMAIN left |->
                         IF id \in next_id .. next_id + 1 - 1 THEN Apply(func, arg) ELSE left[id]]
  BY <1>1, <1>2 DEF Take
<1>4. (next_id .. next_id + 1 - 1) \cup DOMAIN left = {next_id} /\ next_id + 1 - 1 = next_id
  OBVIOUS
<1>. QED  BY <1>3, <1>4 DEF Asks

LEMMA TakesPushVar ==
    ASSUME NEW u, NEW name, NEW left, DOMAIN left = {}, next_id \in Nat,
           Take(Stepped(u, PushVar(name)), left)
    PROVE  Asks(u, <<"var", name>>)
<1>. DEFINE stepped == Stepped(u, PushVar(name))
<1>1. stepped.task = u /\ stepped.step.op = "PushVar" /\ stepped.step.name = name
  BY DEF Stepped, PushVar
<1>. HIDE DEF stepped
<1>2. Take(stepped, left)
  BY DEF stepped
<1>3. /\ call' = call /\ task' = u /\ status' = "running"
      /\ next_id' = next_id + 1 /\ applied' = applied + 1
      /\ children' = [id \in (next_id .. next_id + 1 - 1) \cup DOMAIN left |->
                         IF id \in next_id .. next_id + 1 - 1 THEN <<"var", name>> ELSE left[id]]
  BY <1>1, <1>2 DEF Take
<1>4. (next_id .. next_id + 1 - 1) \cup DOMAIN left = {next_id} /\ next_id + 1 - 1 = next_id
  OBVIOUS
<1>. QED  BY <1>3, <1>4 DEF Asks

LEMMA TakesReturn ==
    ASSUME NEW u, NEW value, NEW left, Take(Stepped(u, Return(value)), left)
    PROVE  Returns(value, left)
<1>. DEFINE stepped == Stepped(u, Return(value))
<1>1. stepped.step.op = "Return" /\ stepped.step.value = value
  BY DEF Stepped, Return
<1>. HIDE DEF stepped
<1>. QED  BY <1>1 DEF Take, Returns, stepped

LEMMA TakesWait ==
    ASSUME NEW u, NEW left, Take(Stepped(u, Wait), left)
    PROVE  /\ task' = u /\ children' = left
           /\ UNCHANGED <<call, status, next_id, applied, result>>
<1>. DEFINE stepped == Stepped(u, Wait)
<1>1. stepped.step.op = "Wait" /\ stepped.task = u
  BY DEF Stepped, Wait
<1>. HIDE DEF stepped
<1>. QED  BY <1>1 DEF Take, stepped

\* All children of a fan-out task start at once; the first ids are theirs.
LEMMA TakesSchedule ==
    ASSUME NEW u, IsSequence(u.args), next_id = 1, applied = 0,
           Take(Stepped(u, ScheduleAll), <<>>)
    PROVE  /\ call' = call /\ status' = "running"
           /\ task' = WithChildren(u, [i \in 1..Len(u.args) |-> i])
           /\ children' = [i \in 1..Len(u.args) |-> Apply(u.func, u.args[i])]
           /\ next_id' = Len(u.args) + 1 /\ applied' = Len(u.args)
<1>. DEFINE stepped == Stepped(u, ScheduleAll)
            n == Len(u.args)
<1>1. stepped.step.op = "Schedule" /\ stepped.task = u
  BY DEF Stepped, ScheduleAll
<1>2. n \in Nat
  BY SequenceFacts
<1>. HIDE DEF stepped
<1>3. Take(stepped, <<>>)
  BY DEF stepped
<1>4. /\ call' = call /\ status' = "running"
      /\ task' = WithChildren(u, [i \in 1..n |-> next_id + i - 1])
      /\ children' = [id \in (next_id .. next_id + n - 1) \cup DOMAIN <<>> |->
                         IF id \in next_id .. next_id + n - 1
                         THEN Apply(u.func, u.args[id - next_id + 1]) ELSE <<>>[id]]
      /\ next_id' = next_id + n /\ applied' = applied + n
  BY <1>1, <1>3 DEF Take
<1>. HIDE DEF n
<1>5. (next_id .. next_id + n - 1) \cup DOMAIN <<>> = 1..n /\ next_id .. next_id + n - 1 = 1..n
  BY <1>2
<1>6. \A i \in 1..n : i - next_id + 1 = i /\ next_id + i - 1 = i
  BY <1>2
<1>7. children' = [i \in 1..n |-> Apply(u.func, u.args[i])]
  BY <1>4, <1>5, <1>6
<1>8. [i \in 1..n |-> next_id + i - 1] = [i \in 1..n |-> i]
  BY <1>6
<1>9. next_id + n = n + 1 /\ applied + n = n
  BY <1>2
<1>. QED  BY <1>4, <1>7, <1>8, <1>9 DEF n

-----------------------------------------------------------------------------
(* Fan-out tasks.                                                           *)

\* The task has made a step: it runs on, or has ended as it should.
Steps(t) ==
    /\ call' = call /\ next_id' \in Nat \ {0} /\ applied' \in Nat
    /\ \/ status' = "running" /\ Runs(t)'
       \/ Ended(t)'

LEMMA FanOutCost ==
    ASSUME NEW t, t.kind \in FanOutKinds
    PROVE  /\ Cost(t) = Len(t.args)
           /\ \A value : Answers(t, value) <=> value = Finish(Filled(t))
           /\ Runs(t) <=> FanOutRuns(t)
           /\ Runs(t)' <=> FanOutRuns(t)'
           /\ TaskEnter(t) = FanOutEnter(t)
           /\ CallbacksTyped(t) =>
                  \A i \in DOMAIN t.args : /\ Apply(t.func, t.args[i]) # Missing
                                           /\ Accepts(t.kind, Apply(t.func, t.args[i]))
                                           /\ t.kind \in OptionCallbacks =>
                                                  IsOptional(Apply(t.func, t.args[i]))
<1>1. /\ t.kind \notin Searches /\ t.kind \notin FoldKinds /\ t.kind \notin Equalities
      /\ t.kind \notin UnaryKinds /\ t.kind # "Sum" /\ t.kind # "Mean"
  BY KindsDisjoint DEF SequentialKinds
<1>2. t.kind # "UnaryFilter" /\ t.kind # "UnaryFlatMap"
  BY <1>1 DEF UnaryKinds
<1>3. Cost(t) = Len(t.args)
  BY <1>1 DEF Cost
<1>4. ASSUME NEW value PROVE Answers(t, value) <=> value = Finish(Filled(t))
  BY <1>1 DEF Answers
<1>5. (Runs(t) <=> FanOutRuns(t)) /\ (Runs(t)' <=> FanOutRuns(t)')
  BY <1>1 DEF Runs
<1>6. TaskEnter(t) = FanOutEnter(t)
  BY <1>1 DEF TaskEnter
<1>7. CallbacksTyped(t) =>
          \A i \in DOMAIN t.args : /\ Apply(t.func, t.args[i]) # Missing
                                   /\ Accepts(t.kind, Apply(t.func, t.args[i]))
                                   /\ t.kind \in OptionCallbacks =>
                                          IsOptional(Apply(t.func, t.args[i]))
  BY <1>1, <1>2 DEF CallbacksTyped
<1>. QED  BY <1>3, <1>4, <1>5, <1>6, <1>7

(* Updates of a fan-out task.                                               *)

Opened(u, output, remaining) ==
    [u EXCEPT !.children = <<>>, !.output = output, !.remaining = remaining]

Put(u, id, value) == [u EXCEPT !.output[id] = value, !.remaining = @ - 1]

LEMMA FanOutUpdates ==
    ASSUME NEW kind, NEW func, NEW args, NEW keys, NEW entries, NEW output, NEW remaining
    PROVE  Opened(FanOut(kind, func, args, keys, entries), output, remaining) =
               [kind |-> kind, func |-> func, args |-> args, keys |-> keys, entries |-> entries,
                children |-> <<>>, output |-> output, remaining |-> remaining]
<1>. DEFINE R(o, m) == [kind |-> kind, func |-> func, args |-> args, keys |-> keys,
                        entries |-> entries, children |-> <<>>, output |-> o, remaining |-> m]
            r == R(<<>>, 0)
<1>1. FanOut(kind, func, args, keys, entries) = r
  BY DEF FanOut
<1>2. [r EXCEPT !.children = <<>>] = r
  OBVIOUS
<1>3. [r EXCEPT !.output = output] = R(output, 0)
  OBVIOUS
<1>4. [R(output, 0) EXCEPT !.remaining = remaining] = R(output, remaining)
  OBVIOUS
<1>. HIDE DEF r, R
<1>5. [r EXCEPT !.children = <<>>, !.output = output, !.remaining = remaining]
          = [[[r EXCEPT !.children = <<>>] EXCEPT !.output = output] EXCEPT !.remaining = remaining]
  OBVIOUS
<1>6. [r EXCEPT !.children = <<>>, !.output = output, !.remaining = remaining]
          = R(output, remaining)
  BY <1>2, <1>3, <1>4, <1>5
<1>. QED  BY <1>1, <1>6 DEF R, Opened

LEMMA PartlyUpdates ==
    ASSUME NEW t, NEW output, NEW remaining, NEW id, NEW value
    PROVE  Put(Partly(t, output, remaining), id, value) =
               Partly(t, [output EXCEPT ![id] = value], remaining - 1)
<1>. DEFINE c == [i \in 1..Len(t.args) |-> i]
            o == [output EXCEPT ![id] = value]
            m == remaining - 1
            R(x, y) == [kind |-> t.kind, func |-> t.func, args |-> t.args, keys |-> t.keys,
                        entries |-> t.entries, children |-> c, output |-> x, remaining |-> y]
            r == R(output, remaining)
<1>. HIDE DEF c, o, m
<1>1. r.output = output /\ r.remaining = remaining
  OBVIOUS
<1>2. [r EXCEPT !.output = o] = R(o, remaining)
  OBVIOUS
<1>3. [R(o, remaining) EXCEPT !.remaining = m] = R(o, m)
  OBVIOUS
<1>. HIDE DEF r, R
<1>4. [r EXCEPT !.output[id] = value, !.remaining = @ - 1]
          = [[r EXCEPT !.output = o] EXCEPT !.remaining = m]
  BY <1>1 DEF o, m
<1>5. [r EXCEPT !.output[id] = value, !.remaining = @ - 1] = R(o, m)
  BY <1>2, <1>3, <1>4
<1>. QED  BY <1>5, Zenon DEF r, R, Partly, c, o, m, Put

\* A task with nothing to do is full.
LEMMA NothingToFill ==
    ASSUME NEW t, FanOutTask(t), t.args = <<>>
    PROVE  t = Filled(t)
<1>1. Len(t.args) = 0
  BY SequenceFacts DEF FanOutTask
<1>2. [i \in 1..0 |-> i] = <<>> /\ [i \in 1..0 |-> Apply(t.func, t.args[i])] = <<>>
  OBVIOUS
<1>. QED  BY <1>1, <1>2 DEF FanOutTask, FanOut, Filled, Partly, Calling

LEMMA FanOutEnters ==
    ASSUME NEW t, FanOutTask(t), next_id = 1, applied = 0, Take(TaskEnter(t), <<>>)
    PROVE  Steps(t)
<1>. DEFINE n == Len(t.args)
<1>1. n \in Nat /\ (t.args = <<>> <=> n = 0)
  BY SequenceFacts DEF FanOutTask
<1>2. t.kind \in FanOutKinds
  BY DEF FanOutTask
<1>. HIDE DEF n
<1>3. CASE t.args = <<>>
  <2>1. TaskEnter(t) = Stepped(t, Return(Finish(t)))
    BY <1>2, <1>3, FanOutCost DEF FanOutEnter
  <2>2. Returns(Finish(t), <<>>)
    BY <2>1, TakesReturn
  <2>3. t = Filled(t)
    BY <1>3, NothingToFill
  <2>4. DOMAIN <<>> = {}
    OBVIOUS
  <2>5. Answers(t, Finish(t)) /\ Cost(t) = 0
    BY <1>1, <1>2, <1>3, <2>3, FanOutCost DEF n
  <2>6. status' = "returned" /\ DOMAIN children' = {} /\ applied' = Cost(t) /\ Answers(t, result')
    BY <2>2, <2>4, <2>5 DEF Returns
  <2>. QED  BY <2>2, <2>6 DEF Steps, Ended, Returns
<1>4. CASE t.args # <<>>
  <2>. DEFINE u == [t EXCEPT !.children = <<>>, !.output = [i \in 1..n |-> Missing],
                             !.remaining = n]
  <2>1. TaskEnter(t) = Stepped(u, ScheduleAll)
    BY <1>2, <1>4, FanOutCost DEF FanOutEnter, n
  <2>2. u = [kind |-> t.kind, func |-> t.func, args |-> t.args, keys |-> t.keys,
             entries |-> t.entries, children |-> <<>>, output |-> [i \in 1..n |-> Missing],
             remaining |-> n]
    <3>. DEFINE r == FanOut(t.kind, t.func, t.args, t.keys, t.entries)
                output == [i \in 1..n |-> Missing]
    <3>1. t = r
      BY DEF FanOutTask
    <3>2. u = Opened(t, output, n)
      BY DEF Opened
    <3>. HIDE DEF u, output
    <3>3. Opened(r, output, n)
              = [kind |-> t.kind, func |-> t.func, args |-> t.args, keys |-> t.keys,
                 entries |-> t.entries, children |-> <<>>, output |-> output, remaining |-> n]
      BY FanOutUpdates
    <3>. HIDE DEF r
    <3>. QED  BY <3>1, <3>2, <3>3 DEF output
  <2>3. u.args = t.args /\ u.func = t.func
    BY <2>2
  <2>. HIDE DEF u
  <2>4. IsSequence(u.args)
    BY <2>3 DEF FanOutTask
  <2>5. Take(Stepped(u, ScheduleAll), <<>>)
    BY <2>1
  <2>6. /\ call' = call /\ status' = "running"
        /\ task' = WithChildren(u, [i \in 1..n |-> i])
        /\ children' = [i \in 1..n |-> Apply(t.func, t.args[i])]
        /\ next_id' = n + 1 /\ applied' = n
    BY <2>3, <2>4, <2>5, TakesSchedule DEF n
  <2>7. DOMAIN children' = 1..n /\ \A i \in 1..n : children'[i] = Apply(t.func, t.args[i])
    BY <2>6
  <2>8. Slots(t, 1..n) = [i \in 1..n |-> Missing] /\ Cardinality(1..n) = n
    <3>1. Slots(t, 1..n) = [i \in 1..n |-> Missing]
      BY DEF Slots, n
    <3>2. Cardinality(1..n) = IF 1 > n THEN 0 ELSE n - 1 + 1
      BY <1>1, FS_Interval
    <3>. QED  BY <1>1, <3>1, <3>2
  <2>9. task' = Partly(t, Slots(t, 1..n), Cardinality(1..n))
    BY <2>2, <2>6, <2>8 DEF WithChildren, Partly, n
  <2>10. FanOutRuns(t)'
    BY <1>1, <1>4, <2>6, <2>7, <2>9 DEF FanOutRuns, n
  <2>. QED  BY <1>1, <1>2, <2>6, <2>10, FanOutCost DEF Steps
<1>. QED  BY <1>3, <1>4

\* A result goes to its own slot, which was empty, and the last one completes
\* the task.
LEMMA FanOutReceives ==
    ASSUME NEW t, FanOutTask(t), CallbacksTyped(t), FanOutRuns(t), status = "running",
           next_id \in Nat \ {0}, NEW id \in DOMAIN children,
           Take(TaskReceive(task, id, children[id]),
                [other \in DOMAIN children \ {id} |-> children[other]])
    PROVE  Steps(t)
<1>. DEFINE n == Len(t.args)
            out == DOMAIN children
            rest == out \ {id}
            left == [other \in rest |-> children[other]]
            value == Apply(t.func, t.args[id])
<1>1. n \in Nat /\ t.kind \in FanOutKinds /\ DOMAIN t.args = 1..n
  BY SequenceFacts DEF FanOutTask
<1>2. /\ out # {} /\ out \subseteq 1..n
      /\ task = Partly(t, Slots(t, out), Cardinality(out))
      /\ \A i \in out : children[i] = Apply(t.func, t.args[i])
      /\ applied = n
  BY DEF FanOutRuns
<1>3. id \in 1..n /\ children[id] = value
  BY <1>2
<1>4. value # Missing /\ Accepts(t.kind, value)
  BY <1>1, <1>3, FanOutCost
<1>5. IsFiniteSet(out) /\ Cardinality(out) \in Nat
  <2>1. IsFiniteSet(1..n)
    BY <1>1, FS_Interval
  <2>2. IsFiniteSet(out)
    BY <2>1, <1>2, FS_Subset
  <2>. QED  BY <2>2, FS_CardinalityType
<1>6. IsFiniteSet(rest) /\ Cardinality(rest) = Cardinality(out) - 1
  BY <1>5, FS_RemoveElement
<1>7. Cardinality(rest) \in Nat /\ (Cardinality(rest) = 0 <=> rest = {})
  BY <1>6, FS_CardinalityType, FS_EmptySet
<1>. DEFINE stored == Partly(t, Slots(t, rest), Cardinality(rest))
<1>8. TaskReceive(task, id, children[id]) =
          Stepped(stored, IF Cardinality(rest) = 0 THEN Return(Finish(stored)) ELSE Wait)
  <2>. DEFINE u == Partly(t, Slots(t, out), Cardinality(out))
              slots == {i \in 1..Len(u.children) : u.children[i] = id}
  <2>1. u.kind = t.kind /\ u.children = [i \in 1..n |-> i] /\ u.output = Slots(t, out)
        /\ u.remaining = Cardinality(out)
    BY DEF Partly
  <2>2. Len([i \in 1..n |-> i]) = n
    BY <1>1
  <2>3. slots = {id}
    BY <1>3, <2>1, <2>2
  <2>4. (CHOOSE i \in slots : TRUE) = id
    BY <2>3
  <2>5. u.output[id] = Missing
    BY <1>3, <2>1 DEF Slots
  <2>6. [Slots(t, out) EXCEPT ![id] = value] = Slots(t, rest)
    BY <1>3 DEF Slots
  <2>7. [u EXCEPT !.output[id] = value, !.remaining = @ - 1] = stored
    <3>1. Put(u, id, value) = Partly(t, [Slots(t, out) EXCEPT ![id] = value], Cardinality(out) - 1)
      BY PartlyUpdates
    <3>. HIDE DEF u, value
    <3>. QED  BY <3>1, <2>6, <1>6 DEF Put
  <2>8. stored.remaining = Cardinality(rest)
    BY DEF Partly
  <2>9. TaskReceive(task, id, children[id]) = FanOutReceive(u, id, value)
    <3>1. /\ u.kind \in FanOutKinds /\ u.kind \notin Searches /\ u.kind \notin FoldKinds
          /\ u.kind \notin Equalities /\ u.kind # "Sum" /\ u.kind # "Mean"
      BY <1>1, <2>1, KindsDisjoint DEF SequentialKinds
    <3>. HIDE DEF u
    <3>2. TaskReceive(u, id, value) = FanOutReceive(u, id, value)
      BY <3>1 DEF TaskReceive
    <3>. QED  BY <3>2, <1>2, <1>3 DEF u
  <2>. HIDE DEF u, stored, rest, value
  <2>. QED  BY <1>4, <2>1, <2>3, <2>4, <2>5, <2>7, <2>8, <2>9 DEF FanOutReceive
<1>. HIDE DEF stored
<1>9. Take(TaskReceive(task, id, children[id]), left)
  OBVIOUS
<1>10. CASE Cardinality(rest) = 0
  <2>1. Returns(Finish(stored), left)
    BY <1>8, <1>9, <1>10, TakesReturn
  <2>2. rest = {}
    BY <1>7, <1>10
  <2>3. Slots(t, {}) = Calling(t.func, t.args)
    BY DEF Slots, Calling
  <2>4. stored = Filled(t)
    BY <2>2, <2>3, <1>10 DEF stored, Filled
  <2>5. DOMAIN left = {}
    BY <2>2
  <2>6. status' = "returned" /\ DOMAIN children' = {} /\ applied' = Cost(t) /\ Answers(t, result')
    BY <2>1, <2>4, <2>5, <1>1, <1>2, FanOutCost DEF Returns
  <2>. QED  BY <2>1, <2>6, <1>1, <1>2 DEF Steps, Ended, Returns
<1>11. CASE Cardinality(rest) # 0
  <2>1. task' = stored /\ children' = left /\ UNCHANGED <<call, status, next_id, applied, result>>
    BY <1>8, <1>9, <1>11, TakesWait
  <2>2. DOMAIN children' = rest /\ rest # {} /\ \A i \in rest : children'[i] = children[i]
    BY <2>1, <1>7, <1>11
  <2>3. FanOutRuns(t)'
    BY <2>1, <2>2, <1>2 DEF FanOutRuns, stored
  <2>. QED  BY <2>1, <2>3, <1>1, <1>2, FanOutCost DEF Steps
<1>. QED  BY <1>10, <1>11

-----------------------------------------------------------------------------
(* Sequential tasks.                                                        *)

\* The fields of a task on its way.
LEMMA AtFields ==
    ASSUME NEW t, NEW s, NEW k, NEW a, NEW p
    PROVE  LET u == At(t, s, k, a, p)
           IN  /\ u.kind = t.kind /\ u.func = t.func /\ u.values = t.values /\ u.other = t.other
               /\ u.acc = a /\ u.state = s /\ u.next_index = k /\ u.step = p
BY DEF At

(* The updates the tasks make.                                              *)

MoveOn(u) == [u EXCEPT !.next_index = @ + 1]

Restart(u, w) == [u EXCEPT !.state = w, !.next_index = 0]

Store(u, y, w) == [u EXCEPT !.step = y, !.state = w]

Move(u, x, y, w) == [u EXCEPT !.acc = x, !.step = y, !.next_index = @ + 1, !.state = w]

MovePair(u, y, w) == [u EXCEPT !.step = y, !.next_index = @ + 1, !.state = w]

Begin(u, x, w) == [u EXCEPT !.acc = x, !.next_index = 1, !.state = w]

LEMMA MovedOn ==
    ASSUME NEW t, NEW s, NEW k, NEW a, NEW p
    PROVE  MoveOn(At(t, s, k, a, p)) = At(t, s, k + 1, a, p)
<1>. DEFINE r == At(t, s, k, a, p)
<1>1. r.next_index = k
  BY AtFields
<1>. HIDE DEF r
<1>2. [r EXCEPT !.next_index = @ + 1]
          = [r EXCEPT !.next_index = k + 1]
  BY <1>1
<1>3. [r EXCEPT !.next_index = k + 1] = At(t, s, k + 1, a, p)
  BY DEF At, r
<1>. QED  BY <1>2, <1>3 DEF r, MoveOn

LEMMA Restarted ==
    ASSUME NEW t, NEW s, NEW k, NEW a, NEW p, NEW w
    PROVE  Restart(At(t, s, k, a, p), w) = At(t, w, 0, a, p)
<1>. DEFINE r == At(t, s, k, a, p)
<1>1. r.next_index = k
  BY AtFields
<1>. HIDE DEF r
<1>2. [r EXCEPT !.state = w, !.next_index = 0]
          = [[r EXCEPT !.state = w] EXCEPT !.next_index = 0]
  BY <1>1
<1>3. [r EXCEPT !.state = w] = At(t, w, k, a, p)
  BY DEF At, r
<1>4. [At(t, w, k, a, p) EXCEPT !.next_index = 0] = At(t, w, 0, a, p)
  BY DEF At
<1>. QED  BY <1>2, <1>3, <1>4 DEF r, Restart

LEMMA Stored ==
    ASSUME NEW t, NEW s, NEW k, NEW a, NEW p, NEW y, NEW w
    PROVE  Store(At(t, s, k, a, p), y, w) = At(t, w, k, a, y)
<1>. DEFINE r == At(t, s, k, a, p)
<1>1. r.next_index = k
  BY AtFields
<1>. HIDE DEF r
<1>2. [r EXCEPT !.step = y, !.state = w]
          = [[r EXCEPT !.step = y] EXCEPT !.state = w]
  BY <1>1
<1>3. [r EXCEPT !.step = y] = At(t, s, k, a, y)
  BY DEF At, r
<1>4. [At(t, s, k, a, y) EXCEPT !.state = w] = At(t, w, k, a, y)
  BY DEF At
<1>. QED  BY <1>2, <1>3, <1>4 DEF r, Store

LEMMA NextElement ==
    ASSUME NEW t, NEW s, NEW k, NEW a, NEW p, NEW x, NEW y, NEW w
    PROVE  Move(At(t, s, k, a, p), x, y, w) = At(t, w, k + 1, x, y)
<1>. DEFINE r == At(t, s, k, a, p)
<1>1. r.next_index = k
  BY AtFields
<1>. HIDE DEF r
<1>2. [r EXCEPT !.acc = x, !.step = y, !.next_index = @ + 1, !.state = w]
          = [[[[r EXCEPT !.acc = x] EXCEPT !.step = y] EXCEPT !.next_index = k + 1] EXCEPT !.state = w]
  BY <1>1
<1>3. [r EXCEPT !.acc = x] = At(t, s, k, x, p)
  BY DEF At, r
<1>4. [At(t, s, k, x, p) EXCEPT !.step = y] = At(t, s, k, x, y)
  BY DEF At
<1>5. [At(t, s, k, x, y) EXCEPT !.next_index = k + 1] = At(t, s, k + 1, x, y)
  BY DEF At
<1>6. [At(t, s, k + 1, x, y) EXCEPT !.state = w] = At(t, w, k + 1, x, y)
  BY DEF At
<1>. QED  BY <1>2, <1>3, <1>4, <1>5, <1>6 DEF r, Move

LEMMA NextPair ==
    ASSUME NEW t, NEW s, NEW k, NEW a, NEW p, NEW y, NEW w
    PROVE  MovePair(At(t, s, k, a, p), y, w) = At(t, w, k + 1, a, y)
<1>. DEFINE r == At(t, s, k, a, p)
<1>1. r.next_index = k
  BY AtFields
<1>. HIDE DEF r
<1>2. [r EXCEPT !.step = y, !.next_index = @ + 1, !.state = w]
          = [[[r EXCEPT !.step = y] EXCEPT !.next_index = k + 1] EXCEPT !.state = w]
  BY <1>1
<1>3. [r EXCEPT !.step = y] = At(t, s, k, a, y)
  BY DEF At, r
<1>4. [At(t, s, k, a, y) EXCEPT !.next_index = k + 1] = At(t, s, k + 1, a, y)
  BY DEF At
<1>5. [At(t, s, k + 1, a, y) EXCEPT !.state = w] = At(t, w, k + 1, a, y)
  BY DEF At
<1>. QED  BY <1>2, <1>3, <1>4, <1>5 DEF r, MovePair

LEMMA Begun ==
    ASSUME NEW t, NEW s, NEW k, NEW a, NEW p, NEW x, NEW w
    PROVE  Begin(At(t, s, k, a, p), x, w) = At(t, w, 1, x, p)
<1>. DEFINE r == At(t, s, k, a, p)
<1>1. r.next_index = k
  BY AtFields
<1>. HIDE DEF r
<1>2. [r EXCEPT !.acc = x, !.next_index = 1, !.state = w]
          = [[[r EXCEPT !.acc = x] EXCEPT !.next_index = 1] EXCEPT !.state = w]
  BY <1>1
<1>3. [r EXCEPT !.acc = x] = At(t, s, k, x, p)
  BY DEF At, r
<1>4. [At(t, s, k, x, p) EXCEPT !.next_index = 1] = At(t, s, 1, x, p)
  BY DEF At
<1>5. [At(t, s, 1, x, p) EXCEPT !.state = w] = At(t, w, 1, x, p)
  BY DEF At
<1>. QED  BY <1>2, <1>3, <1>4, <1>5 DEF r, Begin

LEMMA StartsAt ==
    ASSUME NEW t, SequentialTask(t)
    PROVE  t = At(t, "Enter", 0, t.acc, Missing)
BY DEF SequentialTask, Sequential, At

(* any, all, find, find_index                                               *)

LEMMA SearchFacts ==
    ASSUME NEW t, t.kind \in Searches
    PROVE  /\ Cost(t) = IF Deciding(t) = {} THEN Len(t.values) ELSE Least(Deciding(t))
           /\ \A value : Answers(t, value) <=> value = SearchAnswer(t)
           /\ Runs(t) <=> SearchRuns(t)
           /\ Runs(t)' <=> SearchRuns(t)'
           /\ TaskEnter(t) = ListSearchEnter(t)
           /\ \A id, value : TaskReceive(t, id, value) = ListSearchReceive(t, value)
           /\ CallbacksTyped(t) => \A i \in DOMAIN t.values : Apply(t.func, t.values[i])[1] = "bool"
<1>1. /\ t.kind \notin FanOutKinds /\ t.kind \notin FoldKinds /\ t.kind \notin Equalities
      /\ t.kind \notin UnaryKinds /\ t.kind # "Sum" /\ t.kind # "Mean"
  BY KindsDisjoint DEF SequentialKinds
<1>2. t.kind # "UnaryFilter" /\ t.kind # "UnaryFlatMap"
  BY <1>1 DEF UnaryKinds
<1>3. Cost(t) = IF Deciding(t) = {} THEN Len(t.values) ELSE Least(Deciding(t))
  BY <1>1 DEF Cost
<1>4. ASSUME NEW value PROVE Answers(t, value) <=> value = SearchAnswer(t)
  BY <1>1 DEF Answers
<1>5. (Runs(t) <=> SearchRuns(t)) /\ (Runs(t)' <=> SearchRuns(t)')
  BY <1>1 DEF Runs
<1>6. TaskEnter(t) = ListSearchEnter(t)
  BY <1>1 DEF TaskEnter
<1>7. ASSUME NEW id, NEW value PROVE TaskReceive(t, id, value) = ListSearchReceive(t, value)
  BY <1>1 DEF TaskReceive
<1>8. CallbacksTyped(t) => \A i \in DOMAIN t.values : Apply(t.func, t.values[i])[1] = "bool"
  BY <1>1, <1>2 DEF CallbacksTyped
<1>. QED  BY <1>3, <1>4, <1>5, <1>6, <1>7, <1>8

\* A search that has found nothing and has nothing left.
LEMMA SearchExhausted ==
    ASSUME NEW t, t.kind \in Searches, Deciding(t) = {}
    PROVE  Exhausted(t) = Return(SearchAnswer(t))
BY DEF Exhausted, SearchAnswer, Searches

LEMMA SearchEnters ==
    ASSUME NEW t, SequentialTask(t), t.kind \in Searches, next_id = 1, applied = 0,
           Take(TaskEnter(t), <<>>)
    PROVE  Steps(t)
<1>. DEFINE n == Len(t.values)
<1>1. n \in Nat /\ (t.values = <<>> <=> n = 0)
  BY SequenceFacts, KindsDisjoint DEF SequentialTask
<1>2. t = At(t, "Enter", 0, t.acc, Missing)
  BY StartsAt
<1>3. t.next_index = 0
  BY <1>2, AtFields
<1>4. TaskEnter(t) = Stepped(t, IF t.values = <<>> THEN Exhausted(t) ELSE Push(t.func, Current(t)))
  BY SearchFacts DEF ListSearchEnter
<1>5. DOMAIN <<>> = {}
  OBVIOUS
<1>6. CASE n = 0
  <2>1. Deciding(t) = {}
    BY <1>6 DEF Deciding
  <2>2. Returns(SearchAnswer(t), <<>>)
    BY <1>1, <1>4, <1>6, <2>1, SearchExhausted, TakesReturn
  <2>3. status' = "returned" /\ DOMAIN children' = {} /\ applied' = Cost(t) /\ Answers(t, result')
    BY <1>5, <1>6, <2>1, <2>2, SearchFacts DEF Returns
  <2>. QED  BY <2>2, <2>3 DEF Steps, Ended, Returns
<1>7. CASE n # 0
  <2>1. Current(t) = t.values[1]
    BY <1>3 DEF Current
  <2>2. Asks(t, Apply(t.func, t.values[1]))
    BY <1>1, <1>4, <1>5, <1>7, <2>1, TakesPush
  <2>3. task'.next_index = 0 /\ task' = At(t, "Enter", 0, t.acc, Missing) /\ applied' = 1
    BY <1>2, <1>3, <2>2 DEF Asks
  <2>4. SearchRuns(t)'
    BY <1>1, <1>7, <2>2, <2>3 DEF SearchRuns, OneChild, Asks
  <2>. QED  BY <2>2, <2>4, SearchFacts DEF Steps, Asks
<1>. QED  BY <1>6, <1>7

LEMMA SearchReceives ==
    ASSUME NEW t, SequentialTask(t), t.kind \in Searches, CallbacksTyped(t), SearchRuns(t),
           next_id \in Nat \ {0}, NEW id \in DOMAIN children, NEW left, DOMAIN left = {},
           Take(TaskReceive(task, id, children[id]), left)
    PROVE  Steps(t)
<1>. DEFINE n == Len(t.values)
            k == task.next_index
            v == Apply(t.func, t.values[k + 1])
            u == At(t, "Enter", k, t.acc, Missing)
            moved == At(t, "Enter", k + 1, t.acc, Missing)
<1>1. n \in Nat /\ DOMAIN t.values = 1..n
  BY SequenceFacts, KindsDisjoint DEF SequentialTask
<1>2. /\ k \in 0..n - 1 /\ task = u /\ id = next_id - 1 /\ children[id] = v
      /\ applied = k + 1 /\ \A i \in 1..k : ~Decides(t, i)
  BY DEF SearchRuns, OneChild
<1>3. k + 1 \in 1..n /\ k \in Nat
  BY <1>1, <1>2
<1>4. v[1] = "bool"
  BY <1>1, <1>3, SearchFacts
<1>5. /\ u.kind = t.kind /\ u.func = t.func /\ u.values = t.values /\ u.next_index = k
      /\ moved.values = t.values /\ moved.next_index = k + 1
  BY AtFields
<1>6. [u EXCEPT !.next_index = @ + 1] = moved
  BY MovedOn DEF MoveOn
<1>. HIDE DEF u, v, moved, n
<1>7. Take(ListSearchReceive(u, v), left)
  <2>1. TaskReceive(u, id, v) = ListSearchReceive(u, v)
    BY <1>5, SearchFacts
  <2>. QED  BY <2>1, <1>2
<1>. HIDE DEF k
<1>8. CASE Decides(t, k + 1)
  <2>1. k + 1 \in Deciding(t) /\ \A j \in Deciding(t) : k + 1 <= j
    BY <1>2, <1>3, <1>8, <1>1 DEF Deciding, n
  <2>2. Deciding(t) # {} /\ Least(Deciding(t)) = k + 1
    <3>1. Deciding(t) \subseteq Nat
      BY <1>1 DEF Deciding, n
    <3>. QED  BY <2>1, <3>1, LeastIs
  <2>3. Cost(t) = k + 1
    BY <2>2, SearchFacts
  <2>4. IF t.kind = "All" THEN ~Holds(v) ELSE Holds(v)
    BY <1>8 DEF Decides, v
  <2>5. Current(u) = t.values[k + 1] /\ k + 1 - 1 = k
    BY <1>3, <1>5 DEF Current
  <2>6. ListSearchReceive(u, v) = Stepped(u, Return(SearchAnswer(t)))
    <3>1. CASE t.kind = "Any"
      <4>1. SearchAnswer(t) = BoolValue(TRUE)
        BY <3>1, <2>2 DEF SearchAnswer
      <4>. QED  BY <4>1, <3>1, <1>4, <1>5, <2>4 DEF ListSearchReceive
    <3>2. CASE t.kind = "All"
      <4>1. SearchAnswer(t) = BoolValue(FALSE)
        BY <3>2, <2>2 DEF SearchAnswer
      <4>. QED  BY <4>1, <3>2, <1>4, <1>5, <2>4 DEF ListSearchReceive
    <3>3. CASE t.kind = "Find"
      <4>1. SearchAnswer(t) = Some(t.values[k + 1])
        BY <3>3, <2>2 DEF SearchAnswer
      <4>. QED  BY <4>1, <3>3, <1>4, <1>5, <2>4, <2>5 DEF ListSearchReceive
    <3>4. CASE t.kind = "FindIndex"
      <4>1. SearchAnswer(t) = Some(IntValue(k))
        <5>1. Least(Deciding(t)) - 1 = k
          BY <2>2, <1>3
        <5>. QED  BY <5>1, <3>4, <2>2, Zenon DEF SearchAnswer
      <4>. QED  BY <4>1, <3>4, <1>4, <1>5, <2>4, <2>5 DEF ListSearchReceive
    <3>. QED  BY <3>1, <3>2, <3>3, <3>4 DEF Searches
  <2>7. Returns(SearchAnswer(t), left)
    BY <1>7, <2>6, TakesReturn
  <2>8. status' = "returned" /\ DOMAIN children' = {} /\ applied' = Cost(t) /\ Answers(t, result')
    BY <2>7, <2>3, <1>2, SearchFacts DEF Returns, k
  <2>. QED  BY <2>7, <2>8, <1>3, <2>3 DEF Steps, Ended, Returns
<1>9. CASE ~Decides(t, k + 1)
  <2>1. IF t.kind = "All" THEN Holds(v) ELSE ~Holds(v)
    BY <1>9 DEF Decides, v
  <2>2. \A i \in 1..k + 1 : ~Decides(t, i)
    BY <1>2, <1>3, <1>9 DEF k
  <2>3. ListSearchReceive(u, v) =
            Stepped(moved, IF IsLast(u) THEN Exhausted(u) ELSE Push(u.func, Current(moved)))
    BY <1>4, <1>5, <1>6, <2>1 DEF ListSearchReceive, Searches
  <2>4. IsLast(u) <=> k + 1 = n
    BY <1>5 DEF IsLast, n
  <2>5. CASE k + 1 = n
    <3>1. Deciding(t) = {}
      BY <2>2, <2>5 DEF Deciding, n
    <3>2. Exhausted(u) = Exhausted(t)
      BY <1>5 DEF Exhausted
    <3>3. Returns(SearchAnswer(t), left)
      BY <1>7, <2>3, <2>4, <2>5, <3>1, <3>2, SearchExhausted, TakesReturn
    <3>4. status' = "returned" /\ DOMAIN children' = {} /\ applied' = Cost(t) /\ Answers(t, result')
      BY <3>3, <3>1, <2>5, <1>2, SearchFacts DEF Returns, k, n
    <3>. QED  BY <3>3, <3>4, <1>1, <1>2, <2>5 DEF Steps, Ended, Returns
  <2>6. CASE k + 1 # n
    <3>1. Current(moved) = t.values[k + 1 + 1]
      BY <1>5 DEF Current
    <3>2. Asks(moved, Apply(t.func, t.values[k + 1 + 1]))
      BY <1>5, <1>7, <2>3, <2>4, <2>6, <3>1, TakesPush
    <3>3. /\ task' = moved /\ task'.next_index = k + 1 /\ applied' = k + 1 + 1
          /\ k + 1 \in 0..n - 1 /\ applied' \in Nat
      BY <3>2, <1>1, <1>2, <1>3, <1>5, <2>6 DEF Asks
    <3>4. SearchRuns(t)'
      BY <3>2, <3>3, <2>2 DEF SearchRuns, OneChild, Asks, moved, n
    <3>. QED  BY <3>2, <3>3, <3>4, SearchFacts DEF Steps, Asks
  <2>. QED  BY <2>5, <2>6
<1>. QED  BY <1>8, <1>9

(* What folds, sums and means compute on their way.                         *)

\* A fold starts with its accumulator and goes on element by element.
LEMMA FoldedFacts ==
    ASSUME NEW t, t.kind \in FoldKinds, Len(t.values) \in Nat
    PROVE  /\ FoldedTo(t, 0) = t.acc
           /\ \A k \in 0..Len(t.values) - 1 :
                  FoldedTo(t, k + 1) = Apply(HalfApplied(t, k), SecondArgument(t, k))
<1>. DEFINE n == Len(t.values)
            left == IF t.kind = "FoldLeft" THEN TRUE ELSE FALSE
<1>. HIDE DEF left
<1>1. PICK acc : /\ acc = [m \in 0..n |-> IF m = 0 THEN t.acc
                                          ELSE FoldStep(t.func, t.values, left, acc[m - 1], m)]
                 /\ Folded(t.func, t.acc, t.values, left) = acc
  BY FoldedLoop, SMTT(40)
<1>2. \A k : FoldedTo(t, k) = acc[k]
  BY <1>1 DEF FoldedTo, FoldKinds, left
<1>3. acc[0] = t.acc
  BY <1>1
<1>4. ASSUME NEW k \in 0..n - 1
      PROVE  FoldedTo(t, k + 1) = Apply(HalfApplied(t, k), SecondArgument(t, k))
  <2>1. k + 1 \in 0..n /\ k + 1 # 0 /\ k + 1 - 1 = k /\ n - (k + 1) + 1 = n - k
    OBVIOUS
  <2>2. acc[k + 1] = FoldStep(t.func, t.values, left, acc[k], k + 1)
    BY <1>1, <2>1
  <2>. HIDE DEF n
  <2>3. CASE t.kind = "FoldLeft"
    <3>1. FoldStep(t.func, t.values, left, acc[k], k + 1) = Apply2(t.func, acc[k], t.values[k + 1])
      BY <2>3 DEF FoldStep, left
    <3>2. HalfApplied(t, k) = Apply(t.func, acc[k]) /\ SecondArgument(t, k) = t.values[k + 1]
      BY <1>2, <2>3 DEF HalfApplied, SecondArgument
    <3>. QED  BY <1>2, <2>2, <3>1, <3>2 DEF Apply2
  <2>4. CASE t.kind = "FoldRight"
    <3>1. FoldStep(t.func, t.values, left, acc[k], k + 1) = Apply2(t.func, t.values[n - k], acc[k])
      BY <2>1, <2>4 DEF FoldStep, n, left
    <3>2. HalfApplied(t, k) = Apply(t.func, t.values[n - k]) /\ SecondArgument(t, k) = acc[k]
      BY <1>2, <2>4 DEF HalfApplied, SecondArgument, n
    <3>. QED  BY <1>2, <2>2, <3>1, <3>2 DEF Apply2
  <2>. QED  BY <2>3, <2>4 DEF FoldKinds
<1>. QED  BY <1>2, <1>3, <1>4

\* A sum starts with its first element.
LEMMA SummedFacts ==
    ASSUME NEW t, t.kind \in {"Sum", "Mean"}, IsSequence(t.values), t.values # <<>>
    PROVE  /\ FoldedTo(t, 1) = t.values[1]
           /\ \A k \in 1..Len(t.values) - 1 :
                  FoldedTo(t, k + 1) = Apply(HalfApplied(t, k), t.values[k + 1])
<1>. DEFINE n == Len(t.values)
            rest == Tail(t.values)
            plus == Overloaded("+")
<1>1. n \in Nat \ {0}
  BY SequenceFacts
<1>2. /\ Len(rest) = n - 1 /\ Head(t.values) = t.values[1]
      /\ \A k \in 1..n - 1 : rest[k] = t.values[k + 1]
  BY <1>1 DEF IsSequence
<1>3. t.kind \notin FoldKinds /\ t.kind # "FoldLeft" /\ t.kind # "FoldRight"
  BY DEF FoldKinds
<1>. HIDE DEF n, rest, plus
<1>4. PICK acc : /\ acc = [m \in 0..Len(rest) |-> IF m = 0 THEN t.values[1]
                                                ELSE FoldStep(plus, rest, TRUE, acc[m - 1], m)]
                 /\ Folded(plus, t.values[1], rest, TRUE) = acc
  <2>1. Len(rest) \in Nat
    BY <1>1, <1>2
  <2>. DEFINE left == TRUE
  <2>. HIDE DEF left
  <2>2. \E acc : /\ acc = [m \in 0..Len(rest) |-> IF m = 0 THEN t.values[1]
                                               ELSE FoldStep(plus, rest, left, acc[m - 1], m)]
                /\ Folded(plus, t.values[1], rest, left) = acc
    BY <2>1, FoldedLoop
  <2>. QED  BY <2>2 DEF left
<1>5. \A k : FoldedTo(t, k) = acc[k - 1]
  BY <1>2, <1>3, <1>4 DEF FoldedTo, rest, plus
<1>6. FoldedTo(t, 1) = t.values[1]
  <2>1. 0 \in 0..n - 1 /\ 1 - 1 = 0
    BY <1>1
  <2>2. acc[0] = t.values[1]
    BY <1>2, <1>4, <2>1
  <2>. QED  BY <1>5, <2>1, <2>2
<1>7. ASSUME NEW k \in 1..n - 1
      PROVE  FoldedTo(t, k + 1) = Apply(HalfApplied(t, k), t.values[k + 1])
  <2>1. k \in 0..n - 1 /\ k # 0 /\ k + 1 - 1 = k
    BY <1>1
  <2>2. acc[k] = FoldStep(plus, rest, TRUE, acc[k - 1], k)
    BY <1>2, <1>4, <2>1
  <2>3. acc[k] = Apply2(plus, acc[k - 1], t.values[k + 1])
    BY <1>2, <2>2 DEF FoldStep
  <2>4. HalfApplied(t, k) = Apply(plus, acc[k - 1])
    BY <1>3, <1>5 DEF HalfApplied, plus
  <2>5. FoldedTo(t, k + 1) = acc[k]
    BY <1>5, <2>1
  <2>. QED  BY <2>3, <2>4, <2>5 DEF Apply2
<1>. QED  BY <1>6, <1>7 DEF n

(* foldl, fold, foldr                                                       *)

LEMMA FoldFacts ==
    ASSUME NEW t, t.kind \in FoldKinds
    PROVE  /\ Cost(t) = 2 * Len(t.values)
           /\ \A value : Answers(t, value) <=> value = FoldedTo(t, Len(t.values))
           /\ Runs(t) <=> FoldRuns(t)
           /\ Runs(t)' <=> FoldRuns(t)'
           /\ TaskEnter(t) = FoldEnter(t)
           /\ \A id, value : TaskReceive(t, id, value) = FoldReceive(t, value)
<1>1. /\ t.kind \notin FanOutKinds /\ t.kind \notin Searches /\ t.kind \notin Equalities
      /\ t.kind \notin UnaryKinds /\ t.kind # "Sum" /\ t.kind # "Mean"
  BY KindsDisjoint DEF SequentialKinds
<1>2. Cost(t) = 2 * Len(t.values)
  BY <1>1 DEF Cost
<1>3. ASSUME NEW value PROVE Answers(t, value) <=> value = FoldedTo(t, Len(t.values))
  BY <1>1 DEF Answers
<1>4. (Runs(t) <=> FoldRuns(t)) /\ (Runs(t)' <=> FoldRuns(t)')
  BY <1>1 DEF Runs
<1>5. TaskEnter(t) = FoldEnter(t)
  BY <1>1 DEF TaskEnter
<1>6. ASSUME NEW id, NEW value PROVE TaskReceive(t, id, value) = FoldReceive(t, value)
  BY <1>1 DEF TaskReceive
<1>. QED  BY <1>2, <1>3, <1>4, <1>5, <1>6

LEMMA FoldEnters ==
    ASSUME NEW t, SequentialTask(t), t.kind \in FoldKinds, next_id = 1, applied = 0,
           Take(TaskEnter(t), <<>>)
    PROVE  Steps(t)
<1>. DEFINE n == Len(t.values)
            started == At(t, "ApplyFirst", 0, t.acc, Missing)
<1>1. n \in Nat /\ (t.values = <<>> <=> n = 0)
  BY SequenceFacts, KindsDisjoint DEF SequentialTask
<1>2. t = At(t, "Enter", 0, t.acc, Missing)
  BY StartsAt
<1>3. [t EXCEPT !.state = "ApplyFirst", !.next_index = 0] = started
  <2>1. Restart(At(t, "Enter", 0, t.acc, Missing), "ApplyFirst") = started
    BY Restarted
  <2>2. Restart(t, "ApplyFirst") = started
    BY <2>1, <1>2, Zenon
  <2>. QED  BY <2>2 DEF Restart
<1>4. started.state = "ApplyFirst" /\ started.next_index = 0 /\ started.acc = t.acc
      /\ started.step = Missing
  BY AtFields
<1>5. n # 0 => Reverse(t.values)[1] = t.values[n]
  BY <1>1, SequenceFacts DEF Reverse
<1>6. FoldedTo(t, 0) = t.acc
  BY <1>1, FoldedFacts
<1>7. started.kind = t.kind /\ started.func = t.func /\ started.values = t.values
  BY AtFields
<1>. HIDE DEF started, n
<1>8. TaskEnter(t) = IF t.values = <<>> THEN Stepped(t, Return(t.acc))
                     ELSE Stepped(started, FoldFirst(started))
  <2>1. TaskEnter(t) = FoldEnter(t)
    BY FoldFacts
  <2>. QED  BY <1>3, <2>1 DEF FoldEnter
<1>9. DOMAIN <<>> = {}
  OBVIOUS
<1>10. CASE n = 0
  <2>1. Returns(t.acc, <<>>)
    BY <1>1, <1>8, <1>10, TakesReturn
  <2>2. status' = "returned" /\ DOMAIN children' = {} /\ applied' = Cost(t) /\ Answers(t, result')
    BY <1>9, <1>10, <1>6, <2>1, FoldFacts DEF Returns, n
  <2>. QED  BY <2>1, <2>2 DEF Steps, Ended, Returns
<1>11. CASE n # 0
  <2>. DEFINE arg == IF t.kind = "FoldLeft" THEN t.acc ELSE t.values[n]
  <2>1. FoldFirst(started) = Push(t.func, arg)
    BY <1>4, <1>11, <1>5, <1>7 DEF FoldFirst
  <2>2. Asks(started, Apply(t.func, arg))
    BY <1>1, <1>8, <1>9, <1>11, <2>1, TakesPush
  <2>3. Apply(t.func, arg) = HalfApplied(t, 0)
    <3>1. n - 0 = n
      BY <1>1
    <3>. QED  BY <1>6, <3>1 DEF HalfApplied, FoldKinds, n
  <2>. HIDE DEF arg
  <2>4. 0 \in 0..n - 1 /\ 2 * 0 + 1 = 1 /\ applied' = 1
    BY <1>1, <1>11, <2>2 DEF Asks
  <2>5. task' = started /\ started = At(t, "ApplyFirst", 0, FoldedTo(t, 0), Missing)
    BY <1>6, <2>2 DEF Asks, started
  <2>6. OneChild(HalfApplied(t, 0))'
    BY <2>2, <2>3 DEF OneChild, Asks
  <2>7. FoldRuns(t)'
    BY <1>4, <2>4, <2>5, <2>6 DEF FoldRuns, n
  <2>. QED  BY <2>2, <2>4, <2>7, FoldFacts DEF Steps, Asks
<1>. QED  BY <1>10, <1>11

LEMMA FoldReceives ==
    ASSUME NEW t, SequentialTask(t), t.kind \in FoldKinds, FoldRuns(t),
           next_id \in Nat \ {0}, NEW id \in DOMAIN children, NEW left, DOMAIN left = {},
           Take(TaskReceive(task, id, children[id]), left)
    PROVE  Steps(t)
<1>. DEFINE n == Len(t.values)
            v == children[id]
<1>1. n \in Nat
  BY SequenceFacts, KindsDisjoint DEF SequentialTask
<1>2. PICK u, k, state, acc, step :
          /\ u = task /\ k = task.next_index /\ u = At(t, state, k, acc, step) /\ k \in 0..n - 1
          /\ acc = FoldedTo(t, k)
          /\ \/ state = "ApplyFirst" /\ applied = 2 * k + 1 /\ OneChild(HalfApplied(t, k))
             \/ state = "ApplySecond" /\ applied = 2 * k + 2 /\ OneChild(FoldedTo(t, k + 1))
  BY DEF FoldRuns
<1>3. /\ u.kind = t.kind /\ u.func = t.func /\ u.values = t.values /\ u.next_index = k
      /\ u.state = state
  BY <1>2, AtFields
<1>4. /\ state = "ApplyFirst" => v = HalfApplied(t, k)
      /\ state = "ApplySecond" => v = FoldedTo(t, k + 1)
  BY <1>2 DEF OneChild
<1>5. FoldedTo(t, k + 1) = Apply(HalfApplied(t, k), SecondArgument(t, k))
  BY <1>1, <1>2, FoldedFacts
<1>. HIDE DEF n, v
<1>6. Take(FoldReceive(u, v), left)
  BY <1>2, <1>3, FoldFacts DEF v
<1>7. CASE state = "ApplyFirst"
  <2>. DEFINE second == At(t, "ApplySecond", k, acc, v)
  <2>1. [u EXCEPT !.step = v, !.state = "ApplySecond"] = second
    <3>1. Store(u, v, "ApplySecond") = second
      BY <1>2, Stored
    <3>. HIDE DEF second
    <3>. QED  BY <3>1 DEF Store
  <2>2. /\ second.step = v /\ second.next_index = k /\ second.state = "ApplySecond"
        /\ second.acc = acc /\ second.kind = t.kind /\ second.values = t.values
    BY AtFields
  <2>. HIDE DEF second
  <2>3. FoldSecond(second) = Push(v, SecondArgument(t, k))
    BY <1>2, <2>2 DEF FoldSecond, Current, SecondArgument, FoldKinds
  <2>4. FoldReceive(u, v) = Stepped(second, FoldSecond(second))
    BY <1>3, <1>7, <2>1 DEF FoldReceive
  <2>5. Asks(second, FoldedTo(t, k + 1))
    <3>1. Asks(second, Apply(v, SecondArgument(t, k)))
      BY <1>6, <2>3, <2>4, TakesPush
    <3>. QED  BY <1>7, <1>4, <1>5, <3>1
  <2>6. applied' = 2 * k + 2 /\ applied' \in Nat
    BY <1>1, <1>2, <1>7, <2>5 DEF Asks
  <2>7. FoldRuns(t)'
    <3>1. /\ task' = At(t, "ApplySecond", k, FoldedTo(t, k), v)
          /\ task'.state = "ApplySecond" /\ task'.next_index = k /\ task'.step = v
      BY <1>2, <2>2, <2>5 DEF Asks, second
    <3>2. OneChild(FoldedTo(t, k + 1))'
      BY <2>5 DEF OneChild, Asks
    <3>. QED  BY <1>2, <2>6, <3>1, <3>2 DEF FoldRuns, n
  <2>. QED  BY <2>5, <2>6, <2>7, FoldFacts DEF Steps, Asks
<1>8. CASE state = "ApplySecond"
  <2>. DEFINE next == At(t, "ApplyFirst", k + 1, v, Missing)
  <2>1. [u EXCEPT !.acc = v, !.step = Missing, !.next_index = @ + 1, !.state = "ApplyFirst"] = next
    <3>1. Move(u, v, Missing, "ApplyFirst") = next
      BY <1>2, NextElement
    <3>. HIDE DEF next
    <3>. QED  BY <3>1 DEF Move
  <2>2. /\ next.next_index = k + 1 /\ next.state = "ApplyFirst" /\ next.acc = v
        /\ next.step = Missing /\ next.kind = t.kind /\ next.func = t.func
        /\ next.values = t.values
    BY AtFields
  <2>. HIDE DEF next
  <2>3. v = FoldedTo(t, k + 1)
    BY <1>8, <1>4
  <2>4. FoldReceive(u, v) = Stepped(next, IF IsLast(u) THEN Return(v) ELSE FoldFirst(next))
    BY <1>3, <1>8, <2>1 DEF FoldReceive
  <2>5. IsLast(u) <=> k + 1 = n
    BY <1>3 DEF IsLast, n
  <2>6. CASE k + 1 = n
    <3>1. Returns(v, left)
      BY <1>6, <2>4, <2>5, <2>6, TakesReturn
    <3>2. applied = 2 * n
      BY <1>1, <1>2, <1>8, <2>6
    <3>3. status' = "returned" /\ DOMAIN children' = {} /\ applied' = Cost(t) /\ Answers(t, result')
      BY <2>3, <2>6, <3>1, <3>2, FoldFacts DEF Returns, n
    <3>. QED  BY <3>1, <3>2, <3>3, <1>1 DEF Steps, Ended, Returns
  <2>7. CASE k + 1 # n
    <3>. DEFINE arg == IF t.kind = "FoldLeft" THEN v ELSE t.values[n - (k + 1)]
    <3>1. Reverse(t.values)[k + 1 + 1] = t.values[n - (k + 1)]
      <4>1. k + 1 + 1 \in 1..n /\ (n - (k + 1 + 1)) + 1 = n - (k + 1)
        <5>1. k \in 0..n - 1
          BY <1>2
        <5>. QED  BY <1>1, <2>7, <5>1
      <4>2. Reverse(t.values)[k + 1 + 1] = t.values[(n - (k + 1 + 1)) + 1]
        BY <4>1 DEF Reverse, n
      <4>. QED  BY <4>1, <4>2
    <3>2. FoldFirst(next) = Push(t.func, arg)
      BY <2>2, <3>1 DEF FoldFirst
    <3>3. Apply(t.func, arg) = HalfApplied(t, k + 1)
      BY <2>3 DEF HalfApplied, FoldKinds, n
    <3>4. Asks(next, HalfApplied(t, k + 1))
      <4>1. Asks(next, Apply(t.func, arg))
        <5>. HIDE DEF arg
        <5>. QED  BY <1>6, <2>4, <2>5, <2>7, <3>2, TakesPush
      <4>. QED  BY <3>3, <4>1
    <3>. HIDE DEF arg
    <3>5. applied' = 2 * (k + 1) + 1 /\ applied' \in Nat /\ k + 1 \in 0..n - 1
      BY <1>1, <1>2, <1>8, <2>7, <3>4 DEF Asks
    <3>6. FoldRuns(t)'
      <4>1. /\ task' = At(t, "ApplyFirst", k + 1, FoldedTo(t, k + 1), Missing)
            /\ task'.state = "ApplyFirst" /\ task'.next_index = k + 1 /\ task'.step = Missing
        BY <2>2, <2>3, <3>4 DEF Asks, next
      <4>2. OneChild(HalfApplied(t, k + 1))'
        BY <3>4 DEF OneChild, Asks
      <4>. QED  BY <3>5, <4>1, <4>2 DEF FoldRuns, n
    <3>. QED  BY <3>4, <3>5, <3>6, FoldFacts DEF Steps, Asks
  <2>. QED  BY <2>6, <2>7
<1>. QED  BY <1>2, <1>7, <1>8

(* or_else, and the natives of Option and Result                            *)

LEMMA UnaryFacts ==
    ASSUME NEW t, t.kind \in UnaryKinds
    PROVE  /\ Cost(t) = 1
           /\ \A value : Answers(t, value) <=> value = UnaryAnswer(t)
           /\ Runs(t) <=> UnaryRuns(t)
           /\ Runs(t)' <=> UnaryRuns(t)'
           /\ TaskEnter(t) = Stepped(t, Push(t.func, t.acc))
           /\ \A id, value : TaskReceive(t, id, value) = UnaryReceive(t, value)
<1>1. /\ t.kind \notin FanOutKinds /\ t.kind \notin Searches /\ t.kind \notin FoldKinds
      /\ t.kind \notin Equalities /\ t.kind # "Sum" /\ t.kind # "Mean"
  BY KindsDisjoint DEF SequentialKinds, UnaryKinds
<1>2. Cost(t) = 1
  BY <1>1 DEF Cost
<1>3. ASSUME NEW value PROVE Answers(t, value) <=> value = UnaryAnswer(t)
  BY <1>1 DEF Answers
<1>4. (Runs(t) <=> UnaryRuns(t)) /\ (Runs(t)' <=> UnaryRuns(t)')
  BY <1>1 DEF Runs
<1>5. TaskEnter(t) = Stepped(t, Push(t.func, t.acc))
  BY <1>1 DEF TaskEnter
<1>6. ASSUME NEW id, NEW value PROVE TaskReceive(t, id, value) = UnaryReceive(t, value)
  BY <1>1 DEF TaskReceive
<1>. QED  BY <1>2, <1>3, <1>4, <1>5, <1>6

LEMMA UnaryEnters ==
    ASSUME NEW t, SequentialTask(t), t.kind \in UnaryKinds, next_id = 1, applied = 0,
           Take(TaskEnter(t), <<>>)
    PROVE  Steps(t)
<1>1. DOMAIN <<>> = {}
  OBVIOUS
<1>2. Asks(t, Apply(t.func, t.acc))
  BY <1>1, UnaryFacts, TakesPush
<1>3. UnaryRuns(t)' /\ applied' = 1
  BY <1>2 DEF UnaryRuns, OneChild, Asks
<1>. QED  BY <1>2, <1>3, UnaryFacts DEF Steps, Asks

LEMMA UnaryReceives ==
    ASSUME NEW t, SequentialTask(t), t.kind \in UnaryKinds, CallbacksTyped(t), UnaryRuns(t),
           next_id \in Nat \ {0}, NEW id \in DOMAIN children, NEW left, DOMAIN left = {},
           Take(TaskReceive(task, id, children[id]), left)
    PROVE  Steps(t)
<1>. DEFINE v == Apply(t.func, t.acc)
<1>1. task = t /\ applied = 1 /\ children[id] = v
  BY DEF UnaryRuns, OneChild
<1>2. t.kind \notin FanOutKinds /\ t.kind \notin Searches
  BY KindsDisjoint DEF SequentialKinds
<1>3. /\ t.kind = "UnaryFilter" => v[1] = "bool"
      /\ t.kind = "UnaryFlatMap" /\ t.other = "Result" => IsAdt(v, "Ok", 1) \/ IsAdt(v, "Err", 1)
  BY <1>2 DEF CallbacksTyped, IsResult
<1>. HIDE DEF v
<1>4. PICK value : UnaryReceive(t, v) = Stepped(t, Return(value))
  <2>1. t.kind \in {"ApplyUnary", "UnaryMap", "UnaryFilter", "UnaryFilterMap", "UnaryFlatMap"}
    BY DEF UnaryKinds
  <2>. QED  BY <1>3, <2>1 DEF UnaryReceive
<1>5. value = UnaryAnswer(t)
  BY <1>4 DEF UnaryAnswer, v, Stepped, Return
<1>6. Returns(value, left)
  BY <1>1, <1>4, UnaryFacts, TakesReturn
<1>7. status' = "returned" /\ DOMAIN children' = {} /\ applied' = Cost(t) /\ Answers(t, result')
  BY <1>1, <1>5, <1>6, UnaryFacts DEF Returns
<1>. QED  BY <1>1, <1>6, <1>7 DEF Steps, Ended, Returns

(* == and != of lists                                                       *)

LEMMA EqualityFacts ==
    ASSUME NEW t, t.kind \in Equalities
    PROVE  /\ Cost(t) = IF Len(t.values) # Len(t.other) THEN 0
                     ELSE 2 * (IF Differing(t) = {} THEN Len(t.values) ELSE Least(Differing(t)))
           /\ \A value : Answers(t, value) <=> value = BoolValue((t.values = t.other) <=> (t.kind = "ArrayEq"))
           /\ Runs(t) <=> EqualityRuns(t)
           /\ Runs(t)' <=> EqualityRuns(t)'
           /\ TaskEnter(t) = ArrayEqEnter(t)
           /\ \A id, value : TaskReceive(t, id, value) = ArrayEqReceive(t, value)
<1>1. /\ t.kind \notin FanOutKinds /\ t.kind \notin Searches /\ t.kind \notin FoldKinds
      /\ t.kind \notin UnaryKinds /\ t.kind # "Sum" /\ t.kind # "Mean"
  BY KindsDisjoint DEF SequentialKinds
<1>2. Cost(t) = IF Len(t.values) # Len(t.other) THEN 0
                     ELSE 2 * (IF Differing(t) = {} THEN Len(t.values) ELSE Least(Differing(t)))
  BY <1>1 DEF Cost
<1>3. ASSUME NEW value PROVE Answers(t, value) <=> value = BoolValue((t.values = t.other) <=> (t.kind = "ArrayEq"))
  BY <1>1 DEF Answers
<1>4. (Runs(t) <=> EqualityRuns(t)) /\ (Runs(t)' <=> EqualityRuns(t)')
  BY <1>1 DEF Runs
<1>5. TaskEnter(t) = ArrayEqEnter(t)
  BY <1>1 DEF TaskEnter
<1>6. ASSUME NEW id, NEW value PROVE TaskReceive(t, id, value) = ArrayEqReceive(t, value)
  BY <1>1 DEF TaskReceive
<1>. QED  BY <1>2, <1>3, <1>4, <1>5, <1>6

\* The answer, once it is known whether the lists are equal.
LEMMA EqualityAnswer ==
    ASSUME NEW t, NEW u, u.kind = t.kind, t.kind \in Equalities, NEW equal \in BOOLEAN,
           equal <=> t.values = t.other
    PROVE  EqResult(u, equal) = Return(BoolValue((t.values = t.other) <=> (t.kind = "ArrayEq")))
<1>1. (t.values = t.other) = equal
  OBVIOUS
<1>2. CASE t.kind = "ArrayEq"
  <2>1. ((t.values = t.other) <=> (t.kind = "ArrayEq")) = equal /\ u.kind # "ArrayNe"
    BY <1>2
  <2>. QED  BY <2>1, Zenon DEF EqResult
<1>3. CASE t.kind = "ArrayNe"
  <2>1. ((t.values = t.other) <=> (t.kind = "ArrayEq")) = ~equal /\ u.kind = "ArrayNe"
    BY <1>3
  <2>. QED  BY <2>1, Zenon DEF EqResult
<1>. QED  BY <1>2, <1>3 DEF Equalities

\* Sequences are equal when they are so at every place.
LEMMA EqualSequences ==
    ASSUME NEW s, NEW r, IsSequence(s), IsSequence(r), Len(s) = Len(r),
           \A j \in 1..Len(s) : s[j] = r[j]
    PROVE  s = r
<1>1. s = [j \in 1..Len(s) |-> s[j]] /\ r = [j \in 1..Len(r) |-> r[j]]
  BY SequenceFacts
<1>2. [j \in 1..Len(s) |-> s[j]] = [j \in 1..Len(s) |-> r[j]]
  OBVIOUS
<1>. QED  BY <1>1, <1>2, Zenon

LEMMA EqualityEnters ==
    ASSUME NEW t, SequentialTask(t), t.kind \in Equalities, next_id = 1, applied = 0,
           Take(TaskEnter(t), <<>>)
    PROVE  Steps(t)
<1>. DEFINE n == Len(t.values)
            started == At(t, "ApplyFirst", 0, t.acc, Missing)
<1>1. /\ n \in Nat /\ (t.values = <<>> <=> n = 0) /\ IsSequence(t.values) /\ IsSequence(t.other)
  BY SequenceFacts, KindsDisjoint DEF SequentialTask
<1>2. t = At(t, "Enter", 0, t.acc, Missing)
  BY StartsAt
<1>3. [t EXCEPT !.state = "ApplyFirst", !.next_index = 0] = started
  <2>1. Restart(At(t, "Enter", 0, t.acc, Missing), "ApplyFirst") = started
    BY Restarted
  <2>2. Restart(t, "ApplyFirst") = started
    BY <2>1, <1>2, Zenon
  <2>. QED  BY <2>2 DEF Restart
<1>4. /\ started.state = "ApplyFirst" /\ started.next_index = 0 /\ started.acc = t.acc
      /\ started.step = Missing /\ started.values = t.values
  BY AtFields
<1>. HIDE DEF started, n
<1>5. TaskEnter(t) = IF n # Len(t.other) THEN Stepped(t, EqResult(t, FALSE))
                     ELSE IF t.values = <<>> THEN Stepped(t, EqResult(t, TRUE))
                     ELSE Stepped(started, EqFirst(started))
  BY <1>3, EqualityFacts DEF ArrayEqEnter, n
<1>6. DOMAIN <<>> = {}
  OBVIOUS
<1>. DEFINE answer == BoolValue((t.values = t.other) <=> (t.kind = "ArrayEq"))
<1>7. CASE n # Len(t.other) \/ n = 0
  <2>. DEFINE equal == n = Len(t.other)
  <2>1. TaskEnter(t) = Stepped(t, EqResult(t, equal)) /\ (equal <=> t.values = t.other)
    <3>1. CASE n # Len(t.other)
      BY <3>1, <1>5, EqualityFacts DEF n
    <3>2. CASE n = Len(t.other) /\ n = 0
      <4>1. t.values = t.other
        BY <3>2, <1>1, SequenceFacts DEF n
      <4>2. equal = TRUE
        BY <3>2
      <4>. QED  BY <4>1, <4>2, <3>2, <1>1, <1>5
    <3>. QED  BY <3>1, <3>2, <1>7
  <2>2. EqResult(t, equal) = Return(answer)
    BY <2>1, EqualityAnswer
  <2>3. Returns(answer, <<>>)
    BY <2>1, <2>2, TakesReturn
  <2>4. Cost(t) = 0
    <3>1. CASE n # Len(t.other)
      BY <3>1, EqualityFacts DEF n
    <3>2. CASE n = Len(t.other) /\ n = 0
      <4>1. Differing(t) = {}
        BY <3>2 DEF Differing, n
      <4>. QED  BY <4>1, <3>2, EqualityFacts DEF n
    <3>. QED  BY <3>1, <3>2, <1>7
  <2>5. status' = "returned" /\ DOMAIN children' = {} /\ applied' = Cost(t) /\ Answers(t, result')
    BY <1>6, <2>3, <2>4, EqualityFacts DEF Returns
  <2>. QED  BY <2>3, <2>4, <2>5 DEF Steps, Ended, Returns
<1>8. CASE n = Len(t.other) /\ n # 0
  <2>1. EqFirst(started) = Push(Overloaded("=="), t.values[0 + 1])
    BY <1>4 DEF EqFirst, Current
  <2>2. Asks(started, Apply(Overloaded("=="), t.values[0 + 1]))
    BY <1>1, <1>5, <1>6, <1>8, <2>1, TakesPush
  <2>3. /\ task' = started /\ task'.next_index = 0 /\ task'.state = "ApplyFirst" /\ applied' = 1
        /\ OneChild(Apply(Overloaded("=="), t.values[0 + 1]))'
    BY <2>2, <1>4 DEF Asks, OneChild
  <2>4. 0 \in 0..n - 1 /\ 1 = 2 * 0 + 1
    BY <1>1, <1>8
  <2>5. EqualityRuns(t)'
    <3>1. task' = At(t, task'.state, task'.next_index, t.acc, task'.step)
      BY <1>4, <2>3 DEF started
    <3>2. OneChild(Apply(Overloaded("=="), t.values[task.next_index + 1]))'
      BY <2>3 DEF OneChild
    <3>3. \A j \in 1..task'.next_index : t.values[j] = t.other[j]
      BY <2>3
    <3>. QED  BY <1>8, <2>3, <2>4, <3>1, <3>2, <3>3 DEF EqualityRuns, n
  <2>. QED  BY <2>2, <2>3, <2>5, EqualityFacts DEF Steps, Asks
<1>. QED  BY <1>7, <1>8

LEMMA EqualityReceives ==
    ASSUME NEW t, SequentialTask(t), t.kind \in Equalities, EqualityRuns(t),
           next_id \in Nat \ {0}, NEW id \in DOMAIN children, NEW left, DOMAIN left = {},
           Take(TaskReceive(task, id, children[id]), left)
    PROVE  Steps(t)
<1>. DEFINE n == Len(t.values)
<1>1. n \in Nat /\ IsSequence(t.values) /\ IsSequence(t.other)
  BY SequenceFacts, KindsDisjoint DEF SequentialTask
<1>0. PICK u, k, state, step, v :
          u = task /\ k = task.next_index /\ state = task.state /\ step = task.step /\ v = children[id]
  OBVIOUS
<1>2. /\ u = task /\ k = task.next_index /\ u = At(t, state, k, t.acc, step) /\ k \in 0..n - 1
      /\ n = Len(t.other) /\ v = children[id]
      /\ \A j \in 1..k : t.values[j] = t.other[j]
      /\ \/ /\ state = "ApplyFirst" /\ applied = 2 * k + 1
            /\ v = Apply(Overloaded("=="), t.values[k + 1])
         \/ /\ state = "ApplySecond" /\ applied = 2 * k + 2
            /\ v = BoolValue(t.values[k + 1] = t.other[k + 1])
  BY <1>0 DEF EqualityRuns, OneChild
<1>3. /\ u.kind = t.kind /\ u.func = t.func /\ u.values = t.values /\ u.next_index = k
      /\ u.state = state /\ u.other = t.other
  BY <1>2, AtFields
<1>. HIDE DEF n
<1>4. Take(ArrayEqReceive(u, v), left)
  BY <1>2, <1>3, EqualityFacts
<1>5. k \in Nat /\ k + 1 \in 1..n
  BY <1>1, <1>2
<1>6. CASE state = "ApplyFirst"
  <2>. DEFINE second == At(t, "ApplySecond", k, t.acc, v)
  <2>1. [u EXCEPT !.step = v, !.state = "ApplySecond"] = second
    <3>1. Store(u, v, "ApplySecond") = second
      BY <1>2, Stored
    <3>. HIDE DEF second
    <3>. QED  BY <3>1 DEF Store
  <2>2. second.next_index = k /\ second.state = "ApplySecond" /\ second.step = v
    BY AtFields
  <2>. HIDE DEF second
  <2>3. ArrayEqReceive(u, v) = Stepped(second, Push(v, t.other[k + 1]))
    BY <1>3, <1>6, <2>1 DEF ArrayEqReceive
  <2>4. Apply(v, t.other[k + 1]) = BoolValue(t.values[k + 1] = t.other[k + 1])
    <3>1. v = <<"app", Overloaded("=="), t.values[k + 1]>>
      BY <1>2, <1>6 DEF Apply, Overloaded
    <3>2. v[1] = "app" /\ v[2] = Overloaded("==") /\ v[3] = t.values[k + 1]
      BY <3>1
    <3>. QED  BY <3>2 DEF Apply
  <2>5. Asks(second, BoolValue(t.values[k + 1] = t.other[k + 1]))
    BY <1>4, <2>3, <2>4, TakesPush
  <2>6. applied' = 2 * k + 2 /\ applied' \in Nat
    BY <1>2, <1>5, <1>6, <2>5 DEF Asks
  <2>7. OneChild(BoolValue(t.values[k + 1] = t.other[k + 1]))'
    BY <2>5 DEF Asks, OneChild
  <2>8. EqualityRuns(t)'
    BY <1>2, <2>2, <2>5, <2>6, <2>7 DEF EqualityRuns, Asks, second, n
  <2>. QED  BY <2>5, <2>6, <2>8, EqualityFacts DEF Steps, Asks
<1>7. CASE state = "ApplySecond"
  <2>. DEFINE next == At(t, "ApplyFirst", k + 1, t.acc, Missing)
              answer == BoolValue((t.values = t.other) <=> (t.kind = "ArrayEq"))
  <2>1. [u EXCEPT !.step = Missing, !.next_index = @ + 1, !.state = "ApplyFirst"] = next
    <3>1. MovePair(u, Missing, "ApplyFirst") = next
      BY <1>2, NextPair
    <3>. HIDE DEF next
    <3>. QED  BY <3>1 DEF MovePair
  <2>2. /\ next.next_index = k + 1 /\ next.state = "ApplyFirst" /\ next.values = t.values
        /\ next.step = Missing
    BY AtFields
  <2>. HIDE DEF next
  <2>3. applied = 2 * k + 2
    BY <1>2, <1>7
  <2>4. v[1] = "bool" /\ (Holds(v) <=> t.values[k + 1] = t.other[k + 1])
    <3>1. v = BoolValue(t.values[k + 1] = t.other[k + 1])
      BY <1>2, <1>7
    <3>. QED  BY <3>1 DEF Holds, BoolValue
  <2>5. ArrayEqReceive(u, v) =
            IF ~Holds(v) THEN Stepped(u, EqResult(u, FALSE))
            ELSE Stepped(next, IF IsLast(u) THEN EqResult(u, TRUE) ELSE EqFirst(next))
    BY <1>3, <1>7, <2>1, <2>4 DEF ArrayEqReceive
  <2>6. IsLast(u) <=> k + 1 = n
    BY <1>3 DEF IsLast, n
  <2>7. CASE ~Holds(v)
    <3>1. t.values # t.other
      BY <2>4, <2>7
    <3>2. EqResult(u, FALSE) = Return(answer)
      BY <3>1, <1>3, EqualityAnswer
    <3>3. Returns(answer, left)
      BY <1>4, <2>5, <2>7, <3>2, TakesReturn
    <3>4. k + 1 \in Differing(t) /\ (\A j \in Differing(t) : k + 1 <= j) /\ Differing(t) \subseteq Nat
      BY <1>1, <1>2, <1>5, <2>4, <2>7 DEF Differing, n
    <3>5. Least(Differing(t)) = k + 1
      BY <3>4, LeastIs
    <3>6. Cost(t) = 2 * (k + 1)
      BY <1>2, <3>4, <3>5, EqualityFacts DEF n
    <3>7. applied = 2 * (k + 1) /\ applied \in Nat
      BY <1>5, <2>3
    <3>8. status' = "returned" /\ DOMAIN children' = {} /\ applied' = Cost(t) /\ Answers(t, result')
      BY <3>3, <3>6, <3>7, EqualityFacts DEF Returns
    <3>. QED  BY <3>3, <3>7, <3>8 DEF Steps, Ended, Returns
  <2>8. ASSUME Holds(v) PROVE \A j \in 1..k + 1 : t.values[j] = t.other[j]
    BY <2>8, <2>4, <1>2, <1>5
  <2>9. CASE Holds(v) /\ k + 1 = n
    <3>1. t.values = t.other
      BY <2>8, <2>9, <1>1, <1>2, EqualSequences DEF n
    <3>2. EqResult(u, TRUE) = Return(answer)
      BY <3>1, <1>3, EqualityAnswer
    <3>3. Returns(answer, left)
      BY <1>4, <2>5, <2>6, <2>9, <3>2, TakesReturn
    <3>4. Differing(t) = {}
      BY <3>1 DEF Differing
    <3>5. Cost(t) = 2 * n
      BY <1>2, <3>4, EqualityFacts DEF n
    <3>6. applied = 2 * n /\ applied \in Nat
      BY <1>1, <1>5, <2>9, <2>3
    <3>7. status' = "returned" /\ DOMAIN children' = {} /\ applied' = Cost(t) /\ Answers(t, result')
      BY <3>3, <3>5, <3>6, EqualityFacts DEF Returns
    <3>. QED  BY <3>3, <3>6, <3>7 DEF Steps, Ended, Returns
  <2>10. CASE Holds(v) /\ k + 1 # n
    <3>1. EqFirst(next) = Push(Overloaded("=="), t.values[k + 1 + 1])
      BY <2>2 DEF EqFirst, Current
    <3>2. Asks(next, Apply(Overloaded("=="), t.values[k + 1 + 1]))
      BY <1>4, <2>5, <2>6, <2>10, <3>1, TakesPush
    <3>3. applied' = 2 * (k + 1) + 1 /\ applied' \in Nat /\ k + 1 \in 0..n - 1
      BY <1>1, <1>5, <2>10, <2>3, <3>2 DEF Asks
    <3>4. OneChild(Apply(Overloaded("=="), t.values[k + 1 + 1]))'
      BY <3>2 DEF Asks, OneChild
    <3>5. EqualityRuns(t)'
      BY <1>2, <2>2, <2>8, <2>10, <3>2, <3>3, <3>4 DEF EqualityRuns, Asks, next, n
    <3>. QED  BY <3>2, <3>3, <3>5, EqualityFacts DEF Steps, Asks
  <2>. QED  BY <2>7, <2>9, <2>10
<1>. QED  BY <1>2, <1>6, <1>7

(* sum and mean                                                             *)

LEMMA SumFacts ==
    ASSUME NEW t, t.kind = "Sum"
    PROVE  /\ Cost(t) = IF t.values = <<>> THEN 1 ELSE 2 * (Len(t.values) - 1)
           /\ \A value : Answers(t, value) <=> value = SumAnswer(t)
           /\ Runs(t) <=> SumRuns(t)
           /\ Runs(t)' <=> SumRuns(t)'
           /\ TaskEnter(t) = SumEnter(t)
           /\ \A id, value : TaskReceive(t, id, value) = SumReceive(t, value)
<1>1. /\ t.kind \notin FanOutKinds /\ t.kind \notin Searches /\ t.kind \notin FoldKinds
      /\ t.kind \notin Equalities /\ t.kind \notin UnaryKinds /\ t.kind # "Mean"
  BY KindsDisjoint DEF SequentialKinds
<1>2. Cost(t) = IF t.values = <<>> THEN 1 ELSE 2 * (Len(t.values) - 1)
  BY <1>1 DEF Cost
<1>3. ASSUME NEW value PROVE Answers(t, value) <=> value = SumAnswer(t)
  BY <1>1 DEF Answers
<1>4. (Runs(t) <=> SumRuns(t)) /\ (Runs(t)' <=> SumRuns(t)')
  BY <1>1 DEF Runs
<1>5. TaskEnter(t) = SumEnter(t)
  BY <1>1 DEF TaskEnter
<1>6. ASSUME NEW id, NEW value PROVE TaskReceive(t, id, value) = SumReceive(t, value)
  BY <1>1 DEF TaskReceive
<1>. QED  BY <1>2, <1>3, <1>4, <1>5, <1>6

LEMMA SumEnters ==
    ASSUME NEW t, SequentialTask(t), t.kind = "Sum", next_id = 1, applied = 0,
           Take(TaskEnter(t), <<>>)
    PROVE  Steps(t)
<1>. DEFINE n == Len(t.values)
            started == At(t, "ApplyFirst", 1, t.values[1], Missing)
<1>1. n \in Nat /\ (t.values = <<>> <=> n = 0)
  BY SequenceFacts, KindsDisjoint DEF SequentialTask
<1>2. t = At(t, "Enter", 0, t.acc, Missing)
  BY StartsAt
<1>3. [t EXCEPT !.acc = t.values[1], !.next_index = 1, !.state = "ApplyFirst"] = started
  <2>1. Begin(At(t, "Enter", 0, t.acc, Missing), t.values[1], "ApplyFirst") = started
    BY Begun
  <2>2. Begin(t, t.values[1], "ApplyFirst") = started
    BY <2>1, <1>2, Zenon
  <2>. QED  BY <2>2 DEF Begin
<1>4. started.state = "ApplyFirst" /\ started.next_index = 1 /\ started.acc = t.values[1]
      /\ started.step = Missing
  BY AtFields
<1>5. t.state = "Enter" /\ t.step = Missing /\ t.next_index = 0
  BY <1>2, AtFields
<1>6. IsSequence(t.values) /\ (n # 0 => FoldedTo(t, 1) = t.values[1])
  <2>1. IsSequence(t.values)
    BY KindsDisjoint DEF SequentialTask
  <2>. QED  BY <1>1, <2>1, SummedFacts
<1>. HIDE DEF started, n
<1>7. TaskEnter(t) = IF t.values = <<>> THEN Stepped(t, PushVar("zero"))
                     ELSE IF n = 1 THEN Stepped(t, Return(t.values[1]))
                     ELSE Stepped(started, Push(Overloaded("+"), started.acc))
  <2>1. TaskEnter(t) = SumEnter(t)
    BY SumFacts
  <2>. QED  BY <1>3, <2>1 DEF SumEnter, n
<1>8. DOMAIN <<>> = {}
  OBVIOUS
<1>9. CASE n = 0
  <2>1. Asks(t, <<"var", "zero">>)
    BY <1>1, <1>7, <1>8, <1>9, TakesPushVar
  <2>2. SumRuns(t)' /\ applied' = 1
    BY <1>1, <1>2, <1>5, <1>9, <2>1 DEF SumRuns, Asks, OneChild
  <2>. QED  BY <2>1, <2>2, SumFacts DEF Steps, Asks
<1>10. CASE n = 1
  <2>1. Returns(t.values[1], <<>>)
    BY <1>1, <1>7, <1>10, TakesReturn
  <2>2. Cost(t) = 0
    <3>1. t.values # <<>> /\ 2 * (n - 1) = 0
      BY <1>1, <1>10
    <3>. QED  BY <3>1, SumFacts DEF n
  <2>3. status' = "returned" /\ DOMAIN children' = {} /\ applied' = Cost(t) /\ Answers(t, result')
    <3>1. SumAnswer(t) = t.values[1]
      BY <1>1, <1>10, <1>6 DEF SumAnswer, n
    <3>. QED  BY <1>8, <2>1, <2>2, <3>1, SumFacts DEF Returns
  <2>. QED  BY <2>1, <2>2, <2>3 DEF Steps, Ended, Returns
<1>11. CASE n \notin {0, 1}
  <2>1. Asks(started, Apply(Overloaded("+"), started.acc))
    BY <1>1, <1>7, <1>8, <1>11, TakesPush
  <2>2. 1 \in 1..n - 1 /\ 1 = 2 * 1 - 1
    BY <1>1, <1>11
  <2>3. SumRuns(t)' /\ applied' = 1
    <3>1. Apply(Overloaded("+"), started.acc) = HalfApplied(t, 1)
      BY <1>1, <1>4, <1>11, <1>6 DEF HalfApplied, FoldKinds
    <3>2. OneChild(HalfApplied(t, 1))'
      BY <2>1, <3>1 DEF OneChild, Asks
    <3>3. /\ task' = At(t, "ApplyFirst", 1, t.values[1], Missing) /\ task'.state = "ApplyFirst"
          /\ task'.next_index = 1 /\ task'.step = Missing /\ task'.acc = t.values[1] /\ applied' = 1
      BY <1>4, <2>1 DEF Asks, started
    <3>. QED  BY <2>2, <3>2, <3>3 DEF SumRuns, n
  <2>. QED  BY <2>1, <2>3, SumFacts DEF Steps, Asks
<1>. QED  BY <1>9, <1>10, <1>11

LEMMA SumReceives ==
    ASSUME NEW t, SequentialTask(t), t.kind = "Sum", SumRuns(t),
           next_id \in Nat \ {0}, NEW id \in DOMAIN children, NEW left, DOMAIN left = {},
           Take(TaskReceive(task, id, children[id]), left)
    PROVE  Steps(t)
<1>. DEFINE n == Len(t.values)
<1>1. n \in Nat /\ (t.values = <<>> <=> n = 0)
  BY SequenceFacts, KindsDisjoint DEF SequentialTask
<1>2. PICK u, k, state, acc, step, v :
          /\ u = task /\ k = task.next_index /\ u = At(t, state, k, acc, step) /\ v = children[id]
          /\ \/ n = 0 /\ state = "Enter" /\ applied = 1 /\ v = <<"var", "zero">>
             \/ /\ k \in 1..n - 1 /\ state = "ApplyFirst" /\ applied = 2 * k - 1
                /\ v = HalfApplied(t, k)
             \/ /\ k \in 1..n - 1 /\ state = "ApplySecond" /\ applied = 2 * k
                /\ v = FoldedTo(t, k + 1)
  BY <1>1 DEF SumRuns, OneChild
<1>3. /\ u.kind = t.kind /\ u.values = t.values /\ u.next_index = k /\ u.state = state
  BY <1>2, AtFields
<1>4. k \in 1..n - 1 => FoldedTo(t, k + 1) = Apply(HalfApplied(t, k), t.values[k + 1])
  <2>1. IsSequence(t.values)
    BY KindsDisjoint DEF SequentialTask
  <2>2. k \in 1..n - 1 => t.values # <<>>
    BY <1>1
  <2>. QED  BY <2>1, <2>2, SummedFacts
<1>. HIDE DEF n
<1>5. Take(SumReceive(u, v), left)
  BY <1>2, <1>3, SumFacts
<1>6. CASE n = 0 /\ state = "Enter" /\ applied = 1 /\ v = <<"var", "zero">>
  <2>1. Returns(v, left)
    BY <1>3, <1>5, <1>6, TakesReturn DEF SumReceive
  <2>2. status' = "returned" /\ DOMAIN children' = {} /\ applied' = Cost(t) /\ Answers(t, result')
    BY <1>1, <1>6, <2>1, SumFacts DEF Returns, SumAnswer
  <2>. QED  BY <1>6, <2>1, <2>2 DEF Steps, Ended, Returns
<1>7. CASE k \in 1..n - 1 /\ state = "ApplyFirst" /\ applied = 2 * k - 1 /\ v = HalfApplied(t, k)
  <2>. DEFINE second == At(t, "ApplySecond", k, acc, v)
  <2>1. [u EXCEPT !.step = v, !.state = "ApplySecond"] = second
    <3>1. Store(u, v, "ApplySecond") = second
      BY <1>2, Stored
    <3>. HIDE DEF second
    <3>. QED  BY <3>1 DEF Store
  <2>2. second.step = v /\ second.next_index = k /\ second.state = "ApplySecond"
        /\ second.acc = acc
    BY AtFields
  <2>. HIDE DEF second
  <2>3. SumReceive(u, v) = Stepped(second, Push(v, Current(u)))
    BY <1>3, <1>7, <2>1 DEF SumReceive
  <2>4. Asks(second, FoldedTo(t, k + 1))
    <3>1. Asks(second, Apply(v, Current(u)))
      BY <1>5, <2>3, TakesPush
    <3>2. Current(u) = t.values[k + 1]
      BY <1>3 DEF Current
    <3>. QED  BY <1>7, <1>4, <3>1, <3>2
  <2>5. applied' = 2 * k /\ applied' \in Nat
    BY <1>1, <1>7, <2>4 DEF Asks
  <2>6. SumRuns(t)'
    BY <1>7, <2>2, <2>4, <2>5 DEF SumRuns, Asks, OneChild, second, n
  <2>. QED  BY <2>4, <2>5, <2>6, SumFacts DEF Steps, Asks
<1>8. CASE k \in 1..n - 1 /\ state = "ApplySecond" /\ applied = 2 * k /\ v = FoldedTo(t, k + 1)
  <2>. DEFINE next == At(t, "ApplyFirst", k + 1, v, Missing)
  <2>1. [u EXCEPT !.acc = v, !.step = Missing, !.next_index = @ + 1, !.state = "ApplyFirst"] = next
    <3>1. Move(u, v, Missing, "ApplyFirst") = next
      BY <1>2, NextElement
    <3>. HIDE DEF next
    <3>. QED  BY <3>1 DEF Move
  <2>2. next.next_index = k + 1 /\ next.state = "ApplyFirst" /\ next.acc = v /\ next.step = Missing
    BY AtFields
  <2>. HIDE DEF next
  <2>3. SumReceive(u, v) =
            Stepped(next, IF IsLast(u) THEN Return(v) ELSE Push(Overloaded("+"), v))
    BY <1>3, <1>8, <2>1 DEF SumReceive
  <2>4. IsLast(u) <=> k + 1 = n
    BY <1>3 DEF IsLast, n
  <2>5. CASE k + 1 = n
    <3>1. Returns(v, left)
      BY <1>5, <2>3, <2>4, <2>5, TakesReturn
    <3>2. applied = 2 * (n - 1) /\ applied \in Nat /\ n # 0
      BY <1>1, <1>8, <2>5
    <3>3. status' = "returned" /\ DOMAIN children' = {} /\ applied' = Cost(t) /\ Answers(t, result')
      <4>1. SumAnswer(t) = v
        BY <1>1, <1>8, <2>5, <3>2 DEF SumAnswer, n
      <4>. QED  BY <3>1, <3>2, <4>1, <1>1, SumFacts DEF Returns, n
    <3>. QED  BY <3>1, <3>2, <3>3 DEF Steps, Ended, Returns
  <2>6. CASE k + 1 # n
    <3>1. Asks(next, HalfApplied(t, k + 1))
      <4>1. Asks(next, Apply(Overloaded("+"), v))
        BY <1>5, <2>3, <2>4, <2>6, TakesPush
      <4>2. Apply(Overloaded("+"), v) = HalfApplied(t, k + 1)
        BY <1>8 DEF HalfApplied, FoldKinds
      <4>. QED  BY <4>1, <4>2
    <3>2. applied' = 2 * (k + 1) - 1 /\ applied' \in Nat /\ k + 1 \in 1..n - 1
      BY <1>1, <1>8, <2>6, <3>1 DEF Asks
    <3>3. SumRuns(t)'
      BY <2>2, <3>1, <3>2 DEF SumRuns, Asks, OneChild, next, n
    <3>. QED  BY <3>1, <3>2, <3>3, SumFacts DEF Steps, Asks
  <2>. QED  BY <2>5, <2>6
<1>. QED  BY <1>2, <1>6, <1>7, <1>8

LEMMA MeanFacts ==
    ASSUME NEW t, t.kind = "Mean"
    PROVE  /\ Cost(t) = 2 * Len(t.values)
           /\ \A value : Answers(t, value) <=> value = MeanAnswer(t)
           /\ Runs(t) <=> MeanRuns(t)
           /\ Runs(t)' <=> MeanRuns(t)'
           /\ TaskEnter(t) = MeanEnter(t)
           /\ \A id, value : TaskReceive(t, id, value) = MeanReceive(t, value)
<1>1. /\ t.kind \notin FanOutKinds /\ t.kind \notin Searches /\ t.kind \notin FoldKinds
      /\ t.kind \notin Equalities /\ t.kind \notin UnaryKinds /\ t.kind # "Sum"
  BY KindsDisjoint DEF SequentialKinds
<1>2. Cost(t) = 2 * Len(t.values)
  BY <1>1 DEF Cost
<1>3. ASSUME NEW value PROVE Answers(t, value) <=> value = MeanAnswer(t)
  BY <1>1 DEF Answers
<1>4. (Runs(t) <=> MeanRuns(t)) /\ (Runs(t)' <=> MeanRuns(t)')
  BY <1>1 DEF Runs
<1>5. TaskEnter(t) = MeanEnter(t)
  BY <1>1 DEF TaskEnter
<1>6. ASSUME NEW id, NEW value PROVE TaskReceive(t, id, value) = MeanReceive(t, value)
  BY <1>1 DEF TaskReceive
<1>. QED  BY <1>2, <1>3, <1>4, <1>5, <1>6

LEMMA MeanEnters ==
    ASSUME NEW t, SequentialTask(t), t.kind = "Mean", next_id = 1, applied = 0,
           Take(TaskEnter(t), <<>>)
    PROVE  Steps(t)
<1>. DEFINE n == Len(t.values)
            state == IF n = 1 THEN "ApplyDivFirst" ELSE "ApplyPlusFirst"
            started == At(t, state, 1, t.values[1], Missing)
<1>1. n \in Nat \ {0} /\ t.values # <<>>
  BY SequenceFacts, KindsDisjoint DEF SequentialTask
<1>2. t = At(t, "Enter", 0, t.acc, Missing)
  BY StartsAt
<1>. HIDE DEF state
<1>3. [t EXCEPT !.acc = t.values[1], !.next_index = 1, !.state = state] = started
  <2>1. Begin(At(t, "Enter", 0, t.acc, Missing), t.values[1], state) = started
    BY Begun
  <2>2. Begin(t, t.values[1], state) = started
    BY <2>1, <1>2, Zenon
  <2>. QED  BY <2>2 DEF Begin
<1>4. started.state = state /\ started.next_index = 1 /\ started.acc = t.values[1]
      /\ started.step = Missing
  BY AtFields
<1>. HIDE DEF started
<1>5. TaskEnter(t) = Stepped(started, Push(Overloaded(IF n = 1 THEN "/" ELSE "+"), started.acc))
  <2>1. TaskEnter(t) = MeanEnter(t)
    BY MeanFacts
  <2>. QED  BY <1>1, <1>3, <2>1 DEF MeanEnter, state
<1>6. DOMAIN <<>> = {}
  OBVIOUS
<1>7. FoldedTo(t, 1) = t.values[1]
  <2>1. IsSequence(t.values)
    BY KindsDisjoint DEF SequentialTask
  <2>. QED  BY <1>1, <2>1, SummedFacts
<1>. DEFINE asked == Apply(Overloaded(IF n = 1 THEN "/" ELSE "+"), started.acc)
<1>8. Asks(started, asked)
  BY <1>5, <1>6, TakesPush
<1>9. /\ n = 1 => asked = Averaging(t)
      /\ n # 1 => asked = HalfApplied(t, 1)
  BY <1>4, <1>7 DEF Averaging, HalfApplied, FoldKinds
<1>. HIDE DEF asked
<1>10. applied' = 1
  BY <1>8 DEF Asks
<1>. HIDE DEF n
<1>11. \/ 1 = n /\ state = "ApplyDivFirst"
       \/ 1 \in 1..n - 1 /\ state = "ApplyPlusFirst"
  BY <1>1 DEF state
<1>12. MeanRuns(t)'
  <2>1. task' = started /\ OneChild(asked)'
    BY <1>8 DEF Asks, OneChild
  <2>2. task'.state = state /\ task'.next_index = 1
    BY <2>1, <1>4
  <2>3. task' = At(t, task'.state, task'.next_index, task'.acc, task'.step)
    BY <2>1, <1>4 DEF started
  <2>4. \/ /\ task'.next_index \in 1..n - 1 /\ task'.state = "ApplyPlusFirst"
           /\ OneChild(HalfApplied(t, task.next_index))'
        \/ /\ task'.next_index = n /\ task'.state = "ApplyDivFirst"
           /\ OneChild(Averaging(t))'
    <3>1. CASE 1 = n /\ state = "ApplyDivFirst"
      BY <1>9, <2>1, <2>2, <3>1
    <3>2. CASE 1 \in 1..n - 1 /\ state = "ApplyPlusFirst"
      <4>1. n # 1
        BY <1>1, <3>2
      <4>2. asked = HalfApplied(t, 1)
        BY <1>9, <4>1
      <4>. QED  BY <2>1, <2>2, <3>2, <4>2
    <3>. QED  BY <1>11, <3>1, <3>2
  <2>5. applied' = 2 * task'.next_index - 1
    BY <2>2, <1>10
  <2>. QED  BY <2>1, <2>3, <2>4, <2>5 DEF MeanRuns, n
<1>. QED  BY <1>8, <1>10, <1>12, MeanFacts DEF Steps, Asks

LEMMA MeanReceives ==
    ASSUME NEW t, SequentialTask(t), t.kind = "Mean", MeanRuns(t),
           next_id \in Nat \ {0}, NEW id \in DOMAIN children, NEW left, DOMAIN left = {},
           Take(TaskReceive(task, id, children[id]), left)
    PROVE  Steps(t)
<1>. DEFINE n == Len(t.values)
<1>1. n \in Nat \ {0}
  BY SequenceFacts, KindsDisjoint DEF SequentialTask
<1>2. PICK u, k, state, acc, step, v :
          /\ u = task /\ k = task.next_index /\ u = At(t, state, k, acc, step) /\ v = children[id]
          /\ \/ /\ k \in 1..n - 1 /\ state = "ApplyPlusFirst" /\ applied = 2 * k - 1
                /\ v = HalfApplied(t, k)
             \/ /\ k \in 1..n - 1 /\ state = "ApplyPlusSecond" /\ applied = 2 * k
                /\ v = FoldedTo(t, k + 1)
             \/ k = n /\ state = "ApplyDivFirst" /\ applied = 2 * k - 1 /\ v = Averaging(t)
             \/ k = n /\ state = "ApplyDivSecond" /\ applied = 2 * k /\ v = MeanAnswer(t)
  BY DEF MeanRuns, OneChild
<1>3. /\ u.kind = t.kind /\ u.values = t.values /\ u.next_index = k /\ u.state = state
  BY <1>2, AtFields
<1>4. k \in 1..n - 1 => FoldedTo(t, k + 1) = Apply(HalfApplied(t, k), t.values[k + 1])
  <2>1. IsSequence(t.values) /\ t.values # <<>>
    BY KindsDisjoint DEF SequentialTask
  <2>. QED  BY <2>1, SummedFacts
<1>. HIDE DEF n
<1>5. Take(MeanReceive(u, v), left)
  BY <1>2, <1>3, MeanFacts
<1>6. ASSUME NEW w
      PROVE  /\ [u EXCEPT !.step = v, !.state = w] = At(t, w, k, acc, v)
             /\ At(t, w, k, acc, v).next_index = k /\ At(t, w, k, acc, v).state = w
             /\ At(t, w, k, acc, v).acc = acc /\ At(t, w, k, acc, v).step = v
  <2>1. Store(u, v, w) = At(t, w, k, acc, v)
    BY <1>2, Stored
  <2>2. [u EXCEPT !.step = v, !.state = w] = At(t, w, k, acc, v)
    BY <2>1, Zenon DEF Store
  <2>3. /\ At(t, w, k, acc, v).next_index = k /\ At(t, w, k, acc, v).state = w
        /\ At(t, w, k, acc, v).acc = acc /\ At(t, w, k, acc, v).step = v
    BY AtFields
  <2>. QED  BY <2>2, <2>3, Zenon
<1>7. CASE /\ k \in 1..n - 1 /\ state = "ApplyPlusFirst" /\ applied = 2 * k - 1
           /\ v = HalfApplied(t, k)
  <2>. DEFINE second == At(t, "ApplyPlusSecond", k, acc, v)
  <2>1. MeanReceive(u, v) = Stepped(second, Push(v, Current(u)))
    BY <1>3, <1>6, <1>7 DEF MeanReceive
  <2>2. second.next_index = k /\ second.state = "ApplyPlusSecond"
        /\ second.acc = acc /\ second.step = v
    BY <1>6
  <2>. HIDE DEF second
  <2>3. Asks(second, FoldedTo(t, k + 1))
    <3>1. Asks(second, Apply(v, Current(u)))
      BY <1>5, <2>1, TakesPush
    <3>2. Current(u) = t.values[k + 1]
      BY <1>3 DEF Current
    <3>. QED  BY <1>7, <1>4, <3>1, <3>2
  <2>4. applied' = 2 * k /\ applied' \in Nat
    BY <1>1, <1>7, <2>3 DEF Asks
  <2>5. MeanRuns(t)'
    BY <1>7, <2>2, <2>3, <2>4 DEF MeanRuns, Asks, OneChild, second, n
  <2>. QED  BY <2>3, <2>4, <2>5, MeanFacts DEF Steps, Asks
<1>8. CASE /\ k \in 1..n - 1 /\ state = "ApplyPlusSecond" /\ applied = 2 * k
           /\ v = FoldedTo(t, k + 1)
  <2>. DEFINE w == IF IsLast(u) THEN "ApplyDivFirst" ELSE "ApplyPlusFirst"
              next == At(t, w, k + 1, v, Missing)
  <2>. HIDE DEF w
  <2>1. [u EXCEPT !.acc = v, !.step = Missing, !.next_index = @ + 1, !.state = w] = next
    <3>1. Move(u, v, Missing, w) = next
      BY <1>2, NextElement
    <3>. HIDE DEF next
    <3>. QED  BY <3>1 DEF Move
  <2>2. next.next_index = k + 1 /\ next.state = w /\ next.acc = v /\ next.step = Missing
    BY AtFields
  <2>. HIDE DEF next
  <2>3. MeanReceive(u, v) = Stepped(next, Push(Overloaded(IF IsLast(u) THEN "/" ELSE "+"), v))
    BY <1>3, <1>8, <2>1 DEF MeanReceive, w
  <2>. DEFINE asked == Apply(Overloaded(IF IsLast(u) THEN "/" ELSE "+"), v)
  <2>4. Asks(next, asked)
    BY <1>5, <2>3, TakesPush
  <2>5. IsLast(u) <=> k + 1 = n
    BY <1>3 DEF IsLast, n
  <2>6. applied' = 2 * (k + 1) - 1 /\ applied' \in Nat
    BY <1>1, <1>8, <2>4 DEF Asks
  <2>7. \/ k + 1 = n /\ w = "ApplyDivFirst" /\ asked = Averaging(t)
        \/ k + 1 \in 1..n - 1 /\ w = "ApplyPlusFirst" /\ asked = HalfApplied(t, k + 1)
    <3>1. CASE k + 1 = n
      BY <1>8, <2>5, <3>1 DEF w, Averaging, n
    <3>2. CASE k + 1 # n
      <4>1. k + 1 \in 1..n - 1
        BY <1>1, <1>8, <3>2
      <4>2. w = "ApplyPlusFirst" /\ asked = HalfApplied(t, k + 1)
        BY <1>8, <2>5, <3>2 DEF w, HalfApplied, FoldKinds
      <4>. QED  BY <4>1, <4>2
    <3>. QED  BY <3>1, <3>2
  <2>. HIDE DEF asked
  <2>8. MeanRuns(t)'
    BY <2>2, <2>4, <2>6, <2>7 DEF MeanRuns, Asks, OneChild, next, n
  <2>. QED  BY <2>4, <2>6, <2>8, MeanFacts DEF Steps, Asks
<1>9. CASE k = n /\ state = "ApplyDivFirst" /\ applied = 2 * k - 1 /\ v = Averaging(t)
  <2>. DEFINE second == At(t, "ApplyDivSecond", k, acc, v)
  <2>1. MeanReceive(u, v) = Stepped(second, Push(v, IntValue(n)))
    BY <1>3, <1>6, <1>9 DEF MeanReceive, n
  <2>2. second.next_index = k /\ second.state = "ApplyDivSecond"
        /\ second.acc = acc /\ second.step = v
    BY <1>6
  <2>. HIDE DEF second
  <2>3. Asks(second, MeanAnswer(t))
    BY <1>5, <1>9, <2>1, TakesPush DEF MeanAnswer, n
  <2>4. applied' = 2 * k /\ applied' \in Nat
    BY <1>1, <1>9, <2>3 DEF Asks
  <2>5. MeanRuns(t)'
    BY <1>9, <2>2, <2>3, <2>4 DEF MeanRuns, Asks, OneChild, second, n
  <2>. QED  BY <2>3, <2>4, <2>5, MeanFacts DEF Steps, Asks
<1>10. CASE k = n /\ state = "ApplyDivSecond" /\ applied = 2 * k /\ v = MeanAnswer(t)
  <2>1. MeanReceive(u, v) = Stepped(u, Return(v))
    BY <1>3, <1>10 DEF MeanReceive
  <2>2. Returns(v, left)
    BY <1>5, <2>1, TakesReturn
  <2>3. status' = "returned" /\ DOMAIN children' = {} /\ applied' = Cost(t) /\ Answers(t, result')
    BY <1>10, <2>2, MeanFacts DEF Returns, n
  <2>4. applied' \in Nat
    BY <1>1, <1>10, <2>2 DEF Returns
  <2>. QED  BY <2>2, <2>3, <2>4 DEF Steps, Ended, Returns
<1>. QED  BY <1>2, <1>7, <1>8, <1>9, <1>10

-----------------------------------------------------------------------------
(* What a call costs is what its native needs.                              *)

CostOf(answer) == IF answer.op = "Task" THEN Cost(answer.task) ELSE 0

LEMMA FanOutCosts ==
    ASSUME NEW kind \in FanOutKinds, NEW func, NEW args, NEW keys, NEW entries
    PROVE  CostOf(Task(FanOut(kind, func, args, keys, entries))) = Len(args)
<1>. DEFINE t == FanOut(kind, func, args, keys, entries)
<1>1. t.kind = kind /\ t.args = args
  BY DEF FanOut
<1>. HIDE DEF t
<1>2. Cost(t) = Len(args)
  BY <1>1, FanOutCost
<1>3. Task(t).op = "Task" /\ Task(t).task = t
  BY DEF Task
<1>. QED  BY <1>2, <1>3 DEF CostOf, t

LEMMA SequentialCosts ==
    ASSUME NEW kind, NEW func, NEW values, NEW other, NEW acc
    PROVE  LET t == Sequential(kind, func, values, other, acc)
           IN  /\ CostOf(Task(t)) = Cost(t)
               /\ t.kind = kind /\ t.func = func /\ t.values = values /\ t.other = other
               /\ t.acc = acc
<1>. DEFINE t == Sequential(kind, func, values, other, acc)
<1>1. /\ t.kind = kind /\ t.func = func /\ t.values = values /\ t.other = other
      /\ t.acc = acc
  BY DEF Sequential
<1>. HIDE DEF t
<1>2. Task(t).op = "Task" /\ Task(t).task = t
  BY DEF Task
<1>3. CostOf(Task(t)) = Cost(t)
  BY <1>2 DEF CostOf
<1>. QED  BY <1>1, <1>3 DEF t

LEMMA NoCost ==
    ASSUME NEW x
    PROVE  CostOf(Ready(x)) = 0 /\ CostOf(NoTask(x)) = 0
BY DEF CostOf, Ready, NoTask

\* A container that is not a list.
LEMMA ContainerCosts ==
    ASSUME NEW listKind \in FanOutKinds, NEW unaryKind \in UnaryKinds, NEW func, NEW v
    PROVE  CostOf(OverContainer(listKind, unaryKind, func, v)) =
               IF v[1] = "list" THEN Len(v[2]) ELSE IF v[2] \in {"None", "Err"} THEN 0 ELSE 1
<1>1. CASE v[1] = "list"
  BY <1>1, FanOutCosts DEF OverContainer
<1>2. CASE v[1] # "list" /\ v[2] \in {"None", "Err"}
  BY <1>2, NoCost DEF OverContainer
<1>3. CASE v[1] # "list" /\ v[2] \notin {"None", "Err"}
  <2>. DEFINE other == CASE unaryKind = "UnaryFilter" -> v
                         [] OTHER -> IF IsOption(v) THEN "Option" ELSE "Result"
              t == Sequential(unaryKind, func, <<>>, other, v[3][1])
  <2>1. OverContainer(listKind, unaryKind, func, v) = Task(t)
    BY <1>3, Zenon DEF OverContainer
  <2>. HIDE DEF other
  <2>2. CostOf(Task(t)) = Cost(t) /\ t.kind = unaryKind
    BY SequentialCosts
  <2>3. Cost(t) = 1
    BY <2>2, UnaryFacts
  <2>. QED  BY <2>1, <2>2, <2>3, <1>3
<1>. QED  BY <1>1, <1>2, <1>3

LEMMA NeededIsCost ==
    ASSUME NEW c \in Calls
    PROVE  Needed(c[1], c[2]) = CostOf(Asked(c))
<1>. DEFINE name == c[1]
            args == c[2]
<1>1. name \in CallbackNatives /\ ArgumentsTyped(name, args)
  BY CallsAssumption
<1>2. Asked(c) = SchedulerNative(name, args)
  BY DEF Asked
<1>. HIDE DEF name, args
<1>. SUFFICES Needed(name, args) = CostOf(Asked(c))
  BY DEF name, args
<1>3. CASE name \in {"prim_map", "prim_filter", "prim_filter_map", "prim_flat_map"}
  <2>1. args[2][1] = "list" \/ args[2][1] = "adt"
    BY <1>1, <1>3 DEF ArgumentsTyped, IsList, IsOptional, IsOutcome
  <2>2. Needed(name, args) =
            IF args[2][1] = "list" THEN Len(args[2][2])
            ELSE IF args[2][2] \in {"None", "Err"} THEN 0 ELSE 1
    BY <1>3, <2>1 DEF Needed
  <2>3. /\ "SequenceMap" \in FanOutKinds /\ "SequenceFilter" \in FanOutKinds
        /\ "SequenceFilterMap" \in FanOutKinds /\ "SequenceFlatMap" \in FanOutKinds
    BY DEF FanOutKinds, Predicates, OptionCallbacks
  <2>4. /\ "UnaryMap" \in UnaryKinds /\ "UnaryFilter" \in UnaryKinds
        /\ "UnaryFilterMap" \in UnaryKinds /\ "UnaryFlatMap" \in UnaryKinds
    BY DEF UnaryKinds
  <2>5. \E listKind \in FanOutKinds, unaryKind \in UnaryKinds :
            Asked(c) = OverContainer(listKind, unaryKind, args[1], args[2])
    BY <1>2, <1>3, <2>3, <2>4
       DEF SchedulerNative, PrimMap, PrimFilter, PrimFilterMap, PrimFlatMap
  <2>. QED  BY <2>2, <2>5, ContainerCosts
<1>4. CASE name = "prim_or_else"
  <2>. DEFINE v == args[2]
              t == Sequential("ApplyUnary", args[1], <<>>, Missing, v)
              full == IF v[1] = "list" THEN v[2] # <<>> ELSE v[2] \in {"Some", "Ok"}
  <2>1. Asked(c) = IF full THEN Ready(v) ELSE Task(t)
    BY <1>2, <1>4 DEF SchedulerNative, OrElse
  <2>2. CostOf(Task(t)) = 1
    <3>1. CostOf(Task(t)) = Cost(t) /\ t.kind = "ApplyUnary"
      BY SequentialCosts
    <3>2. t.kind \in UnaryKinds
      BY <3>1 DEF UnaryKinds
    <3>. QED  BY <3>1, <3>2, UnaryFacts
  <2>3. CostOf(Ready(v)) = 0
    BY NoCost
  <2>. HIDE DEF t
  <2>4. Empty(v) <=> ~full
    <3>1. CASE IsList(v)
      BY <3>1 DEF IsList, Empty, IsAdt, ListValue
    <3>2. CASE IsOptional(v)
      BY <3>2 DEF IsOptional, Empty, IsAdt, ListValue, None, Some, AdtValue
    <3>3. CASE IsOutcome(v)
      BY <3>3 DEF IsOutcome, Empty, IsAdt, ListValue, Ok, AdtValue
    <3>. QED  BY <1>1, <1>4, <3>1, <3>2, <3>3 DEF ArgumentsTyped
  <2>5. Needed(name, args) = IF Empty(v) THEN 1 ELSE 0
    BY <1>4 DEF Needed
  <2>. QED  BY <2>1, <2>2, <2>3, <2>4, <2>5
<1>5. CASE name \in {"list_any", "list_all", "list_find", "list_find_index"}
  <2>. DEFINE s == args[2][2]
              decided == IF name = "list_all" THEN (1..Len(s)) \ Matching(args[1], s)
                         ELSE Matching(args[1], s)
  <2>1. Needed(name, args) = IF decided = {} THEN Len(s) ELSE Least(decided)
    BY <1>5 DEF Needed
  <2>2. PICK kind \in Searches : /\ Asked(c) = Task(Sequential(kind, args[1], s, Missing, Missing))
                                 /\ kind = "All" <=> name = "list_all"
    BY <1>2, <1>5 DEF SchedulerNative, ListSearch, Searches
  <2>. DEFINE t == Sequential(kind, args[1], s, Missing, Missing)
  <2>3. CostOf(Task(t)) = Cost(t) /\ t.kind = kind /\ t.func = args[1] /\ t.values = s
    BY SequentialCosts
  <2>. HIDE DEF t
  <2>4. Deciding(t) = decided
    BY <2>2, <2>3 DEF Deciding, Decides, Matching
  <2>5. Cost(t) = IF Deciding(t) = {} THEN Len(t.values) ELSE Least(Deciding(t))
    BY <2>3, SearchFacts
  <2>. HIDE DEF decided
  <2>. QED  BY <2>1, <2>2, <2>3, <2>4, <2>5 DEF t
<1>6. CASE name \in {"list_count", "list_partition"}
  <2>1. args[2][1] = "list"
    BY <1>1, <1>6 DEF ArgumentsTyped, IsList
  <2>2. Needed(name, args) = Len(args[2][2])
    BY <1>6, <2>1 DEF Needed
  <2>3. "Count" \in FanOutKinds /\ "Partition" \in FanOutKinds
    BY DEF FanOutKinds, Predicates
  <2>4. PICK kind \in FanOutKinds : Asked(c) = Task(FanOut(kind, args[1], args[2][2], <<>>, <<>>))
    BY <1>2, <1>6, <2>3 DEF SchedulerNative, ListPredicate
  <2>. QED  BY <2>2, <2>4, FanOutCosts
<1>7. CASE name \in {"prim_foldl", "prim_fold", "prim_foldr"}
  <2>1. Needed(name, args) = 2 * Len(Elements(args[3]))
    BY <1>7 DEF Needed
  <2>2. PICK kind \in FoldKinds :
            Asked(c) = Task(Sequential(kind, args[1], Elements(args[3]), Missing, args[2]))
    BY <1>2, <1>7 DEF SchedulerNative, PrimFoldLeft, PrimFoldRight, FoldKinds
  <2>. DEFINE t == Sequential(kind, args[1], Elements(args[3]), Missing, args[2])
  <2>3. CostOf(Task(t)) = Cost(t) /\ t.kind = kind /\ t.values = Elements(args[3])
    BY SequentialCosts
  <2>. HIDE DEF t
  <2>4. Cost(t) = 2 * Len(t.values)
    BY <2>3, FoldFacts
  <2>. QED  BY <2>1, <2>2, <2>3, <2>4 DEF t
<1>8. CASE name \in {"prim_list_eq", "prim_list_ne"}
  <2>. DEFINE xs == args[1][2]
              s == args[2][2]
              differ == {i \in 1..Len(s) : args[1][2][i] # s[i]}
  <2>1. Needed(name, args) =
            IF Len(xs) # Len(s) THEN 0
            ELSE 2 * (IF differ = {} THEN Len(s) ELSE Least(differ))
    BY <1>8 DEF Needed
  <2>2. PICK kind \in Equalities : Asked(c) = Task(Sequential(kind, Missing, xs, s, Missing))
    BY <1>2, <1>8 DEF SchedulerNative, PrimListEq, Equalities
  <2>. DEFINE t == Sequential(kind, Missing, xs, s, Missing)
  <2>3. CostOf(Task(t)) = Cost(t) /\ t.kind = kind /\ t.values = xs /\ t.other = s
    BY SequentialCosts
  <2>. HIDE DEF t
  <2>4. Cost(t) = IF Len(t.values) # Len(t.other) THEN 0
                  ELSE 2 * (IF Differing(t) = {} THEN Len(t.values) ELSE Least(Differing(t)))
    BY <2>3, EqualityFacts
  <2>5. Len(xs) = Len(s) => Differing(t) = differ
    BY <2>3 DEF Differing
  <2>. HIDE DEF differ
  <2>. QED  BY <2>1, <2>2, <2>3, <2>4, <2>5 DEF t
<1>9. CASE name = "sum"
  <2>. DEFINE s == Elements(args[1])
              t == Sequential("Sum", Missing, s, Missing, Missing)
  <2>1. Needed(name, args) = IF s = <<>> THEN 1 ELSE 2 * (Len(s) - 1)
    BY <1>9 DEF Needed
  <2>2. Asked(c) = Task(t)
    BY <1>2, <1>9 DEF SchedulerNative, Sum
  <2>3. CostOf(Task(t)) = Cost(t) /\ t.kind = "Sum" /\ t.values = s
    BY SequentialCosts
  <2>. HIDE DEF t
  <2>4. Cost(t) = IF t.values = <<>> THEN 1 ELSE 2 * (Len(t.values) - 1)
    BY <2>3, SumFacts
  <2>. QED  BY <2>1, <2>2, <2>3, <2>4
<1>10. CASE name = "mean"
  <2>. DEFINE s == Elements(args[1])
              t == Sequential("Mean", Missing, s, Missing, Missing)
  <2>1. Needed(name, args) = IF s = <<>> THEN 0 ELSE 2 * Len(s)
    BY <1>10 DEF Needed
  <2>2. Asked(c) = IF s = <<>> THEN NoTask("EmptySequence") ELSE Task(t)
    BY <1>2, <1>10 DEF SchedulerNative, Mean
  <2>3. CostOf(Task(t)) = Cost(t) /\ t.kind = "Mean" /\ t.values = s
    BY SequentialCosts
  <2>. HIDE DEF t
  <2>4. Cost(t) = 2 * Len(t.values)
    BY <2>3, MeanFacts
  <2>5. CostOf(NoTask("EmptySequence")) = 0
    BY NoCost
  <2>. QED  BY <2>1, <2>2, <2>3, <2>4, <2>5
<1>11. CASE name \in {"prim_dict_map", "prim_dict_filter", "prim_dict_filter_map",
                      "dict_map", "dict_filter"}
  <2>. DEFINE d == args[2][2]
  <2>1. args[2][1] = "dict" /\ IsFiniteSet(DOMAIN d)
    BY <1>1, <1>11 DEF ArgumentsTyped, IsDict
  <2>2. Needed(name, args) = Cardinality(DOMAIN d)
    BY <1>11, <2>1 DEF Needed
  <2>3. Len(EntriesOf(d)) = Cardinality(DOMAIN d) /\ Len(PairsOf(d)) = Cardinality(DOMAIN d)
    BY <2>1, KeysCounted
  <2>4. /\ "DictMap" \in FanOutKinds /\ "DictFilter" \in FanOutKinds
        /\ "DictFilterMap" \in FanOutKinds /\ "DictEntryMap" \in FanOutKinds
    BY DEF FanOutKinds, Predicates, OptionCallbacks
  <2>5. PICK kind \in FanOutKinds :
            \/ Asked(c) = OverEntries(kind, args[1], d)
            \/ Asked(c) = OverPairs(kind, args[1], d)
    BY <1>2, <1>11, <2>4 DEF SchedulerNative
  <2>6. /\ CostOf(OverEntries(kind, args[1], d)) = Len(EntriesOf(d))
        /\ CostOf(OverPairs(kind, args[1], d)) = Len(PairsOf(d))
    BY FanOutCosts DEF OverEntries, OverPairs
  <2>. QED  BY <2>2, <2>3, <2>5, <2>6
<1>12. CASE name = "dict_update"
  <2>1. Needed(name, args) = 1
    BY <1>12 DEF Needed
  <2>2. "DictUpdate" \in FanOutKinds
    BY DEF FanOutKinds, OptionCallbacks
  <2>3. CostOf(DictUpdate(args[1][2], args[2], args[3][2])) = 1
    <3>. DEFINE key == args[1][2]
                dict == args[3][2]
                old == IF key \in DOMAIN dict THEN Some(dict[key]) ELSE None
    <3>. HIDE DEF old
    <3>1. CostOf(Task(FanOut("DictUpdate", args[2], <<old>>, <<key>>, dict))) = Len(<<old>>)
      BY <2>2, FanOutCosts
    <3>2. Len(<<old>>) = 1
      OBVIOUS
    <3>. QED  BY <3>1, <3>2, Zenon DEF DictUpdate, old
  <2>. QED  BY <1>2, <1>12, <2>1, <2>3 DEF SchedulerNative
<1>. QED
  BY <1>1, <1>3, <1>4, <1>5, <1>6, <1>7, <1>8, <1>9, <1>10, <1>11, <1>12 DEF CallbackNatives

LEMMA CostIsNumber ==
    ASSUME NEW t, FanOutTask(t) \/ SequentialTask(t)
    PROVE  Cost(t) \in Nat
<1>1. CASE FanOutTask(t)
  BY <1>1, FanOutCost, SequenceFacts DEF FanOutTask
<1>2. CASE SequentialTask(t)
  <2>1. t.kind \in SequentialKinds /\ (t.kind \notin UnaryKinds => Len(t.values) \in Nat)
    BY <1>2, SequenceFacts DEF SequentialTask
  <2>2. CASE t.kind \in Searches
    <3>1. Len(t.values) \in Nat
      BY <2>1, <2>2, KindsDisjoint
    <3>2. Deciding(t) \subseteq Nat
      BY <3>1 DEF Deciding
    <3>. QED  BY <2>2, <3>1, <3>2, SearchFacts, LeastExists
  <2>3. CASE t.kind \in FoldKinds
    BY <2>1, <2>3, KindsDisjoint, FoldFacts
  <2>4. CASE t.kind \in Equalities
    <3>1. Len(t.values) \in Nat
      BY <2>1, <2>4, KindsDisjoint
    <3>2. Differing(t) \subseteq Nat
      BY <3>1 DEF Differing
    <3>3. Differing(t) # {} => Least(Differing(t)) \in Nat
      BY <3>2, LeastExists
    <3>. QED  BY <2>4, <3>1, <3>3, EqualityFacts
  <2>5. CASE t.kind = "Sum"
    <3>1. Len(t.values) \in Nat /\ (t.values = <<>> <=> Len(t.values) = 0)
      BY <1>2, <2>5, KindsDisjoint, SequenceFacts DEF SequentialTask
    <3>. QED  BY <2>5, <3>1, SumFacts
  <2>6. CASE t.kind = "Mean"
    BY <2>1, <2>6, KindsDisjoint, MeanFacts
  <2>7. CASE t.kind \in UnaryKinds
    BY <2>7, UnaryFacts
  <2>. QED  BY <2>1, <2>2, <2>3, <2>4, <2>5, <2>6, <2>7 DEF SequentialKinds
<1>. QED  BY <1>1, <1>2

\* A running task has not asked for more than it costs.
LEMMA RunsWithinCost ==
    ASSUME NEW t, FanOutTask(t) \/ SequentialTask(t), Runs(t)
    PROVE  applied <= Cost(t)
<1>1. CASE FanOutTask(t)
  <2>1. Len(t.args) \in Nat /\ t.kind \in FanOutKinds
    BY <1>1, SequenceFacts DEF FanOutTask
  <2>2. applied = Len(t.args)
    BY <2>1, FanOutCost DEF FanOutRuns
  <2>. QED  BY <2>1, <2>2, FanOutCost
<1>2. CASE SequentialTask(t)
  <2>. DEFINE n == Len(t.values)
              k == task.next_index
  <2>1. t.kind \in SequentialKinds /\ (t.kind \notin UnaryKinds => n \in Nat)
    BY <1>2, SequenceFacts DEF SequentialTask
  <2>. HIDE DEF n, k
  <2>2. CASE t.kind \in Searches
    <3>1. n \in Nat /\ k \in 0..n - 1 /\ applied = k + 1 /\ \A i \in 1..k : ~Decides(t, i)
      BY <2>1, <2>2, KindsDisjoint, SearchFacts DEF SearchRuns, n, k
    <3>2. Deciding(t) \subseteq Nat /\ \A i \in Deciding(t) : i >= k + 1
      BY <3>1 DEF Deciding, n
    <3>3. CASE Deciding(t) = {}
      BY <2>2, <3>1, <3>3, SearchFacts DEF n
    <3>4. CASE Deciding(t) # {}
      <4>1. Least(Deciding(t)) \in Deciding(t)
        BY <3>2, <3>4, LeastExists
      <4>. QED  BY <2>2, <3>1, <3>2, <3>4, <4>1, SearchFacts
    <3>. QED  BY <3>3, <3>4
  <2>3. CASE t.kind \in FoldKinds
    <3>1. n \in Nat /\ k \in 0..n - 1 /\ (applied = 2 * k + 1 \/ applied = 2 * k + 2)
      BY <2>1, <2>3, KindsDisjoint, FoldFacts DEF FoldRuns, n, k
    <3>2. applied <= 2 * n
      BY <3>1
    <3>. QED  BY <2>3, <3>2, FoldFacts DEF n
  <2>4. CASE t.kind \in Equalities
    <3>1. /\ n \in Nat /\ k \in 0..n - 1 /\ (applied = 2 * k + 1 \/ applied = 2 * k + 2)
          /\ n = Len(t.other) /\ \A i \in 1..k : t.values[i] = t.other[i]
      BY <2>1, <2>4, KindsDisjoint, EqualityFacts DEF EqualityRuns, n, k
    <3>2. Differing(t) \subseteq Nat /\ \A i \in Differing(t) : i >= k + 1
      BY <3>1 DEF Differing, n
    <3>3. CASE Differing(t) = {}
      <4>1. Cost(t) = 2 * n
        BY <2>4, <3>1, <3>3, EqualityFacts DEF n
      <4>2. applied <= 2 * n
        BY <3>1
      <4>. QED  BY <4>1, <4>2
    <3>4. CASE Differing(t) # {}
      <4>. DEFINE m == Least(Differing(t))
      <4>1. Cost(t) = 2 * m
        BY <2>4, <3>1, <3>4, EqualityFacts DEF n
      <4>2. m \in Nat /\ m >= k + 1
        BY <3>2, <3>4, LeastExists
      <4>. HIDE DEF m
      <4>3. applied <= 2 * m
        BY <3>1, <4>2
      <4>. QED  BY <4>1, <4>3
    <3>. QED  BY <3>3, <3>4
  <2>5. CASE t.kind = "Sum"
    <3>1. /\ n \in Nat
          /\ \/ t.values = <<>> /\ applied = 1
             \/ k \in 1..n - 1 /\ (applied = 2 * k - 1 \/ applied = 2 * k)
      BY <2>1, <2>5, KindsDisjoint, SumFacts DEF SumRuns, n, k
    <3>2. t.values = <<>> <=> n = 0
      BY <1>2, <2>5, KindsDisjoint, SequenceFacts DEF SequentialTask, n
    <3>3. CASE n = 0
      BY <2>5, <3>1, <3>2, <3>3, SumFacts
    <3>4. CASE n # 0
      <4>1. applied <= 2 * (n - 1)
        BY <3>1, <3>2, <3>4
      <4>. QED  BY <2>5, <3>2, <3>4, <4>1, SumFacts DEF n
    <3>. QED  BY <3>3, <3>4
  <2>6. CASE t.kind = "Mean"
    <3>1. /\ n \in Nat
          /\ \/ k \in 1..n - 1 /\ (applied = 2 * k - 1 \/ applied = 2 * k)
             \/ k = n /\ (applied = 2 * k - 1 \/ applied = 2 * k)
      BY <2>1, <2>6, KindsDisjoint, MeanFacts DEF MeanRuns, n, k
    <3>2. applied <= 2 * n
      BY <3>1
    <3>. QED  BY <2>6, <3>2, MeanFacts DEF n
  <2>7. CASE t.kind \in UnaryKinds
    BY <2>7, UnaryFacts DEF UnaryRuns
  <2>. QED  BY <2>1, <2>2, <2>3, <2>4, <2>5, <2>6, <2>7 DEF SequentialKinds
<1>. QED  BY <1>1, <1>2

-----------------------------------------------------------------------------
(* The answers of the natives.                                              *)

\* The keys of a dictionary are listed once each, at their rank.
LEMMA KeysListed ==
    ASSUME NEW d, IsFiniteSet(DOMAIN d), DOMAIN d \subseteq Int
    PROVE  LET keys == KeysOf(d)
           IN  /\ \A i \in 1..Len(keys) : keys[i] \in DOMAIN d
               /\ \A k \in DOMAIN d : \E i \in 1..Len(keys) : keys[i] = k
<1>. DEFINE n == Cardinality(DOMAIN d)
<1>1. n \in Nat /\ Len(KeysOf(d)) = n
  BY KeysCounted
<1>2. \A i \in 1..n : KeysOf(d)[i] = Nth(DOMAIN d, i)
  BY DEF KeysOf
<1>3. \A i \in 1..n : Nth(DOMAIN d, i) \in DOMAIN d
  BY NthFacts
<1>4. \A k \in DOMAIN d : Rank(DOMAIN d, k) \in 1..n /\ Nth(DOMAIN d, Rank(DOMAIN d, k)) = k
  BY NthFacts
<1>. HIDE DEF n
<1>. QED  BY <1>1, <1>2, <1>3, <1>4

\* The slot of a key holds that key's result.
LEMMA SlotOfKey ==
    ASSUME NEW d, IsFiniteSet(DOMAIN d), DOMAIN d \subseteq Int,
           NEW t, t.keys = KeysOf(d)
    PROVE  /\ Range(t.keys) = DOMAIN d
           /\ \A k \in DOMAIN d : /\ Slot(t, k) \in 1..Cardinality(DOMAIN d)
                                  /\ KeysOf(d)[Slot(t, k)] = k
                                  /\ EntriesOf(d)[Slot(t, k)] = d[k]
                                  /\ PairsOf(d)[Slot(t, k)] = TupleValue(<<StringValue(k), d[k]>>)
<1>. DEFINE n == Cardinality(DOMAIN d)
            keys == KeysOf(d)
<1>1. n \in Nat /\ Len(keys) = n /\ DOMAIN keys = 1..n
  BY KeysCounted, SequenceFacts
<1>2. /\ \A i \in 1..n : keys[i] \in DOMAIN d
      /\ \A k \in DOMAIN d : \E i \in 1..n : keys[i] = k
  BY <1>1, KeysListed
<1>3. \A i \in 1..n : /\ EntriesOf(d)[i] = d[keys[i]]
                      /\ PairsOf(d)[i] = TupleValue(<<StringValue(keys[i]), EntriesOf(d)[i]>>)
  BY <1>1 DEF EntriesOf, PairsOf
<1>. HIDE DEF n, keys
<1>4. Range(keys) = DOMAIN d
  BY <1>1, <1>2 DEF Range
<1>5. \A k \in DOMAIN d : Slot(t, k) \in 1..n /\ keys[Slot(t, k)] = k
  BY <1>1, <1>2 DEF Slot, keys
<1>. QED  BY <1>3, <1>4, <1>5 DEF n, keys

\* v is what the call returns when the prelude answers so.
Delivers(answer, v) ==
    IF answer.op = "Task" THEN Answers(answer.task, v)
    ELSE v = IF answer.op = "Ready" THEN answer.value ELSE <<"error", answer.error>>

LEMMA DeliversTask ==
    ASSUME NEW t, NEW v
    PROVE  Delivers(Task(t), v) <=> Answers(t, v)
<1>1. Task(t).op = "Task" /\ Task(t).task = t
  BY DEF Task
<1>. QED  BY <1>1 DEF Delivers

LEMMA DeliversReady ==
    ASSUME NEW x, NEW v
    PROVE  Delivers(Ready(x), v) <=> v = x
BY DEF Delivers, Ready

\* What a fan-out task is built from, and what it makes its answer from.
LEMMA DeliversFanOut ==
    ASSUME NEW kind \in FanOutKinds, NEW func, NEW args, NEW keys, NEW entries, NEW v,
           Delivers(Task(FanOut(kind, func, args, keys, entries)), v)
    PROVE  \E u : /\ v = Finish(u) /\ u.kind = kind /\ u.args = args /\ u.keys = keys
                  /\ u.entries = entries /\ u.output = Calling(func, args)
<1>. DEFINE t == FanOut(kind, func, args, keys, entries)
            u == Filled(t)
<1>1. t.kind = kind /\ t.func = func /\ t.args = args /\ t.keys = keys /\ t.entries = entries
  BY DEF FanOut
<1>2. Answers(t, v)
  BY DeliversTask
<1>. HIDE DEF t
<1>3. v = Finish(u)
  BY <1>1, <1>2, FanOutCost
<1>4. /\ u.kind = kind /\ u.args = args /\ u.keys = keys
      /\ u.entries = entries /\ u.output = Calling(func, args)
  BY <1>1 DEF Filled, Partly
<1>. HIDE DEF u
<1>. QED  BY <1>3, <1>4

\* map over a list, an option or a result.
LEMMA MapAnswer ==
    ASSUME NEW f, NEW c, IsList(c) \/ IsOptional(c) \/ IsOutcome(c), NEW v,
           Delivers(PrimMap(f, c), v)
    PROVE  v = IF c[1] = "list" THEN ListValue(Calling(f, c[2]))
               ELSE IF c[2] \in {"None", "Err"} THEN c
               ELSE AdtValue(c[2], <<Apply(f, c[3][1])>>)
<1>1. CASE c[1] = "list"
  <2>1. Delivers(Task(FanOut("SequenceMap", f, c[2], <<>>, <<>>)), v)
    BY <1>1 DEF PrimMap, OverContainer
  <2>2. "SequenceMap" \in FanOutKinds
    BY DEF FanOutKinds
  <2>3. PICK u : v = Finish(u) /\ u.kind = "SequenceMap" /\ u.output = Calling(f, c[2])
    BY <2>1, <2>2, DeliversFanOut
  <2>4. v = ListValue(Calling(f, c[2]))
    BY <2>3 DEF Finish, SequenceMapResult
  <2>. QED  BY <1>1, <2>4
<1>2. CASE c[1] # "list" /\ c[2] \in {"None", "Err"}
  BY <1>2, DeliversReady DEF PrimMap, OverContainer
<1>3. CASE c[1] # "list" /\ c[2] \notin {"None", "Err"}
  <2>. DEFINE shape == IF IsOption(c) THEN "Option" ELSE "Result"
              t == Sequential("UnaryMap", f, <<>>, shape, c[3][1])
  <2>1. Delivers(Task(t), v)
    BY <1>3 DEF PrimMap, OverContainer
  <2>2. \/ c[2] = "Some" /\ shape = "Option"
        \/ c[2] = "Ok" /\ shape = "Result"
    <3>1. CASE IsOptional(c)
      BY <1>3, <3>1 DEF IsOptional, None, Some, AdtValue, IsOption, IsAdt
    <3>2. CASE IsOutcome(c)
      BY <1>3, <3>2 DEF IsOutcome, Ok, AdtValue, IsOption, IsAdt
    <3>. QED  BY <1>3, <3>1, <3>2 DEF IsList
  <2>. HIDE DEF shape
  <2>3. t.kind = "UnaryMap" /\ t.func = f /\ t.other = shape /\ t.acc = c[3][1]
    BY DEF Sequential
  <2>. HIDE DEF t
  <2>4. v = UnaryAnswer(t)
    BY <2>1, <2>3, DeliversTask, UnaryFacts DEF UnaryKinds
  <2>5. UnaryAnswer(t) = IF shape = "Option" THEN Some(Apply(f, c[3][1]))
                         ELSE Ok(Apply(f, c[3][1]))
    BY <2>3 DEF UnaryAnswer, UnaryReceive, Stepped, Return
  <2>. QED  BY <1>3, <2>2, <2>4, <2>5 DEF Some, Ok
<1>. QED  BY <1>1, <1>2, <1>3

\* or_else keeps what is not empty.
LEMMA OrElseAnswer ==
    ASSUME NEW f, NEW c, IsList(c) \/ IsOptional(c) \/ IsOutcome(c), NEW v,
           Delivers(OrElse(f, c), v)
    PROVE  v = IF Empty(c) THEN Apply(f, c) ELSE c
<1>. DEFINE full == IF c[1] = "list" THEN c[2] # <<>> ELSE c[2] \in {"Some", "Ok"}
            t == Sequential("ApplyUnary", f, <<>>, Missing, c)
<1>1. Empty(c) <=> ~full
  <2>1. CASE IsList(c)
    BY <2>1 DEF IsList, Empty, IsAdt, ListValue
  <2>2. CASE IsOptional(c)
    BY <2>2 DEF IsOptional, Empty, IsAdt, ListValue, None, Some, AdtValue
  <2>3. CASE IsOutcome(c)
    BY <2>3 DEF IsOutcome, Empty, IsAdt, ListValue, Ok, AdtValue
  <2>. QED  BY <2>1, <2>2, <2>3
<1>2. OrElse(f, c) = IF full THEN Ready(c) ELSE Task(t)
  BY DEF OrElse
<1>3. t.kind = "ApplyUnary" /\ t.func = f /\ t.acc = c
  BY DEF Sequential
<1>. HIDE DEF t, full
<1>4. CASE full
  BY <1>1, <1>2, <1>4, DeliversReady
<1>5. CASE ~full
  <2>1. v = UnaryAnswer(t)
    BY <1>2, <1>3, <1>5, DeliversTask, UnaryFacts DEF UnaryKinds
  <2>2. UnaryAnswer(t) = Apply(f, c)
    BY <1>3 DEF UnaryAnswer, UnaryReceive, Stepped, Return
  <2>. QED  BY <1>1, <1>5, <2>1, <2>2
<1>. QED  BY <1>4, <1>5

\* any, all, find and find_index.
FoundElement(s, found) == IF found = {} THEN None ELSE Some(s[Least(found)])

FoundIndex(found) == IF found = {} THEN None ELSE Some(IntValue(Least(found) - 1))

LEMMA SearchAnswers ==
    ASSUME NEW kind \in Searches, NEW f, NEW c, NEW v, Delivers(ListSearch(kind, f, c), v)
    PROVE  LET found == Matching(f, c[2])
           IN  /\ kind = "Any" => v = BoolValue(found # {})
               /\ kind = "All" => v = BoolValue(found = 1..Len(c[2]))
               /\ kind = "Find" => v = FoundElement(c[2], found)
               /\ kind = "FindIndex" => v = FoundIndex(found)
<1>. DEFINE t == Sequential(kind, f, c[2], Missing, Missing)
            found == Matching(f, c[2])
            n == Len(c[2])
<1>1. t.kind = kind /\ t.func = f /\ t.values = c[2]
  BY DEF Sequential
<1>2. Answers(t, v)
  BY DeliversTask DEF ListSearch
<1>. HIDE DEF t
<1>3. v = SearchAnswer(t)
  BY <1>1, <1>2, SearchFacts
<1>4. kind # "All" => Deciding(t) = found
  BY <1>1 DEF Deciding, Decides, Matching
<1>5. kind = "All" => (Deciding(t) = {} <=> found = 1..n)
  BY <1>1 DEF Deciding, Decides, Matching
<1>. HIDE DEF found, n
<1>6. CASE kind = "Any"
  <2>1. v = BoolValue(Deciding(t) # {})
    BY <1>1, <1>3, <1>6 DEF SearchAnswer
  <2>. QED  BY <1>4, <1>6, <2>1 DEF found
<1>7. CASE kind = "All"
  <2>1. v = BoolValue(~(Deciding(t) # {}))
    BY <1>1, <1>3, <1>7 DEF SearchAnswer
  <2>2. (~(Deciding(t) # {})) = (found = 1..n)
    BY <1>5, <1>7
  <2>. QED  BY <1>7, <2>1, <2>2 DEF found, n
<1>8. CASE kind = "Find"
  <2>1. v = IF Deciding(t) # {} THEN Some(t.values[Least(Deciding(t))]) ELSE None
    BY <1>1, <1>3, <1>8 DEF SearchAnswer
  <2>. QED  BY <1>1, <1>4, <1>8, <2>1 DEF found, FoundElement
<1>9. CASE kind = "FindIndex"
  <2>1. v = IF Deciding(t) # {} THEN Some(IntValue(Least(Deciding(t)) - 1)) ELSE None
    BY <1>1, <1>3, <1>9 DEF SearchAnswer
  <2>. QED  BY <1>4, <1>9, <2>1 DEF found, FoundIndex
<1>. QED  BY <1>6, <1>7, <1>8, <1>9 DEF Searches, found, n

LEMMA CountAnswer ==
    ASSUME NEW f, NEW c, IsList(c), NEW v, Delivers(ListPredicate("Count", f, c), v)
    PROVE  v = IntValue(Cardinality(Matching(f, c[2])))
<1>1. "Count" \in FanOutKinds
  BY DEF FanOutKinds, Predicates
<1>2. PICK u : v = Finish(u) /\ u.kind = "Count" /\ u.output = Calling(f, c[2])
  BY <1>1, DeliversFanOut DEF ListPredicate
<1>3. v = IntValue(Cardinality({i \in 1..Len(u.output) : Holds(u.output[i])}))
  BY <1>2 DEF Finish, CountResult, Satisfying
<1>4. Len(c[2]) \in Nat
  BY SequenceFacts DEF IsList
<1>5. Len(Calling(f, c[2])) = Len(c[2])
  BY <1>4 DEF Calling
<1>6. \A i \in 1..Len(c[2]) : Calling(f, c[2])[i] = Apply(f, c[2][i])
  BY DEF Calling
<1>7. {i \in 1..Len(u.output) : Holds(u.output[i])} = Matching(f, c[2])
  BY <1>2, <1>5, <1>6 DEF Matching
<1>. QED  BY <1>3, <1>7

\* The callbacks of the task that answers a call return what they should.
Typed(answer) == answer.op = "Task" => CallbacksTyped(answer.task)

\* What the natives of lists, options and results return.
LEMMA ContainerAnswers ==
    ASSUME NEW listKind \in FanOutKinds, NEW unaryKind \in UnaryKinds, NEW f, NEW c, NEW v,
           Delivers(OverContainer(listKind, unaryKind, f, c), v),
           Typed(OverContainer(listKind, unaryKind, f, c))
    PROVE  /\ c[1] = "list" =>
                  \E u : /\ v = Finish(u) /\ u.kind = listKind /\ u.args = c[2]
                         /\ u.output = Calling(f, c[2])
           /\ c[1] # "list" /\ c[2] \in {"None", "Err"} => v = c
           /\ c[1] # "list" /\ c[2] \notin {"None", "Err"} =>
                  \E t : /\ v = UnaryAnswer(t) /\ t.kind = unaryKind /\ t.func = f
                         /\ t.acc = c[3][1] /\ (unaryKind = "UnaryFilter" => t.other = c)
                         /\ CallbacksTyped(t)
<1>1. CASE c[1] = "list"
  <2>1. Delivers(Task(FanOut(listKind, f, c[2], <<>>, <<>>)), v)
    BY <1>1 DEF OverContainer
  <2>2. \E u : /\ v = Finish(u) /\ u.kind = listKind /\ u.args = c[2]
               /\ u.output = Calling(f, c[2])
    BY <2>1, DeliversFanOut
  <2>. QED  BY <1>1, <2>2
<1>2. CASE c[1] # "list" /\ c[2] \in {"None", "Err"}
  BY <1>2, DeliversReady DEF OverContainer
<1>3. CASE c[1] # "list" /\ c[2] \notin {"None", "Err"}
  <2>. DEFINE other == CASE unaryKind = "UnaryFilter" -> c
                         [] OTHER -> IF IsOption(c) THEN "Option" ELSE "Result"
              t == Sequential(unaryKind, f, <<>>, other, c[3][1])
  <2>1. OverContainer(listKind, unaryKind, f, c) = Task(t)
    BY <1>3, Zenon DEF OverContainer
  <2>2. unaryKind = "UnaryFilter" => other = c
    OBVIOUS
  <2>. HIDE DEF other
  <2>3. t.kind = unaryKind /\ t.func = f /\ t.other = other /\ t.acc = c[3][1]
    BY DEF Sequential
  <2>. HIDE DEF t
  <2>4. v = UnaryAnswer(t)
    BY <2>1, <2>3, DeliversTask, UnaryFacts
  <2>5. CallbacksTyped(t)
    BY <2>1 DEF Typed, Task
  <2>. QED  BY <1>3, <2>2, <2>3, <2>4, <2>5
<1>. QED  BY <1>1, <1>2, <1>3

\* The results of a function on a list, and where its predicate holds.
LEMMA CallingFacts ==
    ASSUME NEW f, NEW c, c[1] = "list", IsList(c) \/ IsOptional(c) \/ IsOutcome(c)
    PROVE  /\ Len(c[2]) \in Nat /\ DOMAIN c[2] = 1..Len(c[2]) /\ Len(Calling(f, c[2])) = Len(c[2])
           /\ \A i \in 1..Len(c[2]) : Calling(f, c[2])[i] = Apply(f, c[2][i])
           /\ Matching(f, c[2]) \subseteq 1..Len(c[2])
           /\ {i \in 1..Len(Calling(f, c[2])) : Holds(Calling(f, c[2])[i])} = Matching(f, c[2])
<1>1. IsList(c)
  BY DEF IsOptional, IsOutcome
<1>2. Len(c[2]) \in Nat /\ DOMAIN c[2] = 1..Len(c[2])
  BY <1>1, SequenceFacts DEF IsList
<1>3. Len(Calling(f, c[2])) = Len(c[2])
  BY <1>2 DEF Calling
<1>4. \A i \in 1..Len(c[2]) : Calling(f, c[2])[i] = Apply(f, c[2][i])
  BY DEF Calling
<1>5. {i \in 1..Len(Calling(f, c[2])) : Holds(Calling(f, c[2])[i])} = Matching(f, c[2])
  BY <1>3, <1>4 DEF Matching
<1>6. Matching(f, c[2]) \subseteq 1..Len(c[2])
  BY DEF Matching
<1>. QED  BY <1>2, <1>3, <1>4, <1>5, <1>6

\* What a unary task makes of its callback's result.
LEMMA UnaryAnswers ==
    ASSUME NEW t, t.kind \in UnaryKinds, CallbacksTyped(t)
    PROVE  LET value == Apply(t.func, t.acc)
           IN  /\ t.kind = "UnaryFilter" => UnaryAnswer(t) = IF Holds(value) THEN t.other ELSE None
               /\ t.kind \in {"UnaryFilterMap", "UnaryFlatMap"} => UnaryAnswer(t) = value
<1>. DEFINE value == Apply(t.func, t.acc)
<1>1. t.kind \notin FanOutKinds /\ t.kind \notin Searches
  BY KindsDisjoint DEF SequentialKinds
<1>2. /\ t.kind = "UnaryFilter" => value[1] = "bool"
      /\ t.kind = "UnaryFlatMap" /\ t.other = "Result" =>
             IsAdt(value, "Ok", 1) \/ IsAdt(value, "Err", 1)
  BY <1>1 DEF CallbacksTyped, IsResult
<1>3. UnaryAnswer(t) = UnaryReceive(t, value).step.value
  BY DEF UnaryAnswer
<1>. HIDE DEF value
<1>4. \A x : Stepped(t, Return(x)).step.value = x
  BY DEF Stepped, Return
<1>5. t.kind = "UnaryFilter" =>
          UnaryReceive(t, value) = Stepped(t, Return(IF Holds(value) THEN t.other ELSE None))
  BY <1>2 DEF UnaryReceive
<1>6. t.kind \in {"UnaryFilterMap", "UnaryFlatMap"} =>
          UnaryReceive(t, value) = Stepped(t, Return(value))
  BY <1>2 DEF UnaryReceive
<1>7. t.kind = "UnaryFilter" => UnaryAnswer(t) = IF Holds(value) THEN t.other ELSE None
  BY <1>3, <1>4, <1>5
<1>8. t.kind \in {"UnaryFilterMap", "UnaryFlatMap"} => UnaryAnswer(t) = value
  BY <1>3, <1>4, <1>6
<1>. QED  BY <1>7, <1>8 DEF value

\* filter over a list or an option.
LEMMA FilterAnswer ==
    ASSUME NEW f, NEW c, IsList(c) \/ IsOptional(c), NEW v,
           Delivers(PrimFilter(f, c), v), Typed(PrimFilter(f, c))
    PROVE  v = IF c[1] = "list" THEN ListValue(Keeping(c[2], Matching(f, c[2])))
               ELSE IF c[3] # <<>> /\ Holds(Apply(f, c[3][1])) THEN c ELSE None
<1>1. "SequenceFilter" \in FanOutKinds /\ "UnaryFilter" \in UnaryKinds
  BY DEF FanOutKinds, Predicates, UnaryKinds
<1>2. PrimFilter(f, c) = OverContainer("SequenceFilter", "UnaryFilter", f, c)
  BY DEF PrimFilter
<1>3. CASE c[1] = "list"
  <2>1. PICK u : /\ v = Finish(u) /\ u.kind = "SequenceFilter" /\ u.args = c[2]
                 /\ u.output = Calling(f, c[2])
    BY <1>1, <1>2, <1>3, ContainerAnswers
  <2>2. v = ListValue(Selected(u.args, {i \in 1..Len(u.output) : Holds(u.output[i])}))
    BY <2>1 DEF Finish, SequenceFilterResult, Satisfying
  <2>3. {i \in 1..Len(u.output) : Holds(u.output[i])} = Matching(f, c[2])
    BY <1>3, <2>1, CallingFacts, ZenonT(60)
  <2>4. Selected(c[2], Matching(f, c[2])) = Keeping(c[2], Matching(f, c[2]))
    BY <1>3, CallingFacts, SelectedIsKeeping
  <2>. QED  BY <1>3, <2>1, <2>2, <2>3, <2>4
<1>4. CASE c[1] # "list"
  <2>1. IsOptional(c)
    BY <1>4 DEF IsList
  <2>2. CASE c[2] = "None"
    <3>1. c = None /\ c[3] = <<>>
      BY <2>1, <2>2 DEF IsOptional, None, Some, AdtValue
    <3>2. v = c
      BY <1>1, <1>2, <1>4, <2>2, ContainerAnswers
    <3>. QED  BY <1>4, <3>1, <3>2
  <2>3. CASE c[2] # "None"
    <3>1. c[2] = "Some" /\ c[3] # <<>>
      BY <2>1, <2>3 DEF IsOptional, None, Some, AdtValue
    <3>2. PICK t : /\ v = UnaryAnswer(t) /\ t.kind = "UnaryFilter" /\ t.func = f
                   /\ t.acc = c[3][1] /\ t.other = c /\ CallbacksTyped(t)
      BY <1>1, <1>2, <1>4, <3>1, ContainerAnswers
    <3>3. v = IF Holds(Apply(f, c[3][1])) THEN c ELSE None
      BY <1>1, <3>2, UnaryAnswers
    <3>. QED  BY <1>4, <3>1, <3>3
  <2>. QED  BY <2>2, <2>3
<1>. QED  BY <1>3, <1>4

\* The results of a function that are not None, unwrapped.
Unwrapped(f, s) ==
    LET somes == Keeping(Calling(f, s), {i \in 1..Len(s) : Apply(f, s[i]) # None})
    IN  [i \in 1..Len(somes) |-> somes[i][3][1]]

\* filter_map over a list or an option.
LEMMA FilterMapAnswer ==
    ASSUME NEW f, NEW c, IsList(c) \/ IsOptional(c), NEW v,
           Delivers(PrimFilterMap(f, c), v), Typed(PrimFilterMap(f, c))
    PROVE  v = IF c[1] = "list" THEN ListValue(Unwrapped(f, c[2]))
               ELSE IF c[3] = <<>> THEN None ELSE Apply(f, c[3][1])
<1>1. "SequenceFilterMap" \in FanOutKinds /\ "UnaryFilterMap" \in UnaryKinds
  BY DEF FanOutKinds, OptionCallbacks, UnaryKinds
<1>2. PrimFilterMap(f, c) = OverContainer("SequenceFilterMap", "UnaryFilterMap", f, c)
  BY DEF PrimFilterMap
<1>3. CASE c[1] = "list"
  <2>. DEFINE n == Len(c[2])
              out == Calling(f, c[2])
              some == {i \in 1..n : Apply(f, c[2][i]) # None}
  <2>1. PICK u : v = Finish(u) /\ u.kind = "SequenceFilterMap" /\ u.output = out
    BY <1>1, <1>2, <1>3, ContainerAnswers
  <2>2. \A i \in 1..n : IsOptional(Apply(f, c[2][i]))
    <3>. DEFINE t == FanOut("SequenceFilterMap", f, c[2], <<>>, <<>>)
    <3>1. t.kind = "SequenceFilterMap" /\ t.func = f /\ t.args = c[2]
      BY DEF FanOut
    <3>2. PrimFilterMap(f, c) = Task(t)
      BY <1>2, <1>3 DEF OverContainer
    <3>. HIDE DEF t
    <3>3. CallbacksTyped(t)
      BY <3>2 DEF Typed, Task
    <3>4. \A i \in DOMAIN c[2] : IsOptional(Apply(f, c[2][i]))
      BY <1>1, <3>1, <3>3, FanOutCost DEF OptionCallbacks
    <3>. QED  BY <1>3, <3>4, CallingFacts
  <2>3. n \in Nat /\ Len(out) = n /\ \A i \in 1..n : out[i] = Apply(f, c[2][i])
    BY <1>3, CallingFacts
  <2>4. \A r : IsOptional(r) => (IsSome(r) <=> r # None)
    BY DEF IsOptional, IsSome, IsAdt, None, Some, AdtValue
  <2>5. {i \in 1..Len(out) : IsSome(out[i])} = some
    BY <2>2, <2>3, <2>4
  <2>6. Finish(u) = SequenceFilterMapResult(u)
    BY <2>1 DEF Finish
  <2>7. Selected(u.output, {i \in 1..Len(u.output) : IsSome(u.output[i])}) = Keeping(out, some)
    <3>1. some \subseteq 1..Len(out) /\ Len(out) \in Nat
      BY <2>3
    <3>. HIDE DEF out, some
    <3>. QED  BY <2>1, <2>5, <3>1, SelectedIsKeeping
  <2>8. v = ListValue(LET kept == Keeping(out, some)
                      IN  [i \in 1..Len(kept) |-> Inner(kept[i])])
    <3>. HIDE DEF out, some
    <3>. QED  BY <2>1, <2>6, <2>7 DEF SequenceFilterMapResult, Satisfying
  <2>. QED  BY <1>3, <2>8 DEF Unwrapped, Inner
<1>4. CASE c[1] # "list"
  <2>1. IsOptional(c)
    BY <1>4 DEF IsList
  <2>2. CASE c[2] = "None"
    <3>1. c = None /\ c[3] = <<>>
      BY <2>1, <2>2 DEF IsOptional, None, Some, AdtValue
    <3>2. v = c
      BY <1>1, <1>2, <1>4, <2>2, ContainerAnswers
    <3>. QED  BY <1>4, <3>1, <3>2
  <2>3. CASE c[2] # "None"
    <3>1. c[2] = "Some" /\ c[3] # <<>>
      BY <2>1, <2>3 DEF IsOptional, None, Some, AdtValue
    <3>2. PICK t : /\ v = UnaryAnswer(t) /\ t.kind = "UnaryFilterMap" /\ t.func = f
                   /\ t.acc = c[3][1] /\ CallbacksTyped(t)
      BY <1>1, <1>2, <1>4, <3>1, ContainerAnswers
    <3>. QED  BY <1>1, <1>4, <3>1, <3>2, UnaryAnswers
  <2>. QED  BY <2>2, <2>3
<1>. QED  BY <1>3, <1>4

\* flat_map over a list, an option or a result.
LEMMA FlatMapAnswer ==
    ASSUME NEW f, NEW c, IsList(c) \/ IsOptional(c) \/ IsOutcome(c), NEW v,
           Delivers(PrimFlatMap(f, c), v), Typed(PrimFlatMap(f, c))
    PROVE  v = IF c[1] = "list"
               THEN ListValue(FlattenSeq([i \in 1..Len(c[2]) |-> Apply(f, c[2][i])[2]]))
               ELSE IF c[2] \in {"None", "Err"} THEN c
               ELSE Apply(f, c[3][1])
<1>1. "SequenceFlatMap" \in FanOutKinds /\ "UnaryFlatMap" \in UnaryKinds
  BY DEF FanOutKinds, UnaryKinds
<1>2. PrimFlatMap(f, c) = OverContainer("SequenceFlatMap", "UnaryFlatMap", f, c)
  BY DEF PrimFlatMap
<1>3. CASE c[1] = "list"
  <2>. DEFINE lists == [i \in 1..Len(c[2]) |-> Apply(f, c[2][i])[2]]
  <2>1. PICK u : v = Finish(u) /\ u.kind = "SequenceFlatMap" /\ u.output = Calling(f, c[2])
    BY <1>1, <1>2, <1>3, ContainerAnswers
  <2>2. v = ListValue(FlattenSeq([i \in 1..Len(u.output) |-> u.output[i][2]]))
    BY <2>1 DEF Finish, SequenceFlatMapResult
  <2>3. [i \in 1..Len(u.output) |-> u.output[i][2]] = lists
    <3>1. Len(u.output) = Len(c[2]) /\ \A i \in 1..Len(c[2]) : u.output[i] = Apply(f, c[2][i])
      <4>1. /\ Len(Calling(f, c[2])) = Len(c[2])
            /\ \A i \in 1..Len(c[2]) : Calling(f, c[2])[i] = Apply(f, c[2][i])
        BY <1>3, CallingFacts
      <4>. QED  BY <2>1, <4>1, Zenon
    <3>. QED  BY <3>1
  <2>. HIDE DEF lists
  <2>4. v = ListValue(FlattenSeq(lists))
    BY <2>2, <2>3
  <2>. QED  BY <1>3, <2>4 DEF lists
<1>4. CASE c[1] # "list" /\ c[2] \in {"None", "Err"}
  BY <1>1, <1>2, <1>4, ContainerAnswers
<1>5. CASE c[1] # "list" /\ c[2] \notin {"None", "Err"}
  <2>1. PICK t : /\ v = UnaryAnswer(t) /\ t.kind = "UnaryFlatMap" /\ t.func = f
                 /\ t.acc = c[3][1] /\ CallbacksTyped(t)
    BY <1>1, <1>2, <1>5, ContainerAnswers
  <2>. QED  BY <1>1, <1>5, <2>1, UnaryAnswers
<1>. QED  BY <1>3, <1>4, <1>5

\* partition.
LEMMA PartitionAnswer ==
    ASSUME NEW f, NEW c, IsList(c), NEW v, Delivers(ListPredicate("Partition", f, c), v)
    PROVE  v = TupleValue(<<ListValue(Keeping(c[2], Matching(f, c[2]))),
                            ListValue(Keeping(c[2], (1..Len(c[2])) \ Matching(f, c[2])))>>)
<1>. DEFINE n == Len(c[2])
            yes == Matching(f, c[2])
            no == (1..n) \ yes
<1>1. "Partition" \in FanOutKinds /\ c[1] = "list"
  BY DEF FanOutKinds, Predicates, IsList
<1>2. PICK u : /\ v = Finish(u) /\ u.kind = "Partition" /\ u.args = c[2]
               /\ u.output = Calling(f, c[2])
  BY <1>1, DeliversFanOut DEF ListPredicate
<1>3. v = TupleValue(
              <<ListValue(Selected(u.args, {i \in 1..Len(u.output) : Holds(u.output[i])})),
                ListValue(Selected(u.args, {i \in 1..Len(u.output) : ~Holds(u.output[i])}))>>)
  BY <1>2 DEF Finish, PartitionResult, Satisfying
<1>4. /\ n \in Nat /\ Len(u.output) = n /\ \A i \in 1..n : u.output[i] = Apply(f, c[2][i])
      /\ {i \in 1..Len(u.output) : Holds(u.output[i])} = yes /\ yes \subseteq 1..n
  <2>. DEFINE out == Calling(f, c[2])
  <2>1. /\ n \in Nat /\ Len(out) = n /\ \A i \in 1..n : out[i] = Apply(f, c[2][i])
        /\ {i \in 1..Len(out) : Holds(out[i])} = yes /\ yes \subseteq 1..n
    BY <1>1, CallingFacts
  <2>. QED  BY <1>2, <2>1, Zenon
<1>5. {i \in 1..Len(u.output) : ~Holds(u.output[i])} = no
  BY <1>4 DEF Matching
<1>6. no \subseteq 1..n
  OBVIOUS
<1>. HIDE DEF yes, no
<1>7. Selected(c[2], yes) = Keeping(c[2], yes) /\ Selected(c[2], no) = Keeping(c[2], no)
  BY <1>4, <1>6, SelectedIsKeeping
<1>8. v = TupleValue(<<ListValue(Keeping(c[2], yes)), ListValue(Keeping(c[2], no))>>)
  BY <1>2, <1>3, <1>4, <1>5, <1>7
<1>. QED  BY <1>8 DEF yes, no

\* foldl, fold, foldr, sum and mean.
LEMMA FoldAnswers ==
    ASSUME NEW f, NEW start, NEW s, NEW v
    PROVE  /\ Delivers(Task(Sequential("FoldLeft", f, s, Missing, start)), v) =>
                  v = Folded(f, start, s, TRUE)[Len(s)]
           /\ Delivers(Task(Sequential("FoldRight", f, s, Missing, start)), v) =>
                  v = Folded(f, start, s, FALSE)[Len(s)]
<1>1. ASSUME NEW kind \in FoldKinds,
             Delivers(Task(Sequential(kind, f, s, Missing, start)), v)
      PROVE  v = IF kind = "FoldLeft" THEN Folded(f, start, s, TRUE)[Len(s)]
                 ELSE Folded(f, start, s, FALSE)[Len(s)]
  <2>. DEFINE t == Sequential(kind, f, s, Missing, start)
  <2>1. t.kind = kind /\ t.func = f /\ t.values = s /\ t.acc = start
    BY DEF Sequential
  <2>. HIDE DEF t
  <2>2. v = FoldedTo(t, Len(t.values))
    BY <1>1, <2>1, DeliversTask, FoldFacts DEF t
  <2>. QED  BY <2>1, <2>2 DEF FoldedTo, FoldKinds
<1>2. "FoldLeft" \in FoldKinds /\ "FoldRight" \in FoldKinds
  BY DEF FoldKinds
<1>. QED  BY <1>1, <1>2

\* The sum of a sequence that is not empty.
Summed(s) == Folded(Overloaded("+"), Head(s), Tail(s), TRUE)[Len(s) - 1]

LEMMA SumAnswers ==
    ASSUME NEW c, NEW v, Delivers(Sum(c), v)
    PROVE  v = IF Elements(c) = <<>> THEN <<"var", "zero">> ELSE Summed(Elements(c))
<1>. DEFINE t == Sequential("Sum", Missing, Elements(c), Missing, Missing)
<1>1. t.kind = "Sum" /\ t.values = Elements(c)
  BY DEF Sequential
<1>2. Delivers(Task(t), v)
  BY DEF Sum
<1>. HIDE DEF t
<1>3. v = SumAnswer(t)
  BY <1>1, <1>2, DeliversTask, SumFacts
<1>. QED  BY <1>1, <1>3 DEF SumAnswer, FoldedTo, Summed

LEMMA MeanAnswers ==
    ASSUME NEW c, NEW v, Delivers(Mean(c), v)
    PROVE  v = IF Elements(c) = <<>> THEN <<"error", "EmptySequence">>
               ELSE Apply2(Overloaded("/"), Summed(Elements(c)), IntValue(Len(Elements(c))))
<1>1. CASE Elements(c) = <<>>
  <2>1. Mean(c) = NoTask("EmptySequence")
    BY <1>1 DEF Mean
  <2>2. v = <<"error", "EmptySequence">>
    BY <2>1 DEF Delivers, NoTask
  <2>. QED  BY <1>1, <2>2
<1>2. CASE Elements(c) # <<>>
  <2>. DEFINE t == Sequential("Mean", Missing, Elements(c), Missing, Missing)
  <2>1. t.kind = "Mean" /\ t.values = Elements(c)
    BY DEF Sequential
  <2>2. Delivers(Task(t), v)
    BY <1>2 DEF Mean
  <2>. HIDE DEF t
  <2>3. v = MeanAnswer(t)
    BY <2>1, <2>2, DeliversTask, MeanFacts
  <2>4. FoldedTo(t, Len(t.values)) = Summed(Elements(c))
    BY <2>1 DEF FoldedTo, Summed
  <2>. QED  BY <1>2, <2>1, <2>3, <2>4 DEF MeanAnswer, Averaging, Apply2
<1>. QED  BY <1>1, <1>2

\* == and /= of lists.
LEMMA EqualityAnswers ==
    ASSUME NEW kind \in Equalities, NEW xs, NEW ys, IsList(xs), IsList(ys), NEW v,
           Delivers(PrimListEq(kind, xs, ys), v)
    PROVE  /\ kind = "ArrayEq" => v = BoolValue(xs = ys)
           /\ kind = "ArrayNe" => v = BoolValue(xs # ys)
<1>. DEFINE t == Sequential(kind, Missing, xs[2], ys[2], Missing)
<1>1. t.kind = kind /\ t.values = xs[2] /\ t.other = ys[2]
  BY DEF Sequential
<1>2. Answers(t, v)
  BY DeliversTask DEF PrimListEq
<1>. HIDE DEF t
<1>3. v = BoolValue((xs[2] = ys[2]) <=> (kind = "ArrayEq"))
  BY <1>1, <1>2, EqualityFacts
<1>4. (xs[2] = ys[2]) <=> (xs = ys)
  BY DEF IsList
<1>5. ((xs[2] = ys[2]) <=> (kind = "ArrayEq")) = IF kind = "ArrayEq" THEN xs = ys ELSE xs # ys
  BY <1>4
<1>. QED  BY <1>3, <1>5

GivesOptionals(f, args) == \A i \in DOMAIN args : IsOptional(Apply(f, args[i]))

\* What a callback on key k is given: the entry, or the pair of key and entry.
Given(d, paired, k) == IF paired THEN TupleValue(<<StringValue(k), d[k]>>) ELSE d[k]

MappedDict(f, d, paired) == [k \in DOMAIN d |-> Apply(f, Given(d, paired, k))]

FilteredDict(f, d, paired) ==
    [k \in {k \in DOMAIN d : Holds(Apply(f, Given(d, paired, k)))} |-> d[k]]

FilterMappedDict(f, d, paired) ==
    [k \in {k \in DOMAIN d : Apply(f, Given(d, paired, k)) # None} |->
        Apply(f, Given(d, paired, k))[3][1]]

\* map, filter and filter_map over the entries of a dictionary, and filter over
\* its pairs of key and entry.
LEMMA DictionaryAnswers ==
    ASSUME NEW kind \in {"DictMap", "DictFilter", "DictFilterMap"},
           NEW f, NEW c, IsDict(c), NEW v, NEW paired \in BOOLEAN, NEW args,
           args = IF paired THEN PairsOf(c[2]) ELSE EntriesOf(c[2]),
           Delivers(Task(FanOut(kind, f, args, KeysOf(c[2]), EntriesOf(c[2]))), v)
    PROVE  /\ kind = "DictMap" => v = DictValue(MappedDict(f, c[2], paired))
           /\ kind = "DictFilter" => v = DictValue(FilteredDict(f, c[2], paired))
           /\ kind = "DictFilterMap" /\ GivesOptionals(f, args)
                  => v = DictValue(FilterMappedDict(f, c[2], paired))
<1>. DEFINE d == c[2]
            n == Cardinality(DOMAIN d)
            Of(k) == Given(d, paired, k)
<1>1. kind \in FanOutKinds
  BY DEF FanOutKinds, Predicates, OptionCallbacks
<1>2. PICK u : /\ v = Finish(u) /\ u.kind = kind /\ u.keys = KeysOf(d)
               /\ u.entries = EntriesOf(d) /\ u.output = Calling(f, args)
  BY <1>1, DeliversFanOut
<1>3. IsFiniteSet(DOMAIN d) /\ DOMAIN d \subseteq Int
  BY DEF IsDict
<1>. HIDE DEF d
<1>4. /\ Range(u.keys) = DOMAIN d
      /\ \A k \in DOMAIN d : /\ Slot(u, k) \in 1..n
                             /\ EntriesOf(d)[Slot(u, k)] = d[k]
                             /\ PairsOf(d)[Slot(u, k)] = TupleValue(<<StringValue(k), d[k]>>)
  BY <1>2, <1>3, SlotOfKey
<1>5. n \in Nat /\ Len(args) = n /\ DOMAIN args = 1..n
  BY <1>3, KeysCounted, SequenceFacts DEF d
<1>6. \A k \in DOMAIN d : args[Slot(u, k)] = Of(k)
  BY <1>4 DEF d, Given
<1>. HIDE DEF n, Of
<1>7. \A k \in DOMAIN d : u.output[Slot(u, k)] = Apply(f, Of(k))
  <2>1. \A i \in 1..n : Calling(f, args)[i] = Apply(f, args[i])
    BY <1>5 DEF Calling
  <2>2. ASSUME NEW k \in DOMAIN d PROVE u.output[Slot(u, k)] = Apply(f, Of(k))
    <3>1. Slot(u, k) \in 1..n /\ args[Slot(u, k)] = Of(k)
      BY <1>4, <1>6
    <3>2. Calling(f, args)[Slot(u, k)] = Apply(f, args[Slot(u, k)])
      BY <2>1, <3>1
    <3>. QED  BY <1>2, <3>1, <3>2, Zenon
  <2>. QED  BY <2>2
<1>8. CASE kind = "DictMap"
  <2>1. v = DictValue([k \in Range(u.keys) |-> u.output[Slot(u, k)]])
    BY <1>2, <1>8 DEF Finish, DictMapResult
  <2>2. [k \in Range(u.keys) |-> u.output[Slot(u, k)]] = [k \in DOMAIN d |-> Apply(f, Of(k))]
    BY <1>4, <1>7
  <2>. QED  BY <1>8, <2>1, <2>2 DEF d, Of, MappedDict
<1>9. CASE kind = "DictFilter"
  <2>. DEFINE kept == {k \in Range(u.keys) : Holds(u.output[Slot(u, k)])}
              wanted == {k \in DOMAIN d : Holds(Apply(f, Of(k)))}
  <2>1. v = DictValue([k \in kept |-> u.entries[Slot(u, k)]])
    BY <1>2, <1>9 DEF Finish, DictFilterResult
  <2>2. kept = wanted
    BY <1>4, <1>7
  <2>3. \A k \in wanted : u.entries[Slot(u, k)] = d[k]
    <3>1. wanted \subseteq DOMAIN d
      BY Zenon
    <3>. HIDE DEF wanted
    <3>2. ASSUME NEW k \in wanted PROVE u.entries[Slot(u, k)] = d[k]
      <4>1. EntriesOf(d)[Slot(u, k)] = d[k]
        BY <1>4, <3>1
      <4>2. u.entries = EntriesOf(d)
        BY <1>2
      <4>. QED  BY <4>1, <4>2, Zenon
    <3>. QED  BY <3>2
  <2>. HIDE DEF kept, wanted
  <2>4. [k \in kept |-> u.entries[Slot(u, k)]] = [k \in wanted |-> d[k]]
    BY <2>2, <2>3
  <2>. QED  BY <1>9, <2>1, <2>4 DEF d, Of, wanted, FilteredDict
<1>10. CASE kind = "DictFilterMap" /\ GivesOptionals(f, args)
  <2>. DEFINE kept == {k \in Range(u.keys) : IsSome(u.output[Slot(u, k)])}
              wanted == {k \in DOMAIN d : Apply(f, Of(k)) # None}
  <2>1. v = DictValue([k \in kept |-> Inner(u.output[Slot(u, k)])])
    BY <1>2, <1>10 DEF Finish, DictFilterMapResult
  <2>2. \A k \in DOMAIN d : IsOptional(Apply(f, Of(k)))
    <3>1. \A k \in DOMAIN d : Slot(u, k) \in DOMAIN args
      BY <1>4, <1>5
    <3>. QED  BY <1>6, <1>10, <3>1 DEF GivesOptionals
  <2>3. \A r : IsOptional(r) => (IsSome(r) <=> r # None)
    BY DEF IsOptional, IsSome, IsAdt, None, Some, AdtValue
  <2>4. kept = wanted
    BY <1>4, <1>7, <2>2, <2>3
  <2>5. \A k \in wanted : Inner(u.output[Slot(u, k)]) = Apply(f, Of(k))[3][1]
    BY <1>7 DEF Inner
  <2>. HIDE DEF kept, wanted
  <2>6. [k \in kept |-> Inner(u.output[Slot(u, k)])] = [k \in wanted |-> Apply(f, Of(k))[3][1]]
    BY <2>4, <2>5
  <2>. QED  BY <1>10, <2>1, <2>6 DEF d, Of, wanted, FilterMappedDict
<1>. QED  BY <1>8, <1>9, <1>10 DEF d

\* What dict_map makes of an entry, and the dictionary of all of them: of the
\* entries renamed to the same key, the one with the greatest key stays.
Renaming(f, d) ==
    [k \in DOMAIN d |-> Apply(f, TupleValue(<<StringValue(k), d[k]>>))[2]]

RenamedDict(r) ==
    [key \in {r[k][1][2] : k \in DOMAIN r} |->
        r[Greatest({k \in DOMAIN r : r[k][1][2] = key})][2]]

LEMMA EntryMapAnswer ==
    ASSUME NEW f, NEW c, IsDict(c), NEW v, Delivers(OverPairs("DictEntryMap", f, c[2]), v)
    PROVE  v = DictValue(RenamedDict(Renaming(f, c[2])))
<1>. DEFINE d == c[2]
            D == DOMAIN d
            n == Cardinality(D)
            r == Renaming(f, d)
            results == Calling(f, PairsOf(d))
            dict == EntriesInOrder(results)
            Key(i) == results[i][2][1][2]
            Same(key) == {k \in D : r[k][1][2] = key}
<1>1. "DictEntryMap" \in FanOutKinds
  BY DEF FanOutKinds
<1>2. PICK u : v = Finish(u) /\ u.kind = "DictEntryMap" /\ u.output = results
  BY <1>1, DeliversFanOut DEF OverPairs
<1>3. v = DictValue(dict)
  BY <1>2 DEF Finish, DictEntryMapResult
<1>4. IsFiniteSet(D) /\ D \subseteq Int
  BY DEF IsDict
<1>. HIDE DEF d
<1>5. n \in Nat /\ Len(PairsOf(d)) = n /\ Len(KeysOf(d)) = n
  BY <1>4, KeysCounted
<1>6. /\ \A k \in D : Rank(D, k) \in 1..n /\ Nth(D, Rank(D, k)) = k
      /\ \A i \in 1..n : Nth(D, i) \in D /\ Rank(D, Nth(D, i)) = i
      /\ \A k, l \in D : k < l => Rank(D, k) < Rank(D, l)
  BY <1>4, NthFacts
<1>7. Len(results) = n /\ \A i \in 1..n : results[i] = Apply(f, PairsOf(d)[i])
  BY <1>5 DEF Calling
<1>8. DOMAIN r = D /\ \A k \in D : r[k] = Apply(f, TupleValue(<<StringValue(k), d[k]>>))[2]
  BY DEF Renaming
<1>9. \A i \in 1..n : PairsOf(d)[i] = TupleValue(<<StringValue(Nth(D, i)), d[Nth(D, i)]>>)
  <2>1. \A i \in 1..n : KeysOf(d)[i] = Nth(D, i)
    BY DEF KeysOf
  <2>2. \A i \in 1..n :
            /\ EntriesOf(d)[i] = d[KeysOf(d)[i]]
            /\ PairsOf(d)[i] = TupleValue(<<StringValue(KeysOf(d)[i]), EntriesOf(d)[i]>>)
    BY <1>5 DEF EntriesOf, PairsOf
  <2>. QED  BY <2>1, <2>2, Zenon
<1>. HIDE DEF r, results, n
<1>10. ASSUME NEW i \in 1..n PROVE results[i][2] = r[Nth(D, i)]
  <2>1. PICK k \in D : k = Nth(D, i)
    BY <1>6
  <2>2. results[i] = Apply(f, PairsOf(d)[i])
    BY <1>7
  <2>3. PairsOf(d)[i] = TupleValue(<<StringValue(k), d[k]>>)
    BY <1>9, <2>1, Zenon
  <2>4. r[k] = Apply(f, TupleValue(<<StringValue(k), d[k]>>))[2]
    BY <1>8
  <2>. QED  BY <2>1, <2>2, <2>3, <2>4, Zenon
<1>11. /\ dict = [k \in {Key(i) : i \in 1..n} |-> dict[k]]
       /\ \A i \in 1..n : (\A j \in 1..n : j > i => Key(j) # Key(i))
                              => dict[Key(i)] = results[i][2][2]
  <2>. DEFINE m == Len(results)
  <2>1. /\ dict = [k \in {Key(i) : i \in 1..m} |-> dict[k]]
        /\ \A i \in 1..m : (\A j \in 1..m : j > i => Key(j) # Key(i))
                               => dict[Key(i)] = results[i][2][2]
    BY <1>5, <1>7, EntriesFacts
  <2>2. m = n
    BY <1>7
  <2>. HIDE DEF m, dict
  <2>. QED  BY <2>1, <2>2
<1>. HIDE DEF dict, D
<1>12. \A i \in 1..n : Key(i) = r[Nth(D, i)][1][2]
  BY <1>10, Zenon
<1>13. {Key(i) : i \in 1..n} = {r[k][1][2] : k \in D}
  <2>. HIDE DEF Key
  <2>1. ASSUME NEW i \in 1..n PROVE \E k \in D : Key(i) = r[k][1][2]
    BY <1>6, <1>12
  <2>2. ASSUME NEW k \in D PROVE \E i \in 1..n : r[k][1][2] = Key(i)
    <3>1. Rank(D, k) \in 1..n /\ Nth(D, Rank(D, k)) = k
      BY <1>6
    <3>2. Key(Rank(D, k)) = r[k][1][2]
      BY <1>12, <3>1, Zenon
    <3>. QED  BY <3>1, <3>2
  <2>. QED  BY <2>1, <2>2, SMTT(40)
<1>14. ASSUME NEW k \in D
       PROVE  dict[r[k][1][2]] = r[Greatest(Same(r[k][1][2]))][2]
  <2>. DEFINE key == r[k][1][2]
              last == Greatest(Same(key))
              i == Rank(D, last)
  <2>1. Same(key) \in SUBSET D /\ k \in Same(key)
    BY Zenon
  <2>2. \A l \in D : l \in Same(key) <=> r[l][1][2] = key
    OBVIOUS
  <2>. HIDE DEF Same, key
  <2>3. IsFiniteSet(Same(key)) /\ Same(key) \subseteq Int /\ Same(key) # {}
    BY <1>4, <2>1, FS_Subset
  <2>4. last \in Same(key) /\ \A l \in Same(key) : last >= l
    BY <2>3, GreatestExists
  <2>5. last \in D /\ r[last][1][2] = key
    BY <2>1, <2>2, <2>4
  <2>. HIDE DEF last
  <2>6. i \in 1..n /\ Nth(D, i) = last
    BY <1>6, <2>5
  <2>7. Key(i) = key
    <3>. HIDE DEF i, Key
    <3>1. Key(i) = r[Nth(D, i)][1][2]
      BY <1>12, <2>6, Zenon
    <3>. QED  BY <2>5, <2>6, <3>1, Zenon
  <2>8. ASSUME NEW j \in 1..n, j > i PROVE Key(j) # Key(i)
    <3>1. Nth(D, j) \in D /\ Rank(D, Nth(D, j)) = j
      BY <1>6
    <3>2. PICK l \in D : l = Nth(D, j) /\ Rank(D, l) = j
      BY <3>1
    <3>3. ~(l < last) /\ l # last
      <4>1. l < last => Rank(D, l) < i
        BY <1>6, <2>5
      <4>2. l = last => j = i
        BY <3>2
      <4>3. i \in Int /\ j \in Int
        BY <2>6
      <4>. HIDE DEF i
      <4>. QED  BY <2>8, <3>2, <4>1, <4>2, <4>3
    <3>4. ~(last >= l)
      <4>1. l \in Int /\ last \in Int
        BY <1>4, <2>5
      <4>. QED  BY <3>3, <4>1
    <3>5. r[l][1][2] # key
      BY <2>2, <2>4, <3>4
    <3>6. Key(j) = r[l][1][2]
      BY <1>12, <3>2
    <3>. HIDE DEF Key, i
    <3>. QED  BY <2>7, <3>5, <3>6
  <2>9. results[i][2] = r[last]
    BY <1>10, <2>6, Zenon
  <2>10. dict[Key(i)] = results[i][2][2]
    <3>. HIDE DEF Key, i
    <3>. QED  BY <1>11, <2>6, <2>8
  <2>11. dict[key] = r[last][2]
    <3>. HIDE DEF Key, i
    <3>. QED  BY <2>7, <2>9, <2>10, Zenon
  <2>. QED  BY <2>11 DEF key, last
<1>15. dict = RenamedDict(r)
  <2>. DEFINE keys == {r[k][1][2] : k \in D}
  <2>1. dict = [key \in keys |-> dict[key]]
    BY <1>11, <1>13, Zenon
  <2>2. ASSUME NEW key \in keys PROVE dict[key] = r[Greatest(Same(key))][2]
    <3>1. PICK k \in D : key = r[k][1][2]
      OBVIOUS
    <3>. HIDE DEF Same
    <3>. QED  BY <1>14, <3>1, Zenon
  <2>3. RenamedDict(r) = [key \in keys |-> r[Greatest(Same(key))][2]]
    BY <1>8, Zenon DEF RenamedDict
  <2>. HIDE DEF keys, Same
  <2>. QED  BY <2>1, <2>2, <2>3
<1>. QED  BY <1>3, <1>15 DEF r, d

\* update of one key.
OldEntry(d, key) == IF key \in DOMAIN d THEN Some(d[key]) ELSE None

UpdatedDict(d, key, new) ==
    [k \in (DOMAIN d \ {key}) \cup (IF new = None THEN {} ELSE {key}) |->
        IF k = key THEN new[3][1] ELSE d[k]]

LEMMA UpdateAnswer ==
    ASSUME NEW key, NEW f, NEW d, NEW v, Delivers(DictUpdate(key, f, d), v),
           IsOptional(Apply(f, OldEntry(d, key)))
    PROVE  v = DictValue(UpdatedDict(d, key, Apply(f, OldEntry(d, key))))
<1>. DEFINE old == OldEntry(d, key)
            new == Apply(f, old)
<1>1. "DictUpdate" \in FanOutKinds
  BY DEF FanOutKinds, OptionCallbacks
<1>2. PICK u : /\ v = Finish(u) /\ u.kind = "DictUpdate" /\ u.keys = <<key>>
               /\ u.entries = d /\ u.output = Calling(f, <<old>>)
  BY <1>1, DeliversFanOut DEF DictUpdate, OldEntry
<1>3. IsOptional(new)
  OBVIOUS
<1>. HIDE DEF old
<1>4. u.output[1] = new /\ u.keys[1] = key
  BY <1>2 DEF Calling
<1>. HIDE DEF new
<1>5. IsSome(new) <=> new # None
  BY <1>3 DEF IsOptional, IsSome, IsAdt, None, Some, AdtValue
<1>6. v = DictValue(IF IsSome(new) THEN Insert(d, key, Inner(new))
                    ELSE [k \in DOMAIN d \ {key} |-> d[k]])
  BY <1>2, <1>4 DEF Finish, DictUpdateResult
<1>. DEFINE wanted == UpdatedDict(d, key, new)
<1>7. new # None => Insert(d, key, Inner(new)) = wanted
  BY DEF Insert, Inner, UpdatedDict
<1>8. new = None => [k \in DOMAIN d \ {key} |-> d[k]] = wanted
  BY DEF UpdatedDict
<1>9. v = DictValue(wanted)
  <2>. HIDE DEF wanted
  <2>. QED  BY <1>5, <1>6, <1>7, <1>8
<1>. QED  BY <1>9 DEF new, old

\* Whatever a call returns is what its native's definition says.
LEMMA NativeAnswers ==
    ASSUME NEW c \in Calls, NEW v, Delivers(Asked(c), v)
    PROVE  v = Expected(c[1], c[2])
<1>. DEFINE name == c[1]
            args == c[2]
<1>1. /\ ArgumentsTyped(name, args) /\ Typed(Asked(c))
      /\ Asked(c).op = "Task" => CallbacksTyped(Asked(c).task)
  BY CallsAssumption DEF Asked, Typed
<1>2. Asked(c) = SchedulerNative(name, args)
  BY DEF Asked
<1>3. \A kind \in OptionCallbacks : \A func, s, keys, entries :
          Asked(c) = Task(FanOut(kind, func, s, keys, entries)) =>
              \A i \in DOMAIN s : IsOptional(Apply(func, s[i]))
  <2>. SUFFICES ASSUME NEW kind \in OptionCallbacks, NEW func, NEW s, NEW keys, NEW entries,
                       Asked(c) = Task(FanOut(kind, func, s, keys, entries))
                PROVE  \A i \in DOMAIN s : IsOptional(Apply(func, s[i]))
    OBVIOUS
  <2>. DEFINE t == FanOut(kind, func, s, keys, entries)
  <2>1. t.kind = kind /\ t.func = func /\ t.args = s
    BY DEF FanOut
  <2>2. Asked(c).op = "Task" /\ Asked(c).task = t
    BY DEF Task
  <2>. HIDE DEF t
  <2>3. kind \in FanOutKinds
    BY DEF FanOutKinds
  <2>4. CallbacksTyped(t)
    BY <1>1, <2>2
  <2>. QED  BY <2>1, <2>3, <2>4, FanOutCost
<1>. HIDE DEF name, args
<1>. SUFFICES v = Expected(name, args)
  BY DEF name, args
<1>4. CASE name = "prim_map"
  <2>1. Delivers(PrimMap(args[1], args[2]), v)
    BY <1>2, <1>4 DEF SchedulerNative
  <2>2. IsList(args[2]) \/ IsOptional(args[2]) \/ IsOutcome(args[2])
    BY <1>1, <1>4 DEF ArgumentsTyped
  <2>. QED  BY <1>4, <2>1, <2>2, MapAnswer DEF Expected
<1>5. CASE name = "prim_or_else"
  <2>1. Delivers(OrElse(args[1], args[2]), v)
    BY <1>2, <1>5 DEF SchedulerNative
  <2>2. IsList(args[2]) \/ IsOptional(args[2]) \/ IsOutcome(args[2])
    BY <1>1, <1>5 DEF ArgumentsTyped
  <2>. QED  BY <1>5, <2>1, <2>2, OrElseAnswer DEF Expected
<1>6. CASE name \in {"list_any", "list_all", "list_find", "list_find_index"}
  <2>. DEFINE found == Matching(args[1], args[2][2])
  <2>1. CASE name = "list_any"
    <3>1. Delivers(ListSearch("Any", args[1], args[2]), v)
      BY <1>2, <2>1 DEF SchedulerNative
    <3>2. v = BoolValue(found # {})
      BY <3>1, SearchAnswers DEF Searches
    <3>. QED  BY <2>1, <3>2 DEF Expected
  <2>2. CASE name = "list_all"
    <3>1. Delivers(ListSearch("All", args[1], args[2]), v)
      BY <1>2, <2>2 DEF SchedulerNative
    <3>2. v = BoolValue(found = 1..Len(args[2][2]))
      BY <3>1, SearchAnswers DEF Searches
    <3>. QED  BY <2>2, <3>2 DEF Expected
  <2>3. CASE name = "list_find"
    <3>1. Delivers(ListSearch("Find", args[1], args[2]), v)
      BY <1>2, <2>3 DEF SchedulerNative
    <3>2. "Find" \in Searches
      BY DEF Searches
    <3>3. v = FoundElement(args[2][2], found)
      BY <3>1, <3>2, SearchAnswers
    <3>. QED  BY <2>3, <3>3 DEF Expected, FoundElement
  <2>4. CASE name = "list_find_index"
    <3>1. Delivers(ListSearch("FindIndex", args[1], args[2]), v)
      BY <1>2, <2>4 DEF SchedulerNative
    <3>2. "FindIndex" \in Searches
      BY DEF Searches
    <3>3. v = FoundIndex(found)
      BY <3>1, <3>2, SearchAnswers
    <3>. QED  BY <2>4, <3>3 DEF Expected, FoundIndex
  <2>. QED  BY <1>6, <2>1, <2>2, <2>3, <2>4
<1>7. CASE name = "list_count"
  <2>1. Delivers(ListPredicate("Count", args[1], args[2]), v)
    BY <1>2, <1>7 DEF SchedulerNative
  <2>2. IsList(args[2])
    BY <1>1, <1>7 DEF ArgumentsTyped
  <2>. QED  BY <1>7, <2>1, <2>2, CountAnswer DEF Expected
<1>8. CASE name \in {"prim_list_eq", "prim_list_ne"}
  <2>1. IsList(args[1]) /\ IsList(args[2])
    BY <1>1, <1>8 DEF ArgumentsTyped
  <2>2. CASE name = "prim_list_eq"
    <3>1. Delivers(PrimListEq("ArrayEq", args[1], args[2]), v)
      BY <1>2, <2>2 DEF SchedulerNative
    <3>2. v = BoolValue(args[1] = args[2])
      BY <2>1, <3>1, EqualityAnswers DEF Equalities
    <3>. QED  BY <2>2, <3>2 DEF Expected
  <2>3. CASE name = "prim_list_ne"
    <3>1. Delivers(PrimListEq("ArrayNe", args[1], args[2]), v)
      BY <1>2, <2>3 DEF SchedulerNative
    <3>2. v = BoolValue(args[1] # args[2])
      BY <2>1, <3>1, EqualityAnswers DEF Equalities
    <3>. QED  BY <2>3, <3>2 DEF Expected
  <2>. QED  BY <1>8, <2>2, <2>3
<1>9. CASE name \in {"prim_dict_map", "prim_dict_filter", "prim_dict_filter_map", "dict_filter"}
  <2>. DEFINE f == args[1]
              c2 == args[2]
              d == c2[2]
              Over(kind, s) == Task(FanOut(kind, f, s, KeysOf(d), EntriesOf(d)))
  <2>1. IsDict(c2)
    BY <1>1, <1>9 DEF ArgumentsTyped
  <2>2. CASE name = "prim_dict_map"
    <3>1. Asked(c) = Over("DictMap", EntriesOf(d))
      BY <1>2, <2>2 DEF SchedulerNative, OverEntries
    <3>2. v = DictValue(MappedDict(f, d, FALSE))
      BY <2>1, <3>1, DictionaryAnswers
    <3>. QED  BY <2>2, <3>2 DEF Expected, MappedDict, Given
  <2>3. CASE name = "prim_dict_filter"
    <3>1. Asked(c) = Over("DictFilter", EntriesOf(d))
      BY <1>2, <2>3 DEF SchedulerNative, OverEntries
    <3>2. v = DictValue(FilteredDict(f, d, FALSE))
      BY <2>1, <3>1, DictionaryAnswers
    <3>. QED  BY <2>3, <3>2 DEF Expected, FilteredDict, Given
  <2>4. CASE name = "prim_dict_filter_map"
    <3>1. Asked(c) = Over("DictFilterMap", EntriesOf(d))
      BY <1>2, <2>4 DEF SchedulerNative, OverEntries
    <3>2. GivesOptionals(f, EntriesOf(d))
      BY <1>3, <3>1 DEF OptionCallbacks, GivesOptionals
    <3>3. v = DictValue(FilterMappedDict(f, d, FALSE))
      BY <2>1, <3>1, <3>2, DictionaryAnswers
    <3>. QED  BY <2>4, <3>3 DEF Expected, FilterMappedDict, Given
  <2>5. CASE name = "dict_filter"
    <3>1. Asked(c) = Over("DictFilter", PairsOf(d))
      BY <1>2, <2>5 DEF SchedulerNative, OverPairs
    <3>2. v = DictValue(FilteredDict(f, d, TRUE))
      BY <2>1, <3>1, DictionaryAnswers
    <3>. QED  BY <2>5, <3>2 DEF Expected, FilteredDict, Given
  <2>. QED  BY <1>9, <2>2, <2>3, <2>4, <2>5
<1>10. CASE name = "dict_update"
  <2>. DEFINE key == args[1][2]
              f == args[2]
              d == args[3][2]
              old == OldEntry(d, key)
  <2>1. Asked(c) = DictUpdate(key, f, d)
    BY <1>2, <1>10 DEF SchedulerNative
  <2>2. Asked(c) = Task(FanOut("DictUpdate", f, <<old>>, <<key>>, d))
    BY <2>1 DEF DictUpdate, OldEntry
  <2>3. IsOptional(Apply(f, old))
    <3>. HIDE DEF old
    <3>1. \A i \in DOMAIN <<old>> : IsOptional(Apply(f, <<old>>[i]))
      BY <1>3, <2>2 DEF OptionCallbacks
    <3>. QED  BY <3>1
  <2>4. v = DictValue(UpdatedDict(d, key, Apply(f, old)))
    BY <2>1, <2>3, UpdateAnswer
  <2>. QED  BY <1>10, <2>4 DEF Expected, UpdatedDict, OldEntry
<1>11. CASE name = "prim_filter"
  <2>1. Asked(c) = PrimFilter(args[1], args[2])
    BY <1>2, <1>11 DEF SchedulerNative
  <2>2. IsList(args[2]) \/ IsOptional(args[2])
    BY <1>1, <1>11 DEF ArgumentsTyped
  <2>. QED  BY <1>1, <1>11, <2>1, <2>2, FilterAnswer DEF Expected
<1>12. CASE name = "prim_filter_map"
  <2>1. Asked(c) = PrimFilterMap(args[1], args[2])
    BY <1>2, <1>12 DEF SchedulerNative
  <2>2. IsList(args[2]) \/ IsOptional(args[2])
    BY <1>1, <1>12 DEF ArgumentsTyped
  <2>3. v = IF args[2][1] = "list" THEN ListValue(Unwrapped(args[1], args[2][2]))
            ELSE IF args[2][3] = <<>> THEN None ELSE Apply(args[1], args[2][3][1])
    BY <1>1, <2>1, <2>2, FilterMapAnswer
  <2>. QED  BY <1>12, <2>3 DEF Expected, Unwrapped
<1>13. CASE name = "prim_flat_map"
  <2>1. Asked(c) = PrimFlatMap(args[1], args[2])
    BY <1>2, <1>13 DEF SchedulerNative
  <2>2. IsList(args[2]) \/ IsOptional(args[2]) \/ IsOutcome(args[2])
    BY <1>1, <1>13 DEF ArgumentsTyped
  <2>. QED  BY <1>1, <1>13, <2>1, <2>2, FlatMapAnswer DEF Expected
<1>14. CASE name = "list_partition"
  <2>1. Delivers(ListPredicate("Partition", args[1], args[2]), v)
    BY <1>2, <1>14 DEF SchedulerNative
  <2>2. IsList(args[2])
    BY <1>1, <1>14 DEF ArgumentsTyped
  <2>. QED  BY <1>14, <2>1, <2>2, PartitionAnswer DEF Expected
<1>15. CASE name \in {"prim_foldl", "prim_fold"}
  <2>. DEFINE s == Elements(args[3])
  <2>1. Delivers(Task(Sequential("FoldLeft", args[1], s, Missing, args[2])), v)
    BY <1>2, <1>15 DEF SchedulerNative, PrimFoldLeft
  <2>2. v = Folded(args[1], args[2], s, TRUE)[Len(s)]
    BY <2>1, FoldAnswers
  <2>. QED  BY <1>15, <2>2 DEF Expected
<1>16. CASE name = "prim_foldr"
  <2>. DEFINE s == Elements(args[3])
  <2>1. Delivers(Task(Sequential("FoldRight", args[1], s, Missing, args[2])), v)
    BY <1>2, <1>16 DEF SchedulerNative, PrimFoldRight
  <2>2. v = Folded(args[1], args[2], s, FALSE)[Len(s)]
    BY <2>1, FoldAnswers
  <2>. QED  BY <1>16, <2>2 DEF Expected
<1>17. CASE name = "sum"
  <2>1. Delivers(Sum(args[1]), v)
    BY <1>2, <1>17 DEF SchedulerNative
  <2>2. v = IF Elements(args[1]) = <<>> THEN <<"var", "zero">> ELSE Summed(Elements(args[1]))
    BY <2>1, SumAnswers
  <2>. QED  BY <1>17, <2>2 DEF Expected, Summed
<1>18. CASE name = "mean"
  <2>. DEFINE s == Elements(args[1])
  <2>1. Delivers(Mean(args[1]), v)
    BY <1>2, <1>18 DEF SchedulerNative
  <2>2. v = IF s = <<>> THEN <<"error", "EmptySequence">>
            ELSE Apply2(Overloaded("/"), Summed(s), IntValue(Len(s)))
    BY <2>1, MeanAnswers
  <2>. QED  BY <1>18, <2>2 DEF Expected, Summed
<1>19. CASE name = "dict_map"
  <2>. DEFINE f == args[1]
              d == args[2][2]
  <2>1. Delivers(OverPairs("DictEntryMap", f, d), v)
    BY <1>2, <1>19 DEF SchedulerNative
  <2>2. IsDict(args[2])
    BY <1>1, <1>19 DEF ArgumentsTyped
  <2>3. v = DictValue(RenamedDict(Renaming(f, d)))
    BY <2>1, <2>2, EntryMapAnswer
  <2>4. DOMAIN Renaming(f, d) = DOMAIN d
    BY DEF Renaming
  <2>5. RenamedDict(Renaming(f, d)) =
            [key \in {Renaming(f, d)[k][1][2] : k \in DOMAIN d} |->
                Renaming(f, d)[Greatest({k \in DOMAIN d : Renaming(f, d)[k][1][2] = key})][2]]
    BY <2>4, Zenon DEF RenamedDict
  <2>. QED  BY <1>19, <2>3, <2>5 DEF Expected, Renaming
<1>. QED
  <2>1. name \in CallbackNatives
    BY CallsAssumption DEF name
  <2>. QED
    BY <1>4, <1>5, <1>6, <1>7, <1>8, <1>9, <1>10, <1>11, <1>12, <1>13, <1>14, <1>15, <1>16, <1>17,
       <1>18, <1>19, <2>1 DEF CallbackNatives

-----------------------------------------------------------------------------
(* The inductive invariant.                                                 *)

LEMMA TaskEnters ==
    ASSUME NEW t, FanOutTask(t) \/ SequentialTask(t), next_id = 1, applied = 0,
           Take(TaskEnter(t), <<>>)
    PROVE  Steps(t)
<1>1. CASE FanOutTask(t)
  BY <1>1, FanOutEnters
<1>2. CASE SequentialTask(t)
  <2>1. t.kind \in SequentialKinds
    BY <1>2 DEF SequentialTask
  <2>2. CASE t.kind \in Searches
    BY <1>2, <2>2, SearchEnters
  <2>3. CASE t.kind \in FoldKinds
    BY <1>2, <2>3, FoldEnters
  <2>4. CASE t.kind \in Equalities
    BY <1>2, <2>4, EqualityEnters
  <2>5. CASE t.kind = "Sum"
    BY <1>2, <2>5, SumEnters
  <2>6. CASE t.kind = "Mean"
    BY <1>2, <2>6, MeanEnters
  <2>7. CASE t.kind \in UnaryKinds
    BY <1>2, <2>7, UnaryEnters
  <2>. QED  BY <2>1, <2>2, <2>3, <2>4, <2>5, <2>6, <2>7 DEF SequentialKinds
<1>. QED  BY <1>1, <1>2

LEMMA TaskReceives ==
    ASSUME NEW t, FanOutTask(t) \/ SequentialTask(t), CallbacksTyped(t), Runs(t),
           status = "running", next_id \in Nat \ {0}, NEW id \in DOMAIN children,
           Take(TaskReceive(task, id, children[id]),
                [other \in DOMAIN children \ {id} |-> children[other]])
    PROVE  Steps(t)
<1>1. CASE FanOutTask(t)
  <2>1. FanOutRuns(t)
    BY <1>1, FanOutCost DEF FanOutTask
  <2>. QED  BY <1>1, <2>1, FanOutReceives
<1>2. CASE SequentialTask(t)
  <2>. DEFINE left == [other \in DOMAIN children \ {id} |-> children[other]]
  <2>1. t.kind \in SequentialKinds
    BY <1>2 DEF SequentialTask
  <2>2. Take(TaskReceive(task, id, children[id]), left) /\ DOMAIN left = DOMAIN children \ {id}
    OBVIOUS
  <2>. HIDE DEF left
  <2>3. ASSUME DOMAIN children = {next_id - 1} PROVE DOMAIN left = {}
    BY <2>2, <2>3
  <2>4. CASE t.kind \in Searches
    <3>1. SearchRuns(t) /\ DOMAIN left = {}
      BY <2>3, <2>4, SearchFacts DEF SearchRuns, OneChild
    <3>. QED  BY <1>2, <2>2, <2>4, <3>1, SearchReceives
  <2>5. CASE t.kind \in FoldKinds
    <3>1. FoldRuns(t) /\ DOMAIN left = {}
      BY <2>3, <2>5, FoldFacts DEF FoldRuns, OneChild
    <3>. QED  BY <1>2, <2>2, <2>5, <3>1, FoldReceives
  <2>6. CASE t.kind \in Equalities
    <3>1. EqualityRuns(t) /\ DOMAIN left = {}
      BY <2>3, <2>6, EqualityFacts DEF EqualityRuns, OneChild
    <3>. QED  BY <1>2, <2>2, <2>6, <3>1, EqualityReceives
  <2>7. CASE t.kind = "Sum"
    <3>1. SumRuns(t) /\ DOMAIN left = {}
      BY <2>3, <2>7, SumFacts DEF SumRuns, OneChild
    <3>. QED  BY <1>2, <2>2, <2>7, <3>1, SumReceives
  <2>8. CASE t.kind = "Mean"
    <3>1. MeanRuns(t) /\ DOMAIN left = {}
      BY <2>3, <2>8, MeanFacts DEF MeanRuns, OneChild
    <3>. QED  BY <1>2, <2>2, <2>8, <3>1, MeanReceives
  <2>9. CASE t.kind \in UnaryKinds
    <3>1. UnaryRuns(t) /\ DOMAIN left = {}
      BY <2>3, <2>9, UnaryFacts DEF UnaryRuns, OneChild
    <3>. QED  BY <1>2, <2>2, <2>9, <3>1, UnaryReceives
  <2>. QED  BY <2>1, <2>4, <2>5, <2>6, <2>7, <2>8, <2>9 DEF SequentialKinds
<1>. QED  BY <1>1, <1>2

LEMMA InitIInv == Init => IInv
BY DEF Init, IInv

LEMMA NextIInv == IInv /\ [Next]_vars => IInv'
<1>. SUFFICES ASSUME IInv, [Next]_vars PROVE IInv'
  OBVIOUS
<1>1. PICK a : a = Asked(call)
  OBVIOUS
<1>2. /\ call \in Calls /\ next_id \in Nat \ {0} /\ applied \in Nat
      /\ WellBuilt(a) /\ (a.op = "Task" => CallbacksTyped(a.task))
  BY <1>1, Built DEF IInv
<1>3. ASSUME a.op = "Task", Steps(a.task) PROVE IInv'
  <2>1. call' = call /\ Asked(call)' = a
    BY <1>3, <1>1 DEF Steps
  <2>. QED  BY <2>1, <1>2, <1>3 DEF IInv, Steps
<1>4. CASE CallNative
  <2>1. status = "enter" /\ children = <<>> /\ next_id = 1 /\ applied = 0
    BY <1>4 DEF CallNative, IInv, Ended
  <2>2. CASE a.op = "Task"
    <3>1. Take(TaskEnter(a.task), <<>>)
      BY <1>1, <1>4, <2>2 DEF CallNative, Asked
    <3>2. FanOutTask(a.task) \/ SequentialTask(a.task)
      BY <1>2, <2>2 DEF WellBuilt
    <3>. QED  BY <1>3, <2>1, <2>2, <3>1, <3>2, TaskEnters
  <2>3. CASE a.op # "Task"
    <3>1. /\ status' = IF a.op = "Ready" THEN "returned" ELSE "failed"
          /\ result' = IF a.op = "Ready" THEN a.value ELSE <<"error", a.error>>
          /\ UNCHANGED <<call, task, children, next_id, applied>>
      BY <1>1, <1>4, <2>3 DEF CallNative, Asked
    <3>2. Asked(call)' = a
      BY <1>1, <3>1
    <3>. QED  BY <1>2, <2>1, <2>3, <3>1, <3>2 DEF IInv
  <2>. QED  BY <2>2, <2>3
<1>5. ASSUME NEW id \in DOMAIN children, ChildReturns(id) PROVE IInv'
  <2>1. status = "running"
    BY <1>5 DEF ChildReturns
  <2>2. a.op = "Task" /\ Runs(a.task)
    BY <1>1, <2>1 DEF IInv, Ended
  <2>3. FanOutTask(a.task) \/ SequentialTask(a.task)
    BY <1>2, <2>2 DEF WellBuilt
  <2>4. Take(TaskReceive(task, id, children[id]),
             [other \in DOMAIN children \ {id} |-> children[other]])
    BY <1>5 DEF ChildReturns
  <2>. QED  BY <1>2, <1>3, <2>1, <2>2, <2>3, <2>4, TaskReceives
<1>6. CASE Done \/ UNCHANGED vars
  <2>1. UNCHANGED vars
    BY <1>6 DEF Done
  <2>. QED
    BY <2>1 DEF vars, IInv, Ended, Runs, FanOutRuns, SearchRuns, FoldRuns, EqualityRuns, SumRuns,
                MeanRuns, UnaryRuns, OneChild
<1>. QED  BY <1>4, <1>5, <1>6 DEF Next

LEMMA Invariance == Spec => []IInv
BY InitIInv, NextIInv, PTL DEF Spec

-----------------------------------------------------------------------------

(***************************************************************************)
(* The evaluator's children and a fan-out task's slots (native_functions.rs)*)
(* are the same bookkeeping twice: whatever the order in which the children*)
(* return, no result is unknown, duplicate or missing, for any number of   *)
(* elements.                                                               *)
(***************************************************************************)
THEOREM FanOutBookkeeping == Spec => []SlotsMatchChildren
<1>1. IInv => SlotsMatchChildren
  <2>. SUFFICES ASSUME IInv, status = "running", task.kind \in FanOutKinds
                PROVE  /\ task.remaining = Cardinality(DOMAIN children)
                       /\ DOMAIN children =
                              {task.children[i] :
                                  i \in {i \in 1..Len(task.children) : task.output[i] = Missing}}
    BY DEF SlotsMatchChildren
  <2>1. PICK a : a = Asked(call)
    OBVIOUS
  <2>2. PICK t : t = a.task
    OBVIOUS
  <2>3. a.op = "Task" /\ Runs(t)
    BY <2>1, <2>2 DEF IInv, Ended
  <2>4. (FanOutTask(t) \/ SequentialTask(t)) /\ CallbacksTyped(t)
    BY <2>1, <2>2, <2>3, Built DEF IInv, WellBuilt
  <2>5. FanOutTask(t)
    <3>1. ASSUME SequentialTask(t) PROVE task.kind = t.kind
      <4>1. t.kind \in SequentialKinds
        BY <3>1 DEF SequentialTask
      <4>2. CASE t.kind \in Searches
        BY <2>3, <4>2, SearchFacts, AtFields DEF SearchRuns
      <4>3. CASE t.kind \in FoldKinds
        BY <2>3, <4>3, FoldFacts, AtFields DEF FoldRuns
      <4>4. CASE t.kind \in Equalities
        BY <2>3, <4>4, EqualityFacts, AtFields DEF EqualityRuns
      <4>5. CASE t.kind = "Sum"
        BY <2>3, <4>5, SumFacts, AtFields DEF SumRuns
      <4>6. CASE t.kind = "Mean"
        BY <2>3, <4>6, MeanFacts, AtFields DEF MeanRuns
      <4>7. CASE t.kind \in UnaryKinds
        BY <2>3, <4>7, UnaryFacts DEF UnaryRuns
      <4>. QED  BY <4>1, <4>2, <4>3, <4>4, <4>5, <4>6, <4>7 DEF SequentialKinds
    <3>2. SequentialTask(t) => t.kind \notin FanOutKinds
      BY KindsDisjoint DEF SequentialTask
    <3>. QED  BY <2>4, <3>1, <3>2
  <2>. DEFINE n == Len(t.args)
              out == DOMAIN children
  <2>6. n \in Nat /\ DOMAIN t.args = 1..n /\ t.kind \in FanOutKinds
    BY <2>5, SequenceFacts DEF FanOutTask
  <2>7. out \subseteq 1..n /\ task = Partly(t, Slots(t, out), Cardinality(out))
    BY <2>3, <2>6, FanOutCost DEF FanOutRuns
  <2>8. task.remaining = Cardinality(out) /\ task.children = [i \in 1..n |-> i]
        /\ task.output = Slots(t, out)
    BY <2>7 DEF Partly
  <2>9. Len([i \in 1..n |-> i]) = n
    BY <2>6
  <2>10. \A i \in 1..n : Slots(t, out)[i] = Missing <=> i \in out
    BY <2>4, <2>6, FanOutCost DEF Slots
  <2>. HIDE DEF n, out
  <2>11. Len(task.children) = n
    BY <2>8, <2>9
  <2>12. \A i \in 1..n : task.children[i] = i
    BY <2>8
  <2>13. \A i \in 1..n : task.output[i] = Missing <=> i \in out
    BY <2>8, <2>10
  <2>14. {i \in 1..Len(task.children) : task.output[i] = Missing} = out
    <3>1. {i \in 1..n : task.output[i] = Missing} = out
      BY <2>7, <2>13, Zenon
    <3>. QED  BY <2>11, <3>1
  <2>15. {task.children[i] : i \in out} = out
    BY <2>7, <2>12, Zenon
  <2>16. task.remaining = Cardinality(DOMAIN children)
    BY <2>8 DEF out
  <2>17. DOMAIN children = out
    BY DEF out
  <2>. QED  BY <2>14, <2>15, <2>16, <2>17
<1>. QED  BY <1>1, Invariance, PTL

(***************************************************************************)
(* A callback may have effects, so asking for one too many is an error that*)
(* no value shows.  Every native of the prelude asks for exactly those its *)
(* answer takes, and returns with no callback running: a search stops at   *)
(* the deciding element, == at the first difference, a fan-out applies its *)
(* function once per element.                                              *)
(***************************************************************************)
THEOREM CallbacksAsNeeded == Spec => []NoNeedlessCallback
<1>1. IInv => NoNeedlessCallback
  <2>. SUFFICES ASSUME IInv PROVE NoNeedlessCallback
    OBVIOUS
  <2>1. PICK a : a = Asked(call)
    OBVIOUS
  <2>2. PICK t : t = a.task
    OBVIOUS
  <2>3. call \in Calls /\ WellBuilt(a)
    BY <2>1, Built DEF IInv
  <2>4. Needed(call[1], call[2]) = IF a.op = "Task" THEN Cost(t) ELSE 0
    BY <2>1, <2>2, <2>3, NeededIsCost DEF CostOf
  <2>5. a.op = "Task" => (FanOutTask(t) \/ SequentialTask(t)) /\ Cost(t) \in Nat
    BY <2>2, <2>3, CostIsNumber DEF WellBuilt
  <2>6. CASE status = "enter" /\ children = <<>> /\ next_id = 1 /\ applied = 0
    BY <2>4, <2>5, <2>6 DEF NoNeedlessCallback
  <2>7. CASE a.op = "Task" /\ status = "running" /\ Runs(t)
    BY <2>4, <2>5, <2>7, RunsWithinCost DEF NoNeedlessCallback
  <2>8. CASE a.op = "Task" /\ Ended(t)
    BY <2>4, <2>5, <2>8 DEF NoNeedlessCallback, Ended
  <2>9. CASE a.op # "Task" /\ children = <<>> /\ applied = 0
    <3>1. DOMAIN <<>> = {}
      OBVIOUS
    <3>. QED  BY <2>4, <2>9, <3>1 DEF NoNeedlessCallback
  <2>. QED  BY <2>1, <2>2, <2>6, <2>7, <2>8, <2>9 DEF IInv
<1>. QED  BY <1>1, Invariance, PTL

(***************************************************************************)
(* Whatever the order in which the callbacks finish, every native of the   *)
(* prelude returns the value its definition gives, for containers of any   *)
(* length and callbacks that compute anything; the only error is the mean  *)
(* of nothing.  Every result of a fan-out stays with its element or key, a *)
(* search answers with its first deciding element, == and /= are decided   *)
(* as on the whole lists, folds take the elements in their order, and of   *)
(* two entries renamed to one key the later one stays.                     *)
(***************************************************************************)
THEOREM AnswersInAnyOrder == Spec => []ResultIsReference
<1>1. IInv => ResultIsReference
  <2>. SUFFICES ASSUME IInv, status \in {"returned", "failed"}
                PROVE  result = Expected(call[1], call[2])
    BY DEF ResultIsReference
  <2>1. PICK a : a = Asked(call)
    OBVIOUS
  <2>2. Delivers(a, result)
    BY <2>1 DEF IInv, Ended, Delivers
  <2>. QED  BY <2>1, <2>2, NativeAnswers DEF IInv
<1>. QED  BY <1>1, Invariance, PTL
=============================================================================
