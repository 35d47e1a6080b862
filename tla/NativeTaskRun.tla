--------------------------- MODULE NativeTaskRun ---------------------------
(***************************************************************************)
(* One call of a native that calls back into the evaluator, from the task   *)
(* the prelude builds to the value the task returns, with the callbacks     *)
(* running as children that finish in any order.  What a callback computes  *)
(* is given by Apply: functions under test are tables, and any other        *)
(* function is uninterpreted, so that a result shows every application that *)
(* went into it.                                                            *)
(***************************************************************************)
EXTENDS NativeTasks

CONSTANT Calls   \* the calls <<native, arguments>> that are checked

VARIABLES call,      \* the native and its arguments
          status,    \* "enter", "running", "returned" or "failed"
          task,      \* the task of the native call frame
          children,  \* outstanding children: id -> the value it will return
          next_id,   \* the next frame id
          applied,   \* number of applications made so far
          result     \* the value returned, or the error

vars == <<call, status, task, children, next_id, applied, result>>

Table(f) == <<"table", f>>

\* The value of a callback.
Apply(func, arg) ==
    IF func[1] = "table" THEN func[2][arg]
    ELSE IF func[1] = "app" /\ func[2] = Overloaded("==") THEN BoolValue(func[3] = arg)
    ELSE <<"app", func, arg>>

(* The type checker sees to it that a native is given values of its types, *)
(* and that its callbacks return values of the types they should.           *)

IsSequence(s) == s \in Seq(Range(s))

IsList(v) == v[1] = "list" /\ v = ListValue(v[2]) /\ IsSequence(v[2])

IsOptional(v) == v[1] = "adt" /\ (v = None \/ v = Some(v[3][1]))

IsOutcome(v) == v[1] = "adt" /\ (v = Ok(v[3][1]) \/ v = AdtValue("Err", <<v[3][1]>>))

IsDict(v) == v[1] = "dict" /\ IsFiniteSet(DOMAIN v[2]) /\ DOMAIN v[2] \subseteq Int

ArgumentsTyped(name, args) ==
    CASE name \in {"prim_map", "prim_flat_map", "prim_or_else"} ->
             IsList(args[2]) \/ IsOptional(args[2]) \/ IsOutcome(args[2])
      [] name \in {"prim_filter", "prim_filter_map"} -> IsList(args[2]) \/ IsOptional(args[2])
      [] name \in {"list_any", "list_all", "list_find", "list_find_index",
                   "list_count", "list_partition"} -> IsList(args[2])
      [] name \in {"prim_foldl", "prim_fold", "prim_foldr"} ->
             IsList(args[3]) \/ IsOptional(args[3])
      [] name \in {"prim_list_eq", "prim_list_ne"} -> IsList(args[1]) /\ IsList(args[2])
      [] name \in {"sum", "mean"} -> IsList(args[1]) \/ IsOptional(args[1])
      [] name = "dict_update" -> IsDict(args[3])
      [] OTHER -> IsDict(args[2])

CallbacksTyped(t) ==
    CASE t.kind \in FanOutKinds ->
             \A i \in DOMAIN t.args : /\ Apply(t.func, t.args[i]) # Missing
                                      /\ Accepts(t.kind, Apply(t.func, t.args[i]))
                                      /\ t.kind \in OptionCallbacks =>
                                             IsOptional(Apply(t.func, t.args[i]))
      [] t.kind \in Searches -> \A i \in DOMAIN t.values : Apply(t.func, t.values[i])[1] = "bool"
      [] t.kind = "UnaryFilter" -> Apply(t.func, t.acc)[1] = "bool"
      [] t.kind = "UnaryFlatMap" -> t.other = "Result" => IsResult(Apply(t.func, t.acc))
      [] OTHER -> TRUE

ASSUME CallsAssumption ==
    \A c \in Calls :
        /\ c[1] \in CallbackNatives /\ ArgumentsTyped(c[1], c[2])
        /\ LET answer == SchedulerNative(c[1], c[2])
           IN  answer.op = "Task" => CallbacksTyped(answer.task)

Init ==
    /\ call \in Calls
    /\ status = "enter"
    /\ task = Missing
    /\ children = <<>>
    /\ next_id = 1
    /\ applied = 0
    /\ result = Missing

\* native_step_to_control and what the evaluator cycle makes of it; left are
\* the children that are still out.
Take(stepped, left) ==
    LET step == stepped.step
        n    == IF step.op = "Schedule" THEN Len(stepped.task.args) ELSE 1
        ids  == next_id .. next_id + n - 1
        Value(id) ==
            CASE step.op = "Push"     -> Apply(step.func, step.arg)
              [] step.op = "PushVar"  -> <<"var", step.name>>
              [] step.op = "Schedule" ->
                     Apply(stepped.task.func, stepped.task.args[id - next_id + 1])
    IN  /\ UNCHANGED call
        /\ \/ /\ step.op \in {"Push", "PushVar", "Schedule"}
              /\ task' = IF step.op = "Schedule"
                         THEN WithChildren(stepped.task, [i \in 1..n |-> next_id + i - 1])
                         ELSE stepped.task
              /\ children' = [id \in ids \cup DOMAIN left |-> IF id \in ids THEN Value(id) ELSE left[id]]
              /\ next_id' = next_id + n
              /\ applied' = applied + n
              /\ status' = "running"
              /\ UNCHANGED result
           \/ /\ step.op = "Wait"
              /\ task' = stepped.task
              /\ children' = left
              /\ UNCHANGED <<status, next_id, applied, result>>
           \/ /\ step.op \in {"Return", "Error"}
              /\ status' = IF step.op = "Return" THEN "returned" ELSE "failed"
              /\ result' = IF step.op = "Return" THEN step.value ELSE <<"error", step.error>>
              /\ task' = stepped.task
              /\ children' = left
              /\ UNCHANGED <<next_id, applied>>

\* The native has all its arguments: the prelude answers, or its task enters.
CallNative ==
    /\ status = "enter"
    /\ LET answer == SchedulerNative(call[1], call[2])
       IN  \/ /\ answer.op = "Task"
              /\ \E stepped \in {TaskEnter(answer.task)} : Take(stepped, <<>>)
           \/ /\ answer.op # "Task"
              /\ status' = IF answer.op = "Ready" THEN "returned" ELSE "failed"
              /\ result' = IF answer.op = "Ready" THEN answer.value
                           ELSE <<"error", answer.error>>
              /\ UNCHANGED <<call, task, children, next_id, applied>>

\* A child returns its value to the task.
ChildReturns(id) ==
    /\ status = "running"
    /\ LET left == [other \in DOMAIN children \ {id} |-> children[other]]
       IN  \E stepped \in {TaskReceive(task, id, children[id])} : Take(stepped, left)

Done ==
    /\ status \in {"returned", "failed"}
    /\ UNCHANGED vars

Next ==
    \/ CallNative
    \/ \E id \in DOMAIN children : ChildReturns(id)
    \/ Done

Spec == Init /\ [][Next]_vars /\ WF_vars(CallNative \/ \E id \in DOMAIN children : ChildReturns(id))

-----------------------------------------------------------------------------
(* What the natives promise, without tasks, children or slots.              *)

Calling(f, s) == [i \in 1..Len(s) |-> Apply(f, s[i])]

\* f x y
Apply2(f, x, y) == Apply(Apply(f, x), y)

\* The positions at which the predicate holds.
Matching(f, s) == {i \in 1..Len(s) : Holds(Apply(f, s[i]))}

\* There is nothing to be had from the container.
Empty(c) == c = ListValue(<<>>) \/ IsAdt(c, "None", 0) \/ IsAdt(c, "Err", 1)

Least(S) == CHOOSE i \in S : \A j \in S : i <= j
Greatest(S) == CHOOSE i \in S : \A j \in S : i >= j

\* What is left of s when it keeps only the elements at the positions in W.
Keeping(s, W) ==
    LET kept[n \in 0..Len(s)] ==
            IF n = 0 THEN <<>>
            ELSE IF n \in W THEN Append(kept[n - 1], s[n]) ELSE kept[n - 1]
    IN  kept[Len(s)]

\* What f makes of the first n elements of s, from the left or from the right:
\* f (... (f (f start s[1]) s[2]) ...) s[n], or f s[m - n + 1] (... (f s[m] start)).
Folded(f, start, s, left) ==
    LET acc[n \in 0..Len(s)] ==
            IF n = 0 THEN start
            ELSE IF left THEN Apply2(f, acc[n - 1], s[n])
                 ELSE Apply2(f, s[Len(s) - n + 1], acc[n - 1])
    IN  acc

Expected(name, args) ==
    LET f == args[1]
        c == args[2]
        Dictionary == c[2]
        Renamed == [k \in DOMAIN Dictionary |->
                       Apply(f, TupleValue(<<StringValue(k), Dictionary[k]>>))[2]]
        SumOf(s) == Folded(Overloaded("+"), Head(s), Tail(s), TRUE)[Len(s) - 1]
        Option(S, v) == IF S = {} THEN None ELSE Some(v)
    IN
    CASE name = "prim_map" ->
             IF c[1] = "list" THEN ListValue(Calling(f, c[2]))
             ELSE IF c[2] \in {"None", "Err"} THEN c
             ELSE AdtValue(c[2], <<Apply(f, c[3][1])>>)
      [] name = "prim_filter" ->
             IF c[1] = "list" THEN ListValue(Keeping(c[2], Matching(f, c[2])))
             ELSE IF c[3] # <<>> /\ Holds(Apply(f, c[3][1])) THEN c ELSE None
      [] name = "prim_filter_map" ->
             IF c[1] = "list"
             THEN LET somes == Keeping(Calling(f, c[2]),
                                       {i \in 1..Len(c[2]) : Apply(f, c[2][i]) # None})
                  IN  ListValue([i \in 1..Len(somes) |-> somes[i][3][1]])
             ELSE IF c[3] = <<>> THEN None ELSE Apply(f, c[3][1])
      [] name = "prim_flat_map" ->
             IF c[1] = "list" THEN ListValue(FlattenSeq([i \in 1..Len(c[2]) |-> Apply(f, c[2][i])[2]]))
             ELSE IF c[2] \in {"None", "Err"} THEN c
             ELSE Apply(f, c[3][1])
      [] name = "prim_or_else" ->
             IF Empty(c) THEN Apply(f, c) ELSE c
      [] name = "list_count" -> IntValue(Cardinality(Matching(f, c[2])))
      [] name = "list_partition" ->
             TupleValue(<<ListValue(Keeping(c[2], Matching(f, c[2]))),
                          ListValue(Keeping(c[2], (1..Len(c[2])) \ Matching(f, c[2])))>>)
      [] name = "list_any" -> BoolValue(Matching(f, c[2]) # {})
      [] name = "list_all" -> BoolValue(Matching(f, c[2]) = 1..Len(c[2]))
      [] name = "list_find" ->
             Option(Matching(f, c[2]), c[2][Least(Matching(f, c[2]))])
      [] name = "list_find_index" ->
             Option(Matching(f, c[2]), IntValue(Least(Matching(f, c[2])) - 1))
      [] name \in {"prim_foldl", "prim_fold"} ->
             Folded(f, c, Elements(args[3]), TRUE)[Len(Elements(args[3]))]
      [] name = "prim_foldr" ->
             Folded(f, c, Elements(args[3]), FALSE)[Len(Elements(args[3]))]
      [] name = "prim_list_eq" -> BoolValue(f = c)
      [] name = "prim_list_ne" -> BoolValue(f # c)
      [] name = "sum" ->
             IF Elements(f) = <<>> THEN <<"var", "zero">> ELSE SumOf(Elements(f))
      [] name = "mean" ->
             IF Elements(f) = <<>> THEN <<"error", "EmptySequence">>
             ELSE Apply2(Overloaded("/"), SumOf(Elements(f)), IntValue(Len(Elements(f))))
      [] name = "prim_dict_map" -> DictValue([k \in DOMAIN c[2] |-> Apply(f, c[2][k])])
      [] name = "prim_dict_filter" ->
             DictValue([k \in {k \in DOMAIN c[2] : Holds(Apply(f, c[2][k]))} |-> c[2][k]])
      [] name = "dict_filter" ->
             DictValue([k \in {k \in DOMAIN c[2] :
                                 Holds(Apply(f, TupleValue(<<StringValue(k), c[2][k]>>)))} |-> c[2][k]])
      [] name = "prim_dict_filter_map" ->
             DictValue([k \in {k \in DOMAIN c[2] : Apply(f, c[2][k]) # None} |->
                           Apply(f, c[2][k])[3][1]])
      [] name = "dict_map" ->
             DictValue([key \in {Renamed[k][1][2] : k \in DOMAIN Dictionary} |->
                           Renamed[Greatest({k \in DOMAIN Dictionary : Renamed[k][1][2] = key})][2]])
      [] name = "dict_update" ->
             LET dict == args[3][2]
                 new  == Apply(c, IF f[2] \in DOMAIN dict THEN Some(dict[f[2]]) ELSE None)
             IN  DictValue([k \in (DOMAIN dict \ {f[2]}) \cup (IF new = None THEN {} ELSE {f[2]}) |->
                               IF k = f[2] THEN new[3][1] ELSE dict[k]])

\* The number of applications the answer takes.
Needed(name, args) ==
    LET s       == IF name \in {"sum", "mean"} THEN Elements(args[1]) ELSE args[2][2]
        decided == IF name = "list_all" THEN (1..Len(s)) \ Matching(args[1], s)
                   ELSE Matching(args[1], s)
        differ  == {i \in 1..Len(s) : args[1][2][i] # s[i]}
    IN  CASE name \in {"list_any", "list_all", "list_find", "list_find_index"} ->
                  IF decided = {} THEN Len(s) ELSE Least(decided)
          [] name \in {"prim_list_eq", "prim_list_ne"} ->
                 IF Len(args[1][2]) # Len(s) THEN 0
                 ELSE 2 * (IF differ = {} THEN Len(s) ELSE Least(differ))
          [] name \in {"prim_foldl", "prim_fold", "prim_foldr"} -> 2 * Len(Elements(args[3]))
          [] name = "sum"  -> IF s = <<>> THEN 1 ELSE 2 * (Len(s) - 1)
          [] name = "mean" -> IF s = <<>> THEN 0 ELSE 2 * Len(s)
          [] name = "prim_or_else" -> IF Empty(args[2]) THEN 1 ELSE 0
          [] name = "dict_update"  -> 1
          [] OTHER ->
                 IF args[2][1] = "list" THEN Len(s)
                 ELSE IF args[2][1] = "dict" THEN Cardinality(DOMAIN s)
                 ELSE IF s \in {"None", "Err"} THEN 0 ELSE 1

-----------------------------------------------------------------------------
(***************************************************************************)
(* A fan-out task's bookkeeping agrees with the evaluator's: its count of  *)
(* missing results, its empty slots and the outstanding children are the   *)
(* same children, so that no result can be unknown, duplicate or missing.  *)
(***************************************************************************)
SlotsMatchChildren ==
    status = "running" /\ task.kind \in FanOutKinds =>
        /\ task.remaining = Cardinality(DOMAIN children)
        /\ DOMAIN children =
               {task.children[i] : i \in {i \in 1..Len(task.children) : task.output[i] = Missing}}

\* The answer depends on the arguments alone, never on the order in which the
\* callbacks finished, and is the one the native's definition gives; the only
\* error is the mean of nothing.
ResultIsReference ==
    status \in {"returned", "failed"} => result = Expected(call[1], call[2])

\* Callbacks may have effects (they may call the host), so their number is
\* part of the answer: a search stops at the deciding element, equality at the
\* first difference, everything else applies the function once per element;
\* and no callback is still running when the native returns.
NoNeedlessCallback ==
    /\ applied <= Needed(call[1], call[2])
    /\ status \in {"returned", "failed"} =>
           applied = Needed(call[1], call[2]) /\ DOMAIN children = {}

\* Every native call returns once its callbacks do.
NativeReturns == <>(status \in {"returned", "failed"})
=============================================================================
