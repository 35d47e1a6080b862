---------------------------- MODULE NativeTasks ----------------------------
(***************************************************************************)
(* The natives that call back into the evaluator: the tasks the prelude     *)
(* builds for them (rex-engine/src/prelude/mod.rs, export_native_scheduler) *)
(* and the coroutines that run the tasks                                    *)
(* (rex-engine/src/evaluator/native_functions.rs).                          *)
(*                                                                          *)
(* Values are tagged tuples.  Dictionary keys are integers, whose order     *)
(* stands for the order of the strings in the BTreeMap.  The types a task   *)
(* carries only build the synthetic application `func arg`; they are left   *)
(* out, and the overload a native of several shapes resolves to is found    *)
(* from the value it is given.                                              *)
(*                                                                          *)
(* There are two sorts of task.  A fan-out task schedules one child for     *)
(* each argument at once, keeps a slot for every result and finishes when   *)
(* the last slot is filled.  A sequential task has one child at a time.     *)
(***************************************************************************)
EXTENDS Integers, Sequences, SequencesExt, FiniteSets, TLC

IntValue(n)      == <<"int", n>>
BoolValue(b)     == <<"bool", b>>
StringValue(k)   == <<"string", k>>
TupleValue(s)    == <<"tuple", s>>
ListValue(s)     == <<"list", s>>
DictValue(d)     == <<"dict", d>>
AdtValue(tag, s) == <<"adt", tag, s>>
Overloaded(name) == <<"overloaded", name, <<>>>>

None    == AdtValue("None", <<>>)
Some(v) == AdtValue("Some", <<v>>)
Ok(v)   == AdtValue("Ok", <<v>>)

IsAdt(v, tag, n) == v[1] = "adt" /\ v[2] = tag /\ Len(v[3]) = n

\* A slot whose result is not there yet.
Missing == <<"missing">>

\* NativeStep, with what the evaluator is asked to do.
Wait             == [op |-> "Wait"]
Push(func, arg)  == [op |-> "Push", func |-> func, arg |-> arg]
PushVar(name)    == [op |-> "PushVar", name |-> name]
ScheduleAll      == [op |-> "Schedule"]
Return(value)    == [op |-> "Return", value |-> value]
Error(kind)      == [op |-> "Error", error |-> kind]

\* The task after a step, and the step.
Stepped(task, step) == [task |-> task, step |-> step]

-----------------------------------------------------------------------------
(* Fan-out tasks: args are what func is applied to; keys and entries are    *)
(* the dictionary the arguments came from.                                  *)

FanOut(kind, func, args, keys, entries) ==
    [kind |-> kind, func |-> func, args |-> args, keys |-> keys,
     entries |-> entries, children |-> <<>>, output |-> <<>>, remaining |-> 0]

Predicates == {"SequenceFilter", "Count", "Partition", "DictFilter"}

OptionCallbacks == {"SequenceFilterMap", "DictFilterMap", "DictUpdate"}

FanOutKinds ==
    Predicates \cup OptionCallbacks
        \cup {"SequenceMap", "SequenceFlatMap", "DictMap", "DictEntryMap"}

\* The conversion every result goes through before it is stored; a result of
\* another type is EngineError::NativeType.
Accepts(kind, value) ==
    CASE kind \in Predicates       -> value[1] = "bool"
      [] kind \in OptionCallbacks  -> IsAdt(value, "Some", 1) \/ IsAdt(value, "None", 0)
      [] kind = "SequenceFlatMap"  -> value[1] = "list"
      [] OTHER                     -> TRUE

EmptyDict == [k \in {} |-> 0]

\* BTreeMap::insert.
Insert(dict, key, value) ==
    [k \in DOMAIN dict \cup {key} |-> IF k = key THEN value ELSE dict[k]]

Holds(result) == result = BoolValue(TRUE)

\* The i-th element of a finite set of integers.
Nth(S, i) == CHOOSE k \in S : Cardinality({j \in S : j <= k}) = i

\* The elements of s at the positions kept, in the order of s.
Selected(s, kept) == [j \in 1..Cardinality(kept) |-> s[Nth(kept, j)]]

\* The slots that satisfy Chosen(_).
Satisfying(output, Chosen(_)) == {i \in 1..Len(output) : Chosen(output[i])}

\* Mutant of EntriesInOrder: the first of two equal keys wins.
EntriesFirstWins(results) ==
    FoldLeft(LAMBDA dict, pair : dict @@ (pair[2][1][2] :> pair[2][2]), EmptyDict, results)

\* The result pairs of DictEntryMap are inserted in the order of the original
\* keys; later duplicates win.
EntriesInOrder(results) ==
    LET dict[n \in 0..Len(results)] ==
            IF n = 0 THEN EmptyDict
            ELSE Insert(dict[n - 1], results[n][2][1][2], results[n][2][2])
    IN  dict[Len(results)]

(* What each task makes of its slots once they are all filled.              *)

IsSome(result) == IsAdt(result, "Some", 1)

Inner(result) == result[3][1]

Slot(t, key) == CHOOSE i \in 1..Len(t.keys) : t.keys[i] = key

SequenceMapResult(t) == ListValue(t.output)

SequenceFilterResult(t) == ListValue(Selected(t.args, Satisfying(t.output, Holds)))

CountResult(t) == IntValue(Cardinality(Satisfying(t.output, Holds)))

PartitionResult(t) ==
    TupleValue(<<ListValue(Selected(t.args, Satisfying(t.output, Holds))),
                 ListValue(Selected(t.args, Satisfying(t.output, LAMBDA r : ~Holds(r))))>>)

SequenceFilterMapResult(t) ==
    LET kept == Selected(t.output, Satisfying(t.output, IsSome))
    IN  ListValue([i \in 1..Len(kept) |-> Inner(kept[i])])

SequenceFlatMapResult(t) ==
    ListValue(FlattenSeq([i \in 1..Len(t.output) |-> t.output[i][2]]))

DictMapResult(t) == DictValue([k \in Range(t.keys) |-> t.output[Slot(t, k)]])

DictEntryMapResult(t) == DictValue(EntriesInOrder(t.output))

DictFilterResult(t) ==
    DictValue([k \in {k \in Range(t.keys) : Holds(t.output[Slot(t, k)])} |->
                  t.entries[Slot(t, k)]])

DictFilterMapResult(t) ==
    DictValue([k \in {k \in Range(t.keys) : IsSome(t.output[Slot(t, k)])} |->
                  Inner(t.output[Slot(t, k)])])

\* The key is inserted or removed; its old value was the argument.
DictUpdateResult(t) ==
    DictValue(IF IsSome(t.output[1])
              THEN Insert(t.entries, t.keys[1], Inner(t.output[1]))
              ELSE [k \in DOMAIN t.entries \ {t.keys[1]} |-> t.entries[k]])

Finish(t) ==
    CASE t.kind = "SequenceMap"       -> SequenceMapResult(t)
      [] t.kind = "SequenceFilter"    -> SequenceFilterResult(t)
      [] t.kind = "Count"             -> CountResult(t)
      [] t.kind = "Partition"         -> PartitionResult(t)
      [] t.kind = "SequenceFilterMap" -> SequenceFilterMapResult(t)
      [] t.kind = "SequenceFlatMap"   -> SequenceFlatMapResult(t)
      [] t.kind = "DictMap"           -> DictMapResult(t)
      [] t.kind = "DictEntryMap"      -> DictEntryMapResult(t)
      [] t.kind = "DictFilter"        -> DictFilterResult(t)
      [] t.kind = "DictFilterMap"     -> DictFilterMapResult(t)
      [] t.kind = "DictUpdate"        -> DictUpdateResult(t)

\* Mutant of FanOutEnter: the task waits for one result too many.
FanOutEnterOneMore(t) ==
    IF t.args = <<>> THEN Stepped(t, Return(Finish(t)))
    ELSE Stepped([t EXCEPT !.children = <<>>,
                           !.output = [i \in 1..Len(t.args) |-> Missing],
                           !.remaining = Len(t.args) + 1],
                 ScheduleAll)

FanOutEnter(t) ==
    IF t.args = <<>> THEN Stepped(t, Return(Finish(t)))
    ELSE Stepped([t EXCEPT !.children = <<>>,
                           !.output = [i \in 1..Len(t.args) |-> Missing],
                           !.remaining = Len(t.args)],
                 ScheduleAll)

\* native_step_to_control on Schedule: scheduled_child_spec gives each child
\* its application and push_scheduled_child its place.
WithChildren(t, ids) == [t EXCEPT !.children = ids]

\* Mutant of FanOutReceive: results are stored in the order they arrive.
FanOutReceiveAppending(t, child, value) ==
    LET slots  == {i \in 1..Len(t.children) : t.output[i] = Missing}
        slot   == CHOOSE i \in slots : \A j \in slots : i <= j
        stored == [t EXCEPT !.output[slot] = value, !.remaining = @ - 1]
    IN  Stepped(stored, IF stored.remaining = 0 THEN Return(Finish(stored)) ELSE Wait)

FanOutReceive(t, child, value) ==
    LET slots  == {i \in 1..Len(t.children) : t.children[i] = child}
        slot   == CHOOSE i \in slots : TRUE
        stored == [t EXCEPT !.output[slot] = value, !.remaining = @ - 1]
    IN  IF slots = {} THEN Stepped(t, Error("Internal"))
        ELSE IF t.output[slot] # Missing THEN Stepped(t, Error("Internal"))
        ELSE IF ~Accepts(t.kind, value) THEN Stepped(t, Error("NativeType"))
        ELSE Stepped(stored, IF stored.remaining = 0 THEN Return(Finish(stored)) ELSE Wait)

-----------------------------------------------------------------------------
(* Sequential tasks.  other is the second list of ArrayEq, the original     *)
(* value of UnaryFilter, or the shape of the Unary tasks.                   *)

Sequential(kind, func, values, other, acc) ==
    [kind |-> kind, func |-> func, values |-> values, other |-> other, acc |-> acc,
     state |-> "Enter", next_index |-> 0, step |-> Missing]

Current(t) == t.values[t.next_index + 1]

IsLast(t) == t.next_index + 1 = Len(t.values)

\* --- any, all, find, find_index
Exhausted(t) ==
    Return(CASE t.kind = "Any" -> BoolValue(FALSE)
             [] t.kind = "All" -> BoolValue(TRUE)
             [] OTHER          -> None)

ListSearchEnter(t) ==
    Stepped(t, IF t.values = <<>> THEN Exhausted(t) ELSE Push(t.func, Current(t)))

\* Mutant of ListSearchReceive: the search goes on after the answer is known.
ListSearchReceiveToTheEnd(t, value) ==
    LET moved == [t EXCEPT !.next_index = @ + 1,
                           !.acc = IF Holds(value) /\ @ = Missing THEN Current(t) ELSE @]
    IN  IF ~IsLast(t) THEN Stepped(moved, Push(t.func, Current(moved)))
        ELSE Stepped(moved, IF moved.acc = Missing THEN Exhausted(t)
                            ELSE Return(IF t.kind = "Find" THEN Some(moved.acc)
                                        ELSE BoolValue(t.kind = "Any")))

ListSearchReceive(t, value) ==
    LET moved == [t EXCEPT !.next_index = @ + 1]
    IN  IF value[1] # "bool" THEN Stepped(t, Error("NativeType"))
        ELSE IF t.kind = "Any" /\ Holds(value) THEN Stepped(t, Return(BoolValue(TRUE)))
        ELSE IF t.kind = "All" /\ ~Holds(value) THEN Stepped(t, Return(BoolValue(FALSE)))
        ELSE IF t.kind = "Find" /\ Holds(value) THEN Stepped(t, Return(Some(Current(t))))
        ELSE IF t.kind = "FindIndex" /\ Holds(value)
             THEN Stepped(t, Return(Some(IntValue(t.next_index))))
        ELSE Stepped(moved, IF IsLast(t) THEN Exhausted(t) ELSE Push(t.func, Current(moved)))

\* --- folds: the function is applied to one argument at a time
FoldFirst(t) ==
    Push(t.func, IF t.kind = "FoldLeft" THEN t.acc ELSE Reverse(t.values)[t.next_index + 1])

FoldSecond(t) ==
    Push(t.step, IF t.kind = "FoldLeft" THEN Current(t) ELSE t.acc)

FoldEnter(t) ==
    LET started == [t EXCEPT !.state = "ApplyFirst", !.next_index = 0]
    IN  IF t.values = <<>> THEN Stepped(t, Return(t.acc))
        ELSE Stepped(started, FoldFirst(started))

FoldReceive(t, value) ==
    LET second == [t EXCEPT !.step = value, !.state = "ApplySecond"]
        next   == [t EXCEPT !.acc = value, !.step = Missing,
                            !.next_index = @ + 1, !.state = "ApplyFirst"]
    IN  CASE t.state = "ApplyFirst"  -> Stepped(second, FoldSecond(second))
          [] t.state = "ApplySecond" ->
                 Stepped(next, IF IsLast(t) THEN Return(value) ELSE FoldFirst(next))
          [] OTHER                   -> Stepped(t, Error("Internal"))

\* --- equality of lists: kind is ArrayEq or ArrayNe
EqResult(t, equal) == Return(BoolValue(IF t.kind = "ArrayNe" THEN ~equal ELSE equal))

EqFirst(t) == Push(Overloaded("=="), Current(t))

ArrayEqEnter(t) ==
    LET started == [t EXCEPT !.state = "ApplyFirst", !.next_index = 0]
    IN  IF Len(t.values) # Len(t.other) THEN Stepped(t, EqResult(t, FALSE))
        ELSE IF t.values = <<>> THEN Stepped(t, EqResult(t, TRUE))
        ELSE Stepped(started, EqFirst(started))

ArrayEqReceive(t, value) ==
    LET second == [t EXCEPT !.step = value, !.state = "ApplySecond"]
        next   == [t EXCEPT !.step = Missing, !.next_index = @ + 1, !.state = "ApplyFirst"]
    IN  CASE t.state = "ApplyFirst"  ->
                 Stepped(second, Push(value, t.other[t.next_index + 1]))
          [] t.state = "ApplySecond" ->
                 IF value[1] # "bool" THEN Stepped(t, Error("NativeType"))
                 ELSE IF ~Holds(value) THEN Stepped(t, EqResult(t, FALSE))
                 ELSE Stepped(next, IF IsLast(t) THEN EqResult(t, TRUE) ELSE EqFirst(next))
          [] OTHER                   -> Stepped(t, Error("Internal"))

\* --- sum and mean: `+` between neighbours, and for mean `/` by the length
SumEnter(t) ==
    LET started == [t EXCEPT !.acc = t.values[1], !.next_index = 1, !.state = "ApplyFirst"]
    IN  IF t.values = <<>> THEN Stepped(t, PushVar("zero"))
        ELSE IF Len(t.values) = 1 THEN Stepped(t, Return(t.values[1]))
        ELSE Stepped(started, Push(Overloaded("+"), started.acc))

SumReceive(t, value) ==
    LET second == [t EXCEPT !.step = value, !.state = "ApplySecond"]
        next   == [t EXCEPT !.acc = value, !.step = Missing,
                            !.next_index = @ + 1, !.state = "ApplyFirst"]
    IN  CASE t.state = "Enter"       -> Stepped(t, Return(value))
          [] t.state = "ApplyFirst"  -> Stepped(second, Push(value, Current(t)))
          [] t.state = "ApplySecond" ->
                 Stepped(next, IF IsLast(t) THEN Return(value) ELSE Push(Overloaded("+"), value))

MeanEnter(t) ==
    LET started == [t EXCEPT !.acc = t.values[1], !.next_index = 1, !.state =
                        IF Len(t.values) = 1 THEN "ApplyDivFirst" ELSE "ApplyPlusFirst"]
    IN  IF t.values = <<>> THEN Stepped(t, Error("EmptySequence"))
        ELSE Stepped(started, Push(Overloaded(IF Len(t.values) = 1 THEN "/" ELSE "+"),
                                   started.acc))

MeanReceive(t, value) ==
    LET In(state) == [t EXCEPT !.step = value, !.state = state]
        next      == [t EXCEPT !.acc = value, !.step = Missing, !.next_index = @ + 1,
                               !.state = IF IsLast(t) THEN "ApplyDivFirst" ELSE "ApplyPlusFirst"]
    IN  CASE t.state = "ApplyPlusFirst"  ->
                 Stepped(In("ApplyPlusSecond"), Push(value, Current(t)))
          [] t.state = "ApplyPlusSecond" ->
                 Stepped(next, Push(Overloaded(IF IsLast(t) THEN "/" ELSE "+"), value))
          [] t.state = "ApplyDivFirst"   ->
                 Stepped(In("ApplyDivSecond"), Push(value, IntValue(Len(t.values))))
          [] t.state = "ApplyDivSecond"  -> Stepped(t, Return(value))
          [] OTHER                       -> Stepped(t, Error("Internal"))

\* --- one application: or_else and the natives of Option and Result
UnaryReceive(t, value) ==
    CASE t.kind \in {"ApplyUnary", "UnaryFilterMap"} -> Stepped(t, Return(value))
      [] t.kind = "UnaryMap"     ->
             Stepped(t, Return(IF t.other = "Option" THEN Some(value) ELSE Ok(value)))
      [] t.kind = "UnaryFilter"  ->
             IF value[1] # "bool" THEN Stepped(t, Error("NativeType"))
             ELSE Stepped(t, Return(IF Holds(value) THEN t.other ELSE None))
      [] t.kind = "UnaryFlatMap" ->
             IF t.other = "Result" /\ ~(IsAdt(value, "Ok", 1) \/ IsAdt(value, "Err", 1))
             THEN Stepped(t, Error("NativeType"))
             ELSE Stepped(t, Return(value))

-----------------------------------------------------------------------------
(* The Coroutine trait: one entry and one receive for all tasks.            *)

Searches == {"Any", "All", "Find", "FindIndex"}
FoldKinds == {"FoldLeft", "FoldRight"}
Equalities == {"ArrayEq", "ArrayNe"}

TaskEnter(t) ==
    CASE t.kind \in FanOutKinds -> FanOutEnter(t)
      [] t.kind \in Searches    -> ListSearchEnter(t)
      [] t.kind \in FoldKinds   -> FoldEnter(t)
      [] t.kind \in Equalities  -> ArrayEqEnter(t)
      [] t.kind = "Sum"         -> SumEnter(t)
      [] t.kind = "Mean"        -> MeanEnter(t)
      [] OTHER                  -> Stepped(t, Push(t.func, t.acc))

TaskReceive(t, child, value) ==
    CASE t.kind \in FanOutKinds -> FanOutReceive(t, child, value)
      [] t.kind \in Searches    -> ListSearchReceive(t, value)
      [] t.kind \in FoldKinds   -> FoldReceive(t, value)
      [] t.kind \in Equalities  -> ArrayEqReceive(t, value)
      [] t.kind = "Sum"         -> SumReceive(t, value)
      [] t.kind = "Mean"        -> MeanReceive(t, value)
      [] OTHER                  -> UnaryReceive(t, value)

-----------------------------------------------------------------------------
(* What the prelude does with the arguments of a native: a task, or at once  *)
(* a value (SchedulerNativeResult::Ready) or an error.                       *)

Ready(value)   == [op |-> "Ready", value |-> value]
Task(task)     == [op |-> "Task", task |-> task]
NoTask(error)  == [op |-> "Error", error |-> error]

\* The keys of a BTreeMap, in their order.
KeysOf(dict) ==
    [i \in 1..Cardinality(DOMAIN dict) |-> Nth(DOMAIN dict, i)]

EntriesOf(dict) == [i \in 1..Len(KeysOf(dict)) |-> dict[KeysOf(dict)[i]]]

PairsOf(dict) ==
    [i \in 1..Len(KeysOf(dict)) |->
        TupleValue(<<StringValue(KeysOf(dict)[i]), EntriesOf(dict)[i]>>)]

IsOption(v) == IsAdt(v, "Some", 1) \/ IsAdt(v, "None", 0)
IsResult(v) == IsAdt(v, "Ok", 1) \/ IsAdt(v, "Err", 1)

\* The elements of a list, or those of an option as a list.
Elements(v) == IF v[1] = "list" THEN v[2] ELSE v[3]

\* A native of lists is a fan-out task; on an option or a result it is one
\* application, and nothing to do on None and Err.
OverContainer(listKind, unaryKind, func, v) ==
    IF v[1] = "list" THEN Task(FanOut(listKind, func, v[2], <<>>, <<>>))
    ELSE IF v[2] \in {"None", "Err"} THEN Ready(v)
    ELSE Task(Sequential(unaryKind, func, <<>>,
                         CASE unaryKind = "UnaryFilter" -> v
                           [] OTHER -> IF IsOption(v) THEN "Option" ELSE "Result",
                         v[3][1]))

PrimMap(func, v) == OverContainer("SequenceMap", "UnaryMap", func, v)

PrimFilter(func, v) == OverContainer("SequenceFilter", "UnaryFilter", func, v)

PrimFilterMap(func, v) == OverContainer("SequenceFilterMap", "UnaryFilterMap", func, v)

PrimFlatMap(func, v) == OverContainer("SequenceFlatMap", "UnaryFlatMap", func, v)

\* prim_or_else keeps a container that has something in it.
OrElse(func, v) ==
    LET full == IF v[1] = "list" THEN v[2] # <<>> ELSE v[2] \in {"Some", "Ok"}
    IN  IF full THEN Ready(v) ELSE Task(Sequential("ApplyUnary", func, <<>>, Missing, v))

ListSearch(kind, func, list) == Task(Sequential(kind, func, list[2], Missing, Missing))

ListPredicate(kind, func, list) == Task(FanOut(kind, func, list[2], <<>>, <<>>))

PrimFoldLeft(func, acc, v) == Task(Sequential("FoldLeft", func, Elements(v), Missing, acc))

PrimFoldRight(func, acc, v) == Task(Sequential("FoldRight", func, Elements(v), Missing, acc))

PrimListEq(kind, xs, ys) == Task(Sequential(kind, Missing, xs[2], ys[2], Missing))

Sum(v) == Task(Sequential("Sum", Missing, Elements(v), Missing, Missing))

Mean(v) ==
    IF Elements(v) = <<>> THEN NoTask("EmptySequence")
    ELSE Task(Sequential("Mean", Missing, Elements(v), Missing, Missing))

\* prim_dict_map, prim_dict_filter and prim_dict_filter_map see the entries.
OverEntries(kind, func, dict) ==
    Task(FanOut(kind, func, EntriesOf(dict), KeysOf(dict), EntriesOf(dict)))

\* dict_map and dict_filter see the pairs of key and entry.
OverPairs(kind, func, dict) ==
    Task(FanOut(kind, func, PairsOf(dict), KeysOf(dict), EntriesOf(dict)))

DictUpdate(key, func, dict) ==
    Task(FanOut("DictUpdate", func, <<IF key \in DOMAIN dict THEN Some(dict[key]) ELSE None>>,
                <<key>>, dict))

\* The natives that may call back.
CallbackNatives ==
    {"prim_map", "prim_filter", "prim_filter_map", "prim_flat_map", "prim_or_else",
     "list_any", "list_all", "list_find", "list_find_index", "list_count", "list_partition",
     "prim_foldl", "prim_fold", "prim_foldr", "prim_list_eq", "prim_list_ne", "sum", "mean",
     "prim_dict_map", "prim_dict_filter", "prim_dict_filter_map", "dict_map", "dict_filter",
     "dict_update"}

SchedulerNative(name, args) ==
    CASE name = "prim_map"             -> PrimMap(args[1], args[2])
      [] name = "prim_filter"          -> PrimFilter(args[1], args[2])
      [] name = "prim_filter_map"      -> PrimFilterMap(args[1], args[2])
      [] name = "prim_flat_map"        -> PrimFlatMap(args[1], args[2])
      [] name = "prim_or_else"         -> OrElse(args[1], args[2])
      [] name = "list_any"             -> ListSearch("Any", args[1], args[2])
      [] name = "list_all"             -> ListSearch("All", args[1], args[2])
      [] name = "list_find"            -> ListSearch("Find", args[1], args[2])
      [] name = "list_find_index"      -> ListSearch("FindIndex", args[1], args[2])
      [] name = "list_count"           -> ListPredicate("Count", args[1], args[2])
      [] name = "list_partition"       -> ListPredicate("Partition", args[1], args[2])
      [] name \in {"prim_foldl", "prim_fold"} -> PrimFoldLeft(args[1], args[2], args[3])
      [] name = "prim_foldr"           -> PrimFoldRight(args[1], args[2], args[3])
      [] name = "prim_list_eq"         -> PrimListEq("ArrayEq", args[1], args[2])
      [] name = "prim_list_ne"         -> PrimListEq("ArrayNe", args[1], args[2])
      [] name = "sum"                  -> Sum(args[1])
      [] name = "mean"                 -> Mean(args[1])
      [] name = "prim_dict_map"        -> OverEntries("DictMap", args[1], args[2][2])
      [] name = "prim_dict_filter"     -> OverEntries("DictFilter", args[1], args[2][2])
      [] name = "prim_dict_filter_map" -> OverEntries("DictFilterMap", args[1], args[2][2])
      [] name = "dict_map"             -> OverPairs("DictEntryMap", args[1], args[2][2])
      [] name = "dict_filter"          -> OverPairs("DictFilter", args[1], args[2][2])
      [] name = "dict_update"          -> DictUpdate(args[1][2], args[2], args[3][2])
=============================================================================
