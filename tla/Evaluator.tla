------------------------------ MODULE Evaluator ------------------------------
(***************************************************************************)
(* The evaluator: eval_typed_expr_inner and the frames of                  *)
(* rex-engine/src/evaluator/eval.rs, the application of natives            *)
(* (native_fn.rs) and of overloaded functions (overloaded_fn.rs,           *)
(* evaluator/context.rs), for programs given as typed expressions.         *)
(*                                                                         *)
(* An expression is a record whose field e is its kind.  Of the types the  *)
(* model keeps what evaluation looks at: the number of arrows of the type  *)
(* of a variable, and the type head a class method is used at (inst).  The *)
(* spine of an application is flattened.  An environment is a function     *)
(* from names; in it <<"slot", k>> is the k-th cell allocated by a let     *)
(* rec.  The heap is left out: a value stands for the cells it is made of. *)
(*                                                                         *)
(* Host calls answer in any order.  How they are queued, admitted and      *)
(* polled is HostScheduler's subject; here a poll hands the next cycle any *)
(* outstanding call's completion, or none when there is internal work.     *)
(***************************************************************************)
EXTENDS NativeTasks, Bags

CONSTANTS Programs,   \* [expr, args]: an expression and the inputs it is run on
          Limits,     \* ready_work_limit of the parallelism controller
          Natives,    \* name -> [arity, callable]
          Methods,    \* class method -> [arrows, instances: type head -> expr]
          HostAnswer(_),  \* what the host answers to a call
          MatchPattern(_, _), \* a set: empty when a value does not match a
                          \*   pattern, else the bindings are its only member
          MaxFrames,      \* bound of the model: frames created in one evaluation
          MaxFan          \* bound of the model: children scheduled by one step

ASSUME EvaluatorBounds == MaxFrames \in Nat /\ MaxFan \in Nat
ASSUME EvaluatorLimits == Limits \subseteq Nat

Work == INSTANCE ReadyQueue

VARIABLES program,    \* what is evaluated
          frames,     \* FrameStore: id -> frame
          next_id,    \* FrameStore::next_id
          slots,      \* let rec cells
          queue,      \* EvalScheduler
          host,       \* outstanding host calls: NativeHost frame -> call
          completed,  \* completion for the next cycle: <<frame, value>> or none
          status,     \* poll, cycle, completed or failed
          result,     \* the value, or the error
          issued      \* ghost: bag of the host calls made

vars == <<program, frames, next_id, slots, queue, host, completed, status, result, issued>>

-----------------------------------------------------------------------------
(* Values that only the evaluator knows.                                    *)

Closure(env, param, body)            == <<"closure", env, param, body>>
NativeValue(name, arrows, applied)   == <<"native", name, arrows, applied>>
OverloadedValue(name, applied)       == <<"overloaded", name, applied>>
Uninitialized                        == <<"uninitialized">>

NoEnv == [name \in {} |-> Missing]
Extend(env, name, value) == (name :> value) @@ env

Var(name, arrows, inst) == [e |-> "var", name |-> name, arrows |-> arrows, inst |-> inst]
App(head, args)         == [e |-> "app", head |-> head, args |-> args]

\* The name of the i-th argument of a synthetic application.
ArgName(i) == "__rex_apply_arg_" \o ToString(i - 1)
FuncName   == "__rex_apply_func"

ArgVars(args) == [i \in 1..Len(args) |-> Var(ArgName(i), 0, "none")]

\* synthetic_rooted_application_expr_from_head: an application of an
\* application has one spine.
SyntheticApp(head, args) ==
    IF head.e = "app" THEN App(head.head, head.args \o ArgVars(args))
    ELSE App(head, ArgVars(args))

ArgEnv(args) == FoldLeft(LAMBDA env, i : Extend(env, ArgName(i), args[i]), NoEnv,
                         [i \in 1..Len(args) |-> i])

-----------------------------------------------------------------------------
(* EvalControl: Wait, Return and Error are those of NativeTasks.            *)

Evaluate(expr, env) == [op |-> "Push", expr |-> expr, env |-> env]
PushFrame(task)     == [op |-> "PushFrame", task |-> task]
Schedule(ids)       == [op |-> "Schedule", ids |-> ids]
AwaitNative(call)   == [op |-> "AwaitNative", call |-> call]
Value(value)        == [op |-> "Value", value |-> value]   \* EvalApplyResult only

\* The machine a frame operates on, and what an operation leaves.
Machine == [frames |-> frames, next_id |-> next_id, slots |-> slots]
Did(m, control) == [m |-> m, control |-> control]

\* frame_for_expr, and the two frames without an expression.
FrameFor(parent, expr, env) ==
    [kind |-> "Expr", parent |-> parent, expr |-> expr, env |-> env, state |-> "Enter",
     children |-> <<>>, values |-> <<>>, remaining |-> 0, next |-> 0,
     func |-> Missing, cells |-> <<>>, task |-> Missing]

NativeCallFrame(parent, task) ==
    [FrameFor(parent, Missing, NoEnv) EXCEPT !.kind = "NativeCall", !.task = task]

NativeHostFrame(parent) == [FrameFor(parent, Missing, NoEnv) EXCEPT !.kind = "NativeHost"]

Replace(m, id, frame) == [m EXCEPT !.frames[id] = frame]

NewIds(m, n) == [i \in 1..n |-> m.next_id + i - 1]

\* FrameStore::insert for each of new, in turn.
InsertAll(m, new) ==
    LET ids == m.next_id .. m.next_id + Len(new) - 1
    IN  [m EXCEPT !.frames = [id \in DOMAIN m.frames \cup ids |->
                                 IF id \in ids THEN new[id - m.next_id + 1] ELSE m.frames[id]],
                  !.next_id = @ + Len(new)]

\* A frame schedules one child per expression and keeps a place for each
\* result: sequences, record updates and applications.
FanOutTo(m, id, frame, exprs) ==
    LET ids == NewIds(m, Len(exprs))
    IN  Did(InsertAll(Replace(m, id, [frame EXCEPT !.children = ids,
                                                   !.values = [i \in 1..Len(exprs) |-> Missing],
                                                   !.remaining = Len(exprs)]),
                      [i \in 1..Len(exprs) |-> FrameFor(id, exprs[i], frame.env)]),
            Schedule(ids))

-----------------------------------------------------------------------------
(* Applying a function value to one argument: the answer is Value, or the   *)
(* control that computes it.                                                *)

\* Two of the natives that answer at once: a constructor and unwrap.
ReadyNatives == {"Some", "unwrap"}

Intrinsic(name, args) ==
    CASE name = "Some"   -> Ready(Some(args[1]))
      [] name = "unwrap" -> IF args[1] = None THEN NoTask("Custom") ELSE Ready(args[1][3][1])

\* A native with all its arguments, by its callable.
CallNative(name, args) ==
    CASE Natives[name].callable = "constant"  ->
             IF args = <<>> THEN Value(Natives[name].value) ELSE Error("NativeArity")
      [] /\ Natives[name].callable = "scheduler"
         /\ name \in ReadyNatives \cup CallbackNatives ->
             LET answer == IF name \in ReadyNatives THEN Intrinsic(name, args)
                           ELSE SchedulerNative(name, args)
             IN  CASE answer.op = "Ready" -> Value(answer.value)
                   [] answer.op = "Task"  -> PushFrame(answer.task)
                   [] OTHER               -> Error(answer.error)
      [] OTHER -> AwaitNative([name |-> name, args |-> args])

\* NativeFn::apply: arguments are collected while the rest of the type is a
\* function type.
NativeApply(native, arg) ==
    LET name    == native[2]
        arrows  == native[3]
        applied == Append(native[4], arg)
    IN  CASE Natives[name].arity = 0 -> Error("NativeArity")
          [] arrows = 0              -> Error("NotCallable")
          [] arrows > 1              -> Value(NativeValue(name, arrows - 1, applied))
          [] OTHER                   -> CallNative(name, applied)

\* resolve_class_method_plan: the instance for a type head, or a value that
\* waits for arguments which tell.
MethodPlan(name, inst, arrows) ==
    CASE inst \in DOMAIN Methods[name].instances ->
             Evaluate(Methods[name].instances[inst], NoEnv)
      [] inst = "?" /\ arrows > 0 -> Value(OverloadedValue(name, <<>>))
      [] inst = "?"               -> Error("AmbiguousOverload")
      [] OTHER                    -> Error("MissingTypeclassImpl")

\* eval_apply_overloaded_arg, for the methods of classes.
OverloadedApply(over, arg) ==
    LET name    == over[2]
        applied == Append(over[3], arg)
        plan    == MethodPlan(name, applied[1][1], Methods[name].arrows)
    IN  IF Len(applied) < Methods[name].arrows THEN Value(OverloadedValue(name, applied))
        ELSE IF plan.op # "Push" THEN plan
        ELSE Evaluate(SyntheticApp(plan.expr, applied), ArgEnv(applied) @@ plan.env)

\* eval_apply_arg.
ApplyArg(func, arg) ==
    CASE func[1] = "closure"    -> Evaluate(func[4], Extend(func[2], func[3], arg))
      [] func[1] = "native"     -> NativeApply(func, arg)
      [] func[1] = "overloaded" -> OverloadedApply(func, arg)
      [] OTHER                  -> Error("NotCallable")

\* continue_app_after_apply: values[1] is the head, next the arguments it was
\* applied to; func is what it has become.  The loop goes on while applications
\* answer at once: becomes[k] is the function after k arguments, stop the number
\* of arguments it has when the loop is left.
ContinueApp(m, id, frame) ==
    LET last      == Len(frame.values) - 1
        Answer(f, k) == ApplyArg(f, frame.values[k + 2])
        becomes[k \in Nat] ==
            IF k <= frame.next THEN frame.func
            ELSE IF Answer(becomes[k - 1], k - 1).op = "Value"
                 THEN Answer(becomes[k - 1], k - 1).value ELSE becomes[k - 1]
        Stops(k) == k = last \/ Answer(becomes[k], k).op # "Value"
        stop     == CHOOSE k \in frame.next..last :
                        Stops(k) /\ \A j \in frame.next..k - 1 : ~Stops(j)
    IN  IF stop = last THEN Did(m, Return(becomes[last]))
        ELSE Did(Replace(m, id, [frame EXCEPT !.func = becomes[stop], !.next = stop,
                                              !.state = "ApplyArg"]),
                 Answer(becomes[stop], stop))

-----------------------------------------------------------------------------
(* Variables.                                                               *)

Cell(m, v) == IF v[1] = "slot" THEN m.slots[v[2]] ELSE v

\* What a value is when it is looked up: a native without parameters is called.
LookedUp(v) ==
    IF v[1] = "native" /\ v[4] = <<>> /\ Natives[v[2]].arity = 0
    THEN CallNative(v[2], <<>>) ELSE Value(v)

\* eval_resolve_var and eval_resolve_class_method.
Resolve(m, env, x) ==
    CASE x.name \in DOMAIN env     -> LookedUp(Cell(m, env[x.name]))
      [] x.name \in DOMAIN Methods -> MethodPlan(x.name, x.inst, x.arrows)
      [] x.name \in DOMAIN Natives -> LookedUp(NativeValue(x.name, x.arrows, <<>>))
      [] OTHER                     -> Error("UnknownVar")

\* The control for the answer: a value is returned, anything else is awaited
\* and what it returns is passed on.
AsControl(answer) == IF answer.op = "Value" THEN Return(answer.value) ELSE answer

-----------------------------------------------------------------------------
(* Operations on complete values.                                           *)

DictOf(keys, values) ==
    DictValue([k \in {keys[i] : i \in 1..Len(keys)} |->
                  values[CHOOSE i \in 1..Len(keys) : keys[i] = k]])

\* alloc_sequence_values.
SequenceValue(x, values) ==
    CASE x.kind = "tuple" -> TupleValue(values)
      [] x.kind = "list"  -> ListValue(values)
      [] x.kind = "dict"  -> DictOf(x.keys, values)

\* A record: a dictionary, or a constructor around one.
IsRecord(v) == v[1] = "dict" \/ (v[1] = "adt" /\ Len(v[3]) = 1 /\ v[3][1][1] = "dict")

Fields(v) == IF v[1] = "dict" THEN v[2] ELSE v[3][1][2]

\* apply_record_update_values.
UpdateRecord(base, keys, values) ==
    LET map == DictOf(keys, values)[2] @@ Fields(base)
    IN  IF ~IsRecord(base) THEN Error("UnsupportedExpr")
        ELSE IF base[1] = "dict" THEN Return(DictValue(map))
        ELSE Return(AdtValue(base[2], <<DictValue(map)>>))

\* project_pointer: index is 0 for a field with a name.
ProjectField(x, v) ==
    CASE x.index > 0 -> IF v[1] = "tuple" /\ x.index <= Len(v[2])
                        THEN Return(v[2][x.index]) ELSE Error("UnknownField")
      [] OTHER       -> IF IsRecord(v) /\ x.field \in DOMAIN Fields(v)
                        THEN Return(Fields(v)[x.field]) ELSE Error("UnknownField")

-----------------------------------------------------------------------------
(* Native call frames: native_step_to_control.                              *)

NativeControl(m, id, stepped) ==
    LET t     == stepped.task
        step  == stepped.step
        ids   == NewIds(m, Len(t.args))
        frame == [m.frames[id] EXCEPT !.state = "Waiting", !.task = t]
        Applied(func, arg) ==
            [expr |-> App(Var(FuncName, 1, "none"), <<Var(ArgName(1), 0, "none")>>),
             env  |-> (FuncName :> func) @@ (ArgName(1) :> arg)]
        Child(arg) == FrameFor(id, Applied(t.func, arg).expr, Applied(t.func, arg).env)
    IN  CASE step.op = "Push"     ->
                 Did(Replace(m, id, frame),
                     Evaluate(Applied(step.func, step.arg).expr, Applied(step.func, step.arg).env))
          [] step.op = "PushVar"  ->
                 Did(Replace(m, id, frame), Evaluate(Var(step.name, 0, "int"), NoEnv))
          [] step.op = "Schedule" ->
                 Did(InsertAll(Replace(m, id, [frame EXCEPT !.task = WithChildren(t, ids)]),
                               [i \in 1..Len(t.args) |-> Child(t.args[i])]),
                     Schedule(ids))
          [] OTHER                -> Did(Replace(m, id, frame), step)

-----------------------------------------------------------------------------
(* eval_enter: a frame starts.                                              *)

\* Most frames start by evaluating one expression.
StartWith(m, id, state, expr) ==
    Did(Replace(m, id, [m.frames[id] EXCEPT !.state = state]), Evaluate(expr, m.frames[id].env))

EnterSequence(m, id) ==
    LET frame == m.frames[id]
    IN  IF frame.expr.items = <<>> THEN Did(m, Return(SequenceValue(frame.expr, <<>>)))
        ELSE FanOutTo(m, id, [frame EXCEPT !.state = "EvalItem"], frame.expr.items)

\* eval_app_enter: the head and all arguments at once.
EnterApp(m, id) ==
    LET frame == m.frames[id]
    IN  FanOutTo(m, id, [frame EXCEPT !.state = "EvalChildren"],
                 <<frame.expr.head>> \o frame.expr.args)

\* The cells of a let rec are allocated, then its first definition is
\* evaluated where all of them are visible.
EnterLetRec(m, id) ==
    LET frame == m.frames[id]
        x     == frame.expr
        cells == [i \in 1..Len(x.names) |-> Len(m.slots) + i]
        env   == [name \in {x.names[i] : i \in 1..Len(x.names)} |->
                     <<"slot", cells[CHOOSE i \in 1..Len(x.names) : x.names[i] = name]>>]
                 @@ frame.env
        more  == [m EXCEPT !.slots = @ \o [i \in 1..Len(x.names) |-> Uninitialized]]
    IN  Did(Replace(more, id, [frame EXCEPT !.cells = cells, !.env = env,
                                            !.state = IF x.names = <<>> THEN "EvalBody"
                                                      ELSE "EvalBinding"]),
            Evaluate(IF x.names = <<>> THEN x.body ELSE x.defs[1], env))

Enter(m, id) ==
    LET frame == m.frames[id]
        x     == frame.expr
    IN  IF frame.kind = "NativeCall" THEN NativeControl(m, id, TaskEnter(frame.task))
        ELSE IF frame.kind = "NativeHost" THEN Did(m, Error("Internal"))
        ELSE CASE x.e = "literal"  -> Did(m, Return(x.value))
               [] x.e = "sequence" -> EnterSequence(m, id)
               [] x.e = "update"   -> StartWith(m, id, "EvalBase", x.base)
               [] x.e = "var"      -> Did(m, AsControl(Resolve(m, frame.env, x)))
               [] x.e = "app"      -> EnterApp(m, id)
               [] x.e = "project"  -> StartWith(m, id, "Enter", x.base)
               [] x.e = "lam"      -> Did(m, Return(Closure(frame.env, x.param, x.body)))
               [] x.e = "let"      -> StartWith(m, id, "EvalDef", x.def)
               [] x.e = "letrec"   -> EnterLetRec(m, id)
               [] x.e = "ite"      -> StartWith(m, id, "EvalCondition", x.cond)
               [] x.e = "match"    -> StartWith(m, id, "EvalScrutinee", x.scrutinee)
               [] OTHER            -> Did(m, Error("UnsupportedExpr"))   \* a hole

-----------------------------------------------------------------------------
(* eval_receive: a child has returned.                                      *)

\* Mutant of Stored: results are stored in the order they arrive.
StoredInOrder(frame, child, value) ==
    LET at == Len(frame.values) - frame.remaining + 1
    IN  [frame EXCEPT !.values[at] = value, !.remaining = @ - 1]

\* Mutant of Stored: the result is stored and not counted.
StoredUncounted(frame, child, value) ==
    LET at == CHOOSE i \in 1..Len(frame.children) : frame.children[i] = child
    IN  [frame EXCEPT !.values[at] = value]

\* receive_sequence_value and receive_app_child_value, for a child that is
\* known and has not returned before.
Stored(frame, child, value) ==
    LET at == CHOOSE i \in 1..Len(frame.children) : frame.children[i] = child
    IN  [frame EXCEPT !.values[at] = value, !.remaining = @ - 1]

Expected(frame, child) ==
    \E i \in 1..Len(frame.children) : frame.children[i] = child /\ frame.values[i] = Missing

\* A fan-out frame: Done(_, _) is what becomes of it with its last result.
Collect(m, id, child, value, Done(_, _)) ==
    LET frame  == m.frames[id]
        stored == Stored(frame, child, value)
    IN  IF ~Expected(frame, child) THEN Did(m, Error("Internal"))
        ELSE IF stored.remaining > 0 THEN Did(Replace(m, id, stored), Wait)
        ELSE Done(m, stored)

ReceiveSequence(m, id, child, value) ==
    IF m.frames[id].state # "EvalItem" THEN Did(m, Error("Internal"))
    ELSE Collect(m, id, child, value,
                 LAMBDA n, frame : Did(n, Return(SequenceValue(frame.expr, frame.values))))

ReceiveUpdate(m, id, child, value) ==
    LET frame == m.frames[id]
        x     == frame.expr
        based == [frame EXCEPT !.func = value, !.state = "EvalUpdate"]
    IN  CASE frame.state = "EvalBase" ->
                 IF x.items = <<>> THEN Did(m, UpdateRecord(value, <<>>, <<>>))
                 ELSE FanOutTo(m, id, based, x.items)
          [] frame.state = "EvalUpdate" ->
                 Collect(m, id, child, value,
                         LAMBDA n, full : Did(n, UpdateRecord(full.func, x.keys, full.values)))
          [] OTHER -> Did(m, Error("Internal"))

ReceiveApp(m, id, child, value) ==
    LET frame == m.frames[id]
    IN  CASE frame.state = "EvalChildren" ->
                 Collect(m, id, child, value, LAMBDA n, full :
                     ContinueApp(n, id, [full EXCEPT !.func = full.values[1], !.next = 0]))
          [] frame.state = "ApplyArg" ->
                 ContinueApp(m, id, [frame EXCEPT !.func = value, !.next = @ + 1])
          [] OTHER -> Did(m, Error("Internal"))

\* The last step of most frames: the child's value is the frame's.
Continue(m, id, state, expr, env) ==
    Did(Replace(m, id, [m.frames[id] EXCEPT !.state = state]), Evaluate(expr, env))

ReceiveLet(m, id, value) ==
    LET frame == m.frames[id]
    IN  CASE frame.state = "EvalDef"  ->
                 Continue(m, id, "EvalBody", frame.expr.body,
                          Extend(frame.env, frame.expr.name, value))
          [] frame.state = "EvalBody" -> Did(m, Return(value))
          [] OTHER                    -> Did(m, Error("Internal"))

ReceiveLetRec(m, id, value) ==
    LET frame == m.frames[id]
        x     == frame.expr
        moved == [Replace(m, id, [frame EXCEPT !.next = @ + 1])
                     EXCEPT !.slots[frame.cells[frame.next + 1]] = value]
    IN  CASE frame.state = "EvalBinding" ->
                 IF frame.next + 1 = Len(x.names)
                 THEN Continue(moved, id, "EvalBody", x.body, frame.env)
                 ELSE Did(moved, Evaluate(x.defs[frame.next + 2], frame.env))
          [] frame.state = "EvalBody"    -> Did(m, Return(value))
          [] OTHER                       -> Did(m, Error("Internal"))

ReceiveIte(m, id, value) ==
    LET frame == m.frames[id]
    IN  CASE frame.state = "EvalCondition" ->
                 IF value[1] # "bool" THEN Did(m, Error("ExpectedBool"))
                 ELSE Continue(m, id, "EvalSelected",
                               IF Holds(value) THEN frame.expr.then_expr
                               ELSE frame.expr.else_expr, frame.env)
          [] frame.state = "EvalSelected"  -> Did(m, Return(value))
          [] OTHER                         -> Did(m, Error("Internal"))

\* The first arm that matches.
ReceiveMatch(m, id, value) ==
    LET frame   == m.frames[id]
        arms    == frame.expr.arms
        Matched(i) == MatchPattern(arms[i].pattern, value)
        matches == {i \in 1..Len(arms) : Matched(i) # {}}
        arm     == CHOOSE i \in matches : \A j \in matches : i <= j
        bound   == CHOOSE bindings \in Matched(arm) : TRUE
    IN  CASE frame.state = "EvalScrutinee" ->
                 IF matches = {} THEN Did(m, Error("MatchFailure"))
                 ELSE Continue(m, id, "EvalArm", arms[arm].expr, bound @@ frame.env)
          [] frame.state = "EvalArm"       -> Did(m, Return(value))
          [] OTHER                         -> Did(m, Error("Internal"))

Receive(m, id, child, value) ==
    LET frame == m.frames[id]
        x     == frame.expr
    IN  IF frame.kind = "NativeCall"
        THEN IF frame.state = "Waiting"
             THEN NativeControl(m, id, TaskReceive(frame.task, child, value))
             ELSE Did(m, Error("Internal"))
        ELSE IF frame.kind = "NativeHost" THEN Did(m, Return(value))
        ELSE CASE x.e = "sequence" -> ReceiveSequence(m, id, child, value)
               [] x.e = "update"   -> ReceiveUpdate(m, id, child, value)
               [] x.e = "var"      -> Did(m, Return(value))
               [] x.e = "app"      -> ReceiveApp(m, id, child, value)
               [] x.e = "project"  -> Did(m, ProjectField(x, value))
               [] x.e = "let"      -> ReceiveLet(m, id, value)
               [] x.e = "letrec"   -> ReceiveLetRec(m, id, value)
               [] x.e = "ite"      -> ReceiveIte(m, id, value)
               [] x.e = "match"    -> ReceiveMatch(m, id, value)
               [] OTHER            -> Did(m, Error("Internal"))

-----------------------------------------------------------------------------
(* The main loop.                                                           *)

NoParent == -1
NoChild  == -1
Root     == 0

EnterItem(id)                   == [frame |-> id, child |-> NoChild, value |-> Missing]
ReceiveItem(id, child, value)   == [frame |-> id, child |-> child, value |-> value]

Init ==
    /\ program \in Programs
    /\ frames = [id \in {Root} |->
                    FrameFor(NoParent,
                             IF program.args = <<>> THEN program.expr
                             ELSE SyntheticApp(program.expr, program.args),
                             ArgEnv(program.args))]
    /\ next_id = 1
    /\ slots = <<>>
    /\ \E limit \in Limits : queue = Work!NewQueue(EnterItem(Root), limit)
    /\ host = [id \in {} |-> Missing]
    /\ completed = <<>>
    /\ status = "poll"
    /\ result = Missing
    /\ issued = EmptyBag

\* A synchronous host function is called and answers in the next poll that finds
\* no earlier call finished; of several the oldest is first.
Immediate == {id \in DOMAIN host : Natives[host[id].name].callable = "immediate"}

MayAnswer(id) == id \in DOMAIN host /\ (id \in Immediate => \A other \in Immediate : id <= other)

\* Mutant of PollCompletes: the call stays with the scheduler and answers again.
PollCompletesAgain(id) ==
    /\ status = "poll"
    /\ MayAnswer(id)
    /\ completed' = <<id, HostAnswer(host[id])>>
    /\ status' = "cycle"
    /\ UNCHANGED <<program, frames, next_id, slots, queue, host, result, issued>>

\* The poll has the completion of a host call.
PollCompletes(id) ==
    /\ status = "poll"
    /\ MayAnswer(id)
    /\ completed' = <<id, HostAnswer(host[id])>>
    /\ host' = [other \in DOMAIN host \ {id} |-> host[other]]
    /\ status' = "cycle"
    /\ UNCHANGED <<program, frames, next_id, slots, queue, result, issued>>

\* The poll has nothing, and there is internal work to do meanwhile.
PollIdle ==
    /\ status = "poll"
    /\ Work!HasReadyWork(queue) /\ Immediate = {}
    /\ status' = "cycle"
    /\ completed' = <<>>
    /\ UNCHANGED <<program, frames, next_id, slots, queue, host, result, issued>>

\* Everything is dropped on the way out.
FailWith(error) ==
    /\ status' = "failed"
    /\ result' = <<"error", error>>
    /\ frames' = [id \in {} |-> Missing]
    /\ queue' = Work!Queue(<<>>, <<>>, queue.ready_work_limit)
    /\ host' = [id \in {} |-> Missing]
    /\ completed' = <<>>
    /\ UNCHANGED <<program, next_id, slots, issued>>

\* A host call answers with an error.
HostFails(id) ==
    /\ status = "poll"
    /\ MayAnswer(id)
    /\ FailWith("Host")

\* The children of EvalControl::Schedule are queued from the last to the first.
ScheduleItems(q, ids) ==
    LET n == Len(ids)
        after[k \in 0..n] ==
            IF k = 0 THEN q ELSE Work!ScheduleNext(after[k - 1], EnterItem(ids[n - k + 1]))
    IN  after[n]

\* EvalBoundary::from_state after the cycle.
Carries(q, h) == Work!HasReadyWork(q) \/ DOMAIN h # {}

GoOn(m, q, h, bag) ==
    IF ~Carries(q, h) THEN FailWith("Internal")
    ELSE /\ frames' = m.frames /\ next_id' = m.next_id /\ slots' = m.slots
         /\ queue' = q /\ host' = h /\ issued' = bag
         /\ status' = "poll"
         /\ completed' = <<>>
         /\ UNCHANGED <<program, result>>

\* The control of a step applied to the frames, the queue and the host.
Obey(id, did, q) ==
    LET m       == did.m
        control == did.control
        child   == m.next_id
        parent  == m.frames[id].parent
        removed == [m EXCEPT !.frames = [other \in DOMAIN @ \ {id} |-> @[other]]]
    IN  CASE control.op = "Push" ->
                 GoOn(InsertAll(m, <<FrameFor(id, control.expr, control.env)>>),
                      Work!ScheduleNext(q, EnterItem(child)), host, issued)
          [] control.op = "PushFrame" ->
                 GoOn(InsertAll(m, <<NativeCallFrame(id, control.task)>>),
                      Work!ScheduleNext(q, EnterItem(child)), host, issued)
          [] control.op = "Schedule" -> GoOn(m, ScheduleItems(q, control.ids), host, issued)
          [] control.op = "Wait" -> GoOn(m, q, host, issued)
          [] control.op = "AwaitNative" ->
                 GoOn(InsertAll(m, <<NativeHostFrame(id)>>), q,
                      [other \in DOMAIN host \cup {child} |->
                          IF other = child THEN control.call ELSE host[other]],
                      issued (+) SetToBag({control.call}))
          [] control.op = "Return" /\ parent # NoParent ->
                 GoOn(removed, Work!ScheduleNext(q, ReceiveItem(parent, id, control.value)),
                      host, issued)
          [] control.op = "Return" /\ parent = NoParent ->
                 /\ status' = "completed"
                 /\ result' = control.value
                 /\ frames' = removed.frames
                 /\ queue' = q
                 /\ completed' = <<>>
                 /\ UNCHANGED <<program, next_id, slots, host, issued>>
          [] OTHER -> FailWith(control.error)

\* run_runtime_cycle: a completion is queued, one item is taken and its frame
\* enters or receives.
Cycle ==
    /\ status = "cycle"
    /\ LET q    == IF completed = <<>> THEN queue
                   ELSE Work!ScheduleNext(queue, ReceiveItem(completed[1], completed[1], completed[2]))
           item == Work!NextItem(q)
       IN  \E did \in {IF item.frame \notin DOMAIN frames THEN Did(Machine, Error("Internal"))
                       ELSE IF item.child = NoChild THEN Enter(Machine, item.frame)
                       ELSE Receive(Machine, item.frame, item.child, item.value)} :
               Obey(item.frame, did, Work!PopNext(q))

Finished ==
    /\ status \in {"completed", "failed"}
    /\ UNCHANGED vars

Next ==
    \/ \E id \in DOMAIN host : PollCompletes(id)
    \/ PollIdle
    \/ \E id \in DOMAIN host : HostFails(id)
    \/ Cycle
    \/ Finished

\* The evaluator task keeps running, and a host call answers, or fails, when
\* there is nothing else to do.  Every step changes the status, so this is weak
\* fairness of Next without Finished, in a form TLC evaluates quickly.
Moves ==
    /\ status = "cycle" \/ (status = "poll" /\ Carries(queue, host))
    /\ status' \in {"poll", "cycle", "completed", "failed"} \ {status}

Fairness == WF_status(Moves)

Spec == Init /\ [][Next]_vars /\ Fairness

-----------------------------------------------------------------------------
(* FrameTree is this machine without the expressions.                       *)

Items == {Work!PopOrder(queue)[i] : i \in 1..Len(Work!PopOrder(queue))}

Returned ==
    {<<item.frame, item.child>> : item \in {i \in Items : i.child # NoChild}}
        \cup (IF completed = <<>> THEN {} ELSE {<<completed[1], completed[1]>>})

\* Whose result f expects: a child at work, or one whose result is on its way;
\* a NativeHost frame expects the answer to its call.
WaitingFor(f) ==
    {c \in DOMAIN frames : frames[c].parent = f}
        \cup {item[2] : item \in {r \in Returned : r[1] = f}}
        \cup (IF f \in DOMAIN host THEN {f} ELSE {})

TreeParent ==
    [f \in DOMAIN frames |-> IF frames[f].parent = NoParent THEN Root ELSE frames[f].parent]

TreeWaiting == [f \in DOMAIN frames |-> WaitingFor(f)]

TreeEntering == {item.frame : item \in {i \in Items : i.child = NoChild}}

TreeStatus == IF status \in {"poll", "cycle"} THEN "running" ELSE status

Tree == INSTANCE FrameTree WITH
    MaxChildren <- MaxFan,
    live        <- DOMAIN frames,
    parent      <- TreeParent,
    waiting     <- TreeWaiting,
    entering    <- TreeEntering,
    returned    <- Returned,
    host        <- DOMAIN host,
    status      <- TreeStatus

\* The evaluator keeps to the frame protocol: whatever the expression, each of
\* its cycles is one of the steps FrameTree allows, so what is proved there of
\* every tree of frames holds of the evaluator.
ImplementsFrameTree == Tree!Init /\ [][Tree!Next]_(Tree!vars)

\* What a frame has one child for: its list of expressions or of arguments.  An
\* application has one more, for its head.
FanOutOf(frame) ==
    IF frame.kind = "NativeCall"
    THEN IF frame.task.kind \in FanOutKinds THEN frame.task.args ELSE <<>>
    ELSE IF frame.kind = "NativeHost" THEN <<>>
    ELSE IF frame.expr.e \in {"sequence", "update"} THEN frame.expr.items
    ELSE IF frame.expr.e = "app" THEN frame.expr.args
    ELSE <<>>

\* The evaluation is within the bounds FrameTree is instantiated with.
WithinBounds ==
    /\ next_id <= MaxFrames
    /\ \A id \in DOMAIN frames :
           LET s == FanOutOf(frames[id])
           IN  s = [i \in 1..Len(s) |-> s[i]] /\ Len(s) \in 0..MaxFan - 1

\* Every evaluation of a terminating program ends, and not for want of work: no
\* order of host completions leaves a frame waiting for a result that never
\* comes, which from_state would find as "no internal or host work".
EvaluationEnds ==
    <>(status = "completed" \/ (status = "failed" /\ result # <<"error", "Internal">>))
=============================================================================
