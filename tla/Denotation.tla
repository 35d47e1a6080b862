----------------------------- MODULE Denotation -----------------------------
(***************************************************************************)
(* What a program means, for comparison with what Evaluator computes: a    *)
(* call-by-value interpreter without frames, queues or slots.  A meaning is*)
(* a value, or the first error from left to right, and the bag of the host *)
(* calls made for it.  A native runs when it has as many arguments as it   *)
(* has parameters, and the natives that take functions are given by what   *)
(* they compute and not by their tasks.                                    *)
(***************************************************************************)
EXTENDS Evaluator

-----------------------------------------------------------------------------
(* Patterns: Bindings is a set, empty when the value does not match and *)
(* with the bindings as its only member when it does.                       *)

Wildcard == [p |-> "wildcard"]

RECURSIVE Bindings(_, _), MatchPatterns(_, _)
MatchPatterns(patterns, values) ==
    IF patterns = <<>> THEN {NoEnv}
    ELSE {later @@ first : first \in Bindings(Head(patterns), Head(values)),
                           later \in MatchPatterns(Tail(patterns), Tail(values))}

Bindings(pattern, v) ==
    LET ps == pattern.args
    IN  CASE pattern.p = "wildcard" -> {NoEnv}
          [] pattern.p = "var"      -> {pattern.name :> v}
          [] pattern.p = "named"    ->
                 CASE v[1] = "adt"  -> IF v[2] = pattern.name /\ Len(v[3]) = Len(ps)
                                       THEN MatchPatterns(ps, v[3]) ELSE {}
                   [] v[1] = "list" ->
                          IF pattern.name = "Empty" /\ ps = <<>> /\ v[2] = <<>> THEN {NoEnv}
                          ELSE IF pattern.name = "Cons" /\ Len(ps) = 2 /\ v[2] # <<>>
                          THEN MatchPatterns(ps, <<Head(v[2]), ListValue(Tail(v[2]))>>)
                          ELSE {}
                   [] OTHER         -> {}
          [] pattern.p = "tuple"    ->
                 IF v[1] = "tuple" /\ Len(v[2]) = Len(ps) THEN MatchPatterns(ps, v[2]) ELSE {}
          [] pattern.p = "list"     ->
                 IF Len(v[2]) = Len(ps) THEN MatchPatterns(ps, v[2]) ELSE {}
          [] pattern.p = "cons"     ->
                 IF v[2] = <<>> THEN {}
                 ELSE MatchPatterns(ps, <<Head(v[2]), ListValue(Tail(v[2]))>>)
          [] pattern.p = "dict"     ->
                 IF v[1] = "dict" /\ \A i \in 1..Len(ps) : pattern.keys[i] \in DOMAIN v[2]
                 THEN MatchPatterns(ps, [i \in 1..Len(ps) |-> v[2][pattern.keys[i]]]) ELSE {}

-----------------------------------------------------------------------------
Means(value, calls)  == [value |-> value, calls |-> calls]
Pure(value)          == Means(value, EmptyBag)
Wrong(error)         == Pure(<<"error", error>>)
IsWrong(meaning)     == meaning.value[1] = "error"

\* The meaning of f applied to the value of a, with the calls of both.
Then(a, F(_)) ==
    IF IsWrong(a) THEN a
    ELSE LET b == F(a.value) IN Means(b.value, a.calls (+) b.calls)

\* Several meanings, one after the other.
RECURSIVE Gathered(_, _)
Gathered(meanings, values) ==
    IF meanings = <<>> THEN Pure(<<"values", values>>)
    ELSE Then(Head(meanings), LAMBDA v : Gathered(Tail(meanings), Append(values, v)))

\* F of the sequence of their values.
InTurn(meanings, F(_)) == Then(Gathered(meanings, <<>>), LAMBDA v : F(v[2]))

AsMeaning(control) == IF control.op = "Error" THEN Wrong(control.error) ELSE Pure(control.value)

RECURSIVE Meaning(_, _), Applied(_, _), AppliedTo(_, _), Folded(_, _, _), NativeMeaning(_, _)

\* A recursive name stands for its definition among all the definitions.
Lookup(env, x) ==
    IF env[x.name][1] # "rec" THEN Pure(env[x.name])
    ELSE LET r == env[x.name] IN
         Meaning(r[3][CHOOSE i \in 1..Len(r[2]) : r[2][i] = x.name],
                 [n \in Range(r[2]) |-> r] @@ r[4])

MethodMeaning(x) ==
    CASE x.inst \in DOMAIN Methods[x.name].instances ->
             Meaning(Methods[x.name].instances[x.inst], NoEnv)
      [] x.inst = "?" -> Pure(OverloadedValue(x.name, <<>>))
      [] OTHER        -> Wrong("MissingTypeclassImpl")

Meaning(x, env) ==
    CASE x.e = "literal"  -> Pure(x.value)
      [] x.e = "hole"     -> Wrong("UnsupportedExpr")
      [] x.e = "lam"      -> Pure(Closure(env, x.param, x.body))
      [] x.e = "var"      ->
             CASE x.name \in DOMAIN env     -> Lookup(env, x)
               [] x.name \in DOMAIN Methods -> MethodMeaning(x)
               [] Natives[x.name].arity = 0 -> NativeMeaning(x.name, <<>>)
               [] OTHER                     -> Pure(NativeValue(x.name, 0, <<>>))
      [] x.e = "sequence" ->
             InTurn([i \in 1..Len(x.items) |-> Meaning(x.items[i], env)],
                    LAMBDA values : Pure(SequenceValue(x, values)))
      [] x.e = "update"   ->
             Then(Meaning(x.base, env), LAMBDA base :
                  InTurn([i \in 1..Len(x.items) |-> Meaning(x.items[i], env)],
                         LAMBDA values : LET map == DictOf(x.keys, values)[2] @@ Fields(base) IN
                             Pure(IF base[1] = "dict" THEN DictValue(map)
                                  ELSE AdtValue(base[2], <<DictValue(map)>>))))
      [] x.e = "app"      ->
             InTurn([i \in 1..Len(x.args) + 1 |->
                        Meaning(IF i = 1 THEN x.head ELSE x.args[i - 1], env)],
                    LAMBDA values : AppliedTo(Head(values), Tail(values)))
      [] x.e = "project"  -> Then(Meaning(x.base, env), LAMBDA v : AsMeaning(ProjectField(x, v)))
      [] x.e = "let"      -> Then(Meaning(x.def, env),
                                  LAMBDA v : Meaning(x.body, Extend(env, x.name, v)))
      [] x.e = "letrec"   ->
             LET group == <<"rec", x.names, x.defs, env>>
             IN  Meaning(x.body, [n \in Range(x.names) |-> group] @@ env)
      [] x.e = "ite"      -> Then(Meaning(x.cond, env),
                                  LAMBDA v : Meaning(IF Holds(v) THEN x.then_expr
                                                     ELSE x.else_expr, env))
      [] x.e = "match"    ->
             Then(Meaning(x.scrutinee, env), LAMBDA v :
                  LET fits == SelectSeq(x.arms, LAMBDA arm : Bindings(arm.pattern, v) # {})
                  IN  IF fits = <<>> THEN Wrong("MatchFailure")
                      ELSE Meaning(fits[1].expr,
                                   (CHOOSE b \in Bindings(fits[1].pattern, v) : TRUE) @@ env))

\* One argument, and several.
Applied(f, arg) ==
    CASE f[1] = "closure"    -> Meaning(f[4], Extend(f[2], f[3], arg))
      [] f[1] = "native"     ->
             LET args == Append(f[4], arg)
             IN  IF Len(args) = Natives[f[2]].arity THEN NativeMeaning(f[2], args)
                 ELSE Pure(NativeValue(f[2], 0, args))
      [] f[1] = "overloaded" ->
             IF f[3] = <<>> THEN Pure(OverloadedValue(f[2], <<arg>>))
             ELSE Then(MethodMeaning(Var(f[2], 0, f[3][1][1])),
                       LAMBDA g : AppliedTo(g, Append(f[3], arg)))
      [] OTHER               -> Wrong("NotCallable")

AppliedTo(f, args) ==
    IF args = <<>> THEN Pure(f)
    ELSE Then(Applied(f, Head(args)), LAMBDA g : AppliedTo(g, Tail(args)))

Folded(f, acc, values) ==
    IF values = <<>> THEN Pure(acc)
    ELSE Then(AppliedTo(f, <<acc, Head(values)>>), LAMBDA v : Folded(f, v, Tail(values)))

\* The callback's meaning on each element, then F of the results.
OnEach(f, values, F(_)) ==
    InTurn([i \in 1..Len(values) |-> Applied(f, values[i])], F)

NativeMeaning(name, args) ==
    CASE Natives[name].callable = "constant" -> Pure(Natives[name].value)
      [] Natives[name].callable # "scheduler" ->
             LET call == [name |-> name, args |-> args]
             IN  Means(HostAnswer(call), SetToBag({call}))
      [] name \in ReadyNatives -> LET answer == Intrinsic(name, args)
                                  IN  IF answer.op = "Ready" THEN Pure(answer.value)
                                      ELSE Wrong(answer.error)
      [] name = "prim_map"    -> OnEach(args[1], args[2][2], LAMBDA rs : Pure(ListValue(rs)))
      [] name = "prim_filter" ->
             OnEach(args[1], args[2][2],
                    LAMBDA rs : Pure(ListValue(Selected(args[2][2], Satisfying(rs, Holds)))))
      [] name = "prim_foldl"  -> Folded(args[1], args[2], args[3][2])
      [] name = "sum"         ->
             IF args[1][2] = <<>> THEN Pure(IntValue(0))
             ELSE Folded(OverloadedValue("+", <<>>), Head(args[1][2]), Tail(args[1][2]))
      [] name = "list_any"    ->
             IF args[2][2] = <<>> THEN Pure(BoolValue(FALSE))
             ELSE Then(Applied(args[1], Head(args[2][2])), LAMBDA found :
                       IF Holds(found) THEN Pure(found)
                       ELSE NativeMeaning(name, <<args[1], ListValue(Tail(args[2][2]))>>))

\* A program on its inputs.
ProgramMeaning(p) ==
    Then(Meaning(p.expr, NoEnv), LAMBDA f : AppliedTo(f, p.args))

-----------------------------------------------------------------------------
(***************************************************************************)
(* The answer of an evaluation is the meaning of its program, and the host *)
(* calls it has made by then are the ones the program asks for, each as    *)
(* often as it is asked: whatever the order in which the calls complete,   *)
(* however narrow the ready queue, and with children evaluated all at once.*)
(* It fails only for a failing host call or with the program's own error.  *)
(***************************************************************************)
AnswerIsMeaning ==
    LET meaning == ProgramMeaning(program)
    IN  /\ status = "completed" => /\ result = meaning.value
                                   /\ issued = meaning.calls
        /\ status = "failed" => result \in {<<"error", "Host">>, meaning.value}
=============================================================================
