---------------------------- MODULE MCEvaluator ----------------------------
(***************************************************************************)
(* Programs for the evaluator.  Between them they use every kind of        *)
(* expression and of pattern, every way of calling a native, and host      *)
(* calls in every place where several of them are outstanding at once.     *)
(***************************************************************************)
EXTENDS Denotation

I(n)     == [e |-> "literal", value |-> IntValue(n)]
V(name)    == Var(name, 0, "none")
Fn(name)   == Var(name, 1, "int")
Fn2(name)  == Var(name, 2, "int")
Fn3(name)  == Var(name, 3, "int")
Lam(x, b)  == [e |-> "lam", param |-> x, body |-> b]
Let(x, d, b)        == [e |-> "let", name |-> x, def |-> d, body |-> b]
LetRec(ns, ds, b)   == [e |-> "letrec", names |-> ns, defs |-> ds, body |-> b]
If(c, t, f)         == [e |-> "ite", cond |-> c, then_expr |-> t, else_expr |-> f]
Match(s, arms)      == [e |-> "match", scrutinee |-> s, arms |-> arms]
Arm(p, x)           == [pattern |-> p, expr |-> x]
Tuple(items) == [e |-> "sequence", kind |-> "tuple", keys |-> <<>>, items |-> items]
List(items)  == [e |-> "sequence", kind |-> "list", keys |-> <<>>, items |-> items]
Dict(keys, items)         == [e |-> "sequence", kind |-> "dict", keys |-> keys, items |-> items]
Update(base, keys, items) == [e |-> "update", base |-> base, keys |-> keys, items |-> items]
At(base, index)           == [e |-> "project", base |-> base, index |-> index, field |-> 0]
Dot(base, field)          == [e |-> "project", base |-> base, index |-> 0, field |-> field]

PV(name)      == [p |-> "var", name |-> name, args |-> <<>>]
PC(name, ps)  == [p |-> "named", name |-> name, args |-> ps]
PTuple(ps)    == [p |-> "tuple", args |-> ps]
PList(ps)     == [p |-> "list", args |-> ps]
PCons(h, t)   == [p |-> "cons", args |-> <<h, t>>]
PDict(ks, ps) == [p |-> "dict", keys |-> ks, args |-> ps]

Add(a, b)   == App(Fn2("+"), <<a, b>>)
Minus(a, b) == App(Fn2("prim_sub"), <<a, b>>)
Eq(a, b)    == App(Fn2("=="), <<a, b>>)
Fetch(a)    == App(Fn("fetch"), <<a>>)

Scheduler(n) == [arity |-> n, callable |-> "scheduler"]
Sync(n)      == [arity |-> n, callable |-> "immediate"]

MCNatives ==
    [prim_add |-> Sync(2), prim_sub |-> Sync(2), prim_eq |-> Sync(2), store |-> Sync(2),
     Some |-> Scheduler(1), unwrap |-> Scheduler(1), prim_map |-> Scheduler(2),
     prim_filter |-> Scheduler(2), prim_foldl |-> Scheduler(3), list_any |-> Scheduler(2),
     sum |-> Scheduler(1),
     prim_zero |-> [arity |-> 0, callable |-> "constant", value |-> IntValue(0)],
     now |-> [arity |-> 0, callable |-> "deferred"],
     fetch |-> [arity |-> 1, callable |-> "deferred"]]

MCMethods ==
    ("+"    :> [arrows |-> 2, instances |-> [int |-> Fn2("prim_add")]]) @@
    ("=="   :> [arrows |-> 2, instances |-> [int |-> Fn2("prim_eq")]]) @@
    ("zero" :> [arrows |-> 0, instances |-> [int |-> V("prim_zero")]])

MCHostAnswer(call) ==
    CASE call.name = "now"      -> IntValue(7)
      [] call.name = "fetch"    -> IntValue(10 * call.args[1][2])
      [] call.name = "store"    -> TupleValue(call.args)
      [] call.name = "prim_add" -> IntValue(call.args[1][2] + call.args[2][2])
      [] call.name = "prim_sub" -> IntValue(call.args[1][2] - call.args[2][2])
      [] call.name = "prim_eq"  -> BoolValue(call.args[1] = call.args[2])

-----------------------------------------------------------------------------
\* [fetch 1, fetch 2 + fetch 3, now]
SequenceOfCalls == List(<<Fetch(I(1)), Add(Fetch(I(2)), Fetch(I(3))), V("now")>>)

\* { {a = fetch 1, b = 2} with b = fetch 3, c = fetch 4 }.c, and the whole record
RecordOfCalls ==
    Let("r", Update(Dict(<<1, 2>>, <<Fetch(I(1)), I(2)>>), <<2, 3>>,
                    <<Fetch(I(3)), Fetch(I(4))>>),
        Tuple(<<Dot(V("r"), 3), Update(V("r"), <<>>, <<>>), At(Tuple(<<V("r"), I(1)>>), 2)>>))

\* let rec even = \n -> if n == 0 then now else odd (n - 1), odd = ...
\* in even 2: the branch not taken makes no call
EvenOdd ==
    LET Step(other, base) == Lam("n", If(Eq(V("n"), I(0)), base,
                                         App(V(other), <<Minus(V("n"), I(1))>>)))
    IN  LetRec(<<"even", "odd">>, <<Step("odd", V("now")), Step("even", Fetch(I(9)))>>,
               App(V("even"), <<I(2)>>))

\* let rec f = \x -> x + fetch x, xs = [1, 2] in prim_map f xs, taken apart
MapOfCalls ==
    LetRec(<<"f", "xs">>,
           <<Lam("x", Add(V("x"), Fetch(V("x")))), List(<<I(1), I(2)>>)>>,
           Match(App(Fn2("prim_map"), <<V("f"), V("xs")>>),
                 <<Arm(PList(<<>>), I(0)),
                   Arm(PCons(PV("h"), PC("Cons", <<PV("t"), PC("Empty", <<>>)>>)),
                       Tuple(<<V("h"), V("t")>>)),
                   Arm(Wildcard, I(1))>>))

\* prim_foldl (\a x -> store a x, then its parts summed) (fetch 1) [2, 3]
FoldOfCalls ==
    App(Fn3("prim_foldl"),
        <<Lam("a", Lam("x", Match(App(Fn2("store"), <<V("a"), V("x")>>),
                                  <<Arm(PTuple(<<PV("l"), PV("r")>>), Add(V("l"), V("r")))>>))),
          Fetch(I(1)), List(<<I(2), I(3)>>)>>)

\* let add = (+) in (sum [1, 2, now], sum [], add 1 2, zero)
Overloads ==
    Let("add", Var("+", 2, "?"),
        Tuple(<<App(Fn("sum"), <<List(<<I(1), I(2), V("now")>>)>>),
                App(Fn("sum"), <<List(<<>>)>>),
                App(V("add"), <<I(1), V("now")>>), Var("zero", 0, "int")>>))

\* let keep = store (fetch 1) in (keep 2, keep (fetch 3)): a partial application
\* that is used twice
PartialCall ==
    Let("keep", App(Fn2("store"), <<Fetch(I(1))>>),
        Tuple(<<App(V("keep"), <<I(2)>>), App(V("keep"), <<Fetch(I(3))>>)>>))

\* \xs -> let found = list_any (\x -> fetch x == 10) xs in (found, prim_filter (...) xs)
SearchOfCalls ==
    LET Test == Lam("x", Eq(Fetch(V("x")), I(10)))
    IN  Lam("xs", Let("found", App(Fn2("list_any"), <<Test, V("xs")>>),
                      Tuple(<<V("found"), App(Fn2("prim_filter"), <<Test, V("xs")>>)>>)))

\* match Some {k = fetch 1} { None -> 0, Some {k = v} -> unwrap (Some v) }
Patterns ==
    Match(App(Fn("Some"), <<Dict(<<1>>, <<Fetch(I(1))>>)>>),
          <<Arm(PC("None", <<>>), I(0)),
            Arm(PC("Some", <<PDict(<<2>>, <<Wildcard>>)>>), I(1)),
            Arm(PC("Some", <<PDict(<<1>>, <<PV("v")>>)>>),
                App(Fn("unwrap"), <<App(Fn("Some"), <<V("v")>>)>>))>>)

\* [fetch 1, match 1 {}]: one child fails while the other awaits the host
FailingSibling == Tuple(<<Fetch(I(1)), Match(I(1), <<Arm(PC("None", <<>>), I(0))>>)>>)

NoArgs(x) == [expr |-> x, args |-> <<>>]

MCPrograms ==
    {NoArgs(x) : x \in {SequenceOfCalls, RecordOfCalls, EvenOdd, MapOfCalls, FoldOfCalls,
                        Overloads, PartialCall, Patterns, FailingSibling}}
        \cup {[expr |-> SearchOfCalls, args |-> <<ListValue(<<IntValue(2), IntValue(1)>>)>>]}

\* unwrap (Some (\x -> x + 1)) 41
FunctionInOption ==
    {NoArgs(App(Var("unwrap", 2, "none"),
                <<App(Fn("Some"), <<Lam("x", Add(V("x"), I(1)))>>), I(41)>>))}
=============================================================================
