------------------------------ MODULE MCFrontEnd ------------------------------
(***************************************************************************)
(* Programs for the front end: a module A with a function and a type, a    *)
(* module B that may import A back, a Rust module R, and main programs     *)
(* with shadowed imports, let polymorphism, a record update, a match, a    *)
(* recursive group, an instance, a hole.                                   *)
(***************************************************************************)
EXTENDS FrontEnd

\* Tokens are numbered in the order a program is written.
RECURSIVE Spanned(_, _)
SpannedAll(es, n) ==
    FoldLeft(LAMBDA a, e : LET r == Spanned(e, a.n) IN [es |-> Append(a.es, r.e), n |-> r.n], [es |-> <<>>, n |-> n], es)
Spanned(e, n) ==
    LET k == IF e.k \in Binders THEN Len(e.nm) ELSE 0
        ps == SpannedAll(e.pats, n + k + 1)
        cs == SpannedAll(e.sub, ps.n)
    IN [e |-> [e EXCEPT !.lo = n, !.hi = cs.n - 1, !.bs = [i \in 1 .. k |-> n + i], !.pats = ps.es, !.sub = cs.es],
        n |-> cs.n]
SpannedMethods(ms, n) ==
    FoldLeft(LAMBDA a, m : LET r == Spanned(m.body, a.n + 1)
                           IN [ms |-> Append(a.ms, [m EXCEPT !.at = a.n, !.body = r.e]), n |-> r.n],
             [ms |-> <<>>, n |-> n], ms)
SpannedDecl(d, n) ==
    LET k == Len(d.params) + Len(d.variants)
        ms == SpannedMethods(d.methods, n + k + 1)
        b == Spanned(d.body, ms.n)
        end == IF d.d = "fn" THEN b.n ELSE ms.n
    IN [d |-> [d EXCEPT !.at = n, !.hi = end - 1, !.params = [i \in DOMAIN @ |-> <<@[i][1], @[i][2], n + i>>],
                        !.variants = [i \in DOMAIN @ |-> [@[i] EXCEPT !.at = n + i]], !.methods = ms.ms,
                        !.body = IF d.d = "fn" THEN b.e ELSE @], n |-> end]
SpannedUnit(u) ==
    LET ds == FoldLeft(LAMBDA a, d : LET r == SpannedDecl(d, a.n) IN [ds |-> Append(a.ds, r.d), n |-> r.n],
                       [ds |-> <<>>, n |-> 1], u.decls)
    IN Unit(ds.ds, SpannedAll(u.body, ds.n).es)
v(x) == Var(<<x>>)
Lit(k) == Node(k)
a == Con(<<"a">>)
P(x, t) == <<<<x>>, t, 0>>
Fn(x, ps, t, e) == [Decl("fn") EXCEPT !.name = <<x>>, !.pub = TRUE, !.params = ps, !.ret = <<t>>, !.body = e]
Private(d) == [d EXCEPT !.pub = FALSE]
Where(d, c) == [d EXCEPT !.tps = <<<<"a">>>>, !.cs = <<Pred(<<c>>, a)>>]
Class(x, ms) == [Decl("class") EXCEPT !.name = <<x>>, !.tps = <<<<"a">>>>, !.methods = ms]
Sig(m, t) == Method(<<m>>, <<>>, t, <<>>, Node("hole"))
Inst(c, t, ms) == [Decl("instance") EXCEPT !.name = <<c>>, !.head = <<t>>, !.methods = ms]
Def(m, e) == Method(<<m>>, <<>>, NoType, <<>>, e)
Data(x, vs) == [Decl("type") EXCEPT !.name = <<x>>, !.pub = TRUE, !.tps = <<<<"a">>>>, !.variants = vs]
Record(x, t) == [Decl("type") EXCEPT !.name = <<x>>, !.variants = <<Variant(<<x>>, <<TRecord(<<"f">>, <<t>>)>>)>>]
Imp(id, al) == [Decl("import") EXCEPT !.name = <<al>>, !.path = id]
ImpAll(id) == [Imp(id, id) EXCEPT !.clause = "all"]
ImpItem(id, x, as) == [Imp(id, id) EXCEPT !.clause = "items", !.items = <<[name |-> <<x>>, as |-> <<as>>]>>]

K == Lam(<<"x">>, Lam(<<"y">>, v("x")))
Plus(x, y) == App(App(v("+"), x), y)
One == Lit("uint")
Af == Project(v("A"), <<"f">>)

\* The engine with a small prelude.
Empty ==
    [ts |-> [env |-> <<>>, adts |-> <<>>, aliases |-> <<>>, tvars |-> <<>>, known |-> <<>>, depth |-> 0, limit |-> 40,
             info |-> <<>>, classes |-> <<>>, insts |-> <<>>, declared |-> {}, n |-> 1, err |-> ""],
     env |-> {}, natives |-> <<>>, heads |-> <<>>, cache |-> <<>>, iface |-> <<>>, published |-> {},
     loaded |-> <<>>, loading |-> {}, asked |-> {}, resolved |-> {}, log |-> <<>>, err |-> ""]

Prelude == SpannedUnit(Unit(<<
    Class("AdditiveMonoid", <<Sig("+", Fun(a, Fun(a, a)))>>),
    Inst("AdditiveMonoid", I32, <<Def("+", K)>>), Inst("AdditiveMonoid", F32, <<Def("+", K)>>),
    Class("Integral", <<>>), Inst("Integral", I32, <<>>)>>, <<>>))

MCEngine == WithPrelude(RegisterNative(InjectDecls(Empty, Prelude.decls), <<"len">>, Mono(Fun(Str, I32))), "P")

\* The command line's module in Rust exports one function.
Twice == [iface |-> [Decl("declare") EXCEPT !.name = <<"twice">>, !.pub = TRUE, !.params = <<P("s", Str)>>, !.ret = <<I32>>],
          sch |-> Mono(Fun(Str, I32)), value |-> FALSE]
MCRust == "R" :> [k |-> "rust", unit |-> Unit(<<>>, <<>>), natives |-> <<Twice>>]

Sources == [
    a1 |-> Unit(<<ImpAll("B"), Data("Box", <<Variant(<<"Box">>, <<a>>), Variant(<<"Nil">>, <<>>)>>),
                  Fn("f", <<P("x", I32)>>, I32, Plus(v("x"), App(v("g"), v("x"))))>>, <<>>),
    a2 |-> Unit(<<Private(Fn("f", <<P("x", I32)>>, I32, v("x"))), Fn("len", <<P("x", I32)>>, I32, v("x"))>>, <<>>),
    b1 |-> Unit(<<Fn("g", <<P("x", I32)>>, I32, v("x"))>>, <<>>),
    b2 |-> Unit(<<Imp("A", "A"), Fn("g", <<P("x", I32)>>, I32, App(Af, v("x")))>>, <<>>),
    \* A polymorphic let and a module's function.
    m1 |-> Unit(<<Imp("A", "A")>>,
                <<Let(<<"y">>, Lam(<<"x">>, v("x")), Tup(<<App(Af, App(v("y"), One)), App(v("y"), Lit("bool"))>>))>>),
    \* A local f hides the imported one; len is declared here too.
    m2 |-> Unit(<<ImpAll("A"), Fn("len", <<P("s", Str)>>, I32, App(v("f"), One))>>,
                <<Let(<<"f">>, Lam(<<"x">>, v("x")), App(v("f"), App(v("len"), Lit("string"))))>>),
    \* An imported type in a signature, a pattern and an expression.
    m3 |-> Unit(<<Imp("A", "A"),
                  Fn("h", <<P("b", TApp(Con(<<"A", "Box">>), I32))>>, I32,
                     Match(v("b"), <<PNamed(<<"A", "Box", "Box">>, <<PVar(<<"x">>)>>), PWild>>,
                           <<v("x"), App(v("len"), Lit("string"))>>))>>,
                <<App(v("h"), Project(Project(v("A"), <<"Box">>), <<"Nil">>))>>),
    \* A local A hides the module A inside a record update.
    m4 |-> Unit(<<Imp("A", "A"), Record("P", I32)>>,
                <<Let(<<"A">>, App(Project(v("P"), <<"P">>), DictOf(<<<<"f">>>>, <<One>>)),
                      Update(v("A"), <<<<"f">>>>, <<Af>>))>>),
    \* A hole.
    m5 |-> Unit(<<Imp("A", "A")>>, <<Let(<<"s">>, Lit("string"), Ann(Node("hole"), I32))>>),
    \* A let whose type mentions a variable of the lambda around it.
    m6 |-> Unit(<<>>, <<App(Lam(<<"x">>, Let(<<"y">>, v("x"), Tup(<<v("y"), Plus(v("y"), One)>>))), Lit("bool"))>>),
    \* A recursive group.
    m7 |-> Unit(<<>>, <<LetRec(<<<<"go">>>>, <<Lam(<<"x">>, Ite(Lit("bool"), v("x"), App(v("go"), Plus(v("x"), One))))>>,
                               App(v("go"), One))>>),
    \* A class and an instance.
    m9 |-> Unit(<<Class("Sz", <<Sig("sz", Fun(a, I32))>>),
                  Inst("Sz", I32, <<Def("sz", Lam(<<"x">>, Let(<<"y">>, v("x"), v("y"))))>>)>>,
                <<App(v("sz"), Ann(One, I32))>>),
    \* A name bound again inside its own scope.
    m10 |-> Unit(<<>>, <<Let(<<"x">>, One, Let(<<"x">>, Lit("bool"), v("x")))>>),
    \* A main function that calls Rust.
    c1 |-> Unit(<<ImpAll("R"), Fn("main", <<P("s", Str)>>, I32, App(v("twice"), v("s")))>>, <<>>),
    \* One name of a module under another name, a constrained function.
    c2 |-> Unit(<<ImpItem("A", "f", "k"),
                  Where(Fn("add", <<P("x", a), P("y", a)>>, a, Plus(v("x"), v("y"))), "AdditiveMonoid")>>,
                <<ListOf(<<App(v("k"), One), App(App(v("add"), One), One)>>)>>),
    \* Patterns on lists and tuples.
    c3 |-> Unit(<<>>, <<Match(ListOf(<<Tup(<<One, Lit("bool")>>)>>),
                              <<PCons(PTuple(<<PVar(<<"x">>), PWild>>), PVar(<<"r">>)), PList(<<>>)>>,
                              <<Plus(v("x"), One), One>>)>>),
    \* An alias and a parameter that hides a declaration; the argument does not fit.
    c4 |-> Unit(<<Private([Decl("type") EXCEPT !.name = <<"N">>, !.head = <<I32>>]),
                  Fn("id", <<P("id", Con(<<"N">>))>>, Con(<<"N">>), v("id"))>>,
                <<App(v("id"), Plus(One, Lit("bool")))>>),
    \* A record built, read and updated; a pattern on its field.
    c5 |-> Unit(<<Record("Q", I32), Fn("get", <<P("q", Con(<<"Q">>))>>, I32,
                     Match(v("q"), <<PNamed(<<"Q">>, <<PDict(<<<<"f">>>>, <<PVar(<<"n">>)>>)>>)>>, <<v("n")>>))>>,
                <<Let(<<"q">>, App(v("Q"), DictOf(<<<<"f">>>>, <<One>>)),
                      Plus(App(v("get"), Update(v("q"), <<<<"f">>>>, <<Project(v("q"), <<"f">>)>>)), Project(v("q"), <<"f">>)))>>),
    \* Two functions that call each other, one of them with an annotation.
    c6 |-> Unit(<<>>, <<LetRec(<<<<"ev">>, <<"od">>>>,
                               <<Lam(<<"n">>, App(v("od"), v("n"))), LamOf(<<"n">>, I32, App(v("ev"), v("n")))>>,
                               App(v("ev"), One))>>),
    \* A group whose definition reads itself outside a function.
    c7 |-> Unit(<<>>, <<LetRec(<<<<"z">>>>, <<Plus(v("z"), One)>>, v("z"))>>),
    \* A match that misses a constructor.
    c8 |-> Unit(<<Imp("A", "A")>>,
                <<Match(App(Project(Project(v("A"), <<"Box">>), <<"Box">>), One),
                        <<PNamed(<<"A", "Box", "Box">>, <<PVar(<<"x">>)>>)>>, <<v("x")>>)>>),
    \* A method's constraint that no instance meets.
    c9 |-> Unit(<<>>, <<Plus(Lit("bool"), Lit("bool"))>>),
    \* An instance that uses an import, hidden by the method's parameter.
    c10 |-> Unit(<<Imp("A", "A"), Class("Sz", <<Sig("sz", Fun(a, I32))>>),
                   Inst("Sz", I32, <<Def("sz", Lam(<<"x">>, App(Af, v("x"))))>>),
                   Inst("Sz", Str, <<Def("sz", Lam(<<"f">>, App(v("len"), v("f"))))>>)>>,
                 <<Plus(App(v("sz"), Lit("string")), App(v("sz"), Ann(One, I32)))>>),
    \* A main function and an expression; an item that is not exported.
    c11 |-> Unit(<<Fn("main", <<>>, I32, One)>>, <<One>>),
    c12 |-> Unit(<<ImpItem("A", "h", "h")>>, <<v("h")>>),
    \* A function generic in a list's elements at two types.
    c13 |-> Unit(<<Fn("k", <<P("x", I32)>>, I32, v("x"))>>,
                 <<Let(<<"first">>, Lam(<<"l">>, Match(v("l"), <<PCons(PVar(<<"h">>), PWild), PWild>>, <<ListOf(<<v("h")>>), v("l")>>)),
                       Tup(<<App(v("first"), ListOf(<<One>>)), App(v("first"), ListOf(<<Lit("bool")>>))>>))>>)]

MCSource == [t \in DOMAIN Sources \cup {"a3", "m8"} |->
                IF t \in DOMAIN Sources THEN <<SpannedUnit(Sources[t])>> ELSE <<>>]
MCDefaults == <<"P">>
MCOrder == <<"A", "B", "M", "P", "R">>
Client(m, a1, ps) == [texts |-> [M |-> m, A |-> a1], programs |-> ps]
MCClients == {
    Client({"m5", "m6", "m8"}, {"a1", "a3"}, {"m3", "c8", "c12"}),
    Client({"m1", "m2", "c10"}, {"a2", "a3"}, {"c1", "c5", "c6"}),
    Client({"m3", "m9", "c5"}, {"a2"}, {"m9", "c2", "c7"}),
    Client({"m4", "m7", "c3"}, {"a1", "a2"}, {"c3", "c4", "c9"}),
    Client({"m10", "c2", "c13"}, {"a1"}, {"c10", "c11", "c13"})}
\* The results, each as one value.
MCResult(k) == LET r == ResultOf(k) IN r
MCBuild(t, onDisk) == LET r == BuildOf(t, onDisk) IN r
MCSymmetry == Permutations(Jobs)
MCDisks == {[A |-> "a1", B |-> "b1"], [A |-> "a1", B |-> "b2"]}
===============================================================================
