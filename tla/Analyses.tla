------------------------------- MODULE Analyses -------------------------------
(***************************************************************************)
(* All that is computed from one program, by the language server and by    *)
(* the command line, and when it is right.  The reference definitions are  *)
(* by intervals of tokens, by typing rules and by the log of what entered  *)
(* the engine; they share no walk with the code they judge.                *)
(***************************************************************************)
EXTENDS Navigation

Tokens(p) == {i.at : i \in Idents(p)} \cup HoleTokens(p)

\* The answers at one position: hover, expected and inferred type, definition, references,
\* the names completed, the functions offered and what would fill a hole here.
AnswerAt(id, p, w, prep, ts, roots, pos) ==
    LET root == TypedRoot(roots, pos)
        xs == {i.x : i \in {j \in Idents(p) : j.at = pos}}
        hovers == FlattenSeq([i \in DOMAIN root |-> HoverIn(ts, root[i], pos, CHOOSE x \in xs : TRUE)])
        expected == FlattenSeq([i \in DOMAIN root |-> ExpectedIn(root[i], pos)])
        inferred == FlattenSeq([i \in DOMAIN root |-> InferredIn(root[i], pos)])
        wanted == IF expected # <<>> THEN expected ELSE FlattenSeq([i \in DOMAIN WholeBody(p) |-> WrittenFor(WholeBody(p)[i], pos)])
        scope == FlattenSeq([i \in DOMAIN root |-> ScopeTypes(root[i], pos, <<>>)])
        n == ts.n + 100
        fills == IF ~Ok(ts) \/ wanted = <<>> \/ pos \notin HoleTokens(p) THEN {} ELSE HoleFills(ts, n, scope, wanted[1])
    IN [hover |-> IF xs = {} THEN <<>> ELSE hovers, expected |-> expected, inferred |-> inferred,
        definition |-> IF xs = {} THEN NoLocation ELSE Definition(prep, w, id, p, pos),
        references |-> IF xs = {} THEN {} ELSE References(prep, w, id, p, pos),
        renamed |-> IF xs = {} THEN {} ELSE RenameEdits(prep, w, id, p, pos, <<"renamed">>),
        values |-> UNION {DOMAIN ValuesIn(e, pos, <<>>) : e \in ToSet(WholeBody(p))},
        fills |-> fills, compatible |-> Compatible(fills),
        producing |-> IF ~Ok(ts) \/ wanted = <<>> THEN {} ELSE {c.x : c \in Producing(ts, n, wanted[1])},
        accepting |-> IF ~Ok(ts) \/ inferred = <<>> THEN {} ELSE {c.x : c \in Accepting(ts, n, inferred[1])},
        adapting |-> IF ~Ok(ts) \/ inferred = <<>> \/ wanted = <<>> THEN {} ELSE {c.x : c \in Adapting(ts, n, inferred[1], wanted[1])}]

\* All that is computed from one program: the compiler's result for the diagnostics, and
\* the answers from the program as the imports rewrite it.
AnalyseTyped(id, p, w, snippet, prep, ts, roots) ==
    [snippet |-> snippet, prep |-> prep, ts |-> ts, roots |-> roots,
     diags |-> TypeDiagnostics(snippet, prep, p),
     at |-> [pos \in Tokens(p) |-> AnswerAt(id, p, w, prep, ts, roots, pos)]]

AnalyseIn(id, p, w, snippet, prep, ts) == AnalyseTyped(id, p, w, snippet, prep, ts, TypedRoots(ts, prep.unit))

AnalysePrepared(id, p, w, snippet, prep) ==
    AnalyseIn(id, p, w, snippet, prep, InjectProgram(prep.ts, prep.unit.decls))

Analyse(en, id, p, w) == AnalysePrepared(id, p, w, InferSnippet(en, w, id, p), Prepare(en, w, id, p))

\* The command line: the program compiled and, for `check`, inferred.
Compiled(en, id, p, w) == [compiled |-> CompileProgram(en, w, id, p), snippet |-> InferSnippet(en, w, id, p)]

(***************************************************************************)
(* Names, by intervals: a scope is a name, the token that binds it and the *)
(* tokens it holds over; a use belongs to the scope that starts last.      *)
(***************************************************************************)
Trees(p) == ToSet(p.body) \cup {d.body : d \in ToSet(OfKind(p.decls, "fn"))}
            \cup UNION {{m.body : m \in ToSet(d.methods)} : d \in ToSet(OfKind(p.decls, "instance"))}
AllNodes(p) == UNION {Nodes(e) : e \in Trees(p)}
Scope(x, at, e) == [x |-> x, at |-> at, lo |-> e.lo, hi |-> e.hi]

Scopes(p) ==
    UNION {UNION {{Scope(b.x, b.at, n.sub[i]) : b \in ToSet(BindingsOver(n, i))} : i \in DOMAIN n.sub} : n \in AllNodes(p)}
    \cup UNION {{Scope(d.params[i][1], d.params[i][3], d.body) : i \in DOMAIN d.params} : d \in ToSet(OfKind(p.decls, "fn"))}

ScopesOf(p, x, t) == {s \in Scopes(p) : s.x = x /\ Covers(s, t)}

\* The token that binds x at t, 0 if nothing in the expression does.
Binder(p, x, t) ==
    LET ss == ScopesOf(p, x, t)
    IN IF ss = {} THEN 0 ELSE (CHOOSE s \in ss : \A r \in ss : r.lo <= s.lo).at

\* A name bound again inside its own scope.  The walks that rename forget the outer
\* binding there; see the README.
Rebinds(p) == \E s, r \in Scopes(p) : s # r /\ s.x = r.x /\ r.lo >= s.lo /\ r.hi <= s.hi

Public(w, id) == {d \in ToSet(w.modules[id].unit.decls) : d.pub}
PublicValues(w, id) ==
    IF IsRust(w, id) THEN {n.iface.name : n \in ToSet(w.modules[id].natives)}
    ELSE {d.name : d \in {f \in Public(w, id) : f.d \in {"fn", "declare"}}}
         \cup UNION {{v.name : v \in ToSet(d.variants)} : d \in {t \in Public(w, id) : t.d = "type"}}
PublicTypes(w, id) == {d.name : d \in {t \in Public(w, id) : t.d = "type"}}

ImportsAs(p, x) == {d \in ToSet(OfKind(p.decls, "import")) : d.clause = "alias" /\ d.name = x}
\* The canonical names that imports into scope give x.
ImportedNames(p, w, x) ==
    LET imports == ToSet(OfKind(p.decls, "import"))
    IN {Prefix(d.path) \o x : d \in {i \in imports : i.clause = "all" /\ x \in PublicValues(w, i.path)}}
       \cup UNION {{Prefix(d.path) \o it.name : it \in {i \in ToSet(d.items) : i.as = x}} : d \in {i \in imports : i.clause = "items"}}

\* What a name stands for in module id.
Meant(p, w, id, x, t) ==
    IF Binder(p, x, t) # 0 THEN x
    ELSE IF x \in DeclValueNames(p.decls) THEN Prefix(id) \o x
    ELSE IF ImportedNames(p, w, x) # {} THEN CHOOSE y \in ImportedNames(p, w, x) : TRUE
    ELSE x

\* What `x.f` and `x.y.f` stand for when x is a module or a type of this one, else <<>>.
MeantMember(p, w, id, n) ==
    LET base == n.sub[1]
        x == IF base.k = "project" THEN base.sub[1].nm[1] ELSE base.nm[1]
        to == (CHOOSE d \in ImportsAs(p, x) : TRUE).path
    IN CASE base.k \notin {"var", "project"} -> <<>>
         [] base.k = "project" /\ base.sub[1].k # "var" -> <<>>
         [] base.k \in {"var", "project"} /\ Binder(p, x, n.lo) # 0 -> <<>>
         [] base.k = "var" /\ Binder(p, x, n.lo) = 0 ->
              IF x \in DeclTypeNames(p.decls) THEN Prefix(id) \o x \o n.nm[1]
              ELSE IF ImportsAs(p, x) # {} THEN Prefix(to) \o n.nm[1] ELSE <<>>
         [] OTHER -> IF ImportsAs(p, x) # {} /\ base.nm[1] \in PublicTypes(w, to)
                     THEN Prefix(to) \o base.nm[1] \o n.nm[1] ELSE <<>>

\* The names that make up a path that is replaced as a whole.
InPaths(p, w, id) ==
    UNION {{m.lo : m \in Nodes(n) \ {n}} : n \in {m \in AllNodes(p) : m.k = "project" /\ MeantMember(p, w, id, m) # <<>>}}

NamedIn(unit, t) == {n.nm[1] : n \in {m \in AllNodes(unit) : m.k = "var" /\ m.lo = t}}

\* The program that is type checked names what its author meant.
NamesMeant(p, w, id, unit) ==
    \A n \in AllNodes(p) : n.lo \notin InPaths(p, w, id) =>
        /\ n.k = "var" => NamedIn(unit, n.lo) = {Meant(p, w, id, n.nm[1], n.lo)}
        /\ n.k = "project" => NamedIn(unit, n.lo) = {MeantMember(p, w, id, n)} \ {<<>>}

\* Definitions and references.  A definition is not looked for inside a record update, and
\* without an expression a module has no tree to look into.
Updates(p) == UNION {n.lo .. n.hi : n \in {m \in AllNodes(p) : m.k = "update"}}
Uses(p) == {n \in AllNodes(p) : n.k = "var"}
InMethods(p) == UNION {UNION {m.body.lo .. m.body.hi : m \in ToSet(d.methods)} : d \in ToSet(OfKind(p.decls, "instance"))}
Declaring(p, x) ==
    {d.at : d \in {f \in ToSet(p.decls) : f.d \in {"fn", "declare"} /\ f.name = x}}
    \cup UNION {{v.at : v \in {c \in ToSet(d.variants) : c.name = x}} : d \in ToSet(p.decls)}
    \cup UNION {{m.at : m \in {f \in ToSet(d.methods) : f.name = x}} : d \in ToSet(OfKind(p.decls, "class"))}

DefinitionsFound(p, at) ==
    \A n \in Uses(p) : n.lo \in DOMAIN at /\ n.lo \notin Updates(p) /\ (p.body # <<>> \/ n.lo \in InMethods(p)) =>
        LET b == Binder(p, n.nm[1], n.lo)
            d == at[n.lo].definition.at
        IN IF b # 0 THEN d = b ELSE IF Declaring(p, n.nm[1]) = {} THEN TRUE ELSE d \in Declaring(p, n.nm[1])

ReferencesFound(p, at) ==
    \A s \in Scopes(p) : p.body # <<>> /\ s.at \notin InMethods(p) =>
        at[s.at].references = {s.at} \cup {n.lo : n \in {u \in Uses(p) : u.nm[1] = s.x /\ Binder(p, s.x, u.lo) = s.at}}

NamesRight(id, p, w, a) ==
    /\ Going(a.snippet.en) /\ ~Rebinds(p) => NamesMeant(p, w, id, a.snippet.unit)
    /\ DefinitionsFound(p, a.at)
    /\ ReferencesFound(p, a.at)
    /\ a.prep.diags # <<>> => \E d \in a.diags : d.m # "hole"

BuiltNamesRight(id, p, w, b) == Going(b.snippet.en) /\ ~Rebinds(p) => NamesMeant(p, w, id, b.snippet.unit)

(***************************************************************************)
(* Types: the typed tree beside its expression is a derivation.  g has the *)
(* schemes of the names bound on the way.                                  *)
(***************************************************************************)
RECURSIVE Matching(_, _, _, _)
Matching(vs, pat, t, s) ==
    LET args == FoldLeft(LAMBDA S, i : UNION {Matching(vs, pat.a[i], t.a[i], r) : r \in S}, {s}, [i \in DOMAIN pat.a |-> i])
    IN IF pat.k = "var" /\ pat.v \in vs THEN
           IF pat.v \in DOMAIN s THEN (IF s[pat.v] = t THEN {s} ELSE {}) ELSE {(pat.v :> t) @@ s}
       ELSE IF pat.k # t.k \/ pat.n # t.n \/ pat.v # t.v \/ Len(pat.a) # Len(t.a) THEN {}
       ELSE args

InstanceOf(t, sch) == Matching(ToSet(sch.vars), sch.t, t, <<>>) # {}
Renaming(t, u) == InstanceOf(t, Scheme(SetToSeq(Ftv(u)), <<>>, u)) /\ InstanceOf(u, Scheme(SetToSeq(Ftv(t)), <<>>, t))

Closed(g, t) ==
    Scheme(SetToSeq(Ftv(t) \ UNION {Ftv(g[x].t) \ ToSet(g[x].vars) : x \in DOMAIN g}), <<>>, t)

\* What the i-th child sees.
ChildEnv(ts, g, e, x, i) ==
    LET last == i = Len(e.sub)
        bs == IF e.k = "match" /\ i > 1 THEN PatternTypes(ts, x.sub[1].t, e.pats[i - 1]) ELSE <<>>
    IN CASE e.k = "lam" -> (e.nm[1] :> Mono(x.t.a[1])) @@ g
         [] e.k = "let" /\ last -> (e.nm[1] :> Closed(g, x.sub[1].t)) @@ g
         [] e.k = "letrec" -> [y \in ToSet(e.nm) |-> LET t == x.sub[CHOOSE j \in DOMAIN e.nm : e.nm[j] = y].t
                                                      IN IF last THEN Closed(g, t) ELSE Mono(t)] @@ g
         [] e.k = "match" -> [y \in {b.x : b \in ToSet(bs)} |-> Mono((CHOOSE b \in ToSet(bs) : b.x = y).t)] @@ g
         [] OTHER -> g

\* The rule of each kind of expression.
Rule(ts, g, e, x) ==
    LET of(i) == x.sub[i].t
    IN CASE e.k = "var" -> IF e.nm[1] \in DOMAIN g THEN InstanceOf(x.t, g[e.nm[1]])
                           ELSE \E sch \in ToSet(ts.env[e.nm[1]]) : InstanceOf(x.t, sch)
         [] e.k = "app" -> of(1) = Fun(of(2), x.t)
         [] e.k = "lam" -> x.t = Fun(x.t.a[1], of(1))
         [] e.k \in {"let", "letrec"} -> x.t = of(Len(x.sub))
         [] e.k = "ite" -> of(1) = Bool /\ of(2) = x.t /\ of(3) = x.t
         [] e.k = "tuple" -> x.t = TTuple([i \in DOMAIN x.sub |-> of(i)])
         [] e.k = "list" -> \A i \in DOMAIN x.sub : x.t = TApp(ListT, of(i))
         [] e.k = "match" -> \A i \in 2 .. Len(x.sub) : of(i) = x.t
         [] OTHER -> TRUE

RECURSIVE Derives(_, _, _)
Derives(ts, g, c) ==
    LET ps == Pairs(c.e, c.x)
    IN /\ c.e.k = c.x.k => Rule(ts, g, c.e, c.x)
       /\ \A i \in DOMAIN ps :
             Derives(ts, IF c.e.k = c.x.k /\ c.e.k \in Binders \cup {"match"} THEN ChildEnv(ts, g, c.e, c.x, i) ELSE g, ps[i])

\* infer and infer_typed give one type.
Agree(r) ==
    LET ts == r.en.ts
        typed == InferTyped(ts, r.unit.body[1], ts.n)
        end == Finalize(typed.p, typed.t)
    IN /\ (r.err = "") = (typed.ok /\ end.ok)
       /\ r.err = "" => Renaming(r.t, end.t) /\ Derives(ts, <<>>, Pair(r.unit.body[1], typed.x, <<>>))

HoversAgree(p, at) ==
    \A n \in Uses(p) : n.lo \in DOMAIN at /\ Binder(p, n.nm[1], n.lo) # 0 =>
        LET use == at[n.lo].hover
            bound == at[Binder(p, n.nm[1], n.lo)].hover
        IN use # <<>> /\ bound # <<>> => InstanceOf(use[1], Scheme(SetToSeq(Ftv(bound[1])), <<>>, bound[1]))

TypesRight(p, a) ==
    /\ Going(a.snippet.en) /\ p.body # <<>> => Agree(a.snippet)
    /\ \A r \in ToSet(a.roots.body) : Derives(a.ts, <<>>, r)
    /\ HoversAgree(p, a.at)

\* What compiles also checks, with a type that the compiled program's is an instance of.
BuiltTypesRight(p, b) ==
    LET c == b.compiled s == b.snippet
    IN /\ Going(s.en) /\ p.body # <<>> => Agree(s)
       /\ c.err = "" => Derives(c.en.ts, <<>>, Pair(c.unit.body[1], c.x, <<>>))
       /\ c.err = "" /\ p.body # <<>> =>
            s.err = "" /\ InstanceOf(c.t, Scheme(SetToSeq(Ftv(s.t)), <<>>, s.t))

(***************************************************************************)
(* Loading, by the log of what entered the engine.                         *)
(***************************************************************************)
ImportedBy(w, id) == {d.path : d \in ToSet(OfKind(w.modules[id].unit.decls, "import"))}
RECURSIVE ImportClosure(_, _)
ImportClosure(w, ids) ==
    LET next == ids \cup UNION {ImportedBy(w, id) : id \in ids \cap DOMAIN w.modules}
    IN IF next = ids THEN ids ELSE ImportClosure(w, next)

InCycle(w, id, m) == m \in DOMAIN w.modules /\ id \in ImportClosure(w, ImportedBy(w, m))

Before(log, i, ks, id) == \E j \in 1 .. i - 1 : log[j].k \in ks /\ log[j].id = id

InOrder(w, root, log) ==
    /\ \A i, j \in DOMAIN log : log[i].k = log[j].k /\ log[i].id = log[j].id /\ log[i].id # root => i = j
    /\ \A i \in DOMAIN log : log[i].k = "inject" /\ log[i].id # root =>
          \A m \in ImportedBy(w, log[i].id) :
              \/ Before(log, i, {"inject", "install"}, m)
              \/ InCycle(w, log[i].id, m) /\ Before(log, i, {"publish"}, m)

\* Every name of a module is bound, declared, imported or of the prelude, so that only a
\* wrong order can make one unknown.
Resolvable(en, w, p) ==
    \A n \in AllNodes(p) :
        /\ n.k = "var" => \/ Binder(p, n.nm[1], n.lo) # 0 \/ Declaring(p, n.nm[1]) # {}
                          \/ ImportedNames(p, w, n.nm[1]) # {} \/ n.nm[1] \in DOMAIN en.ts.env
                          \/ ImportsAs(p, n.nm[1]) # {}
        /\ n.k = "project" /\ n.sub[1].k = "var" =>
              \A d \in ImportsAs(p, n.sub[1].nm[1]) : n.nm[1] \in PublicValues(w, d.path) \cup PublicTypes(w, d.path)

Loadable(en, w, p) ==
    \A m \in ImportClosure(w, {d.path : d \in ToSet(OfKind(p.decls, "import"))}) :
        m \in DOMAIN w.modules /\ PackageError(w.modules[m]) = "" /\ Resolvable(en, w, w.modules[m].unit)

LoadedRight(en, w, root, p, r) ==
    /\ InOrder(w, root, r.en.log)
    /\ Going(r.en) => \A m \in {d.path : d \in ToSet(OfKind(p.decls, "import"))} :
                          Before(r.en.log, Len(r.en.log) + 1, {"inject", "install"}, m)
    /\ Loadable(en, w, p) /\ Resolvable(en, w, p) => r.en.err # "unknown variable"
===============================================================================
