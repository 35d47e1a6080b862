------------------------------ MODULE Navigation ------------------------------
(***************************************************************************)
(* What the language server computes from a parsed document and the        *)
(* documents around it (rex-lsp imports.rs, queries.rs, navigation.rs,     *)
(* completion.rs, code_actions.rs, diagnostics.rs): the program with its   *)
(* imports resolved, the types at a position, definitions, references, the *)
(* values in scope, candidates for a hole and diagnostics.  A position is  *)
(* a token.                                                                *)
(***************************************************************************)
EXTENDS ModuleLoader

FirstOf(S) == CHOOSE i \in S : \A j \in S : i <= j
CoveringChildren(es, pos) == {i \in DOMAIN es : Covers(es[i], pos)}

(***************************************************************************)
(* prepare_program_with_imports: an import that cannot be loaded or bound  *)
(* is reported and passed over; what it put into the engine stays.         *)
(***************************************************************************)
LoadImportForTooling(acc, w, id, d) ==
    LET r == ResolveAll(acc.en, w, id, <<d>>, <<>>)
    IN IF Going(r.en) THEN [acc EXCEPT !.en = r.en, !.got = (d.name :> r.found[1]) @@ @]
       ELSE [acc EXCEPT !.en = [r.en EXCEPT !.err = ""], !.diags = Append(@, [at |-> d.at, m |-> r.en.err])]

BindImport(acc, got, d, local) ==
    LET b == AddImport(acc.b, d, got[d.name], local)
    IN IF d.name \notin DOMAIN got THEN acc
       ELSE [b |-> [b EXCEPT !.err = ""],
             diags |-> IF b.err = "" THEN acc.diags ELSE Append(acc.diags, [at |-> d.at, m |-> b.err])]

Prepare(en, w, id, p) ==
    LET imports == OfKind(p.decls, "import")
        local == [values |-> DeclValueNames(p.decls), types |-> DeclTypeNames(p.decls)]
        l == FoldLeft(LAMBDA a, d : LoadImportForTooling(a, w, id, d),
                      [en |-> en, got |-> <<>>, diags |-> <<>>], imports)
        bound == FoldLeft(LAMBDA a, d : BindImport(a, l.got, d, local), [b |-> NoBindings, diags |-> l.diags], imports)
        errs == ValidateUnit(p, RewriteScope([NoBindings EXCEPT !.aliases = bound.b.aliases], {}, {}))
        missing == [i \in 1 .. Least(1, Len(errs)) |-> [at |-> errs[i].at, m |-> "missing export"]]
    IN [unit |-> RewriteUnit(p, RewriteScope(bound.b, local.types, {})), ts |-> l.en.ts, imports |-> l.got,
        diags |-> bound.diags \o missing]

\* inject_program_decls: what precedes an instance is registered before it.
RegisterPending(a) == RegisterDecls(a.ts, a.pending)

InjectProgram(ts, ds) ==
    RegisterPending(FoldLeft(LAMBDA a, d :
        IF d.d # "instance" THEN [a EXCEPT !.pending = Append(@, d)]
        ELSE [ts |-> RegisterInstance(RegisterPending(a), d), pending |-> <<>>], [ts |-> ts, pending |-> <<>>], ds))

(***************************************************************************)
(* The typed tree beside the expression it was inferred from.  A pair has  *)
(* an expression, its typed tree and the type its place calls for, if any. *)
(***************************************************************************)
Pair(e, x, want) == [e |-> e, x |-> x, want |-> want]

FunPart(t, i) == IF t.k = "fun" THEN <<t.a[i]>> ELSE <<>>

WantAt(e, x, i) ==
    CASE e.k \in {"let", "letrec"} -> IF i = Len(e.sub) THEN <<x.t>> ELSE <<x.sub[i].t>>
      [] e.k = "lam" -> FunPart(x.t, 2)
      [] e.k = "app" -> IF i = 2 THEN FunPart(x.sub[1].t, 1) ELSE <<Fun(x.sub[2].t, x.t)>>
      [] e.k = "ite" -> IF i = 1 THEN <<Bool>> ELSE <<x.t>>
      [] e.k = "list" -> IF x.t.k = "app" /\ x.t.a[1] = ListT THEN <<x.t.a[2]>> ELSE <<x.sub[i].t>>
      [] e.k = "match" -> IF i > 1 THEN <<x.t>> ELSE <<x.sub[i].t>>
      [] e.k = "project" \/ (e.k = "update" /\ i = 1) -> <<>>
      [] OTHER -> <<x.sub[i].t>>

\* A constructor applied to some of its fields has an update for its typed tree.
Pairs(e, x) ==
    LET fields == e.sub[2]
        shared == SelectSeq([i \in DOMAIN fields.nm |-> i], LAMBDA i : fields.nm[i] \in ToSet(x.nm))
        typed(f) == x.sub[1 + (CHOOSE j \in DOMAIN x.nm : x.nm[j] = f)]
    IN CASE e.k = "ann" -> <<Pair(e.sub[1], x, <<x.t>>)>>
         [] e.k = "app" /\ x.k = "update" ->
              IF fields.k # "dict" THEN <<>>
              ELSE [n \in DOMAIN shared |-> LET v == typed(fields.nm[shared[n]])
                                            IN Pair(fields.sub[shared[n]], v, <<v.t>>)]
         [] e.k \notin {"ann"} /\ e.k = x.k /\ Len(e.sub) = Len(x.sub) ->
              [i \in DOMAIN e.sub |-> Pair(e.sub[i], x.sub[i], WantAt(e, x, i))]
         [] OTHER -> <<>>

RECURSIVE Visited(_, _)
Visited(c, pos) ==
    IF ~Covers(c.e, pos) THEN <<>>
    ELSE LET ps == Pairs(c.e, c.x) IN <<c>> \o FlattenSeq([i \in DOMAIN ps |-> Visited(ps[i], pos)])

\* The first of the smallest spans.
Smallest(cs) ==
    FoldLeft(LAMBDA best, c : IF best = <<>> \/ c.e.hi - c.e.lo < best[1].e.hi - best[1].e.lo THEN <<c>> ELSE best,
             <<>>, cs)

InferredIn(c, pos) == LET s == Smallest(Visited(c, pos)) IN [i \in DOMAIN s |-> s[i].x.t]

ExpectedIn(c, pos) ==
    LET s == Smallest(SelectSeq(Visited(c, pos), LAMBDA p : p.want # <<>>)) IN IF s = <<>> THEN <<>> ELSE s[1].want

\* The method of an instance the cursor is in, and the tree to look into: that method's
\* body or the program's.
MethodsAt(p, pos) ==
    FlattenSeq([i \in DOMAIN p.decls |->
        LET d == p.decls[i] ms == SelectSeq(d.methods, LAMBDA m : Covers(m.body, pos))
        IN IF d.d = "instance" THEN [j \in DOMAIN ms |-> [d |-> d, m |-> ms[j]]] ELSE <<>>])

WholeBody(p) == IF p.body = <<>> THEN <<>> ELSE <<BodyWithFns(p.decls, p.body[1])>>

\* The trees typed once: the methods' bodies, and the program's.  A tree that cannot be
\* typed is missing.
TypedMethod(ts, d, m) ==
    LET prep == Prepared(ts, d)
        r == InferTyped([ts EXCEPT !.tvars = prep.tvars], m.body, ts.n + Len(d.tps))
    IN IF ~Ok(ts) THEN <<>> ELSE IF CheckMethod(ts, prep, m) # "" THEN <<>> ELSE <<Pair(m.body, r.x, <<>>)>>

TypedBody(ts, p) ==
    LET body == WholeBody(p)
        r == InferTyped(ts, body[1], ts.n)
    IN IF ~Ok(ts) \/ body = <<>> THEN <<>> ELSE IF r.ok THEN <<Pair(body[1], r.x, <<>>)>> ELSE <<>>

TypedRoots(ts, p) ==
    LET is == OfKind(p.decls, "instance")
        ms == FlattenSeq([i \in DOMAIN is |-> [j \in DOMAIN is[i].methods |->
                  [m |-> is[i].methods[j].body, root |-> TypedMethod(ts, is[i], is[i].methods[j])]]])
    IN [methods |-> ms, body |-> TypedBody(ts, p)]

TypedRoot(roots, pos) ==
    LET ms == SelectSeq(roots.methods, LAMBDA m : Covers(m.m, pos)) IN IF ms = <<>> THEN roots.body ELSE ms[1].root

(***************************************************************************)
(* Hover.                                                                  *)
(***************************************************************************)
FreshFor(ts, t) == 1 + (CHOOSE n \in Ftv(t) \cup {ts.n} : \A m \in Ftv(t) \cup {ts.n} : m <= n)
PeelFun(t) == Decompose(t, -1)

\* add_bindings_from_pattern: the types of a pattern's variables when it meets a value of
\* type t; a part that does not fit gives none.
RECURSIVE PatternTypes(_, _, _)
PatternTypes(ts, t, p) ==
    LET n == FreshFor(ts, t)
        known == p.k = "pnamed" /\ p.nm[1] \in DOMAIN ts.env
        ctor == PeelFun(Instantiate(ts.env[p.nm[1]][1], NewState(n)).t)
        parts == CASE known -> ctor.args
                   [] p.k = "ptuple" -> [i \in DOMAIN p.sub |-> TV(n + i)]
                   [] p.k = "pcons" -> <<TV(n), TApp(ListT, TV(n))>>
                   [] p.k = "pdict" /\ t.k = "record" -> [i \in DOMAIN p.sub |-> IF Segment(p.nm[i]) \in ToSet(t.n) THEN FieldType(t, Segment(p.nm[i])) ELSE NoType]
                   [] OTHER -> [i \in DOMAIN p.sub |-> TV(n)]
        whole == CASE known -> ctor.rest
                   [] p.k = "ptuple" -> TTuple(parts)
                   [] p.k \in {"plist", "pcons"} -> TApp(ListT, TV(n))
                   [] p.k = "pdict" /\ t.k = "record" -> t
                   [] OTHER -> TApp(DictT, TV(n))
        u == Mgu(whole, t)
    IN CASE p.k = "pvar" -> <<[x |-> p.nm[1], t |-> t]>>
         [] p.k = "pwild" \/ (p.k = "pnamed" /\ ~known) -> <<>>
         [] OTHER -> IF ~u.ok THEN <<>>
                     ELSE FlattenSeq([i \in 1 .. Least(Len(p.sub), Len(parts)) |-> PatternTypes(ts, Apply(u.s, parts[i]), p.sub[i])])

\* What one pair says of the name at the cursor: a pattern's variable, a binder, a use.
HoverHere(ts, c, pos, x) ==
    LET e == c.e
        ps == CoveringChildren(e.pats, pos)
        bs == SelectSeq(PatternTypes(ts, c.x.sub[1].t, e.pats[FirstOf(ps)]), LAMBDA b : b.x = x)
        own == {i \in DOMAIN e.bs : e.bs[i] = pos}
    IN CASE e.k # c.x.k -> <<>>
         [] e.k = c.x.k /\ e.k = "match" -> IF ps = {} \/ bs = <<>> THEN <<>> ELSE <<bs[Len(bs)].t>>
         [] e.k = c.x.k /\ e.k \in {"let", "letrec"} -> IF own = {} THEN <<>> ELSE <<c.x.sub[FirstOf(own)].t>>
         [] e.k = c.x.k /\ e.k = "lam" -> IF own = {} THEN <<>> ELSE FunPart(c.x.t, 1)
         [] e.k = c.x.k /\ e.k = "var" -> <<c.x.t>>
         [] OTHER -> <<>>

HoverIn(ts, c, pos, x) ==
    LET vs == Visited(c, pos) IN FlattenSeq([i \in DOMAIN vs |-> HoverHere(ts, vs[i], pos, x)])

(***************************************************************************)
(* Identifiers and definitions.                                            *)
(***************************************************************************)
Ident(x, at) == [x |-> x, at |-> at]

RECURSIVE IdentsIn(_)
IdentsIn(e) ==
    (CASE e.k \in {"var", "project", "pvar"} -> {Ident(e.nm[1], e.lo)}
       [] e.k = "pnamed" -> {Ident(<<Segment(e.nm[1])>>, e.lo)}
       [] OTHER -> {Ident(e.nm[i], e.bs[i]) : i \in DOMAIN e.bs})
    \cup UNION {IdentsIn(e.sub[i]) : i \in DOMAIN e.sub} \cup UNION {IdentsIn(e.pats[i]) : i \in DOMAIN e.pats}

IdentsOf(d) ==
    {Ident(d.name, d.at)} \cup {Ident(d.params[i][1], d.params[i][3]) : i \in DOMAIN d.params}
    \cup {Ident(v.name, v.at) : v \in ToSet(d.variants)} \cup {Ident(m.name, m.at) : m \in ToSet(d.methods)}
    \cup IdentsIn(d.body) \cup UNION {IdentsIn(m.body) : m \in ToSet(d.methods)}

Idents(p) == UNION {IdentsOf(d) : d \in ToSet(p.decls)} \cup UNION {IdentsIn(e) : e \in ToSet(p.body)}

\* index_decl_spans: the token of each declared name, of the last one of a name; an
\* instance's names are those followed by `=`, a let's in a method too.
TokenOf(is) == [x \in {i.x : i \in ToSet(is)} |-> LET of == SelectSeq(is, LAMBDA i : i.x = x) IN of[Len(of)].at]

DeclIdents(ds) == [i \in DOMAIN ds |-> Ident(ds[i].name, ds[i].at)]
PartIdents(parts) == [i \in DOMAIN parts |-> Ident(parts[i].name, parts[i].at)]

LetIdents(e) == UNION {{Ident(n.nm[i], n.bs[i]) : i \in {j \in DOMAIN n.bs : n.ann[j] = <<>>}} :
                       n \in {m \in Nodes(e) : m.k \in {"let", "letrec"}}}

IndexOf(p) ==
    LET types == OfKind(p.decls, "type") classes == OfKind(p.decls, "class") instances == OfKind(p.decls, "instance")
        lets(d) == FlattenSeq([j \in DOMAIN d.methods |-> SetToSeq(LetIdents(d.methods[j].body))])
    IN [types |-> TokenOf(DeclIdents(types)), classes |-> TokenOf(DeclIdents(classes)),
        ctors |-> TokenOf(FlattenSeq([i \in DOMAIN types |-> PartIdents(types[i].variants)])),
        fns |-> TokenOf(DeclIdents(SelectSeq(p.decls, LAMBDA d : d.d \in {"fn", "declare"}))),
        classMethods |-> TokenOf(FlattenSeq([i \in DOMAIN classes |-> PartIdents(classes[i].methods)])),
        instances |-> [i \in DOMAIN instances |->
            [lo |-> instances[i].at, hi |-> instances[i].hi,
             methods |-> TokenOf(PartIdents(instances[i].methods) \o lets(instances[i]))]]]

\* The innermost binding of x, 0 if there is none.
LastBinding(b, x) == LET of == SelectSeq(b, LAMBDA i : i.x = x) IN IF of = <<>> THEN 0 ELSE of[Len(of)].at

\* definition_span_for_value_ident: the walk down to the cursor, with the bindings on the
\* way.  It does not enter a record update.
RECURSIVE DefinitionIn(_, _, _, _)
DefinitionIn(e, pos, x, b) ==
    LET own == {i \in DOMAIN e.bs : e.bs[i] = pos /\ e.nm[i] = x}
        pats == CoveringChildren(e.pats, pos)
        kids == CoveringChildren(e.sub, pos)
    IN IF ~Covers(e, pos) \/ e.k = "update" THEN 0
       ELSE IF e.k = "var" THEN (IF e.nm[1] = x THEN LastBinding(b, x) ELSE 0)
       ELSE IF own # {} THEN pos
       ELSE IF pats # {} THEN (IF Ident(x, pos) \in ToSet(PatternBindings(e.pats[FirstOf(pats)])) THEN pos ELSE 0)
       ELSE IF kids # {} THEN DefinitionIn(e.sub[FirstOf(kids)], pos, x, b \o BindingsOver(e, FirstOf(kids)))
       ELSE 0

TokenIn(index, x) == IF x \in DOMAIN index THEN index[x] ELSE 0
FirstToken(ts) == LET found == SelectSeq(ts, LAMBDA t : t # 0) IN IF found = <<>> THEN 0 ELSE found[1]

\* The definition in the document itself: a local binding, a method of the instance the
\* cursor is in, a class's method, a function, a constructor, a type, a class.
LocalDefinition(ix, p, pos, x) ==
    LET ms == MethodsAt(p, pos)
        root == IF ms = <<>> THEN WholeBody(p) ELSE <<ms[Len(ms)].m.body>>
        here == SelectSeq(ix.instances, LAMBDA i : i.lo <= pos /\ pos <= i.hi)
        methods == [i \in DOMAIN here |-> TokenIn(here[i].methods, x)]
    IN FirstToken([i \in DOMAIN root |-> DefinitionIn(root[i], pos, x, <<>>)] \o methods
                  \o <<TokenIn(ix.classMethods, x), TokenIn(ix.fns, x), TokenIn(ix.ctors, x),
                       TokenIn(ix.types, x), TokenIn(ix.classes, x)>>)

\* `alias.field` under the cursor: the field and the name before the dot.
ProjectionsAt(p, pos) ==
    {n \in UNION {Nodes(e) : e \in ToSet(p.body) \cup {d.body : d \in ToSet(p.decls)}
                                   \cup UNION {{m.body : m \in ToSet(d.methods)} : d \in ToSet(p.decls)}} :
        n.k = "project" /\ n.lo = pos /\ n.sub[1].k \in {"var", "project"}}

NoLocation == [uri |-> "", at |-> 0]
Location(uri, at) == IF at = 0 THEN NoLocation ELSE [uri |-> uri, at |-> at]

ExportedToken(index, x) == FirstToken(<<TokenIn(index.fns, x), TokenIn(index.ctors, x)>>)

\* goto_definition_response: an exported function or constructor of an imported module,
\* by the alias's name alone, or the definition in the document.
Definition(prep, w, id, p, pos) ==
    LET x == (CHOOSE i \in Idents(p) : i.at = pos).x
        proj == CHOOSE n \in ProjectionsAt(p, pos) : TRUE
        aliases == {d \in ToSet(OfKind(p.decls, "import")) : d.name = proj.sub[1].nm[1] /\ d.name \in DOMAIN prep.imports}
        to == (CHOOSE d \in aliases : TRUE).path
        far == IF x \in DOMAIN prep.imports[proj.sub[1].nm[1]].values
               THEN ExportedToken(IndexOf(w.modules[to].unit), x) ELSE 0
    IN CASE pos \notin {i.at : i \in Idents(p)} -> NoLocation
         [] ProjectionsAt(p, pos) # {} /\ aliases # {} /\ w.modules[to].k = "source" /\ far # 0 -> [uri |-> to, at |-> far]
         [] OTHER -> Location(id, LocalDefinition(IndexOf(p), p, pos, x))

\* collect_references_in_expr, references_for_source: the uses in the program's body that
\* resolve to the definition.  Methods of instances are not looked into.
RECURSIVE ReferencesIn(_, _, _, _, _)
ReferencesIn(e, x, target, top, b) ==
    IF e.k = "var" THEN
        IF e.nm[1] = x /\ FirstToken(<<LastBinding(b, x), top>>) = target THEN {e.lo} ELSE {}
    ELSE UNION {ReferencesIn(e.sub[i], x, target, top, b \o BindingsOver(e, i)) : i \in DOMAIN e.sub}

TopLevelToken(index, x) == FirstToken(<<TokenIn(index.ctors, x), TokenIn(index.fns, x)>>)

ReferencesTo(d, id, p, x, top) ==
    IF d.at = 0 \/ d.uri # id THEN {}
    ELSE {d.at} \cup UNION {ReferencesIn(e, x, d.at, top, <<>>) : e \in ToSet(WholeBody(p))}

References(prep, w, id, p, pos) ==
    LET x == (CHOOSE i \in Idents(p) : i.at = pos).x
    IN ReferencesTo(Definition(prep, w, id, p, pos), id, p, x, TopLevelToken(IndexOf(p), x))

\* rename_for_source: every reference replaced.
RenameEdits(prep, w, id, p, pos, new) == {[at |-> t, new |-> new] : t \in References(prep, w, id, p, pos)}

(***************************************************************************)
(* The values in scope and what could stand in a hole.                     *)
(***************************************************************************)
\* values_in_scope_at_expr: a name is a function as soon as one binding of it is.
RECURSIVE ValuesIn(_, _, _)
ValuesIn(e, pos, b) ==
    LET kids == CoveringChildren(e.sub, pos)
        i == FirstOf(kids)
        isFn(j) == (e.k = "let" /\ e.sub[1].k = "lam") \/ (e.k = "letrec" /\ e.sub[j].k = "lam")
        over == BindingsOver(e, i)
        new == [j \in DOMAIN over |-> [x |-> over[j].x, fn |-> isFn(j)]]
    IN IF CoveringChildren(e.pats, pos) # {} \/ e.k = "update" \/ kids = {}
       THEN [x \in {v.x : v \in ToSet(b)} |-> \E v \in ToSet(b) : v.x = x /\ v.fn]
       ELSE ValuesIn(e.sub[i], pos, b \o new)

\* in_scope_value_types_at_position: definitions and parameters, not a pattern's variables.
TypesOver(c, i) ==
    CASE c.e.k = "let" /\ i = 2 -> <<[x |-> c.e.nm[1], t |-> c.x.sub[1].t]>>
      [] c.e.k = "letrec" -> [j \in DOMAIN c.e.nm |-> [x |-> c.e.nm[j], t |-> c.x.sub[j].t]]
      [] c.e.k = "lam" -> [j \in DOMAIN FunPart(c.x.t, 1) |-> [x |-> c.e.nm[1], t |-> c.x.t.a[1]]]
      [] OTHER -> <<>>

RECURSIVE ScopeTypes(_, _, _)
ScopeTypes(c, pos, scope) ==
    LET ps == Pairs(c.e, c.x)
        kids == {i \in DOMAIN ps : Covers(ps[i].e, pos)}
    IN IF kids = {} THEN scope ELSE ScopeTypes(ps[FirstOf(kids)], pos, scope \o TypesOver(c, FirstOf(kids)))

\* The values of the type system as functions: name, parameters, result.  Operators and
\* qualified names are no identifiers; the limits on scanned values and candidates are
\* above the model's pools.
Operators == {<<"+">>}
IsIdentLike(x) == Len(x) = 1 /\ x \notin Operators
Fits(a, b) == Mgu(a, b).ok
Functions1(ts, n) ==
    UNION {{[x |-> x, f |-> PeelFun(Instantiate(ts.env[x][i], NewState(n)).t)] : i \in DOMAIN ts.env[x]} : x \in DOMAIN ts.env}

Producing(ts, n, target) == {c \in Functions1(ts, n) : c.f.args # <<>> /\ Fits(c.f.rest, target)}

Accepting(ts, n, source) ==
    {c \in Functions1(ts, n) : IsIdentLike(c.x) /\ c.f.args # <<>> /\ Fits(c.f.args[1], source)}

Adapting(ts, n, source, target) ==
    {c \in Functions1(ts, n) : IsIdentLike(c.x) /\ Len(c.f.args) = 1 /\ Fits(c.f.args[1], source) /\ Fits(c.f.rest, target)}

\* hole_fill_candidates_at_position: a function whose result fits with, for each
\* parameter on its own, the innermost value that fits, an adapter of one, or a new hole.
MaxFillArity == 3
Hole == <<"?">>
LastFit(scope, t) == LET fit == SelectSeq(scope, LAMBDA v : Fits(v.t, t)) IN IF fit = <<>> THEN <<>> ELSE <<fit[Len(fit)].x>>

FillArg(ts, n, scope, t) ==
    LET direct == LastFit(scope, t)
        adapters == {c \in Functions1(ts, n) : /\ IsIdentLike(c.x) /\ Len(c.f.args) = 1 /\ Fits(c.f.rest, t)
                                               /\ LastFit(scope, c.f.args[1]) # <<>>}
        a == CHOOSE c \in adapters : TRUE
    IN CASE direct # <<>> -> direct
         [] direct = <<>> /\ adapters # {} -> <<a.x>> \o LastFit(scope, a.f.args[1])
         [] OTHER -> <<Hole>>

HoleFills(ts, n, scope, target) ==
    {[x |-> c.x, args |-> [i \in DOMAIN c.f.args |-> FillArg(ts, n, scope, c.f.args[i])]] :
        c \in {f \in Producing(ts, n, target) : IsIdentLike(f.x) /\ Len(f.f.args) <= MaxFillArity}}

\* functions_compatible_with_in_scope_values: those without a hole left.
Compatible(fills) == {f \in fills : \A i \in DOMAIN f.args : f.args[i] # <<Hole>>}

\* collect_hole_spans.
HoleTokens(p) == UNION {{n.lo : n \in {m \in Nodes(e) : m.k = "hole"}} : e \in ToSet(WholeBody(p))}

\* expected_type_from_syntax_context: the annotation written around the position.
RECURSIVE WrittenFor(_, _)
WrittenFor(e, pos) ==
    LET kids == CoveringChildren(e.sub, pos)
        i == FirstOf(kids)
    IN CASE kids = {} -> <<>>
         [] kids # {} /\ e.k = "let" /\ i = 1 /\ e.ann[1] # <<>> -> e.ann[1]
         [] kids # {} /\ e.k = "ann" -> e.ann[1]
         [] kids # {} /\ e.k = "ite" /\ i = 1 -> <<Bool>>
         [] OTHER -> WrittenFor(e.sub[i], pos)

(***************************************************************************)
(* Diagnostics of a document that parses: the compiler's first error, as   *)
(* what the imports say of it when it is about an import, or the holes.    *)
(***************************************************************************)
ImportErrors == {"missing export", "duplicate import", "conflicts with local"}
ModuleErrors == ImportErrors \cup {"module not found", "expression in module"}

\* primary_program_span.
PrimaryToken(p) == IF p.decls # <<>> THEN p.decls[1].at ELSE IF p.body # <<>> THEN p.body[1].lo ELSE 0

\* Where in the program a type error is, is not modelled.
EngineDiagnostic(p, err) == [at |-> IF err \in ModuleErrors THEN PrimaryToken(p) ELSE 0, m |-> err]

TypeDiagnostics(snippet, prep, p) ==
    LET same == SelectSeq(prep.diags, LAMBDA d : d.m = snippet.err)
    IN CASE snippet.err \in ImportErrors /\ same # <<>> -> ToSet(same)
         [] snippet.err # "" /\ ~(snippet.err \in ImportErrors /\ same # <<>>) -> {EngineDiagnostic(p, snippet.err)}
         [] OTHER -> {[at |-> t, m |-> "hole"] : t \in HoleTokens(p)}
===============================================================================
