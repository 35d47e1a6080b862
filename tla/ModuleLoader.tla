----------------------------- MODULE ModuleLoader -----------------------------
(***************************************************************************)
(* The builder's registries (rex-engine builder/builder.rs, registry.rs),  *)
(* the engine's type check (compiler/type_check.rs), the loading of        *)
(* modules (builder/rewrite.rs, modules/system.rs) and the compiler's      *)
(* entry points (compiler/mod.rs).                                         *)
(*                                                                         *)
(* An engine en has the type system ts, the runtime names env, the native  *)
(* implementations (a name's schemes), the instances' heads by class, what *)
(* the module loader keeps and the first error.                            *)
(***************************************************************************)
EXTENDS Declarations, Resolution

Stop(en, cond, e) == IF en.err = "" /\ cond THEN [en EXCEPT !.err = e] ELSE en
Going(en) == en.err = ""
\* An operation of the type system: its error is the engine's.
WithTypes(en, ts) == [en EXCEPT !.ts = [ts EXCEPT !.err = ""], !.err = IF @ = "" THEN ts.err ELSE @]

ClassMethods(ts) == UNION {DOMAIN ts.info[c].methods : c \in DOMAIN ts.info}

(***************************************************************************)
(* Natives.                                                                *)
(***************************************************************************)
\* scheme_accepts: the scheme has the type among its instances.
SchemeAccepts(ts, sch, t) ==
    LET inst == Instantiate(sch, NewState(ts.n))
        u == Mgu(inst.t, t)
        ps == ApplyPreds(u.s, inst.p)
    IN u.ok /\ \A p \in ToSet(ps) : Ftv(p.t) = {} => Entails(ts, {}, p)

\* register_type_scheme_parts: a new value, an instance of a polymorphic one, or one more
\* overload of monomorphic ones.
RegisterScheme(en, x, sch) ==
    LET have == IF x \in DOMAIN en.ts.env THEN en.ts.env[x] ELSE <<>>
        poly == \E i \in DOMAIN have : have[i].vars # <<>> \/ have[i].preds # <<>>
    IN CASE have = <<>> -> [en EXCEPT !.ts.env = (x :> <<sch>>) @@ @]
         [] have # <<>> /\ poly ->
              Stop(en, \A i \in DOMAIN have : ~SchemeAccepts(en.ts, have[i], sch.t), "invalid injection")
         [] OTHER -> IF sch \in ToSet(have) THEN en ELSE [en EXCEPT !.ts.env[x] = Append(@, sch)]

\* NativeRegistry::insert: the same scheme twice is an error.
InsertNative(en, x, sch) ==
    LET have == IF x \in DOMAIN en.natives THEN en.natives[x] ELSE <<>>
    IN IF sch \in ToSet(have) THEN Stop(en, TRUE, "duplicate impl")
       ELSE [en EXCEPT !.natives = (x :> Append(have, sch)) @@ @]

RegisterNative(en, x, sch) ==
    LET en1 == RegisterScheme(en, x, sch)
    IN IF Going(en) /\ Going(en1) THEN InsertNative(en1, x, sch) ELSE IF Going(en) THEN en1 ELSE en

\* The implementations of x whose type unifies with t.
ResolveNative(en, x, t) ==
    {i \in DOMAIN en.natives[x] : Mgu(Instantiate(en.natives[x][i], NewState(en.ts.n)).t, t).ok}

\* inject_adt_parts: the constructors of a declared type under both their names.
InjectCtor(en, x, sch) ==
    IF x \in DOMAIN en.natives /\ sch \in ToSet(en.natives[x]) THEN en ELSE RegisterNative(en, x, sch)

RECURSIVE InjectCtors(_, _, _)
InjectCtors(en, adt, i) ==
    LET decl == en.ts.adts[adt]
        v == decl.variants[i].name
        sch == CtorScheme(adt, decl, i)
    IN IF i > Len(decl.variants) \/ ~Going(en) THEN en
       ELSE InjectCtors(InjectCtor(InjectCtor(en, QualifiedCtor(adt, v), sch), CompatCtor(adt, v), sch), adt, i + 1)

(***************************************************************************)
(* type_check_engine.                                                      *)
(***************************************************************************)
NumericClasses == {<<x>> : x \in {"AdditiveMonoid", "MultiplicativeMonoid", "Subtractive", "AdditiveGroup",
                                  "Ring", "Divisive", "Field", "Integral"}}
CompanionClasses == {<<"Eq">>, <<"Ord">>}

\* A variable may default when a numeric class constrains it and no class but these does.
Defaultable(ps) ==
    /\ \E i \in DOMAIN ps : ps[i].c \in NumericClasses
    /\ \A i \in DOMAIN ps : ps[i].c \in NumericClasses \cup CompanionClasses

\* The ground simple types of the typed tree, outermost and leftmost first.
RECURSIVE DefaultCandidates(_)
DefaultCandidates(x) ==
    (IF x.t.k = "con" /\ BuiltinArity(x.t.n) = 0 THEN <<x.t>> ELSE <<>>)
    \o FlattenSeq([i \in DOMAIN x.sub |-> DefaultCandidates(x.sub[i])])

\* choose_default_type: the first candidate every constraint on v accepts, <<>> if none.
ChooseDefault(ts, v, ps, cands) ==
    LET accepts(t) == \A p \in ToSet(ApplyPreds(v :> t, ps)) : Ftv(p.t) = {} /\ Entails(ts, {}, p)
    IN SubSeq(SelectSeq(cands, accepts), 1, 1)

\* One pass over the variables of the constraints; acc is [s, ps].
DefaultPass(ts, acc, vs, cands) ==
    FoldLeft(LAMBDA a, v :
        LET on == SelectSeq(a.ps, LAMBDA p : v \in Ftv(p.t))
            choice == ChooseDefault(ts, v, on, cands)
        IN IF Defaultable(SelectSeq(on, LAMBDA p : p.t = TV(v))) /\ choice # <<>>
           THEN [s |-> Compose(v :> choice[1], a.s), ps |-> ApplyPreds(v :> choice[1], a.ps)] ELSE a,
        acc, vs)

RECURSIVE DefaultAmbiguous(_, _, _)
DefaultAmbiguous(ts, acc, cands) ==
    LET next == DefaultPass(ts, acc, Ascending(PredsFtv(acc.ps)), cands)
    IN IF next = acc THEN acc ELSE DefaultAmbiguous(ts, next, cands)

\* check_natives: every free name is a native with an implementation at its type, a
\* runtime name or a method.  b are the names bound around x.
NamesIn(x, i) == CASE x.k = "lam" -> ToSet(x.nm)
                   [] x.k = "let" /\ i = 2 -> ToSet(x.nm)
                   [] x.k = "letrec" -> ToSet(x.nm)
                   [] x.k = "match" /\ i > 1 -> ToSet(x.nm[i - 1])
                   [] OTHER -> {}

CheckName(en, x) ==
    LET f == x.nm[1]
        ground == Ftv(x.t) = {}
    IN CASE f \notin DOMAIN en.natives -> IF f \in en.env \cup ClassMethods(en.ts) THEN <<>> ELSE <<"unknown variable">>
         [] f \in DOMAIN en.natives /\ ground /\ x.ov # <<>> /\ (\A i \in DOMAIN x.ov : ~Mgu(x.ov[i], x.t).ok) -> <<"missing impl">>
         [] OTHER -> IF ground /\ ResolveNative(en, f, x.t) = {} THEN <<"missing impl">> ELSE <<>>

RECURSIVE CheckNatives(_, _, _)
CheckNatives(en, x, b) ==
    CASE x.k = "method" -> IF x.nm[1] \in ClassMethods(en.ts) THEN <<>> ELSE <<"unknown variable">>
      [] x.k = "var" -> IF x.nm[1] \in b THEN <<>> ELSE CheckName(en, x)
      [] x.k = "hole" -> <<"unsupported">>
      [] OTHER -> FlattenSeq([i \in DOMAIN x.sub |-> CheckNatives(en, x.sub[i], b \cup NamesIn(x, i))])

HasHole(e) == \E n \in Nodes(e) : n.k = "hole"

\* [ok, x, err]: the typed tree with its ambiguous literals defaulted.
TypeCheck(en, tvars, e) ==
    LET r == InferTyped([en.ts EXCEPT !.tvars = tvars], e, en.ts.n + Cardinality(DOMAIN tvars))
        cands == Distinct(DefaultCandidates(r.x) \o <<F32, I32, Str>>)
        d == DefaultAmbiguous(en.ts, [s |-> NoSubst, ps |-> r.p], cands)
        x == ApplyTree(d.s, r.x)
        errs == CheckNatives(en, x, {})
        bad(err) == [ok |-> FALSE, x |-> NoTree, err |-> err]
    IN CASE HasHole(e) -> bad("hole")
         [] ~HasHole(e) /\ ~r.ok -> bad(r.err)
         [] ~HasHole(e) /\ r.ok /\ (\E p \in ToSet(d.ps) : Ftv(p.t) = {} /\ ~Entails(en.ts, {}, p)) -> bad("no instance")
         [] OTHER -> IF errs # <<>> THEN bad(errs[1]) ELSE [ok |-> TRUE, x |-> x, err |-> ""]

(***************************************************************************)
(* inject_decls_parts.                                                     *)
(***************************************************************************)
\* inject_fn_runtime_parts: placeholders for all, then each body is checked again with
\* the names in scope; on an error the placeholders are gone.
CheckRuntimeFn(en, d) ==
    LET r == TypeCheck(en, VarsFrom(d.tps, en.ts.n), ParamsAround(d.params, d.cs, WithReturn(d)))
    IN Stop(Stop(en, ~r.ok, r.err), r.ok /\ r.x.k # "lam", "not callable")

KeepPlaceholders(after, en) == IF Going(after) THEN after ELSE [after EXCEPT !.env = en.env]

InjectFns(en, fns) ==
    IF ~Going(en) THEN en
    ELSE KeepPlaceholders(FoldLeft(LAMBDA s, d : IF Going(s) THEN CheckRuntimeFn(s, d) ELSE s,
                                   [en EXCEPT !.env = @ \cup ToSet(Names(fns))], fns), en)

\* register_typeclass_instance_parts and TypeclassRegistry::insert: heads of a class do
\* not overlap.
MethodProblems(en, p, m, e) ==
    IF e # "" THEN <<e>>
    ELSE CheckNatives(en, InferTyped([en.ts EXCEPT !.tvars = p.tvars], m.body, en.ts.n + Cardinality(DOMAIN p.tvars)).x, {})

InsertInstance(en, class, head, errs) ==
    LET have == IF class \in DOMAIN en.heads THEN en.heads[class] ELSE <<>>
    IN CASE errs # <<>> -> Stop(en, TRUE, errs[1])
         [] errs = <<>> /\ (\E i \in DOMAIN have : Mgu(have[i], head).ok) -> Stop(en, TRUE, "duplicate instance")
         [] OTHER -> [en EXCEPT !.heads = (class :> Append(have, head)) @@ @]

InjectPrepared(en, p, ms) ==
    InsertInstance(en, p.class, p.head,
        FlattenSeq([i \in DOMAIN ms |-> MethodProblems(en, p, ms[i], CheckMethod(en.ts, p, ms[i]))]))

InjectInstance(en, d) == InjectPrepared(en, Prepared(en.ts, d), d.methods)

\* Types and their constructors, classes, forward declarations, signatures, instances,
\* bodies, runtime functions and instance methods, in that order; what was injected
\* before an error stays.
InjectTypes(en, types) ==
    FoldLeft(LAMBDA s, d : IF Going(s) THEN InjectCtors(s, d.name, 1) ELSE s,
             WithTypes(en, RegisterTypes(en.ts, types)), SelectSeq(types, LAMBDA d : d.head = <<>>))

InjectMembers(en, ds) ==
    IF ~Going(en) THEN en
    ELSE FoldLeft(LAMBDA s, d : IF Going(s) THEN InjectInstance(s, d) ELSE s,
                  InjectFns(WithTypes(en, RegisterMembers(en.ts, ds)), OfKind(ds, "fn")), OfKind(ds, "instance"))

InjectDecls(en, ds) == IF ~Going(en) THEN en ELSE InjectMembers(InjectTypes(en, OfKind(ds, "type")), ds)

(***************************************************************************)
(* Loading.                                                                *)
(*                                                                         *)
(* A world w has the modules an importer can give (the source of one may   *)
(* not parse, one may be a Rust module) and the default imports.  In an    *)
(* engine: cache, the exports of installed Rust modules; iface, the        *)
(* interfaces; published, the interfaces in the type system; loaded and    *)
(* loading, the exports of what is or is being loaded; asked and resolved, *)
(* the importer's cached answers; log, what entered the engine in order.   *)
(***************************************************************************)

\* What entered the engine without an error.
Logged(en, k, id) == IF Going(en) THEN [en EXCEPT !.log = Append(@, [k |-> k, id |-> id])] ELSE en

\* ResolvedModuleCache::import: the first answer for a module is kept; a request without
\* an importer is answered by the module's name alone.
Import(en, w, id, by) ==
    IF [id |-> id, by |-> by] \in en.asked \/ (by = "" /\ id \in en.resolved) THEN
        [en EXCEPT !.asked = @ \cup {[id |-> id, by |-> by]}]
    ELSE IF id \notin DOMAIN w.modules THEN Stop(en, TRUE, "module not found")
    ELSE [en EXCEPT !.asked = @ \cup {[id |-> id, by |-> by]}, !.resolved = @ \cup {id}]

IsRust(w, id) == w.modules[id].k = "rust"

\* package_from_resolved: a module's source parses and has no expression.
PackageError(m) == CASE m.k = "broken" -> "parse"
                     [] m.k # "broken" /\ m.unit.body # <<>> -> "expression in module"
                     [] OTHER -> ""

NotPublished(en, id) == en

\* ensure_cycle_interfaces_published.
Publish(en, id) ==
    IF ~Going(en) THEN en
    ELSE Logged([en EXCEPT !.env = @ \cup ToSet(Names(en.iface[id])), !.published = @ \cup {id}], "publish", id)

EnsurePublished(en, id) ==
    IF ~Going(en) \/ id \in en.published \/ id \notin DOMAIN en.iface THEN en
    ELSE Publish(InjectDecls(en, en.iface[id]), id)

(***************************************************************************)
(* install_named_rust_module: callables, the declarations, then values.    *)
(* m.natives are the exported and internal functions and values, each with *)
(* its interface and its scheme.                                           *)
(***************************************************************************)
RECURSIVE QualifyTypeRefs(_, _, _)
QualifyTypeRefs(t, prefix, local) ==
    IF t.k = "con" THEN [t EXCEPT !.n = IF @ \in local THEN prefix \o @ ELSE @]
    ELSE [t EXCEPT !.a = [i \in DOMAIN t.a |-> QualifyTypeRefs(t.a[i], prefix, local)]]

QualifySchemeRefs(sch, prefix, local) ==
    Scheme(sch.vars, [i \in DOMAIN sch.preds |-> Pred(sch.preds[i].c, QualifyTypeRefs(sch.preds[i].t, prefix, local))],
           QualifyTypeRefs(sch.t, prefix, local))

\* inject_module_export.
InjectExport(en, id, local, x) ==
    RegisterNative(en, Prefix(id) \o x.iface.name, QualifySchemeRefs(x.sch, Prefix(id), local))

Installed(en, id, exports) ==
    Logged(IF Going(en) THEN [en EXCEPT !.loaded = (id :> exports) @@ @] ELSE en, "install", id)

InstallRust(en, w, id) ==
    LET m == w.modules[id]
        package == Unit(m.unit.decls \o [i \in DOMAIN m.natives |-> m.natives[i].iface], <<>>)
        local == {d.name : d \in ToSet(OfKind(package.decls, "type"))}
        q == QualifyPackage(package, Prefix(id))
        exports == ExportsOf(package.decls, Prefix(id))
        en1 == [en EXCEPT !.cache = (id :> exports) @@ @, !.iface = (id :> InterfaceDecls(q.decls)) @@ @]
        en2 == FoldLeft(LAMBDA s, x : InjectExport(s, id, local, x), en1, SelectSeq(m.natives, LAMBDA x : ~x.value))
    IN Installed(FoldLeft(LAMBDA s, x : InjectExport(s, id, local, x), InjectDecls(en2, q.decls),
                          SelectSeq(m.natives, LAMBDA x : x.value)), id, exports)

(***************************************************************************)
(* tarjan_scc_module_ids.  st has the indices, the low links, the stack    *)
(* and the components found, dependencies first.                           *)
(***************************************************************************)
Least(a, b) == IF a < b THEN a ELSE b

\* Pop the stack down to v.
Component(stack, v) == SubSeq(stack, CHOOSE i \in DOMAIN stack : stack[i] = v, Len(stack))

CloseComponent(st, v) ==
    IF st.low[v] # st.index[v] THEN st
    ELSE [st EXCEPT !.comps = Append(@, Reverse(Component(st.stack, v))),
                    !.stack = SubSeq(@, 1, Len(@) - Len(Component(st.stack, v)))]

RECURSIVE StrongConnect(_, _, _, _)
RECURSIVE Neighbours(_, _, _, _, _)
StrongConnect(st, v, nodes, edges) ==
    LET n == Cardinality(DOMAIN st.index)
        st1 == [st EXCEPT !.index = (v :> n) @@ @, !.low = (v :> n) @@ @, !.stack = Append(@, v)]
    IN CloseComponent(Neighbours(st1, v, IF v \in DOMAIN edges THEN edges[v] ELSE <<>>, nodes, edges), v)

Neighbours(st, v, ws, nodes, edges) ==
    LET x == Head(ws)
        st1 == IF x \in DOMAIN st.index THEN st ELSE StrongConnect(st, x, nodes, edges)
        low == CASE x \notin DOMAIN st.index -> Least(st1.low[v], st1.low[x])
                 [] x \in DOMAIN st.index /\ x \in ToSet(st.stack) -> Least(st.low[v], st.index[x])
                 [] OTHER -> st.low[v]
    IN CASE ws = <<>> -> st
         [] ws # <<>> /\ x \notin nodes -> Neighbours(st, v, Tail(ws), nodes, edges)
         [] OTHER -> Neighbours([st1 EXCEPT !.low[v] = low], v, Tail(ws), nodes, edges)

Components(nodes, edges) ==
    FoldLeft(LAMBDA st, v : IF v \in DOMAIN st.index THEN st ELSE StrongConnect(st, v, ToSet(nodes), edges),
             [index |-> <<>>, low |-> <<>>, stack |-> <<>>, comps |-> <<>>], nodes).comps

(***************************************************************************)
(* A package and a graph of modules.                                       *)
(***************************************************************************)
HasAlias(p, alias) == \E d \in ToSet(OfKind(p.decls, "import")) : d.name = alias
DefaultImport(id) == [Decl("import") EXCEPT !.name = <<id>>, !.path = id, !.clause = "all"]
DefaultImports(p, w) ==
    LET ids == SelectSeq(w.defaults, LAMBDA id : ~HasAlias(p, <<id>>))
    IN [i \in DOMAIN ids |-> DefaultImport(ids[i])]

\* graph_imports_for_package.
GraphImports(p, w) == OfKind(p.decls, "import") \o DefaultImports(p, w)

RECURSIVE LoadModule(_, _, _)
RECURSIVE CollectGraph(_, _)
RECURSIVE CollectImports(_, _, _, _)
RECURSIVE RewriteWithImports(_, _, _, _)
RECURSIVE ResolveAll(_, _, _, _, _)
RECURSIVE LoadComponents(_, _, _)

\* resolve_module_exports_for_rewrite for each import in turn; found has their exports.
Provide(en, w, id) ==
    CASE ~Going(en) -> en
      [] Going(en) /\ id \in DOMAIN en.cache -> EnsurePublished(en, id)
      [] OTHER -> LoadModule(en, w, id)

ExportsIn(en, id) == IF id \in DOMAIN en.cache THEN en.cache[id] ELSE en.loaded[id]

ResolveNext(en, w, by, ds, found) ==
    ResolveAll(en, w, by, Tail(ds), IF Going(en) THEN Append(found, ExportsIn(en, Head(ds).path)) ELSE found)

ResolveAll(en, w, by, ds, found) ==
    IF ds = <<>> \/ ~Going(en) THEN [en |-> en, found |-> found]
    ELSE ResolveNext(Provide(Import(en, w, Head(ds).path, by), w, Head(ds).path), w, by, ds, found)

\* rewrite_package_with_imports: a conflict of one import is found before the next one is
\* resolved.
RewriteBound(en, id, p, b) ==
    LET out == RewritePackage(p, Prefix(id), b)
    IN [en |-> Stop(en, out.err # "", out.err), unit |-> out.unit, b |-> b]

RewriteWithImports(en, w, id, p) ==
    LET imports == OfKind(p.decls, "import")
        r == ResolveAll(en, w, id, imports, <<>>)
        b == Imported(p, r.found, <<>>)
        d == ResolveAll(r.en, w, id, DefaultImports(p, w), <<>>)
    IN CASE ~Going(r.en) -> [en |-> r.en, unit |-> p, b |-> NoBindings]
         [] Going(r.en) /\ b.err # "" -> [en |-> Stop(r.en, TRUE, b.err), unit |-> p, b |-> b]
         [] Going(r.en) /\ b.err = "" /\ ~Going(d.en) -> [en |-> d.en, unit |-> p, b |-> b]
         [] OTHER -> RewriteBound(d.en, id, p, Imported(p, r.found, d.found))

\* The imports of a module met in the graph: Rust modules are installed at once, the
\* others are edges and, unless they are done or pending, on the stack.
CollectImports(g, w, id, ds) ==
    LET to == Head(ds).path
        en1 == Import(g.en, w, to, id)
        rust == Going(en1) /\ IsRust(w, to)
        old == IF id \in DOMAIN g.edges THEN g.edges[id] ELSE <<>>
        push == (to \in en1.loading \/ to \notin DOMAIN en1.loaded) /\ to \notin ToSet(g.pending)
    IN IF ds = <<>> THEN g
       ELSE IF ~Going(en1) THEN [g EXCEPT !.en = en1]
       ELSE IF rust THEN CollectImports([g EXCEPT !.en = LoadModule(en1, w, to)], w, id, Tail(ds))
       ELSE CollectImports([g EXCEPT !.en = en1, !.edges = (id :> Append(old, to)) @@ @,
                                     !.stack = IF push THEN Append(@, to) ELSE @], w, id, Tail(ds))

\* The depth-first walk of the import graph: exports and interface are known before the
\* imports are looked at.
CollectGraph(g, w) ==
    LET id == g.stack[Len(g.stack)]
        rest == [g EXCEPT !.stack = Front(@)]
        p == w.modules[id].unit
        err == PackageError(w.modules[id])
        en1 == [g.en EXCEPT !.loaded = (id :> ExportsOf(p.decls, Prefix(id))) @@ @, !.loading = @ \cup {id},
                            !.iface = (id :> InterfaceDecls(QualifyPackage(p, Prefix(id)).decls)) @@ @]
        g1 == CollectImports([rest EXCEPT !.en = en1], w, id, GraphImports(p, w))
    IN CASE g.stack = <<>> \/ ~Going(g.en) -> g
         [] g.stack # <<>> /\ Going(g.en) /\ (id \in ToSet(g.pending) \/ (id \in DOMAIN g.en.loaded /\ id \notin g.en.loading)) ->
              CollectGraph(rest, w)
         [] OTHER -> IF err # "" THEN [g EXCEPT !.en = Stop(@, TRUE, err)]
                     ELSE CollectGraph([g1 EXCEPT !.pending = Append(@, id)], w)

\* One component after the other: in a cycle the interfaces first, then the modules.
InjectUnit(r, id) == [r EXCEPT !.en = IF Going(@) THEN Logged(InjectDecls(@, r.unit.decls), "inject", id) ELSE @]

LoadMember(en, w, id) ==
    IF Going(en) THEN InjectUnit(RewriteWithImports(en, w, id, w.modules[id].unit), id).en ELSE en

LoadComponent(en, w, c) ==
    FoldLeft(LAMBDA s, id : LoadMember(s, w, id), IF Len(c) > 1 THEN FoldLeft(EnsurePublished, en, c) ELSE en, c)

LoadComponents(en, w, comps) ==
    IF comps = <<>> \/ ~Going(en) THEN en
    ELSE LoadComponents([LoadComponent(en, w, Head(comps)) EXCEPT !.loading = @ \ ToSet(Head(comps))], w, Tail(comps))

\* load_module_types_from_resolved and load_module_types_via_scc.
LoadModule(en, w, id) ==
    LET g == CollectGraph([en |-> en, pending |-> <<>>, edges |-> <<>>, stack |-> <<id>>], w)
        order == SelectSeq(w.order, LAMBDA x : x \in ToSet(g.pending))
    IN CASE ~Going(en) \/ id \in DOMAIN en.loaded -> en
         [] Going(en) /\ id \notin DOMAIN en.loaded /\ IsRust(w, id) -> InstallRust(en, w, id)
         [] OTHER -> IF Going(g.en) THEN LoadComponents(g.en, w, Components(order, g.edges)) ELSE g.en

(***************************************************************************)
(* The compiler.                                                           *)
(***************************************************************************)
\* inject_prelude_virtual_module: what the engine has becomes an empty module that exports
\* every name as itself.
WithPrelude(en, id) ==
    LET of(S) == [x \in S |-> x]
    IN [en EXCEPT !.cache = (id :> [values |-> of(DOMAIN en.ts.env), types |-> of(DOMAIN en.ts.adts),
                                    classes |-> of(DOMAIN en.ts.info)]) @@ @,
                  !.iface = (id :> <<>>) @@ @]

\* rewrite_and_inject_package.
RewriteAndInject(en, w, id, p) == InjectUnit(RewriteWithImports(en, w, id, p), id)

\* main_entry_program.
IsMain(d) == d.d = "fn" /\ d.name = <<"main">>
MainParams(p) == LET d == SelectSeq(p.decls, IsMain)[1] IN [i \in DOMAIN d.params |-> d.params[i][1]]
MainEntry(p) ==
    LET main == SelectSeq(p.decls, IsMain) # <<>>
    IN CASE main /\ p.body # <<>> -> [unit |-> p, ps |-> <<>>, err |-> "main with expression"]
         [] main /\ p.body = <<>> -> [unit |-> Unit(p.decls, <<Var(<<"main">>)>>), ps |-> MainParams(p),
                                      err |-> IF IsInjective(MainParams(p)) THEN "" ELSE "duplicate input"]
         [] ~main /\ p.body # <<>> -> [unit |-> p, ps |-> <<>>, err |-> ""]
         [] OTHER -> [unit |-> p, ps |-> <<>>, err |-> "missing main"]

\* main_signature_for_type.
MainSignature(ps, t) ==
    LET d == Decompose(t, Len(ps)) IN [inputs |-> d.args, out |-> d.rest, err |-> IF Len(d.args) = Len(ps) THEN "" ELSE "main arity"]

NoResult(en, unit, err) == [en |-> en, unit |-> unit, t |-> NoType, p |-> <<>>, x |-> NoTree, err |-> err]

CheckedProgram(r, ps, c) ==
    IF ~c.ok THEN NoResult(r.en, r.unit, c.err)
    ELSE [NoResult(r.en, r.unit, MainSignature(ps, c.x.t).err) EXCEPT !.x = c.x, !.t = c.x.t]

InjectedProgram(r, ps) ==
    IF Going(r.en) THEN CheckedProgram(r, ps, TypeCheck(r.en, <<>>, r.unit.body[1]))
    ELSE NoResult(r.en, r.unit, r.en.err)

CompileProgram(en, w, id, p) ==
    LET entry == MainEntry(p)
    IN IF entry.err # "" THEN NoResult(en, p, entry.err)
       ELSE InjectedProgram(RewriteAndInject(en, w, id, entry.unit), entry.ps)

\* infer_snippet: a unit without an expression is an error.
InferredBody(r) ==
    LET t == InferType(r.en.ts, r.unit.body[1], r.en.ts.n)
    IN CASE ~Going(r.en) -> NoResult(r.en, r.unit, r.en.err)
         [] Going(r.en) /\ r.unit.body = <<>> -> NoResult(r.en, r.unit, "missing body")
         [] OTHER -> [NoResult(r.en, r.unit, t.err) EXCEPT !.t = t.t, !.p = t.p]

InferSnippet(en, w, id, p) == InferredBody(RewriteAndInject(en, w, id, p))
===============================================================================
