------------------------------ MODULE Inference ------------------------------
(***************************************************************************)
(* Type inference (rex-typesystem/src/inference.rs).  The source has it    *)
(* twice: infer_expr_type computes the type alone, infer_expr also builds  *)
(* the typed tree.  Here they are one set of rules with a mode m \in       *)
(* {"type", "tree"}; the rules differ where the two functions do.          *)
(*                                                                         *)
(* A context c has the environment (a name's schemes), the declared types, *)
(* the type parameters in scope, the variants known for names, and the     *)
(* depth.  A state st has the substitution, the next fresh variable and    *)
(* the first error; after an error the rules do nothing more.              *)
(***************************************************************************)
EXTENDS TypeTerms, Syntax, TLC

Tree(k, t, nm, sub) == [k |-> k, t |-> t, nm |-> nm, ov |-> <<>>, sub |-> sub]
NoTree == Tree("none", NoType, <<>>, <<>>)

NewState(n) == [s |-> NoSubst, n |-> n, err |-> ""]
Failed(st) == st.err # ""
Fail(st, e) == IF Failed(st) THEN st ELSE [st EXCEPT !.err = e]
Require(st, cond, e) == IF Failed(st) \/ cond THEN st ELSE Fail(st, e)
Fresh(st) == TV(st.n)
Taken(st, k) == [st EXCEPT !.n = @ + k]
At(st, t) == Prune(st.s, t)
AtPreds(st, ps) == [i \in DOMAIN ps |-> Pred(ps[i].c, At(st, ps[i].t))]

UnifyIn(st, a, b) ==
    IF Failed(st) THEN st
    ELSE LET r == Unify(st.s, a, b)
         IN IF r.ok THEN [st EXCEPT !.s = r.s] ELSE Fail(st, "unification")

Typed(st, p, t, x) == [st |-> st, p |-> p, t |-> t, x |-> x]
Nothing(st) == Typed(st, <<>>, NoType, NoTree)

RECURSIVE Distinct(_)
Distinct(ps) == IF ps = <<>> THEN <<>>
                ELSE LET r == Distinct(Front(ps))
                     IN IF Last(ps) \in ToSet(r) THEN r ELSE Append(r, Last(ps))

Ascending(S) == SetToSortSeq(S, <)

Instantiate(sch, st) ==
    LET sub == [v \in ToSet(sch.vars) |-> TV(st.n + (CHOOSE i \in DOMAIN sch.vars : sch.vars[i] = v) - 1)]
    IN [st |-> Taken(st, Len(sch.vars)), p |-> ApplyPreds(sub, sch.preds), t |-> Apply(sub, sch.t)]

SchemeAt(st, sch) == Scheme(sch.vars, AtPreds(st, sch.preds), At(st, sch.t))

EnvFtv(st, env) == UNION {UNION {SchemeFtv(SchemeAt(st, env[x][i])) : i \in DOMAIN env[x]} : x \in DOMAIN env}

\* Quantify what the environment does not mention.
GeneralizeAll(st, env, ps, t) ==
    LET qs == AtPreds(st, ps) u == At(st, t)
    IN Scheme(Ascending(Ftv(u) \cup PredsFtv(qs)), qs, u)

Generalize(st, env, ps, t) ==
    LET qs == AtPreds(st, ps) u == At(st, t)
    IN Scheme(Ascending((Ftv(u) \cup PredsFtv(qs)) \ EnvFtv(st, env)), qs, u)

Ambiguous(sch) ==
    \E i \in DOMAIN sch.preds : LET t == sch.preds[i].t
                                IN t.k = "var" /\ t.v \in ToSet(sch.vars) \ Ftv(sch.t)

DefaultOf(class) == CASE class = <<"Field">> -> F32 [] class = <<"Integral">> -> I32 [] OTHER -> NoType

\* default_literal_constraints_outside_type: a literal's variable that the type does not
\* mention takes its default.
Defaulted(st, ps, t) == [st |-> st, p |-> Distinct(AtPreds(st, ps)), t |-> At(st, t)]

DefaultLiterals(st, ps, t) ==
    LET qs == Distinct(AtPreds(st, ps))
        u == At(st, t)
        vs == {v \in PredsFtv(qs) \ Ftv(u) :
                 \E i \in DOMAIN qs : qs[i].t = TV(v) /\ DefaultOf(qs[i].c) # NoType}
        of(v) == {DefaultOf(qs[i].c) : i \in {j \in DOMAIN qs : qs[j].t = TV(v)}} \ {NoType}
        st1 == Require(st, \A v \in vs : Cardinality(of(v)) = 1, "unification")
    IN Defaulted(IF Failed(st1) THEN st1
                 ELSE [st1 EXCEPT !.s = [v \in vs |-> CHOOSE d \in of(v) : TRUE] @@ @], qs, u)

(***************************************************************************)
(* Implicit widening of integers.                                          *)
(***************************************************************************)
WidenTree(m, src, dst, x) ==
    IF m = "type" THEN x
    ELSE Tree("app", dst, <<>>, <<Tree("var", Fun(src, dst), <<<<"prim_widen_int">>>>, <<>>), x>>)

\* unify_or_implicit_widen and coerce_typed_to_expected.
Coerce(m, st, actual, expected, x) ==
    LET a == At(st, actual) e == At(st, expected)
    IN IF Widens(a, e) THEN Typed(st, <<>>, e, WidenTree(m, a, e, x))
       ELSE LET st1 == UnifyIn(st, a, e) IN Typed(st1, <<>>, At(st1, e), x)

\* coerce_app_arg_type_from_func_type and its typed twin: the argument is widened to the
\* parameter the function's type already shows.
CoerceArg(m, st, fty, aty, x) ==
    LET a == At(st, aty) f == At(st, fty)
    IN IF f.k = "fun" /\ Widens(a, f.a[1]) THEN [t |-> f.a[1], x |-> WidenTree(m, a, f.a[1], x)]
       ELSE [t |-> a, x |-> x]

(***************************************************************************)
(* Overloads: the candidates that can take the argument, as the types of   *)
(* their results.                                                          *)
(***************************************************************************)
CanHold(p) == \/ p.t.k = "var"
              \/ /\ p.c = <<"Integral">> => p.t \in IntegralTypes
                 /\ p.c = <<"Field">> => p.t \in FloatTypes
                 /\ p.c = <<"AdditiveGroup">> => p.t \in AdditiveGroupTypes

RECURSIVE Narrow(_, _, _)
Narrow(cands, aty, ps) ==
    IF cands = <<>> THEN <<>>
    ELSE LET f == Last(cands)
             rest == Narrow(Front(cands), aty, ps)
             u == Mgu(f.a[1], aty)
             q == ApplyPreds(u.s, ps)
             r == Apply(u.s, f.a[2])
         IN IF f.k # "fun" THEN rest
            ELSE IF ~u.ok \/ (\E i \in DOMAIN q : ~CanHold(q[i])) \/ r \in ToSet(rest) THEN rest
            ELSE Append(rest, r)

(***************************************************************************)
(* Records: which variant an expression is known to be, and the field      *)
(* types of a projection or an update.                                     *)
(***************************************************************************)
RECURSIVE Unannotated(_)
Unannotated(e) == IF e.k = "ann" THEN Unannotated(e.sub[1]) ELSE e

RECURSIVE KnownVariant(_, _, _)
KnownVariant(c, expr, t) ==
    LET e == Unannotated(expr)
    IN CASE e.k = "var" -> IF e.nm[1] \in DOMAIN c.known THEN c.known[e.nm[1]] ELSE NoCtor
         [] e.k = "update" -> KnownVariant(c, e.sub[1], t)
         [] e.k = "app" /\ t.k # "fun" /\ e.sub[1].k = "var" ->
              LET r == CtorLookup(c, e.sub[1].nm[1])
              IN IF r # NoCtor /\ HasFields(VariantOf(c, r)) THEN r ELSE NoCtor
         [] OTHER -> NoCtor

Forgotten(known, xs) == [y \in DOMAIN known \ xs |-> known[y]]
Learned(known, x, r) == IF r = NoCtor THEN Forgotten(known, {x}) ELSE (x :> r) @@ known

\* select_record_variant: the known variant; else the only variant of the type; else the
\* only single-variant record type with the fields.
SelectVariant(c, base, known, fields) ==
    LET single == {a \in DOMAIN c.adts : Len(c.adts[a].variants) = 1}
        having == {a \in single : /\ HasFields(c.adts[a].variants[1])
                                  /\ fields \subseteq ToSet(c.adts[a].variants[1].args[1].n)}
    IN CASE known # NoCtor -> [r |-> known, err |-> ""]
         [] known = NoCtor /\ HeadName(base) # <<>> ->
              IF HeadName(base) \in single THEN [r |-> [adt |-> HeadName(base), i |-> 1], err |-> ""]
              ELSE [r |-> NoCtor, err |-> IF HeadName(base) \in DOMAIN c.adts THEN "field not known"
                                          ELSE "unknown field"]
         [] known = NoCtor /\ base.k = "var" /\ Cardinality(having) = 1 ->
              [r |-> [adt |-> CHOOSE a \in having : TRUE, i |-> 1], err |-> ""]
         [] OTHER -> [r |-> NoCtor,
                      err |-> IF base.k = "var" /\ having # {} THEN "field not known" ELSE "unknown field"]

\* The record of fields that `base` has, and its type.
RecordAt(st, t, rec) ==
    IF Failed(st) THEN [st |-> st, t |-> NoType, rec |-> NoType] ELSE [st |-> st, t |-> At(st, t), rec |-> At(st, rec)]

RecordOf(st, base, inst, fields) ==
    RecordAt(UnifyIn(Require([st EXCEPT !.n = inst.n], fields \subseteq ToSet(inst.rec.n), "unknown field"), base, inst.t),
             inst.t, inst.rec)

SelectedRecord(c, st, base, sel, fields) ==
    IF sel.err # "" THEN RecordAt(Fail(st, sel.err), NoType, NoType)
    ELSE IF ~HasFields(VariantOf(c, sel.r)) THEN RecordAt(Fail(st, "unknown field"), NoType, NoType)
    ELSE RecordOf(st, base, InstantiateVariant(c, sel.r, st.n), fields)

ResolveRecord(c, st, base, known, fields) ==
    IF Failed(st) THEN RecordAt(st, NoType, NoType)
    ELSE IF base.k = "record" THEN [st |-> st, t |-> base, rec |-> base]
    ELSE SelectedRecord(c, st, base, SelectVariant(c, base, known, fields), fields)

IndexOfField(f) == CASE f = "0" -> 1 [] f = "1" -> 2 [] OTHER -> 0

FieldIn(st, rec, f) == [st |-> st, t |-> IF Failed(st) THEN NoType ELSE At(st, FieldType(rec, f))]
FieldOf(r, f) == FieldIn(Require(r.st, f \in ToSet(r.rec.n), "unknown field"), r.rec, f)

ResolveProjection(c, st, base, known, f) ==
    LET i == IndexOfField(f)
        elems == [j \in 1 .. i |-> TV(st.n + j - 1)]
        st1 == UnifyIn(Taken(st, i), base, TTuple(elems))
    IN CASE Failed(st) -> [st |-> st, t |-> NoType]
         [] ~Failed(st) /\ base.k # "record" /\ i > 0 ->
              IF base.k = "tuple" /\ i <= Len(base.a) THEN [st |-> st, t |-> base.a[i]]
              ELSE IF base.k = "var" THEN [st |-> st1, t |-> At(st1, elems[i])]
              ELSE [st |-> Fail(st, "unknown field"), t |-> NoType]
         [] OTHER -> FieldOf(ResolveRecord(c, st, base, known, {f}), f)

(***************************************************************************)
(* Patterns.                                                               *)
(***************************************************************************)
Bind1(x, t) == [x |-> x, t |-> t]
Matched(st, p, b) == [st |-> st, p |-> p, b |-> b]

RECURSIVE InferPattern(_, _, _, _)
RECURSIVE InferPatterns(_, _, _, _)
\* ts gives the expected type of each pattern.
InferPatterns(c, st, ps, ts) ==
    IF ps = <<>> THEN Matched(st, <<>>, <<>>)
    ELSE LET h == InferPattern(c, st, Head(ps), Head(ts))
             r == InferPatterns(c, h.st, Tail(ps), Tail(ts))
         IN Matched(r.st, h.p \o r.p, h.b \o r.b)

Resolved(m) == Matched(m.st, m.p, [i \in DOMAIN m.b |-> Bind1(m.b[i].x, At(m.st, m.b[i].t))])

InferCtorPattern(c, st, p, scrut) ==
    LET x == p.nm[1]
        one == x \in DOMAIN c.env /\ Len(c.env[x]) = 1
        inst == Instantiate(SchemeAt(st, c.env[x][1]), st)
        d == Decompose(inst.t, Len(p.sub))
        st1 == IF x \notin DOMAIN c.env THEN Fail(st, "unknown variable")
               ELSE IF ~one THEN Fail(st, "ambiguous overload")
               ELSE Require(inst.st, Len(d.args) = Len(p.sub), "pattern constructor")
        st2 == IF Failed(st1) THEN st1 ELSE UnifyIn(st1, d.rest, scrut)
        r == InferPatterns(c, st2, p.sub, d.args)
    IN IF Failed(st2) THEN Matched(st2, <<>>, <<>>) ELSE Resolved(Matched(r.st, inst.p \o r.p, r.b))

InferPattern(c, st, p, scrut) ==
    LET t == At(st, scrut)
        n == Len(p.sub)
        elem == Fresh(st)
        tys == [i \in 1 .. n |-> TV(st.n + i - 1)]
        fields == [i \in DOMAIN p.nm |-> Segment(p.nm[i])]
        listOf(k) == UnifyIn(Taken(st, 1), t, TApp(k, elem))
    IN CASE Failed(st) -> Matched(st, <<>>, <<>>)
         [] ~Failed(st) /\ p.k = "pwild" -> Matched(st, <<>>, <<>>)
         [] ~Failed(st) /\ p.k = "pvar" -> Matched(st, <<>>, <<Bind1(p.nm[1], t)>>)
         [] ~Failed(st) /\ p.k = "pnamed" -> InferCtorPattern(c, st, p, t)
         [] ~Failed(st) /\ p.k = "plist" ->
              Resolved(InferPatterns(c, listOf(ListT), p.sub, [i \in 1 .. n |-> elem]))
         [] ~Failed(st) /\ p.k = "pcons" ->
              Resolved(InferPatterns(c, listOf(ListT), p.sub, <<elem, TApp(ListT, elem)>>))
         [] ~Failed(st) /\ p.k = "ptuple" ->
              Resolved(InferPatterns(c, UnifyIn(Taken(st, n), t, TTuple(tys)), p.sub, tys))
         [] ~Failed(st) /\ p.k = "pdict" /\ t.k = "record" ->
              LET st1 == Require(st, ToSet(fields) \subseteq ToSet(t.n), "unknown field")
              IN IF Failed(st1) THEN Matched(st1, <<>>, <<>>)
                 ELSE Resolved(InferPatterns(c, st1, p.sub, [i \in 1 .. n |-> FieldType(t, fields[i])]))
         [] ~Failed(st) /\ p.k = "pdict" /\ t.k # "record" ->
              Resolved(InferPatterns(c, listOf(DictT), p.sub, [i \in 1 .. n |-> elem]))

\* check_match_exhaustive: by the constructors of the outermost patterns only.
CoveredBy(c, adt, p) ==
    CASE p.k = "pnamed" -> LET r == CtorLookup(c, p.nm[1])
                           IN IF r.adt = adt THEN {QualifiedCtor(adt, VariantOf(c, r).name)} ELSE {}
      [] p.k = "plist" /\ adt = <<"List">> /\ p.sub = <<>> -> {<<"List", "Empty">>}
      [] p.k = "pcons" /\ adt = <<"List">> -> {<<"List", "Cons">>}
      [] OTHER -> {}

TypeOfPattern(c, p) == CASE p.k = "pnamed" -> CtorLookup(c, p.nm[1]).adt
                         [] p.k \in {"plist", "pcons"} -> <<"List">>
                         [] OTHER -> <<>>

Exhaustive(c, t, ps) ==
    LET named == {TypeOfPattern(c, ps[i]) : i \in DOMAIN ps} \ {<<>>}
        adt == IF HeadName(t) # <<>> THEN HeadName(t)
               ELSE IF Cardinality(named) = 1 THEN CHOOSE a \in named : TRUE ELSE <<>>
        ctors == {QualifiedCtor(adt, c.adts[adt].variants[i].name) : i \in DOMAIN c.adts[adt].variants}
    IN \/ \E i \in DOMAIN ps : ps[i].k \in {"pwild", "pvar"}
       \/ adt \notin DOMAIN c.adts
       \/ ctors \subseteq UNION {CoveredBy(c, adt, ps[i]) : i \in DOMAIN ps}

(***************************************************************************)
(* let rec groups: what a definition refers to, and the rule that a value  *)
(* only reaches bindings before it (validate_let_rec_bindings, whose       *)
(* search is the module LetRecGroup).                                      *)
(***************************************************************************)
RECURSIVE GroupRefs(_, _)
GroupRefs(e, names) ==
    IF e.k = "var" THEN names \cap {e.nm[1]}
    ELSE UNION {GroupRefs(e.sub[i], names \ {b.x : b \in ToSet(BindingsOver(e, i))}) : i \in DOMAIN e.sub}

RECURSIVE ReachedBy(_, _, _)
ReachedBy(e, reached, todo) ==
    IF todo = {} THEN reached
    ELSE LET j == CHOOSE x \in todo : TRUE
             next == IF Unannotated(e.sub[j]).k # "lam" THEN {}
                     ELSE {i \in DOMAIN e.nm : e.nm[i] \in GroupRefs(e.sub[j], ToSet(e.nm))}
         IN ReachedBy(e, reached \cup {j}, (todo \cup next) \ (reached \cup {j}))

ValidGroup(e) ==
    \A i \in DOMAIN e.nm :
        Unannotated(e.sub[i]).k # "lam" =>
            LET direct == {j \in DOMAIN e.nm : e.nm[j] \in GroupRefs(e.sub[i], ToSet(e.nm))}
            IN \A j \in ReachedBy(e, {}, direct) : j < i

(***************************************************************************)
(* The rules.  Infer(m, c, st, e) is infer_expr_type in mode "type" and    *)
(* infer_expr in mode "tree"; the definitions named ...Tree build the node *)
(* of the typed tree the second returns.                                   *)
(***************************************************************************)
Under(c, x, t) == [c EXCEPT !.env = (x :> <<Mono(t)>>) @@ @, !.known = Forgotten(@, {x})]
InEnv(c, x, sch) == [c EXCEPT !.env = (x :> <<sch>>) @@ @]

LiteralClasses(k) == CASE k = "uint" -> <<<<"Integral">>>>
                       [] k = "int" -> <<<<"Integral">>, <<"AdditiveGroup">>>>
                       [] k = "float" -> <<<<"Field">>>>
                       [] OTHER -> <<>>

LiteralTree(e, t) == Tree(e.k, t, <<>>, <<>>)

InferLiteral(st, e) ==
    LET t == CASE e.k = "bool" -> Bool [] e.k = "string" -> Str [] OTHER -> Fresh(st)
        cl == LiteralClasses(e.k)
    IN Typed(IF t.k = "var" THEN Taken(st, 1) ELSE st, [i \in DOMAIN cl |-> Pred(cl[i], t)], t, LiteralTree(e, t))

RECURSIVE Candidates(_, _)
Candidates(st, schemes) ==
    IF schemes = <<>> THEN [st |-> st, ts |-> <<>>]
    ELSE LET h == Instantiate(SchemeAt(st, Head(schemes)), st)
             r == Candidates(h.st, Tail(schemes))
         IN [st |-> r.st, ts |-> <<h.t>> \o r.ts]

VarTree(x, t, overloads) == [Tree("var", t, <<x>>, <<>>) EXCEPT !.ov = overloads]

\* A name with several schemes gets a variable of its own; which of them it stands for is
\* decided by the arguments.  Only the typed inference accepts polymorphic ones.
InferVar(m, c, st, x) ==
    LET schemes == IF x \in DOMAIN c.env THEN c.env[x] ELSE <<>>
        inst == Instantiate(SchemeAt(st, schemes[1]), st)
        plain(i) == schemes[i].preds = <<>> /\ (m = "type" => schemes[i].vars = <<>>)
        all == IF m = "tree" THEN Candidates(st, schemes) ELSE [st |-> st, ts |-> <<>>]
    IN CASE schemes = <<>> -> Nothing(Fail(st, "unknown variable"))
         [] Len(schemes) = 1 -> Typed(inst.st, inst.p, inst.t, VarTree(x, inst.t, <<>>))
         [] Len(schemes) > 1 /\ (\A i \in DOMAIN schemes : plain(i)) ->
              Typed(Taken(all.st, 1), <<>>, Fresh(all.st), VarTree(x, Fresh(all.st), all.ts))
         [] OTHER -> Nothing(Fail(st, "ambiguous overload"))

\* collect_lambda_chain: the parameters up to the second list of constraints.
RECURSIVE LamChain(_, _)
LamChain(e, seen) ==
    IF e.k # "lam" \/ (e.cs # <<>> /\ seen) THEN [ps |-> <<>>, cs |-> <<>>, body |-> e]
    ELSE LET r == LamChain(e.sub[1], seen \/ e.cs # <<>>)
         IN [ps |-> <<[x |-> e.nm[1], ann |-> e.ann[1]]>> \o r.ps,
             cs |-> IF e.cs # <<>> THEN e.cs ELSE r.cs, body |-> r.body]

RECURSIVE ParamTypes(_, _, _)
ParamTypes(c, st, ps) ==
    IF ps = <<>> THEN [st |-> st, ts |-> <<>>]
    ELSE LET a == Head(ps).ann
             t == IF a = <<>> THEN Fresh(st) ELSE Elab(c, c.tvars, a[1])
             r == ParamTypes(c, Require(IF a = <<>> THEN Taken(st, 1) ELSE st, Elaborated(t), "unknown type"), Tail(ps))
         IN [st |-> r.st, ts |-> <<t>> \o r.ts]

RECURSIVE UnderAll(_, _, _)
UnderAll(c, ps, ts) == IF ps = <<>> THEN c ELSE UnderAll(Under(c, Head(ps).x, Head(ts)), Tail(ps), Tail(ts))

RECURSIVE LamTree(_, _, _, _)
LamTree(st, ps, ts, body) ==
    IF ps = <<>> THEN body
    ELSE LET b == LamTree(st, Tail(ps), Tail(ts), body)
         IN Tree("lam", Fun(At(st, Head(ts)), b.t), <<Head(ps).x>>, <<b>>)

RECURSIVE AppChain(_)
AppChain(e) == IF e.k # "app" THEN [head |-> e, args |-> <<>>]
               ELSE LET r == AppChain(e.sub[1]) IN [head |-> r.head, args |-> Append(r.args, e.sub[2])]

\* An application under way: over says that the head is overloaded, cands what is left.
AppState(st, p, f, x, over, cands) == [st |-> st, p |-> p, f |-> f, x |-> x, over |-> over, cands |-> cands]

\* apply_typed_app_arg and the loop of the untyped inference: narrow, widen, unify.
ApplyArg(m, a, arg) ==
    LET st == arg.st
        t == At(st, arg.t)
        left == IF a.over THEN Narrow([i \in DOMAIN a.cands |-> At(st, a.cands[i])], t, arg.p) ELSE <<>>
        one == Len(left) = 1
        res == IF one THEN left[1] ELSE Fresh(st)
        st1 == IF one THEN st ELSE Taken(st, 1)
        arg1 == CoerceArg(m, st1, a.f, t, arg.x)
        st2 == UnifyIn(st1, a.f, Fun(arg1.t, res))
        out == At(st2, res)
    IN CASE Failed(st) -> AppState(st, <<>>, NoType, NoTree, FALSE, <<>>)
         [] ~Failed(st) /\ a.over /\ left = <<>> ->
              AppState(Fail(st, "ambiguous overload"), <<>>, NoType, NoTree, FALSE, <<>>)
         [] OTHER -> AppState(st2, a.p \o arg.p, out, Tree("app", out, <<>>, <<a.x, arg1.x>>), a.over, left)

\* constructor_project_symbol: `T.A` where T is a type and not a value.
CtorProjected(c, e) ==
    LET b == e.sub[1]
        q == QualifiedCtor(b.nm[1], e.nm[1])
    IN IF b.k = "var" /\ b.nm[1] \notin DOMAIN c.env /\ b.nm[1] \in DOMAIN c.adts
          /\ CtorLookup(c, q) # NoCtor THEN q ELSE <<>>

\* A record constructor applied to some of its fields only.
PartialCtor(c, e) ==
    LET r == CtorLookup(c, e.sub[1].nm[1])
    IN IF e.sub[1].k = "var" /\ e.sub[2].k = "dict" /\ r # NoCtor /\ HasFields(VariantOf(c, r))
          /\ ~(ToSet(VariantOf(c, r).args[1].n) \subseteq {Segment(k) : k \in ToSet(e.sub[2].nm)})
       THEN r ELSE NoCtor

RECURSIVE Infer(_, _, _, _)
RECURSIVE InferHinted(_, _, _, _, _)
RECURSIVE InferAll(_, _, _, _)
RECURSIVE InferFields(_, _, _, _, _, _)
RECURSIVE ApplyArgs(_, _, _, _)
RECURSIVE InferTail(_, _, _)
RECURSIVE InferElems(_, _, _, _, _)
RECURSIVE InferLet(_, _, _, _)
RECURSIVE InferGroup(_, _, _, _, _)
RECURSIVE InferArms(_, _, _, _, _, _)

InferAll(m, c, st, es) ==
    IF es = <<>> THEN <<>>
    ELSE LET h == Infer(m, c, st, Head(es)) IN <<h>> \o InferAll(m, c, h.st, Tail(es))

EndOf(st, rs) == IF rs = <<>> THEN st ELSE rs[Len(rs)].st
AllPreds(rs) == FlattenSeq([i \in DOMAIN rs |-> rs[i].p])
AllTrees(rs) == [i \in DOMAIN rs |-> rs[i].x]

\* The values of fields ks against the types rec gives them; hinted as the caller says.
InferFields(m, c, st, ks, es, h) ==
    IF ks = <<>> THEN <<>>
    ELSE LET f == Segment(Head(ks))
             known == f \in ToSet(h.rec.n)
             want == FieldType(h.rec, f)
             v == IF h.hinted THEN InferHinted(m, c, st, <<want>>, Head(es)) ELSE Infer(m, c, st, Head(es))
             w == Coerce(m, v.st, v.t, want, v.x)
             one == Typed(w.st, v.p, w.t, w.x)
         IN IF Failed(st) \/ ~known THEN <<Nothing(Fail(st, "unknown field"))>>
            ELSE <<one>> \o InferFields(m, c, one.st, Tail(ks), Tail(es), h)

UpdateTree(t, base, ks, xs) == Tree("update", t, ks, <<base>> \o xs)

\* A record update, the base unified with the type expected of it when there is one.
InferUpdated(m, c, b, r, e) ==
    LET fs == InferFields(m, c, r.st, e.nm, Tail(e.sub), [rec |-> r.rec, hinted |-> FALSE])
    IN IF Failed(r.st) THEN Nothing(r.st)
       ELSE Typed(EndOf(r.st, fs), b.p \o AllPreds(fs), r.t, UpdateTree(r.t, b.x, e.nm, AllTrees(fs)))

InferUpdate(m, c, st, hint, e) ==
    LET b == Infer(m, c, st, e.sub[1])
        st1 == IF hint = <<>> THEN b.st ELSE UnifyIn(b.st, b.t, hint[1])
        t == At(st1, b.t)
    IN InferUpdated(m, c, b, ResolveRecord(c, st1, t, KnownVariant(c, e.sub[1], t), {Segment(k) : k \in ToSet(e.nm)}), e)

\* A dict literal where a record is expected: its fields, all of them and no other.
InferRecordLiteral(m, c, st, rec, e) ==
    LET fs == InferFields(m, c, st, e.nm, e.sub, [rec |-> rec, hinted |-> TRUE])
        st1 == Require(EndOf(st, fs), ToSet(rec.n) \subseteq {Segment(k) : k \in ToSet(e.nm)}, "unknown field")
        t == At(st1, rec)
    IN Typed(st1, AllPreds(fs), t, Tree("dict", t, e.nm, AllTrees(fs)))

InferHinted(m, c, st, hint, e) ==
    CASE hint # <<>> /\ e.k = "update" -> InferUpdate(m, c, st, hint, e)
      [] hint # <<>> /\ e.k = "dict" /\ hint[1].k = "record" -> InferRecordLiteral(m, c, st, hint[1], e)
      [] OTHER -> Infer(m, c, st, e)

ApplyArgs(m, c, a, args) ==
    IF args = <<>> \/ Failed(a.st) THEN a
    ELSE LET f == At(a.st, a.f)
             hint == IF f.k = "fun" THEN <<f.a[1]>> ELSE <<>>
         IN ApplyArgs(m, c, ApplyArg(m, a, InferHinted(m, c, a.st, hint, Head(args))), Tail(args))

\* The head of an application and, if it is overloaded, its candidates.
AppHead(m, c, st, head) ==
    LET h == Infer(m, c, st, head)
        over == head.k = "var" /\ head.nm[1] \in DOMAIN c.env /\ Len(c.env[head.nm[1]]) > 1
        cands == IF m = "tree" THEN h.x.ov ELSE Candidates(h.st, c.env[head.nm[1]]).ts
    IN IF Failed(h.st) THEN AppState(h.st, <<>>, NoType, NoTree, FALSE, <<>>)
       ELSE AppState(h.st, h.p, h.t, h.x, over, IF over THEN cands ELSE <<>>)

\* infer_tail_app_chain_typed: f (g (h x)) from the inside out.  The constraints of the
\* inner application are not shown to the outer one's overloads.
InferTail(c, st, e) ==
    LET ch == AppChain(e)
        tail == ch.args[Len(ch.args)]
        r == InferTail(c, st, tail)
        a == ApplyArgs("tree", c, AppHead("tree", c, r.st, ch.head), Front(ch.args))
        out == ApplyArg("tree", a, Typed(a.st, <<>>, r.t, r.x))
    IN IF tail.k # "app" THEN Infer("tree", c, st, e) ELSE Typed(out.st, r.p \o out.p, out.f, out.x)

InferPartial(m, c, st, r, e) ==
    LET inst == InstantiateVariant(c, r, st.n)
        st1 == Require([st EXCEPT !.n = inst.n], Len(c.adts[r.adt].variants) = 1, "partial record")
        fs == InferFields(m, c, st1, e.sub[2].nm, e.sub[2].sub, [rec |-> inst.rec, hinted |-> TRUE])
        st2 == EndOf(st1, fs)
        t == At(st2, inst.t)
    IN Typed(st2, <<Pred(<<"Default">>, inst.t)>> \o AllPreds(fs), t,
             UpdateTree(t, Tree("method", inst.t, <<<<"default">>>>, <<>>), e.sub[2].nm, AllTrees(fs)))

AppTree(c, st, e) ==
    LET ch == AppChain(e)
        a == ApplyArgs("tree", c, AppHead("tree", c, st, ch.head), ch.args)
    IN IF ch.args[Len(ch.args)].k = "app" THEN InferTail(c, st, e) ELSE Typed(a.st, a.p, a.f, a.x)

InferApp(m, c, st, e) ==
    LET r == PartialCtor(c, e)
        ch == AppChain(e)
        a == ApplyArgs(m, c, AppHead(m, c, st, ch.head), ch.args)
    IN IF r # NoCtor THEN InferPartial(m, c, st, r, e)
       ELSE IF m = "tree" THEN AppTree(c, st, e) ELSE Typed(a.st, a.p, a.f, a.x)

ProjectTree(t, base, f) == Tree("project", t, <<f>>, <<base>>)

Projected(b, r, f) == Typed(r.st, b.p, r.t, ProjectTree(r.t, b.x, f))

InferProject(m, c, st, e) ==
    LET b == Infer(m, c, st, e.sub[1])
        t == At(b.st, b.t)
    IN IF CtorProjected(c, e) # <<>> THEN InferVar(m, c, st, CtorProjected(c, e))
       ELSE Projected(b, ResolveProjection(c, b.st, t, KnownVariant(c, e.sub[1], t), Segment(e.nm[1])), e.nm[1])

InferLam(m, c, st, e) ==
    LET ch == LamChain(e, FALSE)
        ps == ParamTypes(c, st, ch.ps)
        b == Infer(m, UnderAll(c, ch.ps, ps.ts), ps.st, ch.body)
        cs == ElabPreds(c, c.tvars, ch.cs)
        st1 == Require(b.st, \A i \in DOMAIN cs : Elaborated(cs[i].t), "unknown type")
        x == LamTree(st1, ch.ps, ps.ts, [b.x EXCEPT !.t = At(st1, b.t)])
    IN IF Failed(ps.st) \/ Failed(st1) THEN Nothing(IF Failed(ps.st) THEN ps.st ELSE st1)
       ELSE Typed(st1, b.p \o cs, x.t, x)

(***************************************************************************)
(* let and let rec.                                                        *)
(***************************************************************************)
\* A definition with its type parameters and its annotation.  keep: the definition sees
\* the parameters under the variables of the annotation (let), or under its own (let rec).
InferDefinition(m, c, st, tps, ann, d, keep) ==
    LET own == WithParams(c.tvars, tps, st.n)
        written == WithParams(c.tvars, tps, st.n + Len(tps))
        st0 == Require(st, ~ParamsClash(c.tvars, tps), "duplicate type parameter")
        t == Elab(c, written, ann[1])
        st1 == Require(Taken(st0, 2 * Len(tps)), Elaborated(t), "unknown type")
        h == InferHinted(m, [c EXCEPT !.tvars = IF keep THEN written ELSE own], st1, <<t>>, d)
        w == Coerce(m, h.st, h.t, t, h.x)
    IN IF ann = <<>> THEN Infer(m, [c EXCEPT !.tvars = own], Taken(st0, Len(tps)), d)
       ELSE IF Failed(st1) THEN Nothing(st1)
       ELSE Typed(w.st, h.p, w.t, w.x)

LetTree(t, x, d, b) == Tree("let", t, <<x>>, <<d, b>>)

\* A let's definition: its literals outside the type default, then it is generalised
\* unless it is a bare numeric literal.  What it requires stays in its scheme.
BareLiteral(e) == e.ann[1] = <<>> /\ e.sub[1].k \in NumericLiterals
LetScheme(c, e, q) == IF BareLiteral(e) THEN Scheme(<<>>, AtPreds(q.st, q.p), At(q.st, q.t))
                      ELSE Generalize(q.st, c.env, q.p, q.t)

WithLetBody(e, d, b) == Typed(b.st, b.p, b.t, LetTree(b.t, e.nm[1], d.x, b.x))

InferLetBody(m, c, st, e, d) ==
    IF Failed(st) THEN Nothing(st)
    ELSE WithLetBody(e, d, IF e.sub[2].k = "let" THEN InferLet(m, c, st, e.sub[2]) ELSE Infer(m, c, st, e.sub[2]))

InferLetUnder(m, c, e, d, q, sch) ==
    InferLetBody(m, [InEnv(c, e.nm[1], sch) EXCEPT !.known = Learned(@, e.nm[1], KnownVariant(c, e.sub[1], q.t))],
                 Require(q.st, BareLiteral(e) \/ ~Ambiguous(sch), "ambiguous type"), e, d)

InferLetDefined(m, c, e, d, q) == InferLetUnder(m, c, e, d, q, LetScheme(c, e, q))

InferLet(m, c, st, e) ==
    LET d == InferDefinition(m, c, st, e.tps[1], e.ann[1], e.sub[1], TRUE)
    IN IF Failed(d.st) THEN Nothing(d.st) ELSE InferLetDefined(m, c, e, d, DefaultLiterals(d.st, d.p, d.t))

\* The definitions of a group in order, each unified with the variable its name was
\* seeded with; [st, known, defs].
InferGroup(m, c, st, e, i) ==
    IF i > Len(e.nm) \/ Failed(st) THEN [st |-> st, known |-> c.known, defs |-> <<>>]
    ELSE LET d == InferDefinition(m, c, st, e.tps[i], e.ann[i], e.sub[i], FALSE)
             seed == c.env[e.nm[i]][1].t
             st1 == UnifyIn(d.st, seed, d.t)
             q == DefaultLiterals(st1, d.p, seed)
             known == Learned(c.known, e.nm[i], KnownVariant(c, e.sub[i], q.t))
             rest == InferGroup(m, [c EXCEPT !.known = known], q.st, e, i + 1)
         IN IF Failed(st1) THEN [st |-> st1, known |-> c.known, defs |-> <<>>]
            ELSE [rest EXCEPT !.defs = <<Typed(q.st, q.p, q.t, d.x)>> \o @]

RECURSIVE GroupEnv(_, _, _, _)
GroupEnv(st, env, xs, defs) ==
    IF xs = <<>> THEN [st |-> st, env |-> env]
    ELSE LET sch == Generalize(st, env, Head(defs).p, Head(defs).t)
         IN GroupEnv(Require(st, ~Ambiguous(sch), "ambiguous type"),
                     (Head(xs) :> <<sch>>) @@ env, Tail(xs), Tail(defs))

LetRecTree(t, xs, defs, b) == Tree("letrec", t, xs, Append(defs, b))

InferLetRec(m, c, st, e) ==
    LET n == Len(e.nm)
        st0 == Require(st, ValidGroup(e), "let rec initialization")
        seeded == UnderAll(c, [i \in 1 .. n |-> [x |-> e.nm[i]]], [i \in 1 .. n |-> TV(st.n + i - 1)])
        g == InferGroup(m, seeded, Taken(st0, n), e, 1)
        ge == GroupEnv(g.st, c.env, e.nm, g.defs)
        b == Infer(m, [c EXCEPT !.env = ge.env, !.known = g.known], ge.st, e.sub[n + 1])
    IN IF Failed(st0) THEN Nothing(st0)
       ELSE IF Failed(g.st) THEN Nothing(g.st)
       ELSE Typed(b.st, b.p, b.t, LetRecTree(b.t, e.nm, AllTrees(g.defs), b.x))

(***************************************************************************)
(* Conditionals, collections, matches and annotations.                     *)
(***************************************************************************)
IteTree(t, xs) == Tree("ite", t, <<>>, xs)

InferIte(m, c, st, e) ==
    LET p == Infer(m, c, st, e.sub[1])
        a == Infer(m, c, UnifyIn(p.st, p.t, Bool), e.sub[2])
        b == Infer(m, c, a.st, e.sub[3])
        st1 == UnifyIn(b.st, a.t, b.t)
        t == At(st1, a.t)
    IN IF Failed(b.st) THEN Nothing(b.st) ELSE Typed(st1, p.p \o a.p \o b.p, t, IteTree(t, <<p.x, a.x, b.x>>))

InferTuple(m, c, st, e) ==
    LET rs == InferAll(m, c, st, e.sub)
        t == TTuple([i \in DOMAIN rs |-> At(rs[i].st, rs[i].t)])
    IN IF Failed(EndOf(st, rs)) THEN Nothing(EndOf(st, rs))
       ELSE Typed(EndOf(st, rs), AllPreds(rs), t, Tree("tuple", t, <<>>, AllTrees(rs)))

\* Elements of one type.
InferElems(m, c, st, es, elem) ==
    IF es = <<>> THEN <<>>
    ELSE LET h == Infer(m, c, st, Head(es))
             one == [h EXCEPT !.st = UnifyIn(h.st, h.t, elem)]
         IN <<one>> \o InferElems(m, c, one.st, Tail(es), elem)

CollectionTree(e, t, rs) == Tree(e.k, t, e.nm, AllTrees(rs))

InferCollection(m, c, st, e) ==
    LET rs == InferElems(m, c, Taken(st, 1), e.sub, Fresh(st))
        st1 == EndOf(Taken(st, 1), rs)
        t == TApp(IF e.k = "list" THEN ListT ELSE DictT, At(st1, Fresh(st)))
    IN Typed(st1, AllPreds(rs), t, CollectionTree(e, t, rs))

\* In an arm on a variable the variable is known to be the arm's constructor.  What was
\* known of a name the pattern binds stays known.
ArmKnown(c, e, i) ==
    LET x == e.sub[1].nm[1] p == e.pats[i]
    IN IF e.sub[1].k # "var" THEN c.known
       ELSE Learned(c.known, x, IF p.k = "pnamed" THEN CtorLookup(c, p.nm[1]) ELSE NoCtor)

BoundIn(c, bs) ==
    LET last(x) == bs[CHOOSE i \in DOMAIN bs : bs[i].x = x /\ \A j \in DOMAIN bs : bs[j].x = x => j <= i].t
    IN [c EXCEPT !.env = [x \in {b.x : b \in ToSet(bs)} |-> <<Mono(last(x))>>] @@ @]

InferArms(m, c, st, e, i, t) ==
    IF i > Len(e.pats) THEN <<>>
    ELSE LET p == InferPattern(c, st, e.pats[i], At(st, t.scrut))
             a == Infer(m, [BoundIn(c, Resolved(p).b) EXCEPT !.known = ArmKnown(c, e, i)], p.st, e.sub[i + 1])
             one == Typed(UnifyIn(a.st, t.res, a.t), p.p \o a.p, a.t, a.x)
         IN IF Failed(p.st) THEN <<Nothing(p.st)>> ELSE <<one>> \o InferArms(m, c, one.st, e, i + 1, t)

\* The names of each arm's pattern, in place of the patterns.
MatchTree(t, ps, s, arms) == Tree("match", t, [i \in DOMAIN ps |-> SetToSeq(PatternNames(ps[i]))], <<s>> \o arms)

InferMatch(m, c, st, e) ==
    LET s == Infer(m, c, st, e.sub[1])
        res == Fresh(s.st)
        arms == InferArms(m, c, Taken(s.st, 1), e, 1, [scrut |-> s.t, res |-> res])
        st1 == EndOf(Taken(s.st, 1), arms)
        st2 == Require(st1, Failed(st1) \/ Exhaustive(c, At(st1, s.t), e.pats), "non-exhaustive match")
        t == At(st2, res)
    IN IF Failed(s.st) THEN Nothing(s.st)
       ELSE Typed(st2, s.p \o AllPreds(arms), t, MatchTree(t, e.pats, s.x, AllTrees(arms)))

InferAnn(m, c, st, e) ==
    LET t == Elab(c, c.tvars, e.ann[1][1])
        st1 == Require(st, Elaborated(t), "unknown type")
        h == InferHinted(m, c, st1, <<t>>, e.sub[1])
        w == Coerce(m, h.st, h.t, t, h.x)
    IN IF Failed(st1) THEN Nothing(st1) ELSE Typed(w.st, h.p, w.t, w.x)

\* with_infer_depth around the rule of the expression's kind.
Infer(m, ctx, st, e) ==
    LET c == [ctx EXCEPT !.depth = @ + 1]
    IN CASE Failed(st) -> Nothing(st)
         [] ~Failed(st) /\ ctx.depth >= ctx.limit -> Nothing(Fail(st, "too deep"))
         [] ~Failed(st) /\ ctx.depth < ctx.limit ->
              CASE e.k \in Literals \cup {"hole"} -> InferLiteral(st, e)
                [] e.k = "var" -> InferVar(m, c, st, e.nm[1])
                [] e.k = "lam" -> InferLam(m, c, st, e)
                [] e.k = "app" -> InferApp(m, c, st, e)
                [] e.k = "project" -> InferProject(m, c, st, e)
                [] e.k = "update" -> InferUpdate(m, c, st, <<>>, e)
                [] e.k = "let" -> InferLet(m, c, st, e)
                [] e.k = "letrec" -> InferLetRec(m, c, st, e)
                [] e.k = "ite" -> InferIte(m, c, st, e)
                [] e.k = "tuple" -> InferTuple(m, c, st, e)
                [] e.k \in {"list", "dict"} -> InferCollection(m, c, st, e)
                [] e.k = "match" -> InferMatch(m, c, st, e)
                [] e.k = "ann" -> InferAnn(m, c, st, e)

(***************************************************************************)
(* infer and infer_typed: the public entry points.                         *)
(***************************************************************************)
\* The arguments a type still takes, -1 when it is not known.
RECURSIVE RemainingArity(_, _)
RemainingArity(c, t) ==
    CASE t.k = "var" -> -1
      [] t.k = "con" -> Arity(c, t.n)
      [] t.k = "app" -> LET a == RemainingArity(c, t.a[1]) IN IF a > 0 THEN a - 1 ELSE a
      [] OTHER -> 0

\* The largest number of arguments variable v is applied to.
RECURSIVE HeadArity(_, _)
HeadArity(t, v) ==
    LET below == {HeadArity(t.a[i], v) : i \in DOMAIN t.a} \cup {0}
        here == IF t.k = "app" /\ Spine(t).head = TV(v) THEN Len(Spine(t).args) ELSE 0
    IN Max(below \cup {here})

\* What the parameters of a class are applied to, as its methods show; a method is its
\* scheme and the variables its class parameters have in it.
ClassArities(info) ==
    [i \in 1 .. info.arity |->
        Max({0} \cup {HeadArity(info.methods[x].sch.t, info.methods[x].ps[i]) : x \in DOMAIN info.methods})]

\* The types a predicate gives the parameters of its class, none if it gives another number.
ClassArgs(info, t) == CASE info.arity = 1 -> <<t>>
                        [] info.arity > 1 /\ t.k = "tuple" /\ Len(t.a) = info.arity -> t.a
                        [] OTHER -> <<>>

KindsOk(c, ps) ==
    \A i \in DOMAIN ps : ps[i].c \in DOMAIN c.info =>
        LET args == ClassArgs(c.info[ps[i].c], ps[i].t)
        IN \A j \in DOMAIN args : RemainingArity(c, args[j]) \in {-1, ClassArities(c.info[ps[i].c])[j]}

FieldsHold(ps) == \A i \in DOMAIN ps : ps[i].c = <<"Field">> => CanHold(ps[i])
IntegralsHold(ps) == \A i \in DOMAIN ps : ps[i].c = <<"Integral">> => CanHold(ps[i])

Answer(ok, p, t, x, err) == [ok |-> ok, p |-> p, t |-> t, x |-> x, err |-> err]

RECURSIVE ApplyTree(_, _)
ApplyTree(s, x) == [x EXCEPT !.t = Apply(s, @), !.ov = [i \in DOMAIN @ |-> Apply(s, @[i])],
                             !.sub = [i \in DOMAIN @ |-> ApplyTree(s, @[i])]]

InferTyped(c, e, n) ==
    LET r == Infer("tree", c, NewState(n), e)
        s == IntoSubst(r.st.s)
        ps == Distinct(ApplyPreds(s, r.p))
    IN IF Failed(r.st) THEN Answer(FALSE, <<>>, NoType, NoTree, r.st.err)
       ELSE IF ~KindsOk(c, ps) THEN Answer(FALSE, <<>>, NoType, NoTree, "kind")
       ELSE IF ~FieldsHold(ps) THEN Answer(FALSE, <<>>, NoType, NoTree, "unification")
       ELSE Answer(TRUE, ps, Apply(s, r.t), ApplyTree(s, r.x), "")

\* finalize_infer_for_public_api: every literal left takes its default.
Finalize(ps, t) ==
    LET of(v) == {DefaultOf(ps[i].c) : i \in {j \in DOMAIN ps : ps[j].t = TV(v)}} \ {NoType}
        vs == {v \in PredsFtv(ps) : of(v) # {}}
        s == [v \in vs |-> CHOOSE d \in of(v) : TRUE]
        qs == IF vs = {} THEN ps ELSE Distinct(ApplyPreds(s, ps))
    IN IF (\E v \in vs : Cardinality(of(v)) > 1) \/ ~FieldsHold(qs) \/ ~IntegralsHold(qs)
       THEN Answer(FALSE, <<>>, NoType, NoTree, "unification")
       ELSE Answer(TRUE, qs, Apply(s, t), NoTree, "")

InferType(c, e, n) ==
    LET r == Infer("type", c, NewState(n), e)
        s == IntoSubst(r.st.s)
        ps == Distinct(ApplyPreds(s, r.p))
    IN IF Failed(r.st) THEN Answer(FALSE, <<>>, NoType, NoTree, r.st.err)
       ELSE IF ~KindsOk(c, ps) THEN Answer(FALSE, <<>>, NoType, NoTree, "kind")
       ELSE Finalize(ps, Apply(s, r.t))
=============================================================================
