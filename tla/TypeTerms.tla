------------------------------ MODULE TypeTerms ------------------------------
(***************************************************************************)
(* Types, substitutions, schemes and the two unifiers of rex-typesystem.   *)
(* A type is a record of one shape: its kind, the constructor's name or    *)
(* the field names of a record, the number of a variable and its parts.    *)
(***************************************************************************)
EXTENDS Integers, Sequences, FiniteSets, SequencesExt

TV(i) == [k |-> "var", n |-> <<>>, v |-> i, a |-> <<>>]
Con(c) == [k |-> "con", n |-> c, v |-> 0, a |-> <<>>]
TApp(f, x) == [k |-> "app", n |-> <<>>, v |-> 0, a |-> <<f, x>>]
Fun(a, b) == [k |-> "fun", n |-> <<>>, v |-> 0, a |-> <<a, b>>]
TTuple(ts) == [k |-> "tuple", n |-> <<>>, v |-> 0, a |-> ts]
TRecord(fs, ts) == [k |-> "record", n |-> fs, v |-> 0, a |-> ts]

Bool == Con(<<"Bool">>)
Str == Con(<<"String">>)
I32 == Con(<<"i32">>)
F32 == Con(<<"f32">>)
ListT == Con(<<"List">>)
DictT == Con(<<"Dict">>)
NoType == Con(<<"?">>)

Prims(names) == {Con(<<x>>) : x \in names}
Signed == {"i8", "i16", "i32", "i64"}
Unsigned == {"u8", "u16", "u32", "u64"}
IntegralTypes == Prims(Signed \cup Unsigned)
FloatTypes == Prims({"f32", "f64"})
AdditiveGroupTypes == Prims(Signed) \cup FloatTypes

Bits(x) == CASE x \in {"i8", "u8"} -> 8 [] x \in {"i16", "u16"} -> 16
             [] x \in {"i32", "u32"} -> 32 [] OTHER -> 64

\* A value of the source type is a value of the target type, which is wider.
Widens(src, dst) ==
    /\ src \in IntegralTypes /\ dst \in IntegralTypes
    /\ LET s == src.n[1] d == dst.n[1]
       IN /\ Bits(s) < Bits(d)
          /\ s \in Signed => d \in Signed

Pred(c, t) == [c |-> c, t |-> t]
Scheme(vs, ps, t) == [vars |-> vs, preds |-> ps, t |-> t]
Mono(t) == Scheme(<<>>, <<>>, t)

NoSubst == <<>>

RECURSIVE Apply(_, _)
Apply(s, t) ==
    IF t.k = "var" THEN IF t.v \in DOMAIN s THEN s[t.v] ELSE t
    ELSE [t EXCEPT !.a = [i \in DOMAIN t.a |-> Apply(s, t.a[i])]]

ApplyPreds(s, ps) == [i \in DOMAIN ps |-> Pred(ps[i].c, Apply(s, ps[i].t))]

RECURSIVE Ftv(_)
Ftv(t) == IF t.k = "var" THEN {t.v} ELSE UNION {Ftv(t.a[i]) : i \in DOMAIN t.a}

PredsFtv(ps) == UNION {Ftv(ps[i].t) : i \in DOMAIN ps}

\* Scheme::apply leaves the quantified variables alone.
ApplyScheme(s, sch) ==
    LET free == [v \in DOMAIN s \ ToSet(sch.vars) |-> s[v]]
    IN Scheme(sch.vars, ApplyPreds(free, sch.preds), Apply(free, sch.t))

SchemeFtv(sch) == (Ftv(sch.t) \cup PredsFtv(sch.preds)) \ ToSet(sch.vars)

\* `a` after `b`.
Compose(a, b) ==
    [v \in DOMAIN a \cup DOMAIN b |-> IF v \in DOMAIN a THEN a[v] ELSE Apply(a, b[v])]

\* Unifier::prune: the type with every bound variable resolved.  The path compression
\* it does on the way does not change what a later prune returns.
RECURSIVE Prune(_, _)
Prune(s, t) ==
    IF t.k = "var" THEN IF t.v \in DOMAIN s THEN Prune(s, s[t.v]) ELSE t
    ELSE [t EXCEPT !.a = [i \in DOMAIN t.a |-> Prune(s, t.a[i])]]

Bound(s, v, t) == [i \in DOMAIN s \cup {v} |-> IF i = v THEN t ELSE s[i]]

Unified(s) == [ok |-> TRUE, s |-> s]
Clash(s) == [ok |-> FALSE, s |-> s]

(***************************************************************************)
(* Unifier::unify, on the substitution the inference accumulates.          *)
(***************************************************************************)
BindNoOccurs(s, v, t) == Unified(Bound(s, v, t))

Bind(s, v, t) == IF v \in Ftv(Prune(s, t)) THEN Clash(s) ELSE Unified(Bound(s, v, t))

RECURSIVE Unify(_, _, _)
RECURSIVE UnifyAll(_, _, _)
UnifyAll(s, ts, us) ==
    IF ts = <<>> THEN Unified(s)
    ELSE LET r == Unify(s, Head(ts), Head(us))
         IN IF r.ok THEN UnifyAll(r.s, Tail(ts), Tail(us)) ELSE r

\* A record against an applied type: the head is or becomes Dict, the fields share one
\* type, which the argument is.
UnifyRecordApp(s, rec, app) ==
    LET head == app.a[1]
        h == IF head.k = "var" THEN Unify(s, head, DictT)
             ELSE IF head = DictT THEN Unified(s) ELSE Clash(s)
        same == [i \in 1 .. Len(rec.a) - 1 |-> rec.a[1]]
        e == IF h.ok THEN UnifyAll(h.s, same, Tail(rec.a)) ELSE h
    IN IF rec.a = <<>> \/ ~e.ok THEN Clash(s) ELSE Unify(e.s, app.a[2], rec.a[1])

Unify(s, t1, t2) ==
    LET a == Prune(s, t1)
        b == Prune(s, t2)
    IN CASE a.k = "var" /\ b.k = "var" /\ a.v = b.v -> Unified(s)
         [] a.k = "var" /\ a # b -> Bind(s, a.v, b)
         [] b.k = "var" /\ a.k # "var" -> Bind(s, b.v, a)
         [] a.k = b.k /\ a.k # "var" ->
              IF a.n = b.n /\ Len(a.a) = Len(b.a) THEN UnifyAll(s, a.a, b.a) ELSE Clash(s)
         [] a.k = "record" /\ b.k = "app" -> UnifyRecordApp(s, a, b)
         [] a.k = "app" /\ b.k = "record" -> UnifyRecordApp(s, b, a)
         [] OTHER -> Clash(s)

\* Unifier::into_subst.
IntoSubst(s) == [v \in DOMAIN s |-> Prune(s, s[v])]

(***************************************************************************)
(* unify: the unifier that returns a substitution of its own and composes  *)
(* the substitutions of the parts.                                         *)
(***************************************************************************)
RECURSIVE Mgu(_, _)
RECURSIVE MguAll(_, _, _)
MguAll(s, ts, us) ==
    IF ts = <<>> THEN Unified(s)
    ELSE LET r == Mgu(Apply(s, Head(ts)), Apply(s, Head(us)))
         IN IF r.ok THEN MguAll(Compose(r.s, s), Tail(ts), Tail(us)) ELSE r

MguRecordApp(rec, app) ==
    LET head == app.a[1]
        h == IF head.k = "var" THEN [i \in {head.v} |-> DictT] ELSE NoSubst
        same == [i \in 1 .. Len(rec.a) - 1 |-> rec.a[1]]
        f == MguAll(NoSubst, same, Tail(rec.a))
        arg == Mgu(Apply(f.s, Apply(h, app.a[2])), Apply(f.s, rec.a[1]))
    IN IF rec.a = <<>> \/ ~(head.k = "var" \/ head = DictT) \/ ~f.ok \/ ~arg.ok THEN Clash(NoSubst)
       ELSE Unified(Compose(arg.s, Compose(f.s, h)))

Mgu(a, b) ==
    CASE a.k = "record" /\ b.k = "app" -> MguRecordApp(a, b)
      [] a.k = "app" /\ b.k = "record" -> MguRecordApp(b, a)
      [] a.k = "var" /\ b.k = "var" /\ a.v = b.v -> Unified(NoSubst)
      [] a.k = "var" /\ a # b -> IF a.v \in Ftv(b) THEN Clash(NoSubst)
                                 ELSE Unified([i \in {a.v} |-> b])
      [] b.k = "var" /\ a.k # "var" -> IF b.v \in Ftv(a) THEN Clash(NoSubst)
                                       ELSE Unified([i \in {b.v} |-> a])
      [] a.k = b.k /\ a.k # "var" ->
           IF a.n = b.n /\ Len(a.a) = Len(b.a) THEN MguAll(NoSubst, a.a, b.a) ELSE Clash(NoSubst)
      [] OTHER -> Clash(NoSubst)

Builtins == {<<x>> : x \in Signed \cup Unsigned \cup {"f32", "f64", "Bool", "Char", "String",
                "UUID", "Hash", "DateTime", "List", "Dict", "Option", "Promise", "Result"}}
BuiltinArity(c) == CASE c \in {<<"List">>, <<"Dict">>, <<"Option">>, <<"Promise">>} -> 1
                     [] c = <<"Result">> -> 2
                     [] OTHER -> 0

\* type_head_name: the head constructor of a type, <<>> for a builtin or none.
RECURSIVE HeadName(_)
HeadName(t) == CASE t.k = "app" -> HeadName(t.a[1])
                 [] t.k = "con" /\ t.n \notin Builtins -> t.n
                 [] OTHER -> <<>>

RECURSIVE FunOf(_, _)
FunOf(as, r) == IF as = <<>> THEN r ELSE Fun(Head(as), FunOf(Tail(as), r))

RECURSIVE AppOf(_, _)
AppOf(f, as) == IF as = <<>> THEN f ELSE AppOf(TApp(f, Head(as)), Tail(as))

\* decompose_fun: the first n parameters and the rest; Len(args) < n when it has fewer.
RECURSIVE Decompose(_, _)
Decompose(t, n) ==
    IF n = 0 \/ t.k # "fun" THEN [args |-> <<>>, rest |-> t]
    ELSE LET r == Decompose(t.a[2], n - 1)
         IN [args |-> <<t.a[1]>> \o r.args, rest |-> r.rest]

\* scheme_compatible: one unifier makes the types and the constraints equal.
SchemesCompatible(x, y) ==
    LET r == Mgu(x.t, y.t)
    IN r.ok /\ ToSet(ApplyPreds(r.s, x.preds)) = ToSet(ApplyPreds(r.s, y.preds))

-----------------------------------------------------------------------------
(* Type annotations: from the written type to a type, with the declared      *)
(* types, the aliases and the type parameters in scope; the constructors of  *)
(* the declared types and their record fields.  c.adts maps a type to        *)
(* [params, variants], a variant being [name, args]; c.aliases maps an alias *)
(* to [params, t].                                                           *)


\* A type the annotation does not name: the error of the elaboration.
Unknown == Con(<<"?">>)
Cyclic == Con(<<"?", "cycle">>)

RECURSIVE Elaborated(_)
Elaborated(t) == t \notin {Unknown, Cyclic} /\ \A i \in DOMAIN t.a : Elaborated(t.a[i])

IsType(c, name) == name \in DOMAIN c.adts \cup DOMAIN c.aliases \cup Builtins

Arity(c, name) == CASE name \in DOMAIN c.adts -> Len(c.adts[name].params)
                    [] name \in DOMAIN c.aliases -> Len(c.aliases[name].params)
                    [] OTHER -> BuiltinArity(name)

Normal(name) == IF name = <<"str">> THEN <<"String">> ELSE name

\* `Result e a` is written with the error last and kept with it first.
ResultSyntax(f, x) ==
    IF f.k = "app" /\ f.a[1] = Con(<<"Result">>) THEN TApp(TApp(f.a[1], x), f.a[2]) ELSE TApp(f, x)

RECURSIVE ElabRaw(_, _, _)
ElabRaw(c, vars, te) ==
    CASE te.k = "con" -> LET x == Normal(te.n)
                         IN IF IsType(c, x) THEN Con(x)
                            ELSE IF x \in DOMAIN vars THEN TV(vars[x]) ELSE Unknown
      [] te.k = "app" -> ResultSyntax(ElabRaw(c, vars, te.a[1]), ElabRaw(c, vars, te.a[2]))
      [] OTHER -> [te EXCEPT !.a = [i \in DOMAIN te.a |-> ElabRaw(c, vars, te.a[i])]]

RECURSIVE Spine(_)
Spine(t) == IF t.k = "app" THEN LET r == Spine(t.a[1]) IN [head |-> r.head, args |-> Append(r.args, t.a[2])]
            ELSE [head |-> t, args |-> <<>>]

\* An alias applied to all its parameters is replaced by its body, whose aliases are
\* expanded in turn; an alias met inside itself is an error.
RECURSIVE Expand(_, _, _)
Expand(c, t, expanding) ==
    LET e == [t EXCEPT !.a = [i \in DOMAIN t.a |-> Expand(c, t.a[i], expanding)]]
        sp == Spine(e)
        alias == sp.head.n
    IN IF sp.head.k # "con" \/ alias \notin DOMAIN c.aliases THEN e
       ELSE IF Len(sp.args) # Len(c.aliases[alias].params) THEN e
       ELSE IF alias \in expanding THEN Cyclic
       ELSE LET ps == c.aliases[alias].params
                sub == [v \in ToSet(ps) |-> sp.args[CHOOSE i \in DOMAIN ps : ps[i] = v]]
            IN Expand(c, Apply(sub, c.aliases[alias].t), expanding \cup {alias})

Elab(c, vars, te) == Expand(c, ElabRaw(c, vars, te), {})

ElabPreds(c, vars, cs) == [i \in DOMAIN cs |-> Pred(cs[i].c, Elab(c, vars, cs[i].t))]

\* Type parameters get fresh variables from n on; declaring one twice is an error.
WithParams(vars, ps, n) ==
    [x \in DOMAIN vars \cup ToSet(ps) |->
        IF x \in DOMAIN vars THEN vars[x] ELSE n + (CHOOSE i \in DOMAIN ps : ps[i] = x) - 1]
ParamsClash(vars, ps) == ToSet(ps) \cap DOMAIN vars # {} \/ ~IsInjective(ps)

(***************************************************************************)
(* Constructors.  A variant is known under its type's name and, for older  *)
(* programs, without it.                                                   *)
(***************************************************************************)
Segment(name) == name[Len(name)]
QualifiedCtor(adt, variant) == Append(adt, Segment(variant))
CompatCtor(adt, variant) == Append(Front(adt), Segment(variant))

ResultType(adt, decl) == AppOf(Con(adt), [i \in DOMAIN decl.params |-> TV(decl.params[i])])

CtorScheme(adt, decl, i) == Scheme(decl.params, <<>>, FunOf(decl.variants[i].args, ResultType(adt, decl)))

NoCtor == [adt |-> <<>>, i |-> 0]

\* The qualified name decides; a compatibility name only when one type has it.
CtorLookup(c, name) ==
    LET q == {[adt |-> a, i |-> i] : a \in DOMAIN c.adts, i \in 1 .. 3}
        of(r) == r.i \in DOMAIN c.adts[r.adt].variants
        full == {r \in q : of(r) /\ QualifiedCtor(r.adt, c.adts[r.adt].variants[r.i].name) = name}
        short == {r \in q : of(r) /\ CompatCtor(r.adt, c.adts[r.adt].variants[r.i].name) = name}
    IN CASE full # {} -> CHOOSE r \in full : TRUE
         [] full = {} /\ Cardinality(short) = 1 -> CHOOSE r \in short : TRUE
         [] OTHER -> NoCtor

VariantOf(c, r) == c.adts[r.adt].variants[r.i]

\* record_fields: a variant of one record argument.
HasFields(v) == Len(v.args) = 1 /\ v.args[1].k = "record"

FieldType(rec, f) == rec.a[CHOOSE i \in DOMAIN rec.n : rec.n[i] = f]

\* instantiate_variant_fields with the type's parameters renamed from n on.
InstantiateVariant(c, r, n) ==
    LET ps == c.adts[r.adt].params
        sub == [v \in ToSet(ps) |-> TV(n + (CHOOSE i \in DOMAIN ps : ps[i] = v) - 1)]
    IN [t |-> Apply(sub, ResultType(r.adt, c.adts[r.adt])),
        rec |-> Apply(sub, VariantOf(c, r).args[1]), n |-> n + Len(ps)]
==============================================================================
