----------------------------- MODULE Declarations -----------------------------
(***************************************************************************)
(* Declarations in the type system (rex-typesystem/src/typesystem.rs):     *)
(* types, classes, forward declarations, functions and instances enter the *)
(* environment in that order, whatever order they are written in, and the  *)
(* bodies are checked last.                                                *)
(*                                                                         *)
(* A type system is the context of the inference with the classes'         *)
(* superclasses, the instances, the names that are only declared, the next *)
(* fresh variable and the first error.  What was registered before an      *)
(* error stays, but for the values of a group of functions.                *)
(***************************************************************************)
EXTENDS Inference

Reject(ts, cond, e) == IF ts.err = "" /\ cond THEN [ts EXCEPT !.err = e] ELSE ts
Ok(ts) == ts.err = ""
Names(ds) == [i \in DOMAIN ds |-> ds[i].name]
FreshVars(n, k) == [i \in 1 .. k |-> n + i - 1]
VarsFrom(ps, n) == WithParams(<<>>, ps, n)

(***************************************************************************)
(* Classes: the closure under superclasses and entailment.                 *)
(***************************************************************************)
RECURSIVE SuperClosure(_, _)
SuperClosure(c, P) ==
    LET Q == P \cup UNION {{Pred(s, p.t) : s \in IF p.c \in DOMAIN c.classes THEN c.classes[p.c] ELSE {}} : p \in P}
    IN IF Q = P THEN P ELSE SuperClosure(c, Q)

\* entails: a given constraint, or an instance whose head unifies and whose context holds.
RECURSIVE Entails(_, _, _)
Entails(c, given, p) ==
    LET closure == SuperClosure(c, given)
        insts == IF p.c \in DOMAIN c.insts THEN c.insts[p.c] ELSE <<>>
        by(i) == LET u == Mgu(i.t, p.t)
                 IN u.ok /\ \A q \in ToSet(ApplyPreds(u.s, i.ctx)) :
                                q.c \in DOMAIN c.classes /\ Entails(c, closure, q)
    IN p \in closure \/ \E i \in ToSet(insts) : by(i)

KnownClass(c, p) == p.c \in DOMAIN c.classes

\* check_non_ground_predicates_declared; constraints are told apart by the variable and
\* not by the name a variable is shown with.
Declared(c, declared, inferred) ==
    \A p \in ToSet(inferred) : Ftv(p.t) = {} \/ p \in SuperClosure(c, ToSet(declared))

(***************************************************************************)
(* Types.                                                                  *)
(***************************************************************************)
TypeHeader(ts, d) ==
    LET ps == FreshVars(ts.n, Len(d.tps))
        ts1 == Reject(Reject(ts, d.name \in Builtins, "reserved type"),
                      d.name \in DOMAIN ts.adts \cup DOMAIN ts.aliases, "duplicate type")
    IN IF ~Ok(ts1) THEN ts1
       ELSE IF d.head # <<>> THEN [ts1 EXCEPT !.n = @ + Len(ps), !.aliases = (d.name :> [params |-> ps, t |-> NoType]) @@ @]
       ELSE [ts1 EXCEPT !.n = @ + Len(ps), !.adts = (d.name :> [params |-> ps, variants |-> <<>>]) @@ @]

AliasVars(ps, written) == [x \in ToSet(written) |-> ps[CHOOSE i \in DOMAIN written : written[i] = x]]

AliasBody(ts, d) ==
    LET ps == ts.aliases[d.name].params
        t == ElabRaw(ts, AliasVars(ps, d.tps), d.head[1])
    IN IF ~Ok(ts) \/ d.head = <<>> THEN ts
       ELSE IF ~Elaborated(t) THEN Reject(ts, TRUE, "unknown type")
       ELSE [ts EXCEPT !.aliases[d.name].t = t]

AliasExpands(ts, d) ==
    LET a == ts.aliases[d.name]
    IN IF ~Ok(ts) \/ d.head = <<>> THEN ts
       ELSE Reject(ts, ~Elaborated(Expand(ts, AppOf(Con(d.name), [i \in DOMAIN a.params |-> TV(a.params[i])]), {})),
                   "cyclic alias")

\* register_value_scheme and register_constructor_value: the same scheme again changes
\* nothing, a unifiable one is dropped, any other is an overload.
RegisterValue(ts, x, sch) ==
    IF x \notin DOMAIN ts.env THEN [ts EXCEPT !.env = (x :> <<sch>>) @@ @]
    ELSE IF \E i \in DOMAIN ts.env[x] : Mgu(ts.env[x][i].t, sch.t).ok THEN ts
    ELSE [ts EXCEPT !.env[x] = Append(@, sch)]

RECURSIVE RegisterCtors(_, _, _)
RegisterCtors(ts, adt, i) ==
    LET decl == ts.adts[adt]
        v == decl.variants[i].name
        sch == CtorScheme(adt, decl, i)
    IN IF i > Len(decl.variants) THEN ts
       ELSE RegisterCtors(RegisterValue(RegisterValue(ts, QualifiedCtor(adt, v), sch), CompatCtor(adt, v), sch), adt, i + 1)

\* adt_from_decl and register_adt: a header is completed, a type that is complete stays.
AdtFromDecl(ts, d) ==
    LET ps == FreshVars(ts.n, Len(d.tps))
        vs == VarsFrom(d.tps, ts.n)
        variant(v) == [name |-> v.name, args |-> [i \in DOMAIN v.args |-> Elab(ts, vs, v.args[i])]]
    IN [params |-> ps, variants |-> [i \in DOMAIN d.variants |-> variant(d.variants[i])]]

RegisterAdt(ts, d) ==
    LET adt == AdtFromDecl(ts, d)
        bad == \E v \in ToSet(adt.variants) : \E t \in ToSet(v.args) : ~Elaborated(t)
        complete == ts.adts[d.name].variants = <<>> /\ adt.variants # <<>>
    IN IF ~Ok(ts) \/ d.head # <<>> THEN ts
       ELSE IF bad THEN Reject(ts, TRUE, "unknown type")
       ELSE RegisterCtors([ts EXCEPT !.n = @ + Len(adt.params),
                                     !.adts[d.name] = IF complete THEN adt ELSE @], d.name, 1)

RegisterTypes(ts, ds) ==
    LET dup == Reject(ts, ~IsInjective(Names(ds)), "duplicate type")
        heads == FoldLeft(TypeHeader, dup, ds)
        aliases == FoldLeft(AliasExpands, FoldLeft(AliasBody, heads, ds), ds)
    IN FoldLeft(RegisterAdt, aliases, ds)

(***************************************************************************)
(* Classes and instances.                                                  *)
(***************************************************************************)
ClassHeader(ts, d) ==
    LET ts1 == Reject(Reject(ts, d.name \in DOMAIN ts.info \cup DOMAIN ts.classes, "duplicate class"),
                      d.tps = <<>>, "class arity")
    IN IF Ok(ts1) THEN [ts1 EXCEPT !.classes = (d.name :> {}) @@ @] ELSE ts1

\* A method's scheme: the class's and its own parameters, constrained by the class.
MethodOf(ts, d, m) ==
    LET k == Len(d.tps)
        vs == WithParams(VarsFrom(d.tps, ts.n), m.tps, ts.n + k)
        ps == FreshVars(ts.n, k)
        on == IF k = 1 THEN TV(ps[1]) ELSE TTuple([i \in 1 .. k |-> TV(ps[i])])
    IN [sch |-> Scheme(FreshVars(ts.n, k + Len(m.tps)), <<Pred(d.name, on)>>, Elab(ts, vs, m.t)), ps |-> ps]

ClassMethod(ts, d, m) ==
    LET meth == MethodOf(ts, d, m)
        ts1 == Reject(Reject(ts, m.name \in DOMAIN ts.env, "duplicate method"),
                      ~Elaborated(meth.sch.t) \/ ParamsClash(VarsFrom(d.tps, 1), m.tps), "unknown type")
    IN IF ~Ok(ts1) THEN ts1
       ELSE [ts1 EXCEPT !.n = @ + Len(meth.sch.vars), !.env = (m.name :> <<meth.sch>>) @@ @,
                        !.info[d.name].methods = (m.name :> meth) @@ @]

\* The methods enter one by one; the class's own description only once all are in.
ClassBody(ts, d) ==
    LET bad == d.cs # <<>> /\ (Len(d.tps) # 1 \/ \E i \in DOMAIN d.cs : d.cs[i].t # Con(d.tps[1]))
        ts1 == Reject(ts, bad, "superclass")
        ts2 == [ts1 EXCEPT !.classes[d.name] = {d.cs[i].c : i \in DOMAIN d.cs},
                           !.info = (d.name :> [arity |-> Len(d.tps), methods |-> <<>>]) @@ @]
        ts3 == FoldLeft(LAMBDA s, m : ClassMethod(s, d, m), ts2, d.methods)
    IN IF ~Ok(ts1) THEN ts1
       ELSE IF Ok(ts3) THEN ts3
       ELSE [ts3 EXCEPT !.info = [x \in DOMAIN @ \ {d.name} |-> @[x]]]

RegisterClasses(ts, ds) ==
    FoldLeft(ClassBody, FoldLeft(ClassHeader, Reject(ts, ~IsInjective(Names(ds)), "duplicate class"), ds), ds)

Prepared(ts, d) ==
    LET vs == VarsFrom(d.tps, ts.n)
    IN [class |-> d.name, head |-> Elab(ts, vs, d.head[1]), ctx |-> ElabPreds(ts, vs, d.cs), tvars |-> vs]

\* The head and the context are types and the methods are exactly the class's.
InstanceError(ts, d) ==
    LET p == Prepared(ts, d)
        has == d.name \in DOMAIN ts.info
    IN CASE ~(has \/ d.name \in DOMAIN ts.classes) -> "unknown class"
         [] (has \/ d.name \in DOMAIN ts.classes) /\ (~Elaborated(p.head) \/ \E q \in ToSet(p.ctx) : ~Elaborated(q.t)) -> "unknown type"
         [] has /\ ~(ToSet(Names(d.methods)) \subseteq DOMAIN ts.info[d.name].methods) -> "unknown method"
         [] has /\ ~(DOMAIN ts.info[d.name].methods \subseteq ToSet(Names(d.methods))) -> "missing method"
         [] OTHER -> ""

PrepareInstance(ts, d) ==
    LET ts1 == Reject(ts, InstanceError(ts, d) # "", InstanceError(ts, d))
    IN [ts |-> IF Ok(ts1) THEN [ts1 EXCEPT !.n = @ + Len(d.tps)] ELSE ts1, prep |-> Prepared(ts, d)]

RegisterInstance(ts, d) ==
    LET r == PrepareInstance(ts, d)
        old == IF d.name \in DOMAIN ts.insts THEN ts.insts[d.name] ELSE <<>>
    IN IF ~Ok(ts) \/ ~Ok(r.ts) THEN r.ts
       ELSE [r.ts EXCEPT !.insts = (d.name :> Append(old, [ctx |-> r.prep.ctx, t |-> r.prep.head])) @@ @]

(***************************************************************************)
(* Functions: signatures first, so that bodies may call each other.        *)
(***************************************************************************)
SignatureIn(ts, d) ==
    LET vs == VarsFrom(d.tps, ts.n)
        t == Elab(ts, vs, SignatureOf(d.params, d.ret[1]))
        ps == ElabPreds(ts, vs, d.cs)
    IN [vars |-> vs, t |-> t, preds |-> ps, sch |-> Scheme(FreshVars(ts.n, Len(d.tps)), ps, t)]

\* The declared constraints are on classes, at the arities the classes want.
ConstraintsFormed(ts, t, ps) ==
    /\ \A i \in DOMAIN ps : KnownClass(ts, ps[i])
    /\ KindsOk(ts, ps)
    /\ \A i \in DOMAIN ps : ps[i].c \in DOMAIN ts.info =>
         LET args == ClassArgs(ts.info[ps[i].c], ps[i].t)
         IN \A j \in DOMAIN args : args[j].k = "var" =>
              HeadArity(t, args[j].v) = ClassArities(ts.info[ps[i].c])[j]

\* One signature: acc collects the schemes, which enter the environment together.
Signature(acc, d) ==
    LET ts == acc.ts
        forward == d.name \in ts.declared
        sig == SignatureIn(ts, d)
        ts1 == Reject(ts, \/ d.name \in DOMAIN acc.sigs
                          \/ d.name \in DOMAIN ts.env /\ ~forward, "duplicate value")
        ts2 == Reject(ts1, ~IsInjective(d.tps), "duplicate type parameter")
        ts3 == Reject(ts2, ~Elaborated(sig.t) \/ \E p \in ToSet(sig.preds) : ~Elaborated(p.t), "unknown type")
        ts4 == Reject(ts3, Ok(ts3) /\ ~ConstraintsFormed(ts, sig.t, sig.preds), "constraint")
        ts5 == Reject(ts4, Ok(ts4) /\ Ambiguous(sig.sch), "ambiguous type")
    IN IF ~Ok(ts5) THEN [acc EXCEPT !.ts = ts5]
       ELSE [ts |-> [ts5 EXCEPT !.n = @ + Len(d.tps), !.declared = @ \ {d.name},
                                !.env = [x \in DOMAIN @ \ (IF forward THEN {d.name} ELSE {}) |-> @[x]]],
             sigs |-> (d.name :> sig) @@ acc.sigs]

SignaturesEnter(acc, ts) ==
    IF Ok(acc.ts) THEN [acc EXCEPT !.ts.env = [x \in DOMAIN acc.sigs |-> <<acc.sigs[x].sch>>] @@ @]
    ELSE [ts |-> [acc.ts EXCEPT !.env = ts.env, !.declared = ts.declared], sigs |-> <<>>]

RegisterSignatures(ts, ds) == SignaturesEnter(FoldLeft(Signature, [ts |-> ts, sigs |-> <<>>], ds), ts)

\* A body that is a dict or an update is checked against the return type.
WithReturn(d) == IF d.body.k \in {"dict", "update"} THEN Ann(d.body, d.ret[1]) ELSE d.body

\* check_fn_decl_bodies.  The declared parameters are ordinary variables: a body that
\* needs one of them to be a certain type is accepted.
CheckBody(ts, d, sig) ==
    LET r == InferTyped([ts EXCEPT !.tvars = sig.vars], ParamsAround(d.params, <<>>, WithReturn(d)), ts.n)
        u == Mgu(r.t, sig.t)
        declared == ApplyPreds(u.s, sig.preds)
        ts1 == Reject(ts, ~r.ok, r.err)
        ts2 == Reject(ts1, Ok(ts1) /\ ~u.ok, "unification")
        ts3 == Reject(ts2, Ok(ts2) /\ ~ConstraintsFormed(ts, Apply(u.s, sig.t), declared), "constraint")
    IN IF ~Ok(ts) THEN ts
       ELSE Reject(ts3, Ok(ts3) /\ ~Declared(ts, declared, ApplyPreds(u.s, r.p)), "missing constraints")

CheckBodies(ts, ds, sigs) == FoldLeft(LAMBDA s, d : CheckBody(s, d, sigs[d.name]), ts, ds)

\* register_fn_decls, which the language server calls: all the values or none.
RegisterFns(ts, ds) ==
    LET r == RegisterSignatures(ts, ds)
        ts1 == IF Ok(r.ts) THEN CheckBodies(r.ts, ds, r.sigs) ELSE r.ts
    IN IF Ok(ts1) THEN ts1 ELSE [ts1 EXCEPT !.env = ts.env, !.declared = ts.declared]

\* inject_declare_fn_decl: documentation of a value that exists, else a value until its
\* definition comes.
DeclareFn(ts, d) ==
    LET sig == SignatureIn(ts, d)
        compatible == \E i \in DOMAIN ts.env[d.name] : SchemesCompatible(ts.env[d.name][i], sig.sch)
        ts1 == Reject(ts, ~Elaborated(sig.t) \/ \E p \in ToSet(sig.preds) : ~Elaborated(p.t), "unknown type")
        ts2 == Reject(ts1, Ok(ts1) /\ Ambiguous(sig.sch), "ambiguous type")
        ts3 == Reject(ts2, Ok(ts2) /\ \E p \in ToSet(sig.preds) : ~KnownClass(ts, p), "unknown class")
        exists == d.name \in DOMAIN ts.env
        ts4 == Reject(ts3, exists /\ d.name \in ts.declared /\ ~compatible, "duplicate value")
    IN IF ~Ok(ts4) \/ exists THEN ts4
       ELSE [ts4 EXCEPT !.n = @ + Len(d.tps), !.env = (d.name :> <<sig.sch>>) @@ @,
                        !.declared = @ \cup {d.name}]

(***************************************************************************)
(* Instance methods: the class's type at the instance's head; only the     *)
(* context, the head and their superclasses are given.                     *)
(***************************************************************************)
MethodAtHead(ts, prep, x) ==
    LET inst == Instantiate(ts.info[prep.class].methods[x].sch, NewState(ts.n))
        u == Mgu(inst.p[1].t, prep.head)
    IN [ok |-> u.ok, t |-> Apply(u.s, inst.t), n |-> inst.st.n]

CheckMethod(ts, prep, m) ==
    LET want == MethodAtHead(ts, prep, m.name)
        r == InferTyped([ts EXCEPT !.tvars = prep.tvars], m.body, want.n)
        u == Mgu(r.t, want.t)
        given == SuperClosure(ts, ToSet(prep.ctx) \cup {Pred(prep.class, prep.head)})
        ps == ApplyPreds(u.s, r.p)
        holds(p) == IF Ftv(p.t) = {} THEN KnownClass(ts, p) /\ Entails(ts, given, p) ELSE p \in given
    IN CASE prep.class \notin DOMAIN ts.info -> "unknown class"
         [] prep.class \in DOMAIN ts.info /\ (~want.ok \/ ~r.ok) -> IF want.ok THEN r.err ELSE "unification"
         [] prep.class \in DOMAIN ts.info /\ want.ok /\ r.ok ->
              IF ~u.ok THEN "unification" ELSE IF \A p \in ToSet(ps) : holds(p) THEN "" ELSE "missing constraints"

\* register_decls: types, classes, forward declarations, signatures, instances, bodies.
RegisterBodies(ts, fns, sigs) == IF Ok(ts) THEN CheckBodies(ts, fns, sigs) ELSE ts

RegisterSigned(r, ds) ==
    RegisterBodies(FoldLeft(RegisterInstance, r.ts, OfKind(ds, "instance")), OfKind(ds, "fn"), r.sigs)

RegisterValues(ts, ds) == IF Ok(ts) THEN RegisterSigned(RegisterSignatures(ts, OfKind(ds, "fn")), ds) ELSE ts

RegisterMembers(ts, ds) ==
    RegisterValues(FoldLeft(LAMBDA s, d : IF Ok(s) THEN DeclareFn(s, d) ELSE s,
                            RegisterClasses(ts, OfKind(ds, "class")), OfKind(ds, "declare")), ds)

RegisterDecls(ts, ds) == RegisterMembers(RegisterTypes(ts, OfKind(ds, "type")), ds)
=============================================================================
