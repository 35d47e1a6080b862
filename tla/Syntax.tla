------------------------------- MODULE Syntax -------------------------------
(***************************************************************************)
(* The syntax tree of rex-ast.  Expressions and patterns are nested        *)
(* records of one shape: the kind, the names the node binds, uses or       *)
(* labels its parts with, its annotations and its children.  A name is the *)
(* sequence of its dotted segments.  A span is an interval lo .. hi of     *)
(* token numbers, so that a cursor is a token number and "the span         *)
(* contains the position" is what it is in the source; bs are the tokens   *)
(* of the names a node binds.                                              *)
(***************************************************************************)
EXTENDS Integers, Sequences, FiniteSets, SequencesExt

Node(k) == [k |-> k, nm |-> <<>>, ann |-> <<>>, tps |-> <<>>, cs |-> <<>>,
            pats |-> <<>>, sub |-> <<>>, lo |-> 0, hi |-> 0, bs |-> <<>>]

Literals == {"bool", "uint", "int", "float", "string"}
NumericLiterals == {"uint", "int", "float"}

Var(x) == [Node("var") EXCEPT !.nm = <<x>>]
App(f, x) == [Node("app") EXCEPT !.sub = <<f, x>>]
Project(e, field) == [Node("project") EXCEPT !.nm = <<field>>, !.sub = <<e>>]
Lam(x, e) == [Node("lam") EXCEPT !.nm = <<x>>, !.ann = <<<<>>>>, !.sub = <<e>>]
LamOf(x, t, e) == [Lam(x, e) EXCEPT !.ann = <<<<t>>>>]
Let(x, d, e) == [Node("let") EXCEPT !.nm = <<x>>, !.ann = <<<<>>>>, !.tps = <<<<>>>>,
                                    !.sub = <<d, e>>]
LetOf(x, ps, t, d, e) == [Let(x, d, e) EXCEPT !.ann = <<<<t>>>>, !.tps = <<ps>>]
LetRec(xs, ds, e) == [Node("letrec") EXCEPT !.nm = xs, !.ann = [i \in DOMAIN xs |-> <<>>],
                                            !.tps = [i \in DOMAIN xs |-> <<>>],
                                            !.sub = Append(ds, e)]
Ite(c, t, e) == [Node("ite") EXCEPT !.sub = <<c, t, e>>]
Match(e, ps, arms) == [Node("match") EXCEPT !.pats = ps, !.sub = <<e>> \o arms]
Tup(es) == [Node("tuple") EXCEPT !.sub = es]
ListOf(es) == [Node("list") EXCEPT !.sub = es]
DictOf(ks, es) == [Node("dict") EXCEPT !.nm = ks, !.sub = es]
Update(e, ks, es) == [Node("update") EXCEPT !.nm = ks, !.sub = <<e>> \o es]
Ann(e, t) == [Node("ann") EXCEPT !.ann = <<<<t>>>>, !.sub = <<e>>]

\* Patterns: wildcard, variable, constructor, tuple, list, cons, dict.
PWild == Node("pwild")
PVar(x) == [Node("pvar") EXCEPT !.nm = <<x>>]
PNamed(c, ps) == [Node("pnamed") EXCEPT !.nm = <<c>>, !.sub = ps]
PTuple(ps) == [Node("ptuple") EXCEPT !.sub = ps]
PList(ps) == [Node("plist") EXCEPT !.sub = ps]
PCons(p, q) == [Node("pcons") EXCEPT !.sub = <<p, q>>]
PDict(ks, ps) == [Node("pdict") EXCEPT !.nm = ks, !.sub = ps]

Binders == {"lam", "let", "letrec"}

Covers(e, pos) == e.lo <= pos /\ pos <= e.hi

\* The variables of a pattern with their tokens, left to right.
RECURSIVE PatternBindings(_)
PatternBindings(p) ==
    IF p.k = "pvar" THEN <<[x |-> p.nm[1], at |-> p.lo]>>
    ELSE FlattenSeq([i \in DOMAIN p.sub |-> PatternBindings(p.sub[i])])

PatternNames(p) == {b.x : b \in ToSet(PatternBindings(p))}

\* What node e binds over its i-th child, innermost last: the parameter over the body, a
\* let's name over its body only, a group's names over everything, an arm's variables
\* over that arm.
BindingsOver(e, i) ==
    CASE e.k = "lam" -> <<[x |-> e.nm[1], at |-> e.bs[1]]>>
      [] e.k = "let" /\ i = 2 -> <<[x |-> e.nm[1], at |-> e.bs[1]]>>
      [] e.k = "letrec" -> [j \in DOMAIN e.nm |-> [x |-> e.nm[j], at |-> e.bs[j]]]
      [] e.k = "match" /\ i > 1 -> PatternBindings(e.pats[i - 1])
      [] OTHER -> <<>>

\* Every node of a tree, itself included.
RECURSIVE Nodes(_)
Nodes(e) == {e} \cup UNION {Nodes(e.sub[i]) : i \in DOMAIN e.sub}

(***************************************************************************)
(* Declarations: a function with its signature, a forward declaration, a   *)
(* type with its variants or an alias, a class, an instance, an import.  A *)
(* parameter is its name, its type and its token; a variant and a method   *)
(* have the token of their name.                                           *)
(***************************************************************************)
Decl(d) == [d |-> d, name |-> <<>>, at |-> 0, hi |-> 0, pub |-> FALSE, tps |-> <<>>, params |-> <<>>,
            ret |-> <<>>, cs |-> <<>>, body |-> Node("hole"), variants |-> <<>>,
            methods |-> <<>>, head |-> <<>>, path |-> "", clause |-> "alias", items |-> <<>>]
Variant(x, args) == [name |-> x, args |-> args, at |-> 0]
Method(x, tps, t, ann, body) == [name |-> x, tps |-> tps, t |-> t, ann |-> ann, body |-> body, at |-> 0]

OfKind(ds, k) == SelectSeq(ds, LAMBDA d : d.d = k)

Unit(decls, body) == [decls |-> decls, body |-> body]

\* The parameters of a function around its body, the declared constraints on the
\* outermost lambda.
RECURSIVE ParamsAround(_, _, _)
ParamsAround(ps, cs, e) ==
    IF ps = <<>> THEN e
    ELSE [LamOf(Head(ps)[1], Head(ps)[2], ParamsAround(Tail(ps), <<>>, e))
            EXCEPT !.cs = cs, !.lo = Head(ps)[3], !.hi = e.hi, !.bs = <<Head(ps)[3]>>]

RECURSIVE SignatureOf(_, _)
SignatureOf(ps, ret) ==
    IF ps = <<>> THEN ret
    ELSE [k |-> "fun", n |-> <<>>, v |-> 0, a |-> <<Head(ps)[2], SignatureOf(Tail(ps), ret)>>]

\* CompilationUnit::body_with_fns: every function becomes a let around what follows, so
\* that its name is not in scope in its own body.
RECURSIVE BodyWithFns(_, _)
BodyWithFns(decls, body) ==
    IF decls = <<>> THEN body
    ELSE LET d == Head(decls)
             rest == BodyWithFns(Tail(decls), body)
         IN IF d.d # "fn" THEN rest
            ELSE [LetOf(d.name, d.tps, SignatureOf(d.params, d.ret[1]), ParamsAround(d.params, d.cs, d.body), rest)
                    EXCEPT !.lo = d.at, !.hi = rest.hi, !.bs = <<d.at>>]
=============================================================================
