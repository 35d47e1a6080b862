------------------------------ MODULE Resolution ------------------------------
(***************************************************************************)
(* Names across modules (rex-engine builder/qualify.rs, builder/rewrite.rs *)
(* and modules/mod.rs).  A module's own names get the module's prefix,     *)
(* names that come from imports are replaced by the canonical names of     *)
(* what they stand for, and names bound in an expression stay.             *)
(*                                                                         *)
(* A canonical name starts with the segment "@", which no program writes.  *)
(***************************************************************************)
EXTENDS TypeTerms, Syntax, TLC

Prefix(id) == <<"@", id>>
Lookup(f, x) == IF x \in DOMAIN f THEN f[x] ELSE x
Get(f, x) == IF x \in DOMAIN f THEN <<f[x]>> ELSE <<>>
MapAnn(anns, f) == [i \in DOMAIN anns |-> [j \in DOMAIN anns[i] |-> f[anns[i][j]]]]

\* The types written at a node, and the types of its constraints.
TypesAt(e) == UNION {ToSet(e.ann[i]) : i \in DOMAIN e.ann} \cup {e.cs[i].t : i \in DOMAIN e.cs}

(***************************************************************************)
(* The names bound while an expression is walked.  The walk keeps one      *)
(* mutable set: a scope inserts its names on entry and removes them on     *)
(* exit, also when an outer scope had bound them.                          *)
(***************************************************************************)
NamesOver(e, i) == {b.x : b \in ToSet(BindingsOver(e, i))}

RECURSIVE BinderNames(_)
BinderNames(e) == UNION {NamesOver(e, i) \cup BinderNames(e.sub[i]) : i \in DOMAIN e.sub}

UnboundAt(e, i, b) == b

\* The set at the i-th child when it is b at the node.
BoundAt(e, i, b) ==
    LET left == UNION {BinderNames(e.sub[j]) \cup (IF e.k = "letrec" THEN {} ELSE NamesOver(e, j)) : j \in 1 .. i - 1}
    IN IF e.k = "letrec" THEN (b \cup NamesOver(e, i)) \ left ELSE (b \ left) \cup NamesOver(e, i)

(***************************************************************************)
(* A module's own names.                                                   *)
(***************************************************************************)
\* collect_local_renames: functions, forward declarations, the variants under both their
\* names, types and classes.  Class methods keep their names.
LocalRenames(ds, prefix) ==
    LET types == {d \in ToSet(ds) : d.d = "type"}
        of(S) == [x \in S |-> prefix \o x]
    IN [values |-> of({d.name : d \in {f \in ToSet(ds) : f.d \in {"fn", "declare"}}}
                      \cup UNION {UNION {{d.name \o v.name, v.name} : v \in ToSet(d.variants)} : d \in types}),
        types |-> of({d.name : d \in types}),
        classes |-> of({d.name : d \in {c \in ToSet(ds) : c.d = "class"}})]

RECURSIVE RenameType(_, _)
RenameType(t, r) ==
    IF t.k = "con" THEN [t EXCEPT !.n = IF @ \in DOMAIN r.types THEN r.types[@] ELSE Lookup(r.classes, @)]
    ELSE [t EXCEPT !.a = [i \in DOMAIN t.a |-> RenameType(t.a[i], r)]]

RenameConstraints(cs, r) == [i \in DOMAIN cs |-> Pred(Lookup(r.classes, cs[i].c), RenameType(cs[i].t, r))]

RECURSIVE RenamePattern(_, _)
RenamePattern(p, r) ==
    [p EXCEPT !.nm = IF p.k = "pnamed" THEN <<Lookup(r.values, @[1])>> ELSE @,
              !.sub = [i \in DOMAIN p.sub |-> RenamePattern(p.sub[i], r)]]

NamedAt(e, x) == [Var(x) EXCEPT !.lo = e.lo, !.hi = e.hi]

RECURSIVE RenameExpr(_, _, _)
RenameExpr(e, b, r) ==
    LET base == e.sub[1]
    IN CASE e.k = "var" -> IF e.nm[1] \in b THEN e ELSE NamedAt(e, Lookup(r.values, e.nm[1]))
         [] e.k = "project" /\ base.k = "var" /\ base.nm[1] \notin b
              /\ base.nm[1] \o e.nm[1] \in DOMAIN r.values -> NamedAt(e, r.values[base.nm[1] \o e.nm[1]])
         [] OTHER -> [e EXCEPT !.ann = MapAnn(@, [t \in TypesAt(e) |-> RenameType(t, r)]),
                               !.cs = RenameConstraints(@, r),
                               !.pats = [i \in DOMAIN @ |-> RenamePattern(@[i], r)],
                               !.sub = [i \in DOMAIN @ |-> RenameExpr(@[i], BoundAt(e, i, b), r)]]

RenameParams(ps, r) == [i \in DOMAIN ps |-> <<ps[i][1], RenameType(ps[i][2], r), ps[i][3]>>]
ParamNames(d) == {d.params[i][1] : i \in DOMAIN d.params}

QualifyFn(d, r) ==
    [d EXCEPT !.name = Lookup(r.values, @), !.params = RenameParams(@, r), !.ret = <<RenameType(@[1], r)>>,
              !.cs = RenameConstraints(@, r), !.body = RenameExpr(@, ParamNames(d), r)]

QualifyDeclare(d, r) ==
    [d EXCEPT !.name = Lookup(r.values, @), !.params = RenameParams(@, r), !.ret = <<RenameType(@[1], r)>>,
              !.cs = RenameConstraints(@, r)]

QualifyType(d, r) ==
    [d EXCEPT !.name = Lookup(r.types, @), !.head = [i \in DOMAIN @ |-> RenameType(@[i], r)],
              !.variants = [i \in DOMAIN @ |->
                  [@[i] EXCEPT !.args = [j \in DOMAIN @ |-> RenameType(@[j], r)]]]]

QualifyClass(d, r) ==
    [d EXCEPT !.name = Lookup(r.classes, @), !.cs = RenameConstraints(@, r),
              !.methods = [i \in DOMAIN @ |-> [@[i] EXCEPT !.t = RenameType(@, r)]]]

QualifyInstance(d, r) ==
    [d EXCEPT !.name = Lookup(r.classes, @), !.head = <<RenameType(@[1], r)>>, !.cs = RenameConstraints(@, r),
              !.methods = [i \in DOMAIN @ |->
                  [@[i] EXCEPT !.ann = [j \in DOMAIN @ |-> RenameType(@[j], r)], !.body = RenameExpr(@, {}, r)]]]

QualifyDecl(d, r) == CASE d.d = "fn" -> QualifyFn(d, r)
                       [] d.d = "declare" -> QualifyDeclare(d, r)
                       [] d.d = "type" -> QualifyType(d, r)
                       [] d.d = "class" -> QualifyClass(d, r)
                       [] d.d = "instance" -> QualifyInstance(d, r)

\* qualify_package: every declaration renamed, the imports gone.
QualifyPackage(p, prefix) ==
    LET r == LocalRenames(p.decls, prefix)
        kept == SelectSeq(p.decls, LAMBDA d : d.d # "import")
    IN Unit([i \in DOMAIN kept |-> QualifyDecl(kept[i], r)],
            [i \in DOMAIN p.body |-> RenameExpr(p.body[i], {}, r)])

\* exports_from_declarations: the public names; a variant only without its type.
ExportsOf(ds, prefix) ==
    LET pub == {d \in ToSet(ds) : d.pub}
        types == {d \in pub : d.d = "type"}
        of(S) == [x \in S |-> prefix \o x]
    IN [values |-> of({d.name : d \in {f \in pub : f.d \in {"fn", "declare"}}}
                      \cup UNION {{v.name : v \in ToSet(d.variants)} : d \in types}),
        types |-> of({d.name : d \in types}),
        classes |-> of({d.name : d \in {c \in pub : c.d = "class"}})]

DeclValueNames(ds) ==
    {d.name : d \in {f \in ToSet(ds) : f.d \in {"fn", "declare"}}}
    \cup UNION {{v.name : v \in ToSet(d.variants)} : d \in {t \in ToSet(ds) : t.d = "type"}}

DeclTypeNames(ds) == {d.name : d \in {t \in ToSet(ds) : t.d \in {"type", "class"}}}

\* The interface of a module: its public functions as forward declarations.
InterfaceDecls(ds) ==
    LET fns == SelectSeq(ds, LAMBDA d : d.d = "fn" /\ d.pub)
    IN [i \in DOMAIN fns |-> [fns[i] EXCEPT !.d = "declare", !.body = Node("hole")]]

(***************************************************************************)
(* Imports.  b has the exports of the modules imported under an alias and  *)
(* what the names imported into scope stand for.                           *)
(***************************************************************************)
NoBindings == [aliases |-> <<>>, values |-> <<>>, types |-> <<>>, classes |-> <<>>, err |-> ""]

BindValue(b, x, target, local) ==
    CASE b.err # "" -> b
      [] b.err = "" /\ x \in local.values -> [b EXCEPT !.err = "conflicts with local"]
      [] b.err = "" /\ x \notin local.values /\ x \in DOMAIN b.values -> [b EXCEPT !.err = "duplicate import"]
      [] OTHER -> [b EXCEPT !.values = (x :> target) @@ @]

BindType(b, x, target, local) ==
    CASE b.err # "" -> b
      [] b.err = "" /\ x \in local.types -> [b EXCEPT !.err = "conflicts with local"]
      [] b.err = "" /\ x \notin local.types /\ x \in DOMAIN b.types -> [b EXCEPT !.err = "duplicate import"]
      [] OTHER -> [b EXCEPT !.types = (x :> target) @@ @]

BindClass(b, x, target, local) ==
    CASE b.err # "" -> b
      [] b.err = "" /\ x \in local.types -> [b EXCEPT !.err = "conflicts with local"]
      [] b.err = "" /\ x \notin local.types /\ x \in DOMAIN b.classes -> [b EXCEPT !.err = "duplicate import"]
      [] OTHER -> [b EXCEPT !.classes = (x :> target) @@ @]

BindAll(b, ex, local) ==
    LET b1 == FoldLeft(LAMBDA s, x : BindValue(s, x, ex.values[x], local), b, SetToSeq(DOMAIN ex.values))
        b2 == FoldLeft(LAMBDA s, x : BindType(s, x, ex.types[x], local), b1, SetToSeq(DOMAIN ex.types))
    IN FoldLeft(LAMBDA s, x : BindClass(s, x, ex.classes[x], local), b2, SetToSeq(DOMAIN ex.classes))

\* An item is bound as everything the module exports under its name.
BindItem(b, it, ex, local) ==
    LET b1 == IF it.name \in DOMAIN ex.values THEN BindValue(b, it.as, ex.values[it.name], local) ELSE b
        b2 == IF it.name \in DOMAIN ex.types THEN BindType(b1, it.as, ex.types[it.name], local) ELSE b1
        b3 == IF it.name \in DOMAIN ex.classes THEN BindClass(b2, it.as, ex.classes[it.name], local) ELSE b2
        found == it.name \in DOMAIN ex.values \cup DOMAIN ex.types \cup DOMAIN ex.classes
    IN IF b.err = "" /\ ~found THEN [b EXCEPT !.err = "missing export"] ELSE b3

AddImport(b, d, ex, local) ==
    CASE d.clause = "alias" -> [b EXCEPT !.aliases = (d.name :> ex) @@ @]
      [] d.clause = "all" -> BindAll(b, ex, local)
      [] d.clause = "items" -> FoldLeft(LAMBDA s, it : BindItem(s, it, ex, local), b, d.items)

\* A default import gives the names that are neither local nor imported.
AddDefaults(b, ex, local) ==
    LET new(exp, have, mine) == [x \in DOMAIN exp \ (DOMAIN have \cup mine) |-> exp[x]]
    IN [b EXCEPT !.values = @ @@ new(ex.values, @, local.values),
                 !.types = @ @@ new(ex.types, @, local.types),
                 !.classes = @ @@ new(ex.classes, @, local.types)]

\* alias_is_visible, with the scope s of a walk: bindings and the names that shadow them.
Visible(alias, b, s) == alias \in DOMAIN s.aliases /\ alias \notin b \cup s.shadowV

RewriteScope(bindings, shadowT, shadowV) ==
    [aliases |-> bindings.aliases, values |-> bindings.values, types |-> bindings.types,
     classes |-> bindings.classes, shadowT |-> shadowT, shadowV |-> shadowV]

(***************************************************************************)
(* Validation: a name qualified with a module's alias is exported by it.   *)
(* The errors, first the one that is reported.                             *)
(***************************************************************************)
MissingExport(at, alias, x) == [at |-> at, m |-> alias, x |-> x]
Segments(x, n) == Len(x) = n
AliasOf(x) == <<x[1]>>
MemberOf(x) == <<x[2]>>

ValidateClass(x, at, b, s) ==
    IF Segments(x, 2) /\ Visible(AliasOf(x), b, s) /\ MemberOf(x) \notin DOMAIN s.aliases[AliasOf(x)].classes
    THEN <<MissingExport(at, AliasOf(x), MemberOf(x))>> ELSE <<>>

RECURSIVE ValidateType(_, _, _, _)
ValidateType(t, at, b, s) ==
    LET ex == s.aliases[AliasOf(t.n)]
    IN IF t.k # "con" THEN FlattenSeq([i \in DOMAIN t.a |-> ValidateType(t.a[i], at, b, s)])
       ELSE IF /\ Segments(t.n, 2) /\ Visible(AliasOf(t.n), b, s)
               /\ MemberOf(t.n) \notin DOMAIN ex.types \cup DOMAIN ex.classes
       THEN <<MissingExport(at, AliasOf(t.n), MemberOf(t.n))>> ELSE <<>>

ValidateTypes(ts, at, b, s) == FlattenSeq([i \in DOMAIN ts |-> ValidateType(ts[i], at, b, s)])

ValidateConstraints(cs, at, b, s) ==
    FlattenSeq([i \in DOMAIN cs |-> ValidateClass(cs[i].c, at, b, s) \o ValidateType(cs[i].t, at, b, s)])

\* `Module.Type.Variant` of an exported type is left to the type checker.
TypeOfModule(e, b, s) ==
    LET base == e.sub[1]
    IN /\ base.k = "project" /\ base.sub[1].k = "var" /\ Visible(base.sub[1].nm[1], b, s)
       /\ base.nm[1] \in DOMAIN s.aliases[base.sub[1].nm[1]].types

RECURSIVE ValidateExpr(_, _, _)
ValidateExpr(e, b, s) ==
    LET base == e.sub[1]
        kids == FlattenSeq([i \in DOMAIN e.sub |-> ValidateExpr(e.sub[i], BoundAt(e, i, b), s)])
        anns == FlattenSeq([i \in DOMAIN e.ann |-> ValidateTypes(e.ann[i], e.lo, b, s)])
    IN CASE e.k = "project" /\ TypeOfModule(e, b, s) -> <<>>
         [] e.k = "project" /\ ~TypeOfModule(e, b, s) /\ base.k = "var" /\ Visible(base.nm[1], b, s)
              /\ e.nm[1] \notin DOMAIN s.aliases[base.nm[1]].values -> <<MissingExport(e.lo, base.nm[1], e.nm[1])>>
         [] e.k = "ann" -> kids \o ValidateTypes(e.ann[1], e.lo, b \ BinderNames(base), s)
         [] OTHER -> anns \o ValidateConstraints(e.cs, e.lo, b, s) \o kids

ValidateFn(d, s) ==
    ValidateTypes([i \in DOMAIN d.params |-> d.params[i][2]] \o d.ret, d.at, {}, s)
    \o ValidateConstraints(d.cs, d.at, {}, s) \o ValidateExpr(d.body, ParamNames(d), s)

ValidateDeclare(d, s) ==
    ValidateTypes([i \in DOMAIN d.params |-> d.params[i][2]] \o d.ret, d.at, {}, s)
    \o ValidateConstraints(d.cs, d.at, {}, s)

ValidateTypeDecl(d, s) ==
    ValidateTypes(d.head \o FlattenSeq([i \in DOMAIN d.variants |-> d.variants[i].args]), d.at, {}, s)

ValidateClassDecl(d, s) ==
    ValidateConstraints(d.cs, d.at, {}, s) \o ValidateTypes([i \in DOMAIN d.methods |-> d.methods[i].t], d.at, {}, s)

ValidateInstance(d, s) ==
    ValidateClass(d.name, d.at, {}, s) \o ValidateTypes(d.head, d.at, {}, s)
    \o ValidateConstraints(d.cs, d.at, {}, s)
    \o FlattenSeq([i \in DOMAIN d.methods |-> ValidateExpr(d.methods[i].body, {}, s)])

ValidateDecl(d, s) == CASE d.d = "fn" -> ValidateFn(d, s)
                        [] d.d = "declare" -> ValidateDeclare(d, s)
                        [] d.d = "type" -> ValidateTypeDecl(d, s)
                        [] d.d = "class" -> ValidateClassDecl(d, s)
                        [] d.d = "instance" -> ValidateInstance(d, s)
                        [] OTHER -> <<>>

\* In the order the declarations are written ...
ValidateUnit(p, s) ==
    FlattenSeq([i \in DOMAIN p.decls |-> ValidateDecl(p.decls[i], s)])
    \o FlattenSeq([i \in DOMAIN p.body |-> ValidateExpr(p.body[i], {}, s)])

\* ... and kind by kind, as a package holds them.
ValidatePackage(p, s) ==
    LET of(k) == FlattenSeq([i \in DOMAIN OfKind(p.decls, k) |-> ValidateDecl(OfKind(p.decls, k)[i], s)])
    IN of("fn") \o of("declare") \o of("type") \o of("class") \o of("instance")
       \o FlattenSeq([i \in DOMAIN p.body |-> ValidateExpr(p.body[i], {}, s)])

(***************************************************************************)
(* Rewriting: every use of an import becomes its canonical name.           *)
(***************************************************************************)
RewriteClass(x, b, s) ==
    CASE Segments(x, 1) -> IF x \in s.shadowT THEN x ELSE Lookup(s.classes, x)
      [] Segments(x, 2) /\ Visible(AliasOf(x), b, s) ->
           IF MemberOf(x) \in DOMAIN s.aliases[AliasOf(x)].classes THEN s.aliases[AliasOf(x)].classes[MemberOf(x)] ELSE x
      [] OTHER -> x

RewriteTypeName(x, b, s) ==
    LET ex == s.aliases[AliasOf(x)]
    IN CASE Segments(x, 1) -> IF x \in s.shadowT THEN x ELSE Lookup(s.types, x)
         [] Segments(x, 2) /\ Visible(AliasOf(x), b, s) ->
              IF MemberOf(x) \in DOMAIN ex.types THEN ex.types[MemberOf(x)]
              ELSE IF MemberOf(x) \in DOMAIN ex.classes THEN ex.classes[MemberOf(x)] ELSE x
         [] OTHER -> x

RECURSIVE RewriteType(_, _, _)
RewriteType(t, b, s) ==
    IF t.k = "con" THEN [t EXCEPT !.n = RewriteTypeName(@, b, s)]
    ELSE [t EXCEPT !.a = [i \in DOMAIN t.a |-> RewriteType(t.a[i], b, s)]]

RewriteConstraints(cs, b, s) == [i \in DOMAIN cs |-> Pred(RewriteClass(cs[i].c, b, s), RewriteType(cs[i].t, b, s))]

\* A constructor in a pattern: by its imported type, by a module's alias and its type,
\* or as an imported value; what the pattern's own scope binds does not matter.
RewriteConstructor(x, s) ==
    CASE Segments(x, 2) -> IF AliasOf(x) \in DOMAIN s.types THEN s.types[AliasOf(x)] \o MemberOf(x) ELSE x
      [] Segments(x, 3) /\ AliasOf(x) \in DOMAIN s.aliases ->
           IF MemberOf(x) \in DOMAIN s.aliases[AliasOf(x)].types
           THEN s.aliases[AliasOf(x)].types[MemberOf(x)] \o <<x[3]>> ELSE x
      [] Segments(x, 1) -> Lookup(s.values, x)
      [] OTHER -> x

RECURSIVE RewritePattern(_, _)
RewritePattern(p, s) ==
    [p EXCEPT !.nm = IF p.k = "pnamed" THEN <<RewriteConstructor(@[1], s)>> ELSE @,
              !.sub = [i \in DOMAIN p.sub |-> RewritePattern(p.sub[i], s)]]

\* What a projection stands for when its base is an imported type or a module, else <<>>.
RewriteProject(e, b, s) ==
    LET base == e.sub[1] x == base.nm[1] f == e.nm[1]
    IN CASE base.k = "var" /\ x \notin b /\ x \in DOMAIN s.types -> s.types[x] \o f
         [] base.k = "project" /\ TypeOfModule(e, b, s) -> s.aliases[base.sub[1].nm[1]].types[x] \o f
         [] base.k = "var" /\ ~(x \notin b /\ x \in DOMAIN s.types) /\ Visible(x, b, s)
              /\ f \in DOMAIN s.aliases[x].values -> s.aliases[x].values[f]
         [] OTHER -> <<>>

\* Where a node's annotation is rewritten: a let's after its body, an annotated
\* expression's after the expression.
AnnBound(e, b) == CASE e.k = "let" -> b \ BinderNames(e)
                    [] e.k = "ann" -> b \ BinderNames(e.sub[1])
                    [] OTHER -> b

RECURSIVE RewriteExpr(_, _, _)
RewriteExpr(e, b, s) ==
    CASE e.k = "var" -> IF e.nm[1] \in b \cup s.shadowV THEN e ELSE NamedAt(e, Lookup(s.values, e.nm[1]))
      [] e.k = "project" /\ RewriteProject(e, b, s) # <<>> -> NamedAt(e, RewriteProject(e, b, s))
      [] OTHER -> [e EXCEPT !.ann = MapAnn(@, [t \in TypesAt(e) |-> RewriteType(t, AnnBound(e, b), s)]),
                            !.cs = RewriteConstraints(@, b, s),
                            !.pats = [i \in DOMAIN @ |-> RewritePattern(@[i], s)],
                            !.sub = [i \in DOMAIN @ |-> RewriteExpr(@[i], BoundAt(e, i, b), s)]]

RewriteParams(ps, s) == [i \in DOMAIN ps |-> <<ps[i][1], RewriteType(ps[i][2], {}, s), ps[i][3]>>]

RewriteFn(d, s) ==
    [d EXCEPT !.params = RewriteParams(@, s), !.ret = <<RewriteType(@[1], {}, s)>>,
              !.cs = RewriteConstraints(@, {}, s), !.body = RewriteExpr(@, ParamNames(d), s)]

RewriteDeclare(d, s) ==
    [d EXCEPT !.params = RewriteParams(@, s), !.ret = <<RewriteType(@[1], {}, s)>>,
              !.cs = RewriteConstraints(@, {}, s)]

RewriteTypeDecl(d, s) ==
    [d EXCEPT !.head = [i \in DOMAIN @ |-> RewriteType(@[i], {}, s)],
              !.variants = [i \in DOMAIN @ |->
                  [@[i] EXCEPT !.args = [j \in DOMAIN @ |-> RewriteType(@[j], {}, s)]]]]

RewriteClassDecl(d, s) ==
    [d EXCEPT !.cs = RewriteConstraints(@, {}, s),
              !.methods = [i \in DOMAIN @ |-> [@[i] EXCEPT !.t = RewriteType(@, {}, s)]]]

RewriteInstance(d, s) ==
    [d EXCEPT !.name = RewriteClass(@, {}, s), !.head = <<RewriteType(@[1], {}, s)>>,
              !.cs = RewriteConstraints(@, {}, s),
              !.methods = [i \in DOMAIN @ |->
                  [@[i] EXCEPT !.ann = [j \in DOMAIN @ |-> RewriteType(@[j], {}, s)], !.body = RewriteExpr(@, {}, s)]]]

RewriteDecl(d, s) == CASE d.d = "fn" -> RewriteFn(d, s)
                       [] d.d = "declare" -> RewriteDeclare(d, s)
                       [] d.d = "type" -> RewriteTypeDecl(d, s)
                       [] d.d = "class" -> RewriteClassDecl(d, s)
                       [] d.d = "instance" -> RewriteInstance(d, s)
                       [] OTHER -> d

RewriteUnit(p, s) == Unit([i \in DOMAIN p.decls |-> RewriteDecl(p.decls[i], s)],
                          [i \in DOMAIN p.body |-> RewriteExpr(p.body[i], {}, s)])

(***************************************************************************)
(* rewrite_package_with_imports, once the exports of the imports are       *)
(* known: found is the exports of each import in order, defaults those of  *)
(* the default imports that no import names.                               *)
(***************************************************************************)
Imported(p, found, defaults) ==
    LET local == [values |-> DeclValueNames(p.decls), types |-> DeclTypeNames(p.decls)]
        imports == OfKind(p.decls, "import")
        b == FoldLeft(LAMBDA s, i : AddImport(s, imports[i], found[i], local), NoBindings, [i \in DOMAIN imports |-> i])
    IN FoldLeft(LAMBDA s, ex : AddDefaults(s, ex, local), b, defaults)

RewritePackage(p, prefix, b) ==
    LET q == QualifyPackage(p, prefix)
        s == RewriteScope(b, DeclTypeNames(p.decls), {})
        errs == ValidatePackage(q, s)
    IN CASE b.err # "" -> [unit |-> q, err |-> b.err]
         [] b.err = "" /\ errs # <<>> -> [unit |-> q, err |-> "missing export"]
         [] OTHER -> [unit |-> RewriteUnit(q, s), err |-> ""]
===============================================================================
