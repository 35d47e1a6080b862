----------------------------- MODULE LetRecGroup -----------------------------
(***************************************************************************)
(* A `let rec` group: validate_let_rec_bindings of                         *)
(* rex-typesystem/src/inference.rs decides whether the group is accepted,  *)
(* then the evaluator's LetRec frame (rex-engine/src/evaluator/eval.rs)    *)
(* allocates one uninitialized slot per binding and evaluates the          *)
(* definitions in order, each of them in an environment that shows all the *)
(* slots.  Nothing at run time keeps a definition from looking up a slot   *)
(* that is not initialized yet: that is the validation's job.              *)
(*                                                                         *)
(* Of a definition the model keeps whether it is a syntactic lambda and    *)
(* which bindings of the group it mentions, bound names taken off          *)
(* (collect_let_rec_refs); every such group is considered.  Bindings are   *)
(* numbered from 0 as in the code, and their names are distinct.           *)
(***************************************************************************)
EXTENDS Integers, Sequences

CONSTANT N   \* how many bindings the group has

ASSUME GroupSize == N \in Nat

Bindings == 0 .. N - 1

\* let_rec_binding_kind: annotations around a lambda do not matter.
Kinds == [Bindings -> {"Function", "Value"}]

\* collect_let_rec_refs of every definition.
References == [Bindings -> SUBSET Bindings]

VARIABLES kind,      \* let_rec_binding_kind of each definition
          deps,      \* the bindings of the group each definition mentions
          phase,     \* validating, rejected, initializing or initialized
          index,     \* the binding that is validated or initialized
          unchecked, \* dependencies of the value `index` still to be checked
          path,      \* the calls of function_reaches_uninitialized_binding
          visiting,  \* its visiting set
          todo,      \* dependencies a call on the path has not looked at yet
          explored,  \* ghost: functions visited for the value `index`
          ready,     \* initialized slots
          reachable  \* what evaluating the value `index` can look up next

vars == <<kind, deps, phase, index, unchecked, path, visiting, todo, explored,
          ready, reachable>>

group == <<kind, deps>>
search == <<path, visiting, todo>>
slots == <<ready, reachable>>

\* What the definition of binding i mentions; there is nothing past the last.
Mentions(i) == IF i < N THEN deps[i] ELSE {}

Init ==
    /\ kind \in Kinds
    /\ deps \in References
    /\ phase = "validating"
    /\ index = 0
    /\ unchecked = Mentions(0)
    /\ path = <<>> /\ visiting = {} /\ explored = {}
    /\ todo = [f \in Bindings |-> {}]
    /\ ready = {} /\ reachable = {}

-----------------------------------------------------------------------------
(* validate_let_rec_bindings: for every value, every dependency.           *)

Validating == phase = "validating" /\ path = <<>> /\ index < N

\* On to the next binding; the visiting set is a new one in every search.
NextBinding ==
    /\ index' = index + 1
    /\ unchecked' = Mentions(index + 1)
    /\ explored' = {}

\* A function is skipped, and so is a value all of whose dependencies passed.
BindingPassed ==
    /\ Validating
    /\ kind[index] = "Function" \/ unchecked = {}
    /\ NextBinding
    /\ UNCHANGED <<group, phase, search, slots>>

\* Mutant of Uninitialized: a value may mention itself.
UninitializedAfter(d) == d > index

\* dep_index >= index: the binding is not initialized when the value is.
Uninitialized(d) == d >= index

Reject ==
    /\ phase' = "rejected"
    /\ UNCHANGED <<group, index, unchecked, search, explored, slots>>

\* A call of function_reaches_uninitialized_binding that is not turned away
\* by its visiting set.
Visit(f) ==
    /\ path' = Append(path, f)
    /\ visiting' = visiting \cup {f}
    /\ todo' = [todo EXCEPT ![f] = deps[f]]
    /\ explored' = explored \cup {f}

\* Mutant of CheckDependency: functions are taken for initialized values.
CheckDependencyItself(d) ==
    /\ Validating /\ kind[index] = "Value"
    /\ d \in unchecked
    /\ \/ Uninitialized(d) /\ Reject
       \/ /\ ~Uninitialized(d)
          /\ unchecked' = unchecked \ {d}
          /\ UNCHANGED <<group, phase, index, search, explored, slots>>

\* The loop over the dependencies of a value.
CheckDependency(d) ==
    /\ Validating /\ kind[index] = "Value"
    /\ d \in unchecked
    /\ \/ Uninitialized(d) /\ Reject
       \/ /\ ~Uninitialized(d)
          /\ unchecked' = unchecked \ {d}
          /\ \/ kind[d] = "Function" /\ Visit(d)
             \/ kind[d] = "Value" /\ UNCHANGED <<search, explored>>
          /\ UNCHANGED <<group, phase, index, slots>>

Searching == phase = "validating" /\ path # <<>>

Top == path[Len(path)]

\* Mutant of SearchDependency: a function that is being visited is visited
\* again.
SearchForever(d) ==
    /\ Searching
    /\ d \in todo[Top]
    /\ \/ Uninitialized(d) /\ Reject
       \/ /\ ~Uninitialized(d) /\ kind[d] = "Function"
          /\ path' = Append(SubSeq(path, 1, Len(path) - 1), d)
          /\ todo' = [todo EXCEPT ![d] = deps[d]]
          /\ UNCHANGED <<group, phase, index, unchecked, visiting, explored, slots>>
       \/ /\ ~Uninitialized(d) /\ kind[d] = "Value"
          /\ todo' = [todo EXCEPT ![Top] = @ \ {d}]
          /\ UNCHANGED <<group, phase, index, unchecked, path, visiting, explored, slots>>

\* The loop over the dependencies of a function: an uninitialized one ends the
\* search and the validation, a function is visited unless it is being visited.
SearchDependency(d) ==
    /\ Searching
    /\ d \in todo[Top]
    /\ \/ Uninitialized(d) /\ Reject
       \/ /\ ~Uninitialized(d) /\ kind[d] = "Function" /\ d \notin visiting
          /\ path' = Append(path, d)
          /\ visiting' = visiting \cup {d}
          /\ todo' = [todo EXCEPT ![Top] = @ \ {d}, ![d] = deps[d]]
          /\ explored' = explored \cup {d}
          /\ UNCHANGED <<group, phase, index, unchecked, slots>>
       \/ /\ ~Uninitialized(d) /\ (kind[d] = "Value" \/ d \in visiting)
          /\ todo' = [todo EXCEPT ![Top] = @ \ {d}]
          /\ UNCHANGED <<group, phase, index, unchecked, path, visiting, explored, slots>>

\* The end of the loop: the call leaves its visiting set and returns None.
SearchReturns ==
    /\ Searching
    /\ todo[Top] = {}
    /\ path' = SubSeq(path, 1, Len(path) - 1)
    /\ visiting' = visiting \ {Top}
    /\ UNCHANGED <<group, phase, index, unchecked, todo, explored, slots>>

-----------------------------------------------------------------------------
(* The LetRec frame.                                                        *)

\* eval_enter: the group was accepted and its slots are allocated.
EnterGroup ==
    /\ phase = "validating" /\ path = <<>> /\ index = N
    /\ phase' = IF N = 0 THEN "initialized" ELSE "initializing"
    /\ index' = 0
    /\ reachable' = Mentions(0)
    /\ UNCHANGED <<group, unchecked, search, explored, ready>>

\* Evaluating a value looks up one of the names it can get at.  A function
\* brings in the names of its body when it is called; so does a value, which
\* may be a closure or contain one.
LookUp(x) ==
    /\ phase = "initializing" /\ kind[index] = "Value"
    /\ x \in reachable
    /\ reachable' = reachable \cup deps[x]
    /\ reachable' # reachable
    /\ UNCHANGED <<group, phase, index, unchecked, search, explored, ready>>

\* eval_receive: the value is written to its slot and the next definition, or
\* the body, is pushed.  The definition of a function looks up nothing.
InitializeSlot ==
    /\ phase = "initializing"
    /\ ready' = ready \cup {index}
    /\ index' = index + 1
    /\ phase' = IF index' = N THEN "initialized" ELSE "initializing"
    /\ reachable' = Mentions(index + 1)
    /\ UNCHANGED <<group, unchecked, search, explored>>

\* The group is initialized or was refused.
Finished ==
    /\ phase \in {"rejected", "initialized"}
    /\ UNCHANGED vars

Next ==
    \/ BindingPassed
    \/ \E d \in unchecked : CheckDependency(d)
    \/ \E d \in Bindings : SearchDependency(d)
    \/ SearchReturns
    \/ EnterGroup
    \/ \E x \in reachable : LookUp(x)
    \/ InitializeSlot
    \/ Finished

\* Validation is a loop that runs to its end, and the evaluator goes on with a
\* group it has started (the definitions themselves are taken to return).
Spec == Init /\ [][Next]_vars /\ WF_vars(Next)

-----------------------------------------------------------------------------
TypeOK ==
    /\ kind \in Kinds
    /\ deps \in References
    /\ phase \in {"validating", "rejected", "initializing", "initialized"}
    /\ index \in 0..N /\ (phase = "initializing" => index < N)
    /\ unchecked \subseteq Bindings
    /\ path \in Seq(Bindings)
    /\ visiting \subseteq Bindings
    /\ todo \in [Bindings -> SUBSET Bindings]
    /\ explored \subseteq Bindings
    /\ ready \subseteq Bindings
    /\ reachable \subseteq Bindings

\* Evaluating an accepted group never looks up a slot that still holds its
\* Uninitialized cell, through whatever chain of functions and closures.
NoUninitializedRead ==
    phase = "initializing" /\ kind[index] = "Value" => reachable \subseteq ready

\* Bindings that S's functions may call stay in S.
FunctionClosed(S) == \A f \in S : kind[f] = "Function" => deps[f] \subseteq S

\* The rule of docs/src/SPEC.md: a value depends on no binding but earlier
\* ones, and on no function that can reach another.
Wellfounded(i) ==
    \E S \in SUBSET (0 .. i - 1) : deps[i] \subseteq S /\ FunctionClosed(S)

\* The search with its path-dependent visiting set refuses exactly the groups
\* that break the rule; it neither misses a chain nor refuses a cycle of
\* functions that stays among initialized bindings.
VerdictIsRule ==
    /\ phase = "rejected" => kind[index] = "Value" /\ ~Wellfounded(index)
    /\ phase \in {"initializing", "initialized"} =>
           \A i \in Bindings : kind[i] = "Value" => Wellfounded(i)

\* Validation ends for every group, however its functions call each other,
\* and an accepted group is initialized.
GroupSettled == <>(phase \in {"rejected", "initialized"})

-----------------------------------------------------------------------------
(* The inductive invariant behind NoUninitializedRead and VerdictIsRule.    *)

\* The visiting set holds the calls in progress, each of another function.
SearchShape ==
    /\ \A k \in 1..Len(path) : path[k] \in visiting
    /\ \A f \in visiting : \E k \in 1..Len(path) : path[k] = f
    /\ \A j, k \in 1..Len(path) : path[j] = path[k] => j = k
    /\ \A f \in visiting : kind[f] = "Function" /\ todo[f] \subseteq deps[f] /\ f \in explored
    /\ path # <<>> => index < N /\ kind[index] = "Value"
    /\ unchecked \subseteq Mentions(index)
    /\ index = N \/ kind[index] = "Function" => explored = {}

\* What the search has looked at.
Cleared(d) == d < index /\ (kind[d] = "Function" => d \in explored)

\* The visiting set turns a function away only while an outer call still
\* answers for it: all that explored functions mention is cleared or on
\* somebody's list.
SearchSound ==
    /\ index < N => \A d \in deps[index] \ unchecked : kind[index] = "Value" => Cleared(d)
    /\ \A f \in explored : \A d \in deps[f] : (f \in visiting /\ d \in todo[f]) \/ Cleared(d)

\* Only functions that the value can call are explored.
SearchNeeded ==
    index < N => \A S \in SUBSET Bindings :
        deps[index] \subseteq S /\ FunctionClosed(S) => explored \subseteq S

PassedSound ==
    \A i \in Bindings : i < index /\ kind[i] = "Value" => Wellfounded(i)

\* What a lookup can get at: an initialized binding and, if it is a function,
\* one that stays among initialized bindings.
Covered(x) ==
    /\ x < index
    /\ kind[x] = "Function" =>
           \E S \in SUBSET (0 .. index - 1) : x \in S /\ FunctionClosed(S)

GroupInv ==
    /\ phase = "validating" =>
           SearchShape /\ SearchSound /\ SearchNeeded /\ PassedSound
    /\ VerdictIsRule
    /\ phase \in {"validating", "rejected"} => ready = {} /\ reachable = {}
    /\ phase = "initializing" =>
           /\ ready = 0 .. index - 1
           /\ kind[index] = "Value" => \A x \in reachable : Covered(x)
=============================================================================
