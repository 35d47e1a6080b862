-------------------------------- MODULE Heap --------------------------------
(***************************************************************************)
(* The copying heap and the table of runtime roots:                        *)
(* rex-engine/src/memory/heap.rs and collect_machine_if_needed of          *)
(* evaluator/eval.rs.                                                      *)
(*                                                                         *)
(* The evaluator never holds an address.  It holds tokens (RootedPtr) into *)
(* runtime_roots, whose entries the collector rewrites when it moves cells.*)
(* Before a collection every registered token that is in no frame, work    *)
(* item, type class or native is released, so a token the evaluator still  *)
(* uses but does not report would resolve to nothing, or to another value  *)
(* once the slot is taken again.                                           *)
(*                                                                         *)
(* Of a cell only its pointers are kept.  obj names the object a cell is,  *)
(* and objects is the graph of the objects as the program sees it: neither *)
(* is in the code, they say what moving a cell must not change.            *)
(***************************************************************************)
EXTENDS Integers, Sequences, FiniteSets, Functions

CONSTANTS MaxObjects,        \* bound of the model: objects allocated
          MaxRoots,          \* bound of the model: slots of the root table
          MaxEpoch,          \* bound of the model: collections
          MaxKids,           \* bound of the model: pointers of a new cell
          DefaultThreshold   \* DEFAULT_GC_SLOT_THRESHOLD

ASSUME HeapAssumption ==
    {MaxObjects, MaxRoots, MaxEpoch, MaxKids, DefaultThreshold} \subseteq Nat \ {0}

VARIABLES slots,               \* HeapSlot: [generation, obj, kids]
          runtime_roots,       \* RootSlot: [generation, pointer]
          free_roots,          \* free_runtime_root_list; its end is the top
          next_gc_slot_count,
          extreme_stress,      \* collect before every cycle
          collection_epoch,
          held,                \* tokens the evaluator holds -> their objects
          issued,              \* ghost: tokens ever handed out
          objects              \* ghost: object -> the objects it refers to

vars == <<slots, runtime_roots, free_roots, next_gc_slot_count, extreme_stress,
          collection_epoch, held, issued, objects>>

NoPtr == [index |-> 0, generation |-> 0]

Ptr(index, generation)   == [index |-> index, generation |-> generation]
Token(slot, generation)  == [slot |-> slot, generation |-> generation]

Init ==
    /\ slots = <<>>
    /\ runtime_roots = <<>>
    /\ free_roots = <<>>
    /\ next_gc_slot_count = DefaultThreshold
    /\ extreme_stress \in BOOLEAN
    /\ collection_epoch = 0
    /\ held = [token \in {} |-> 0]
    /\ issued = {}
    /\ objects = <<>>

-----------------------------------------------------------------------------
(* The root table.  t is [roots, free], and tokens when some are handed out.*)

Table == [roots |-> runtime_roots, free |-> free_roots, tokens |-> <<>>]

\* The table with another entry in one slot.
Put(roots, slot, entry) == [s \in 1..Len(roots) |-> IF s = slot THEN entry ELSE roots[s]]

Entry(generation, pointer) == [generation |-> generation, pointer |-> pointer]

\* register_runtime_root.
Register(t, pointer) ==
    IF t.free # <<>>
    THEN LET slot == t.free[Len(t.free)]
         IN  [roots  |-> Put(t.roots, slot, Entry(t.roots[slot].generation, pointer)),
              free   |-> SubSeq(t.free, 1, Len(t.free) - 1),
              tokens |-> Append(t.tokens, Token(slot, t.roots[slot].generation))]
    ELSE [roots  |-> Append(t.roots, Entry(0, pointer)),
          free   |-> <<>>,
          tokens |-> Append(t.tokens, Token(Len(t.roots) + 1, 0))]

\* One pointer after the other gets a token.
RegisterAll(t, pointers) ==
    LET after[n \in 0..Len(pointers)] ==
            IF n = 0 THEN t ELSE Register(after[n - 1], pointers[n])
    IN  after[Len(pointers)]

\* Mutant of Unregister: the generation of the slot is not advanced.
UnregisterSameGeneration(t, token) ==
    IF t.roots[token.slot].pointer = NoPtr THEN t
    ELSE [t EXCEPT !.roots = Put(t.roots, token.slot, Entry(token.generation, NoPtr)),
                   !.free = Append(t.free, token.slot)]

\* unregister_runtime_root: a token that is stale already is left alone.
Unregister(t, token) ==
    IF \/ t.roots[token.slot].generation # token.generation
       \/ t.roots[token.slot].pointer = NoPtr
    THEN t
    ELSE [t EXCEPT !.roots = Put(t.roots, token.slot, Entry(token.generation + 1, NoPtr)),
                   !.free = Append(t.free, token.slot)]

\* Mutant of Stale: no token is released.
StaleNone(roots, slot, live) == FALSE

\* Mutant of Stale: tokens that were handed out before are released.
StaleAll(roots, slot, live) ==
    roots[slot].pointer # NoPtr /\ (slot > 1 \/ Token(slot, roots[slot].generation) \notin live)

\* The slot has a registered token that is not live.
Stale(roots, slot, live) ==
    roots[slot].pointer # NoPtr /\ Token(slot, roots[slot].generation) \notin live

\* collect_if_needed, before the collection: the stale tokens of the table are
\* unregistered in the order of their slots.
Swept(t, live) ==
    LET sweep[slot \in 0..Len(t.roots)] ==
            IF slot = 0 THEN t
            ELSE IF Stale(t.roots, slot, live)
                 THEN Unregister(sweep[slot - 1], Token(slot, t.roots[slot].generation))
            ELSE sweep[slot - 1]
    IN  sweep[Len(t.roots)]

\* resolve_runtime_root and RootScope::pointer.
Pointer(token) == runtime_roots[token.slot].pointer

\* get_slot_checked.
Checked(pointer) ==
    pointer.index \in 1..Len(slots) /\ slots[pointer.index].generation = pointer.generation

-----------------------------------------------------------------------------
(* Collection.                                                              *)

Reaches(S, roots) ==
    /\ \A r \in 1..Len(roots) : roots[r].pointer # NoPtr => roots[r].pointer.index \in S
    /\ \A i \in S : \A k \in 1..Len(slots[i].kids) : slots[i].kids[k].index \in S

\* The cells the breadth-first trace from the roots finds: the least set that
\* has the roots and what its members point to.
Live(roots) ==
    {i \in 1..Len(slots) : \A S \in SUBSET (1..Len(slots)) : Reaches(S, roots) => i \in S}

\* Where the live cells go: the order of the trace, or a random order under
\* extreme stress.  Both give each of them one of the first places.
Destinations(live) ==
    {to \in [live -> 1..Cardinality(live)] : \A i, j \in live : to[i] = to[j] => i = j}

\* Mutant of Forward: a pointer inside a cell keeps its old place.
ForwardUnmoved(to, pointer) == Ptr(pointer.index, collection_epoch + 1)

\* forward_for_gc.
Forward(to, pointer) == Ptr(to[pointer.index], collection_epoch + 1)

MovedRoots(to, roots) ==
    [r \in 1..Len(roots) |->
        IF roots[r].pointer = NoPtr THEN roots[r]
        ELSE Entry(roots[r].generation, Forward(to, roots[r].pointer))]

MovedSlots(to) ==
    [place \in 1..Cardinality(DOMAIN to) |->
        LET cell == slots[CHOOSE i \in DOMAIN to : to[i] = place]
        IN  [generation |-> collection_epoch + 1,
             obj        |-> cell.obj,
             kids       |-> [k \in 1..Len(cell.kids) |-> Forward(to, cell.kids[k])]]]

\* update_next_gc_slot_count: half as much again as is live, at least the
\* default more.
NextThreshold(live) ==
    live + (IF live \div 2 > DefaultThreshold THEN live \div 2 ELSE DefaultThreshold)

CollectNeeded == extreme_stress \/ Len(slots) >= next_gc_slot_count

-----------------------------------------------------------------------------
(* What the evaluator does inside a cycle.  machine_root_scope, the only    *)
(* scope outside the tests, sets defer_collection: allocation only pushes.  *)

NewObject == Len(objects) + 1

Pushed(cells, generation, kids) ==
    Append(cells, [generation |-> generation, obj |-> NewObject, kids |-> kids])

\* RootScope::root: the tokens just made are in the evaluator's hands.
Hold(t, objs) ==
    /\ runtime_roots' = t.roots
    /\ free_roots' = t.free
    /\ issued' = issued \cup Range(t.tokens)
    /\ held' = [token \in DOMAIN held \cup Range(t.tokens) |->
                   IF token \in Range(t.tokens)
                   THEN objs[CHOOSE i \in 1..Len(t.tokens) : t.tokens[i] = token]
                   ELSE held[token]]

\* RootScope::alloc_reference: a cell whose pointers are those of the tokens.
Alloc(tokens) ==
    LET kids == [i \in 1..Len(tokens) |-> Pointer(tokens[i])]
    IN  /\ Len(objects) < MaxObjects
        /\ slots' = Pushed(slots, collection_epoch, kids)
        /\ objects' = Append(objects, [i \in 1..Len(tokens) |-> held[tokens[i]]])
        /\ Hold(Register(Table, Ptr(Len(slots) + 1, collection_epoch)), <<NewObject>>)
        /\ UNCHANGED <<next_gc_slot_count, extreme_stress, collection_epoch>>

\* root_as_tuple, root_as_adt, root_as_callable, list_items: what a cell points
\* to gets tokens of its own.
Open(token) ==
    LET cell == slots[Pointer(token).index]
        t    == RegisterAll(Table, cell.kids)
    IN  /\ cell.kids # <<>>
        /\ Len(t.roots) <= MaxRoots
        /\ Hold(t, objects[cell.obj])
        /\ UNCHANGED <<slots, next_gc_slot_count, extreme_stress, collection_epoch, objects>>

\* overwrite_root: the cell of value is copied into the cell of target, which
\* a let rec uses to fill the slots its closures already point to.
OverwriteRoot(target, value) ==
    LET at == Pointer(target).index
    IN  /\ slots' = [slots EXCEPT ![at].kids = slots[Pointer(value).index].kids]
        /\ objects' = [objects EXCEPT ![held[target]] = objects[held[value]]]
        /\ UNCHANGED <<runtime_roots, free_roots, next_gc_slot_count, extreme_stress,
                       collection_epoch, held, issued>>

\* The evaluator is done with a token: nothing happens in the heap.
Forget(token) ==
    /\ held' = [other \in DOMAIN held \ {token} |-> held[other]]
    /\ UNCHANGED <<slots, runtime_roots, free_roots, next_gc_slot_count, extreme_stress,
                   collection_epoch, issued, objects>>

\* collect_machine_if_needed at the start of a cycle: the tokens in the
\* evaluator's state are live.
CollectIfNeeded ==
    LET t    == Swept(Table, DOMAIN held)
        live == Live(t.roots)
    IN  /\ CollectNeeded
        /\ collection_epoch < MaxEpoch
        /\ \E to \in Destinations(live) :
               /\ slots' = MovedSlots(to)
               /\ runtime_roots' = MovedRoots(to, t.roots)
        /\ free_roots' = t.free
        /\ collection_epoch' = collection_epoch + 1
        /\ next_gc_slot_count' = NextThreshold(Cardinality(live))
        /\ UNCHANGED <<extreme_stress, held, issued, objects>>

Fits == Len(runtime_roots) < MaxRoots \/ free_roots # <<>>

\* The tokens a new cell may be made of.
Arguments == UNION {[1..n -> DOMAIN held] : n \in 0..MaxKids}

Next ==
    \/ \E tokens \in Arguments : Fits /\ Alloc(tokens)
    \/ \E token \in DOMAIN held : Open(token)
    \/ \E target, value \in DOMAIN held : OverwriteRoot(target, value)
    \/ \E token \in DOMAIN held : Forget(token)
    \/ CollectIfNeeded

Spec == Init /\ [][Next]_vars

-----------------------------------------------------------------------------
PtrType   == [index : Nat, generation : Nat]
TokenType == [slot : Nat, generation : Nat]
RootType  == [generation : Nat, pointer : PtrType]
CellType  == [generation : Nat, obj : Nat, kids : Seq(PtrType)]

TypeOK ==
    /\ slots \in Seq(CellType)
    /\ runtime_roots \in Seq(RootType) /\ free_roots \in Seq(Nat)
    /\ next_gc_slot_count \in Nat /\ extreme_stress \in BOOLEAN /\ collection_epoch \in Nat
    /\ objects \in Seq(Seq(Nat))
    /\ issued \subseteq TokenType /\ DOMAIN held \subseteq issued

(***************************************************************************)
(* A token the evaluator holds resolves, through any number of collections,*)
(* to the object it was made for: its slot was not released or handed out  *)
(* again, and the pointer in it passes the epoch check.                    *)
(***************************************************************************)
TokensResolve ==
    \A token \in DOMAIN held :
        /\ runtime_roots[token.slot].generation = token.generation
        /\ Checked(Pointer(token))
        /\ slots[Pointer(token).index].obj = held[token]

(***************************************************************************)
(* The heap is the program's object graph: every pointer in a cell passes  *)
(* the epoch check and leads to the object that belongs there, also after  *)
(* cells were moved, overwritten, or made cyclic by overwriting.           *)
(***************************************************************************)
HeapIsObjectGraph ==
    \A i \in 1..Len(slots) :
        LET cell == slots[i]
        IN  /\ cell.generation = collection_epoch
            /\ Len(cell.kids) = Len(objects[cell.obj])
            /\ \A k \in 1..Len(cell.kids) :
                   /\ Checked(cell.kids[k])
                   /\ slots[cell.kids[k].index].obj = objects[cell.obj][k]

\* The objects the program can still get at from the tokens it holds.
Closure(S) ==
    {o \in 1..Len(objects) :
        \A T \in SUBSET (1..Len(objects)) :
            S \subseteq T /\ (\A p \in T : Range(objects[p]) \subseteq T) => o \in T}

(***************************************************************************)
(* A collection between two cycles keeps exactly what the evaluator can    *)
(* still get at: nothing of it is lost, and no garbage, not even a cycle,  *)
(* is copied.                                                              *)
(***************************************************************************)
CollectionExact ==
    [][collection_epoch' # collection_epoch =>
           {slots'[i].obj : i \in 1..Len(slots')} = Closure(Range(held))]_vars

(***************************************************************************)
(* A token is never handed out twice, so one that was released stays       *)
(* invalid: the generation check of unregister and of resolve finds it.    *)
(***************************************************************************)
TokensFresh ==
    [][issued' # issued => \A token \in DOMAIN held' \ DOMAIN held : token \notin issued]_vars
=============================================================================
