----------------------------- MODULE WorkStack -----------------------------
(***************************************************************************)
(* What the evaluator's work queue promises its caller: one unbounded      *)
(* last-in-first-out stack.  The ready_work_limit, which the scheduler's   *)
(* comment calls "only an internal evaluator queue-pressure control", does *)
(* not appear here at all.                                                 *)
(***************************************************************************)
EXTENDS Sequences

CONSTANTS Item,   \* the work items
          NoItem  \* popped before the first pop

VARIABLES stack,  \* the items that wait, next one first
          popped  \* the item most recently taken

Init ==
    /\ \E item \in Item : stack = <<item>>
    /\ popped = NoItem

Push(item) ==
    /\ stack' = <<item>> \o stack
    /\ UNCHANGED popped

Pop ==
    /\ stack # <<>>
    /\ popped' = Head(stack)
    /\ stack' = Tail(stack)

Next == Pop \/ \E item \in Item : Push(item)

Spec == Init /\ [][Next]_<<stack, popped>>
=============================================================================
