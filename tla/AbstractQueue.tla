--------------------------- MODULE AbstractQueue ---------------------------
(* What Queue promises: a sequence of items that is pushed at the back,     *)
(* popped at the front and erased anywhere.  Items are numbered.            *)
EXTENDS Integers, Sequences, SequencesExt

CONSTANT MaxItems   \* bound: items pushed
VARIABLES items, pushed

vars == <<items, pushed>>

Init == items = <<>> /\ pushed = 0

Push ==
    /\ pushed < MaxItems
    /\ pushed' = pushed + 1 /\ items' = Append(items, pushed + 1)

Pop == items # <<>> /\ items' = Tail(items) /\ UNCHANGED pushed

Erase == \E i \in DOMAIN items : items' = RemoveAt(items, i) /\ UNCHANGED pushed

Next == Push \/ Pop \/ Erase

Spec == Init /\ [][Next]_vars
=============================================================================
