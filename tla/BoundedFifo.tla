---------------------------- MODULE BoundedFifo ----------------------------
(***************************************************************************)
(* What a FIFO of the UNIDATA library promises: elements come out in the   *)
(* order they went in, at most Capacity of them are held, and an element   *)
(* is dropped only as the oldest of a full FIFO, for a new one.            *)
(***************************************************************************)
EXTENDS Naturals, Sequences

CONSTANTS Capacity, Elts

VARIABLE items

Init == items = <<>>

Add == \E x \in Elts : Len(items) < Capacity /\ items' = Append(items, x)

Remove == items # <<>> /\ items' = Tail(items)

Replace == \E x \in Elts : Len(items) = Capacity /\ items' = Append(Tail(items), x)

Next == Add \/ Remove \/ Replace

Spec == Init /\ [][Next]_items
=============================================================================
