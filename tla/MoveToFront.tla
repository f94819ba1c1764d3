---------------------------- MODULE MoveToFront ----------------------------
(***************************************************************************)
(* What an LRU list promises: it is a sequence of distinct entries, most   *)
(* recently used first.  Using an entry moves it to the front (entering it *)
(* if it is new) and leaves the order of the others alone; an entry may be *)
(* removed from any place.                                                 *)
(***************************************************************************)
EXTENDS Integers, Sequences, SequencesExt

CONSTANT Entries
VARIABLE order

(* No entry is in the sequence twice, so its place is the only one.        *)
Without(s, e) == IF Contains(s, e) THEN RemoveAt(s, CHOOSE p \in 1..Len(s) : s[p] = e) ELSE s

Init == order = <<>>

Use(e) == order' = Cons(e, Without(order, e))

Drop(e) == Contains(order, e) /\ order' = Without(order, e)

Next == \E e \in Entries : Use(e) \/ Drop(e)

Spec == Init /\ [][Next]_order
=============================================================================
