---------------------------- MODULE MCLocalCache ----------------------------
(***************************************************************************)
(* LocalCache for TLC, with the refinement of MoveToFront.                 *)
(***************************************************************************)
EXTENDS LocalCache

(* The linked nodes of a list in the order of a walk from the head.        *)
OrderOf(l) ==
    LET nodes == Linked(l)
        len   == Cardinality(nodes)
    IN  CHOOSE s \in [1..len -> nodes] :
            /\ len > 0 => s[1] = l.head
            /\ \A i \in 1..(len - 1) : s[i + 1] = l.next[s[i]]

Order == OrderOf(list)

MTF == INSTANCE MoveToFront WITH Entries <- Cells, order <- Order

(* Every interleaving of Push and Delete acts on the list as on a          *)
(* move-to-front sequence: no step loses, repeats or reorders the others.  *)
ImplementsMoveToFront == MTF!Spec
=============================================================================
