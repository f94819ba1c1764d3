------------------------------ MODULE LruList ------------------------------
(***************************************************************************)
(* The doubly linked list behind one bucket of the cache (lruBucket and    *)
(* node in src/internal/mycel/ds.go).  A node object is a member of Cells  *)
(* and a nil pointer is Nil.  The operators below are the bodies of the    *)
(* critical sections that run under the bucket's write lock, each as a     *)
(* function from the old list to the new one.                              *)
(***************************************************************************)
EXTENDS Integers, FiniteSets

CONSTANTS
    Cells,     \* the node objects the heap can hold
    Nil        \* the nil pointer

ASSUME NilAssumption == Nil \notin Cells

Ptr == Cells \cup {Nil}

(* The fields of lruBucket and of its nodes that the list code reads and   *)
(* writes: head, tail and len of the bucket, next and prev of each node.   *)
List == [head : Ptr, tail : Ptr, len : Int, next : [Cells -> Ptr], prev : [Cells -> Ptr]]

EmptyList == [head |-> Nil, tail |-> Nil, len |-> 0,
              next |-> [c \in Cells |-> Nil], prev |-> [c \in Cells |-> Nil]]

-----------------------------------------------------------------------------
(* Push: a node that is not the head is taken out of its place (a node     *)
(* with no neighbours is counted as new) and put in front of the head.     *)

(* Mutants of TakeOut: the tail is left behind; the old predecessor keeps  *)
(* its pointer.                                                            *)
TakeOutKeepsTail(l, n) ==
    [head |-> l.head, tail |-> l.tail,
     len  |-> IF l.next[n] = Nil /\ l.prev[n] = Nil THEN l.len + 1 ELSE l.len,
     next |-> [c \in Cells |-> IF c = l.prev[n] THEN l.next[n] ELSE l.next[c]],
     prev |-> [c \in Cells |-> IF c = l.next[n] /\ l.prev[n] # Nil THEN l.prev[n] ELSE l.prev[c]]]

TakeOutKeepsNext(l, n) ==
    [head |-> l.head,
     tail |-> IF l.next[n] = Nil /\ l.prev[n] # Nil THEN l.prev[n] ELSE l.tail,
     len  |-> IF l.next[n] = Nil /\ l.prev[n] = Nil THEN l.len + 1 ELSE l.len,
     next |-> l.next,
     prev |-> [c \in Cells |-> IF c = l.next[n] /\ l.prev[n] # Nil THEN l.prev[n] ELSE l.prev[c]]]

TakeOut(l, n) ==
    LET nx == l.next[n]
        pv == l.prev[n]
    IN  [head |-> l.head,
         tail |-> IF nx = Nil /\ pv # Nil THEN pv ELSE l.tail,
         len  |-> IF nx = Nil /\ pv = Nil THEN l.len + 1 ELSE l.len,
         next |-> [c \in Cells |-> IF c = pv THEN nx ELSE l.next[c]],
         prev |-> [c \in Cells |-> IF c = nx /\ pv # Nil THEN pv ELSE l.prev[c]]]

PutFront(l, n) ==
    LET first == l.head = Nil
    IN  [head |-> n,
         tail |-> IF first THEN n ELSE l.tail,
         len  |-> l.len,
         next |-> [c \in Cells |-> IF c = n /\ ~first THEN l.head ELSE l.next[c]],
         prev |-> [c \in Cells |-> IF c = n /\ ~first THEN Nil
                                   ELSE IF c = l.head THEN n ELSE l.prev[c]]]

(* Mutant of Push: the node ends up below the old head.                    *)
PushBelowHead(l, n) ==
    LET p == PutFront(TakeOut(l, n), n)
    IN  CASE l.head = n -> l
          [] l.head = Nil -> p
          [] OTHER -> PutFront(TakeOut(p, l.head), l.head)

Push(l, n) == IF l.head = n THEN l ELSE PutFront(TakeOut(l, n), n)

(* The list part of lruBucket.Delete once the node has been found.         *)
Unlink(l, n) ==
    LET nx == l.next[n]
        pv == l.prev[n]
    IN  [head |-> IF pv = Nil THEN nx ELSE l.head,
         tail |-> IF nx = Nil THEN pv ELSE l.tail,
         len  |-> l.len - 1,
         next |-> [c \in Cells |-> IF c = n THEN Nil ELSE IF c = pv THEN nx ELSE l.next[c]],
         prev |-> [c \in Cells |-> IF c = n THEN Nil ELSE IF c = nx THEN pv ELSE l.prev[c]]]

(* Mutant of CutTail: the wrong neighbour becomes the tail.                *)
CutTailForward(l) ==
    [head |-> l.head, tail |-> l.next[l.tail], len |-> l.len - 1,
     next |-> [l.next EXCEPT ![l.tail] = Nil], prev |-> [l.prev EXCEPT ![l.tail] = Nil]]

(* The list part of the eviction at the end of setLocal.  The next pointer *)
(* of the new tail is left alone, and so is the head.                      *)
CutTail(l) ==
    LET n == l.tail
    IN  [head |-> l.head,
         tail |-> l.prev[n],
         len  |-> l.len - 1,
         next |-> [l.next EXCEPT ![n] = Nil],
         prev |-> [l.prev EXCEPT ![n] = Nil]]

-----------------------------------------------------------------------------
(* The loops "for n := head; n != nil; n = n.next" visit the least set     *)
(* that holds the head and is closed under next.  WalkPast stops at the    *)
(* nodes of a set, as the search in lruBucket.Delete stops at a match.     *)

WalkPast(l, stops) ==
    {c \in Cells : \A S \in SUBSET Cells :
        /\ l.head # Nil => l.head \in S
        /\ \A d \in S \ stops : l.next[d] # Nil => l.next[d] \in S
        => c \in S}

Walk(l) == WalkPast(l, {})

(* The first node of the walk that belongs to the set, Nil when the walk   *)
(* meets none.                                                             *)
FirstOf(l, match) ==
    LET hits == WalkPast(l, match) \cap match
    IN  IF hits = {} THEN Nil ELSE CHOOSE c \in hits : TRUE

-----------------------------------------------------------------------------
(* Well-formedness.  A node is linked when it is the head or has a         *)
(* predecessor.                                                            *)

Linked(l) == {c \in Cells : c = l.head \/ l.prev[c] # Nil}

(* next and prev are inverse, the head has no predecessor, the tail is the *)
(* one linked node without a successor, a node out of the list points      *)
(* nowhere.                                                                *)
Stitched(l) ==
    /\ \A c, d \in Cells : l.next[c] = d <=> l.prev[d] = c
    /\ (l.head = Nil) <=> (l.tail = Nil)
    /\ l.head # Nil => l.prev[l.head] = Nil
    /\ l.tail # Nil => l.tail \in Linked(l)
    /\ \A c \in Linked(l) : l.next[c] = Nil <=> c = l.tail
    /\ \A c \in Cells \ Linked(l) : l.next[c] = Nil

(* No set of nodes is closed under prev: following prev always ends.       *)
Grounded(l) == \A S \in SUBSET Cells : S # {} => \E c \in S : l.prev[c] \notin S

(* len counts the linked nodes.                                            *)
Counted(l) == l.len = Cardinality(Linked(l))

WellFormed(l) == Stitched(l) /\ Grounded(l) /\ Counted(l)
=============================================================================
