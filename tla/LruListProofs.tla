--------------------------- MODULE LruListProofs ---------------------------
(***************************************************************************)
(* Push and Delete keep the list well formed, for any set of nodes.        *)
(***************************************************************************)
EXTENDS LruList, FiniteSetTheorems, TLAPS

(* The fields of a list have their types.                                  *)
LEMMA ListFields ==
    ASSUME NEW l \in List
    PROVE  /\ l.head \in Ptr /\ l.tail \in Ptr /\ l.len \in Int
           /\ l.next \in [Cells -> Ptr] /\ l.prev \in [Cells -> Ptr]
  BY DEF List, Ptr

(* Taking a node out of its place leaves the head alone and bridges the    *)
(* node's neighbours.                                                      *)
LEMMA TakeOutType ==
    ASSUME NEW l \in List, NEW n \in Cells
    PROVE  LET k == TakeOut(l, n) IN
           /\ k \in List
           /\ k.head = l.head
           /\ k.tail = IF l.next[n] = Nil /\ l.prev[n] # Nil THEN l.prev[n] ELSE l.tail
           /\ k.len = IF l.next[n] = Nil /\ l.prev[n] = Nil THEN l.len + 1 ELSE l.len
           /\ \A c \in Cells : k.next[c] = IF c = l.prev[n] THEN l.next[n] ELSE l.next[c]
           /\ \A c \in Cells : k.prev[c] = IF c = l.next[n] /\ l.prev[n] # Nil
                                           THEN l.prev[n] ELSE l.prev[c]
  BY DEF List, Ptr, TakeOut

(* The empty list is well formed.                                          *)
LEMMA EmptyWellFormed == WellFormed(EmptyList) /\ EmptyList \in List
<1>1. Linked(EmptyList) = {}
  BY NilAssumption DEF Linked, EmptyList
<1>2. Stitched(EmptyList)
  BY <1>1, NilAssumption DEF Stitched, EmptyList
<1>3. Grounded(EmptyList)
  BY NilAssumption DEF Grounded, EmptyList
<1>4. Counted(EmptyList)
  BY <1>1, FS_EmptySet DEF Counted, EmptyList
<1>5. EmptyList \in List
  BY DEF EmptyList, List, Ptr
<1> QED BY <1>2, <1>3, <1>4, <1>5 DEF WellFormed

(* PutFront makes the node the head.                                       *)
LEMMA PutFrontType ==
    ASSUME NEW l \in List, NEW n \in Cells
    PROVE  LET m == PutFront(l, n) IN
           /\ m \in List
           /\ m.head = n
           /\ m.len = l.len
           /\ m.tail = IF l.head = Nil THEN n ELSE l.tail
           /\ \A c \in Cells : m.next[c] = IF c = n /\ l.head # Nil THEN l.head ELSE l.next[c]
           /\ \A c \in Cells : m.prev[c] = IF c = n /\ l.head # Nil THEN Nil
                                           ELSE IF c = l.head THEN n ELSE l.prev[c]
  BY DEF List, Ptr, PutFront

(* Push yields a list.                                                     *)
LEMMA PushType ==
    ASSUME NEW l \in List, NEW n \in Cells
    PROVE  Push(l, n) \in List
<1>1. TakeOut(l, n) \in List
  BY TakeOutType
<1> QED BY <1>1, PutFrontType DEF Push

(* Unlinking a node bridges its neighbours and clears its own pointers.    *)
LEMMA UnlinkType ==
    ASSUME NEW l \in List, NEW n \in Cells
    PROVE  LET m == Unlink(l, n) IN
           /\ m \in List
           /\ m.head = IF l.prev[n] = Nil THEN l.next[n] ELSE l.head
           /\ m.tail = IF l.next[n] = Nil THEN l.prev[n] ELSE l.tail
           /\ m.len = l.len - 1
           /\ \A c \in Cells : m.next[c] = IF c = n THEN Nil
                                           ELSE IF c = l.prev[n] THEN l.next[n] ELSE l.next[c]
           /\ \A c \in Cells : m.prev[c] = IF c = n THEN Nil
                                           ELSE IF c = l.next[n] THEN l.prev[n] ELSE l.prev[c]
  BY DEF List, Ptr, Unlink

(* Cutting the tail off yields a list.                                     *)
LEMMA CutTailType ==
    ASSUME NEW l \in List, l.tail # Nil
    PROVE  CutTail(l) \in List
  BY DEF List, Ptr, CutTail
-----------------------------------------------------------------------------
(* A list without a head has no linked nodes.                              *)
LEMMA NoHeadNoLinked ==
    ASSUME NEW l \in List, Stitched(l), Grounded(l), l.head = Nil
    PROVE  Linked(l) = {}
<1> SUFFICES ASSUME Linked(l) # {} PROVE FALSE
  OBVIOUS
<1>1. PICK c \in Linked(l) : l.prev[c] \notin Linked(l)
  BY DEF Grounded, Linked
<1>2. c \in Cells /\ l.prev[c] # Nil /\ l.prev[c] \in Cells
  BY <1>1, NilAssumption, ListFields DEF Linked, Ptr
<1>3. l.next[l.prev[c]] = c
  BY <1>2 DEF Stitched
<1>4. l.next[l.prev[c]] = Nil
  BY <1>1, <1>2 DEF Stitched
<1> QED BY <1>2, <1>3, <1>4, NilAssumption

(* What Push makes of the fields of a stitched list.                       *)
LEMMA PushShape ==
    ASSUME NEW l \in List, NEW n \in Cells, Stitched(l), Grounded(l), l.head # n
    PROVE  LET m == Push(l, n) IN
           /\ m \in List
           /\ m.head = n
           /\ m.len = IF n \in Linked(l) THEN l.len ELSE l.len + 1
           /\ m.tail = IF l.head = Nil THEN n ELSE IF n = l.tail THEN l.prev[n] ELSE l.tail
           /\ \A c \in Cells : m.next[c] = IF c = n THEN l.head
                                           ELSE IF c = l.prev[n] THEN l.next[n] ELSE l.next[c]
           /\ \A c \in Cells : m.prev[c] = IF c = n THEN Nil
                                           ELSE IF c = l.head THEN n
                                           ELSE IF c = l.next[n] THEN l.prev[n] ELSE l.prev[c]
<1> DEFINE k == TakeOut(l, n)
           m == PutFront(k, n)
<1>1. Push(l, n) = m
  BY DEF Push
<1>2. /\ k \in List /\ k.head = l.head
      /\ k.tail = IF l.next[n] = Nil /\ l.prev[n] # Nil THEN l.prev[n] ELSE l.tail
      /\ k.len = IF l.next[n] = Nil /\ l.prev[n] = Nil THEN l.len + 1 ELSE l.len
      /\ \A c \in Cells : k.next[c] = IF c = l.prev[n] THEN l.next[n] ELSE l.next[c]
      /\ \A c \in Cells : k.prev[c] = IF c = l.next[n] /\ l.prev[n] # Nil THEN l.prev[n] ELSE l.prev[c]
  BY TakeOutType
<1>3. /\ m \in List /\ m.head = n /\ m.len = k.len
      /\ m.tail = IF k.head = Nil THEN n ELSE k.tail
      /\ \A c \in Cells : m.next[c] = IF c = n /\ k.head # Nil THEN k.head ELSE k.next[c]
      /\ \A c \in Cells : m.prev[c] = IF c = n /\ k.head # Nil THEN Nil
                                      ELSE IF c = k.head THEN n ELSE k.prev[c]
  BY <1>2, PutFrontType
<1> HIDE DEF k, m
<1>4. n \in Linked(l) <=> l.prev[n] # Nil
  BY DEF Linked
<1>5. l.prev[n] = Nil => l.next[n] = Nil
  BY <1>4 DEF Stitched
<1>6. l.prev[n] # Nil => (l.next[n] = Nil <=> n = l.tail)
  BY <1>4 DEF Stitched
<1>7. l.prev[n] = Nil /\ l.head # Nil => n # l.tail
  BY <1>4 DEF Stitched
<1>8. l.head = Nil => l.prev[n] = Nil /\ l.next[n] = Nil
  BY <1>4, <1>5, NoHeadNoLinked
<1>9. l.next[n] # n /\ l.prev[n] # n
  <2>1. {n} \in SUBSET Cells /\ {n} # {}
    OBVIOUS
  <2>2. l.prev[n] \notin {n}
    BY <2>1 DEF Grounded
  <2> QED BY <2>2 DEF Stitched
<1>10. m.tail = IF l.head = Nil THEN n ELSE IF n = l.tail THEN l.prev[n] ELSE l.tail
  BY <1>2, <1>3, <1>5, <1>6, <1>7
<1>11. m.len = IF n \in Linked(l) THEN l.len ELSE l.len + 1
  BY <1>2, <1>3, <1>4, <1>5
<1>12. \A c \in Cells : m.next[c] = IF c = n THEN l.head
                                    ELSE IF c = l.prev[n] THEN l.next[n] ELSE l.next[c]
  BY <1>2, <1>3, <1>8, <1>9
<1>13. \A c \in Cells : m.prev[c] = IF c = n THEN Nil
                                    ELSE IF c = l.head THEN n
                                    ELSE IF c = l.next[n] THEN l.prev[n] ELSE l.prev[c]
  BY <1>2, <1>3, <1>5, <1>8, <1>9, NilAssumption
<1> QED BY <1>1, <1>3, <1>10, <1>11, <1>12, <1>13

(* A node that is not the head has neighbours only when it is linked, and  *)
(* is never its own neighbour.                                             *)
LEMMA Neighbours ==
    ASSUME NEW l \in List, NEW n \in Cells, Stitched(l), Grounded(l)
    PROVE  /\ l.next[n] \in Ptr /\ l.prev[n] \in Ptr
           /\ l.next[n] # n /\ l.prev[n] # n
           /\ l.prev[n] = Nil /\ n # l.head => l.next[n] = Nil
           /\ l.next[n] # Nil => l.prev[l.next[n]] = n
           /\ l.prev[n] # Nil => l.next[l.prev[n]] = n
           /\ l.next[n] # Nil => l.next[n] # l.head
           /\ l.next[n] # Nil => l.next[n] # l.prev[n]
<1>1. l.next[n] \in Ptr /\ l.prev[n] \in Ptr
  BY ListFields
<1>2. l.next[n] # n /\ l.prev[n] # n
  <2>1. {n} \in SUBSET Cells /\ {n} # {}
    OBVIOUS
  <2>2. l.prev[n] \notin {n}
    BY <2>1 DEF Grounded
  <2> QED BY <2>2 DEF Stitched
<1>3. l.prev[n] = Nil /\ n # l.head => l.next[n] = Nil
  BY DEF Stitched, Linked
<1>4. l.next[n] # Nil => l.prev[l.next[n]] = n
  BY <1>1 DEF Stitched, Ptr
<1>5. l.prev[n] # Nil => l.next[l.prev[n]] = n
  BY <1>1 DEF Stitched, Ptr
<1>6. l.next[n] # Nil => l.next[n] # l.head
  BY <1>1, <1>4, NilAssumption DEF Stitched, Ptr
<1>7. l.next[n] # Nil => l.next[n] # l.prev[n]
  <2> SUFFICES ASSUME l.next[n] # Nil, l.next[n] = l.prev[n] PROVE FALSE
    OBVIOUS
  <2>1. {n, l.next[n]} \in SUBSET Cells
    BY <1>1 DEF Ptr
  <2>2. \E c \in {n, l.next[n]} : l.prev[c] \notin {n, l.next[n]}
    BY <2>1 DEF Grounded
  <2> QED BY <2>2, <1>4
<1> QED BY <1>1, <1>2, <1>3, <1>4, <1>5, <1>6, <1>7

(* Push keeps a list well formed and links the node, in whatever state the *)
(* node is.                                                                *)
THEOREM PushWellFormed ==
    ASSUME NEW l \in List, NEW n \in Cells, WellFormed(l), IsFiniteSet(Linked(l))
    PROVE  /\ WellFormed(Push(l, n))
           /\ Linked(Push(l, n)) = Linked(l) \cup {n}
<1>0. Stitched(l) /\ Grounded(l) /\ Counted(l)
  BY DEF WellFormed
<1>1. CASE l.head = n
  BY <1>1 DEF Push, Linked
<1>2. CASE l.head # n
  <2> DEFINE m == Push(l, n)
  <2>1. /\ m \in List
        /\ m.head = n
        /\ m.len = IF n \in Linked(l) THEN l.len ELSE l.len + 1
        /\ m.tail = IF l.head = Nil THEN n ELSE IF n = l.tail THEN l.prev[n] ELSE l.tail
        /\ \A c \in Cells : m.next[c] = IF c = n THEN l.head
                                        ELSE IF c = l.prev[n] THEN l.next[n] ELSE l.next[c]
        /\ \A c \in Cells : m.prev[c] = IF c = n THEN Nil
                                        ELSE IF c = l.head THEN n
                                        ELSE IF c = l.next[n] THEN l.prev[n] ELSE l.prev[c]
    BY <1>0, <1>2, PushShape
  <2> HIDE DEF m
  <2>2. /\ l.next[n] \in Ptr /\ l.prev[n] \in Ptr
        /\ l.next[n] # n /\ l.prev[n] # n
        /\ l.prev[n] = Nil => l.next[n] = Nil
        /\ l.next[n] # Nil => l.prev[l.next[n]] = n
        /\ l.prev[n] # Nil => l.next[l.prev[n]] = n
        /\ l.next[n] # Nil => l.next[n] # l.head
        /\ l.next[n] # Nil => l.next[n] # l.prev[n]
    BY <1>0, <1>2, Neighbours
  <2>3. Linked(m) = Linked(l) \cup {n}
    <3>1. ASSUME NEW c \in Cells
          PROVE  (c = m.head \/ m.prev[c] # Nil) <=> (c = l.head \/ l.prev[c] # Nil \/ c = n)
      BY <2>1, <2>2, NilAssumption
    <3> QED BY <3>1 DEF Linked
  <2>4. Stitched(m)
    <3>1. ASSUME NEW c \in Cells, NEW d \in Cells
          PROVE  m.next[c] = d <=> m.prev[d] = c
      <4>1. /\ l.next[c] = d <=> l.prev[d] = c
            /\ l.next[n] = d <=> l.prev[d] = n
            /\ l.next[c] = n <=> l.prev[n] = c
        BY <1>0 DEF Stitched
      <4>2. l.head = d => l.prev[d] = Nil
        BY <1>0, NilAssumption DEF Stitched
      <4>3. CASE c = n
        BY <4>3, <1>2, <4>1, <4>2, <2>1, <2>2, NilAssumption
      <4>4. CASE c # n /\ d = n
        BY <4>4, <4>1, <4>2, <2>1, <2>2, NilAssumption
      <4>5. CASE c # n /\ d # n
        BY <4>5, <4>1, <4>2, <2>1, <2>2, NilAssumption
      <4> QED BY <4>3, <4>4, <4>5
    <3>2. m.head # Nil /\ m.tail # Nil
      BY <1>0, <1>2, <2>1, <2>2, NilAssumption DEF Stitched, Linked
    <3>3. m.prev[m.head] = Nil
      BY <2>1
    <3>4. m.tail \in Linked(m)
      <4>1. CASE l.head = Nil
        BY <4>1, <2>1, <2>3
      <4>2. CASE l.head # Nil /\ n # l.tail
        BY <4>2, <1>0, <2>1, <2>3 DEF Stitched
      <4>3. CASE l.head # Nil /\ n = l.tail
        <5>1. l.prev[n] \in Cells
          BY <4>3, <1>0, <1>2, <2>2 DEF Stitched, Linked, Ptr
        <5>2. l.prev[n] \in Linked(l)
          BY <5>1, <1>0, <2>2, NilAssumption DEF Stitched
        <5> QED BY <4>3, <5>2, <2>1, <2>3
      <4> QED BY <4>1, <4>2, <4>3
    <3>5. ASSUME NEW c \in Linked(m)
          PROVE  m.next[c] = Nil <=> c = m.tail
      <4>1. c \in Cells /\ (c \in Linked(l) \/ c = n)
        BY <2>3 DEF Linked
      <4>2. CASE l.head = Nil
        <5>1. Linked(l) = {}
          BY <4>2, <1>0, NoHeadNoLinked
        <5> QED BY <4>1, <4>2, <5>1, <2>1
      <4>3. CASE l.head # Nil /\ c = n
        BY <4>3, <1>0, <1>2, <2>1, <2>2
      <4>4. CASE l.head # Nil /\ c # n
        <5>1. l.next[c] = Nil <=> c = l.tail
          BY <4>1, <4>4, <1>0 DEF Stitched
        <5>2. n \in Linked(l) <=> l.prev[n] # Nil
          BY <1>2 DEF Linked
        <5>3. n \in Linked(l) => (l.next[n] = Nil <=> n = l.tail)
          BY <1>0 DEF Stitched
        <5>4. n = l.tail => n \in Linked(l)
          BY <1>0, NilAssumption DEF Stitched
        <5>5. l.prev[n] = c => l.next[c] = n
          BY <2>2, <4>1, NilAssumption
        <5> QED BY <4>1, <4>4, <5>1, <5>2, <5>3, <5>4, <5>5, <2>1, <2>2, NilAssumption
      <4> QED BY <4>2, <4>3, <4>4
    <3>6. \A c \in Cells \ Linked(m) : m.next[c] = Nil
      BY <1>0, <2>1, <2>2, <2>3, NilAssumption DEF Stitched, Ptr
    <3> QED BY <3>1, <3>2, <3>3, <3>4, <3>5, <3>6 DEF Stitched
  <2>5. Grounded(m)
    <3> SUFFICES ASSUME NEW S \in SUBSET Cells, S # {}, \A c \in S : m.prev[c] \in S
                 PROVE  FALSE
      BY DEF Grounded
    <3>1. n \notin S
      BY <2>1, NilAssumption
    <3>2. l.head \notin S
      BY <2>1, <3>1, <1>2
    <3>3. CASE l.next[n] \notin S
      <4>1. \A c \in S : l.prev[c] \in S
        BY <3>1, <3>2, <3>3, <2>1
      <4> QED BY <4>1, <1>0 DEF Grounded
    <3>4. CASE l.next[n] \in S
      <4>1. l.prev[n] \in S
        BY <3>1, <3>2, <3>4, <2>1
      <4>2. \A c \in S \cup {n} : l.prev[c] \in S \cup {n}
        BY <4>1, <3>1, <3>2, <2>1, <2>2, NilAssumption
      <4> QED BY <4>2, <1>0 DEF Grounded
    <3> QED BY <3>3, <3>4
  <2>6. Counted(m)
    <3>1. Cardinality(Linked(l) \cup {n})
            = IF n \in Linked(l) THEN Cardinality(Linked(l)) ELSE Cardinality(Linked(l)) + 1
      BY FS_AddElement
    <3> QED BY <1>0, <2>1, <2>3, <3>1 DEF Counted
  <2> QED BY <2>3, <2>4, <2>5, <2>6 DEF WellFormed, m
<1> QED BY <1>1, <1>2

(* Delete's unlinking of a linked node keeps the list well formed and      *)
(* takes that node, and no other, out of it.                               *)
THEOREM UnlinkWellFormed ==
    ASSUME NEW l \in List, NEW n \in Linked(l), WellFormed(l), IsFiniteSet(Linked(l))
    PROVE  /\ WellFormed(Unlink(l, n))
           /\ Linked(Unlink(l, n)) = Linked(l) \ {n}
<1> DEFINE m == Unlink(l, n)
<1>0. Stitched(l) /\ Grounded(l) /\ Counted(l)
  BY DEF WellFormed
<1>1. n \in Cells /\ (n = l.head \/ l.prev[n] # Nil)
  BY DEF Linked
<1>2. /\ m \in List
      /\ m.head = IF l.prev[n] = Nil THEN l.next[n] ELSE l.head
      /\ m.tail = IF l.next[n] = Nil THEN l.prev[n] ELSE l.tail
      /\ m.len = l.len - 1
      /\ \A c \in Cells : m.next[c] = IF c = n THEN Nil
                                      ELSE IF c = l.prev[n] THEN l.next[n] ELSE l.next[c]
      /\ \A c \in Cells : m.prev[c] = IF c = n THEN Nil
                                      ELSE IF c = l.next[n] THEN l.prev[n] ELSE l.prev[c]
  BY <1>1, UnlinkType
<1> HIDE DEF m
<1>3. /\ l.next[n] \in Ptr /\ l.prev[n] \in Ptr
      /\ l.next[n] # n /\ l.prev[n] # n
      /\ l.next[n] # Nil => l.prev[l.next[n]] = n
      /\ l.prev[n] # Nil => l.next[l.prev[n]] = n
      /\ l.next[n] # Nil => l.next[n] # l.head
      /\ l.next[n] # Nil => l.next[n] # l.prev[n]
  BY <1>0, <1>1, Neighbours
<1>4. n = l.head => l.prev[n] = Nil
  BY <1>0, <1>1, NilAssumption DEF Stitched
<1>5. l.next[n] = Nil <=> n = l.tail
  BY <1>0 DEF Stitched
<1>6. l.head # Nil /\ l.head \in Cells
  BY <1>0, NoHeadNoLinked, ListFields DEF Ptr
<1>7. Linked(m) = Linked(l) \ {n}
  <2>1. ASSUME NEW c \in Cells
        PROVE  (c = m.head \/ m.prev[c] # Nil) <=> (c # n /\ (c = l.head \/ l.prev[c] # Nil))
    BY <1>1, <1>2, <1>3, <1>4, NilAssumption
  <2> QED BY <2>1 DEF Linked
<1>8. Stitched(m)
  <2>1. ASSUME NEW c \in Cells, NEW d \in Cells
        PROVE  m.next[c] = d <=> m.prev[d] = c
    <3>1. /\ l.next[c] = d <=> l.prev[d] = c
          /\ l.next[n] = d <=> l.prev[d] = n
          /\ l.next[c] = n <=> l.prev[n] = c
      BY <1>0, <1>1 DEF Stitched
    <3> QED BY <3>1, <1>1, <1>2, <1>3, NilAssumption
  <2>2. m.head = Nil <=> m.tail = Nil
    <3>1. l.tail # Nil
      BY <1>0, <1>6 DEF Stitched
    <3>2. l.prev[n] = Nil => n = l.head
      BY <1>1
    <3> QED BY <3>1, <3>2, <1>2, <1>3, <1>4, <1>5, <1>6
  <2>3. m.head # Nil => m.prev[m.head] = Nil
    <3>1. l.prev[l.head] = Nil
      BY <1>0, <1>6 DEF Stitched
    <3> QED BY <3>1, <1>1, <1>2, <1>3, <1>4, <1>6, NilAssumption DEF Ptr
  <2>4. m.tail # Nil => m.tail \in Linked(m)
    <3>1. CASE l.next[n] = Nil /\ l.prev[n] # Nil
      <4>1. l.prev[n] \in Cells
        BY <3>1, <1>3 DEF Ptr
      <4>2. l.prev[n] \in Linked(l)
        BY <4>1, <3>1, <1>0, <1>1, <1>3, NilAssumption DEF Stitched
      <4> QED BY <3>1, <4>2, <1>2, <1>3, <1>7
    <3>2. CASE l.next[n] # Nil
      BY <3>2, <1>0, <1>2, <1>5, <1>7 DEF Stitched
    <3> QED BY <3>1, <3>2, <1>2
  <2>5. ASSUME NEW c \in Linked(m)
        PROVE  m.next[c] = Nil <=> c = m.tail
    <3>1. c \in Cells /\ c \in Linked(l) /\ c # n
      BY <1>7 DEF Linked
    <3>2. l.next[c] = Nil <=> c = l.tail
      BY <3>1, <1>0 DEF Stitched
    <3>3. l.next[c] = n <=> l.prev[n] = c
      BY <3>1, <1>0, <1>1 DEF Stitched
    <3> QED BY <3>1, <3>2, <3>3, <1>1, <1>2, <1>3, <1>5, NilAssumption
  <2>6. ASSUME NEW c \in Cells \ Linked(m)
        PROVE  m.next[c] = Nil
    <3>1. CASE c = n
      BY <3>1, <1>2
    <3>2. CASE c # n
      <4>1. l.next[c] = Nil
        BY <3>2, <1>0, <1>7 DEF Stitched
      <4>2. l.prev[n] # c
        BY <4>1, <1>1, <1>3, NilAssumption
      <4> QED BY <3>2, <4>1, <4>2, <1>2
    <3> QED BY <3>1, <3>2
  <2> QED BY <2>1, <2>2, <2>3, <2>4, <2>5, <2>6 DEF Stitched
<1>9. Grounded(m)
  <2> SUFFICES ASSUME NEW S \in SUBSET Cells, S # {}, \A c \in S : m.prev[c] \in S
               PROVE  FALSE
    BY DEF Grounded
  <2>1. n \notin S
    BY <1>2, NilAssumption
  <2>2. CASE l.next[n] \notin S
    <3>1. \A c \in S : l.prev[c] \in S
      BY <2>1, <2>2, <1>2
    <3> QED BY <3>1, <1>0 DEF Grounded
  <2>3. CASE l.next[n] \in S
    <3>1. l.prev[n] \in S
      BY <2>1, <2>3, <1>2
    <3>2. \A c \in S \cup {n} : l.prev[c] \in S \cup {n}
      BY <3>1, <2>1, <2>3, <1>2, <1>3, NilAssumption
    <3> QED BY <3>2, <1>0, <1>1 DEF Grounded
  <2> QED BY <2>2, <2>3
<1>10. Counted(m)
  <2>1. Cardinality(Linked(l) \ {n}) = Cardinality(Linked(l)) - 1
    BY FS_RemoveElement
  <2> QED BY <1>0, <1>2, <1>7, <2>1 DEF Counted
<1> QED BY <1>7, <1>8, <1>9, <1>10 DEF WellFormed, m

-----------------------------------------------------------------------------
(* A walk from the head meets linked nodes only, with or without a node to *)
(* stop at; without one it meets them all.                                 *)
THEOREM WalkIsLinked ==
    ASSUME NEW l \in List, Stitched(l), Grounded(l)
    PROVE  /\ Walk(l) = Linked(l)
           /\ \A stops : WalkPast(l, stops) \subseteq Linked(l)
<1>1. ASSUME NEW stops PROVE WalkPast(l, stops) \subseteq Linked(l)
  <2>1. Linked(l) \in SUBSET Cells
    BY DEF Linked
  <2>2. l.head # Nil => l.head \in Linked(l)
    BY ListFields DEF Linked, Ptr
  <2>3. \A d \in Linked(l) : l.next[d] # Nil => l.next[d] \in Linked(l)
    BY ListFields, NilAssumption DEF Linked, Ptr, Stitched
  <2> QED BY <2>1, <2>2, <2>3 DEF WalkPast
<1>2. Linked(l) \subseteq Walk(l)
  <2> SUFFICES ASSUME NEW S \in SUBSET Cells,
                      l.head # Nil => l.head \in S,
                      \A d \in S \ {} : l.next[d] # Nil => l.next[d] \in S,
                      Linked(l) \ S # {}
               PROVE  FALSE
    BY DEF Walk, WalkPast, Linked
  <2>1. PICK c \in Linked(l) \ S : l.prev[c] \notin Linked(l) \ S
    BY DEF Grounded, Linked
  <2>2. c \in Cells /\ l.prev[c] # Nil /\ l.prev[c] \in Cells
    BY <2>1, ListFields, NilAssumption DEF Linked, Ptr
  <2>3. l.next[l.prev[c]] = c
    BY <2>2 DEF Stitched
  <2>4. l.prev[c] \in Linked(l)
    BY <2>2, <2>3, NilAssumption DEF Stitched
  <2> QED BY <2>1, <2>2, <2>3, <2>4, NilAssumption
<1> QED BY <1>1, <1>2 DEF Walk

(* The search in Delete finds a linked node of the wanted set or nothing.  *)
LEMMA FirstOfLinked ==
    ASSUME NEW l \in List, Stitched(l), Grounded(l), NEW match,
           FirstOf(l, match) # Nil
    PROVE  FirstOf(l, match) \in Linked(l) \cap match
  BY WalkIsLinked DEF FirstOf

-----------------------------------------------------------------------------
(* What holds of the list code even when evictions have left the list ill  *)
(* formed: it never comes to point at a node that nothing in the list      *)
(* points at, except for the node that is pushed.                          *)
Pointed(l) == {c \in Cells : c \in {l.head, l.tail} \/ \E d \in Cells : l.next[d] = c \/ l.prev[d] = c}

(* Taking a node out makes its neighbours point at each other.             *)
LEMMA TakeOutPointed ==
    ASSUME NEW l \in List, NEW n \in Cells
    PROVE  Pointed(TakeOut(l, n)) \subseteq Pointed(l)
  BY DEF TakeOut, Pointed

(* Putting a node in front makes it the only newcomer.                     *)
LEMMA PutFrontPointed ==
    ASSUME NEW l \in List, NEW n \in Cells
    PROVE  Pointed(PutFront(l, n)) \subseteq Pointed(l) \cup {n}
  BY NilAssumption DEF PutFront, Pointed

(* Push brings nothing but the pushed node within reach.                   *)
LEMMA PushPointed ==
    ASSUME NEW l \in List, NEW n \in Cells
    PROVE  Pointed(Push(l, n)) \subseteq Pointed(l) \cup {n}
<1>1. TakeOut(l, n) \in List
  BY TakeOutType
<1>2. Pointed(TakeOut(l, n)) \subseteq Pointed(l)
  BY TakeOutPointed
<1>3. Pointed(PutFront(TakeOut(l, n), n)) \subseteq Pointed(TakeOut(l, n)) \cup {n}
  BY <1>1, PutFrontPointed
<1> QED BY <1>2, <1>3 DEF Push

(* Delete's relinking brings no node within reach.                         *)
LEMMA UnlinkPointed ==
    ASSUME NEW l \in List, NEW n \in Cells
    PROVE  Pointed(Unlink(l, n)) \subseteq Pointed(l)
  BY NilAssumption DEF Unlink, Pointed

(* Nor does the eviction of the tail.                                      *)
LEMMA CutTailPointed ==
    ASSUME NEW l \in List, l.tail # Nil
    PROVE  Pointed(CutTail(l)) \subseteq Pointed(l)
  BY NilAssumption DEF CutTail, Pointed, List, Ptr

(* A search returns a node that something in the list points at and that   *)
(* matches.                                                                *)
LEMMA FirstOfPointed ==
    ASSUME NEW l \in List, NEW match, FirstOf(l, match) # Nil
    PROVE  FirstOf(l, match) \in Pointed(l) \cap match
<1>1. WalkPast(l, match) \subseteq Pointed(l)
  <2> SUFFICES ASSUME NEW c \in WalkPast(l, match) PROVE c \in Pointed(l)
    OBVIOUS
  <2>1. Pointed(l) \in SUBSET Cells
    BY DEF Pointed
  <2>2. l.head # Nil => l.head \in Pointed(l)
    BY ListFields DEF Pointed, Ptr
  <2>3. \A d \in Pointed(l) \ match : l.next[d] # Nil => l.next[d] \in Pointed(l)
    BY ListFields DEF Pointed, Ptr
  <2> QED BY <2>1, <2>2, <2>3 DEF WalkPast
<1> QED BY <1>1 DEF FirstOf

=============================================================================
