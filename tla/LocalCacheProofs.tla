-------------------------- MODULE LocalCacheProofs --------------------------
(***************************************************************************)
(* Invariants of LocalCache for any number of goroutines, keys and nodes.  *)
(***************************************************************************)
EXTENDS MCLocalCache, LruListProofs, SequenceTheorems, WellFoundedInduction

(* The search for a key returns a node object or nil.                      *)
LEMMA FirstOfType ==
    ASSUME NEW l, NEW match
    PROVE  FirstOf(l, match) \in Ptr
  BY DEF FirstOf, WalkPast, Ptr

(* An operation that returns leaves its goroutine at rest.                 *)
LEMMA ReturnType ==
    ASSUME ThreadsOK, NEW t \in Threads, Return(t)
    PROVE  ThreadsOK'
  BY DEF ThreadsOK, Return, Rest, Thread, Ptr, Expiry, HoldsCell, HoldsKey

(* An operation that goes on with a node and a key holds both.             *)
LEMMA HoldType ==
    ASSUME ThreadsOK, NEW t \in Threads, NEW k \in Keys, NEW c \in Ptr, NEW s,
           NEW d \in Values \cup {Nil}, NEW e \in Expiry,
           th' = [th EXCEPT ![t] = [pc |-> s, key |-> k, cell |-> c, data |-> d, expiresAt |-> e]],
           \/ s = "delMap"
           \/ s \in {"getPush", "setWrite", "newMap", "ttlWrite"} /\ c # Nil
    PROVE  ThreadsOK'
  BY DEF ThreadsOK, Thread, Ptr, HoldsCell, HoldsKey

(* A goroutine that moves to a step which needs no more than the step it   *)
(* was at keeps what it holds.                                             *)
LEMMA GotoType ==
    ASSUME ThreadsOK, NEW t \in Threads, NEW s, Goto(t, s),
           \/ s \in {"idle", "evict", "sweep"}
           \/ s = "getRead" /\ th[t].pc = "getPush"
           \/ s = "newPush" /\ th[t].pc = "newMap"
    PROVE  ThreadsOK'
  BY DEF ThreadsOK, Goto, Thread, HoldsCell, HoldsKey

(* deleteLocal keeps the types, whoever calls it.                          *)
LEMMA DeleteListType ==
    ASSUME TypeOK, NEW t \in Threads, NEW k \in Keys, DeleteList(t, k)
    PROVE  ThreadsOK' /\ list' \in List /\ node' \in [Cells -> Node]
<1> DEFINE n == FirstOf(list, {c \in Cells : node[c].key = k})
<1>1. n \in Ptr /\ "never" \in Expiry /\ Nil \in Ptr
  BY FirstOfType DEF Expiry, Ptr
<1>2. ThreadsOK /\ list \in List /\ node \in [Cells -> Node]
  BY DEF TypeOK
<1> HIDE DEF n
<1>3. CASE Return(t) /\ UNCHANGED <<list, node>>
  BY <1>2, <1>3, ReturnType
<1>4. CASE /\ n # Nil /\ list' = Unlink(list, n) /\ node' = [node EXCEPT ![n].data = Nil]
           /\ Hold(t, "delMap", k, Nil)
  <2>1. n \in Cells
    BY <1>1, <1>4 DEF Ptr
  <2>2. list' \in List
    BY <1>2, <1>4, <2>1, UnlinkType
  <2>3. node' \in [Cells -> Node]
    BY <1>2, <1>4, <2>1 DEF Node
  <2>4. ThreadsOK'
    BY <1>1, <1>2, <1>4, HoldType DEF Hold
  <2> QED BY <2>2, <2>3, <2>4
<1> QED BY <1>3, <1>4 DEF DeleteList, n

(* Clearing the pointers of a node that is allocated keeps the type.       *)
LEMMA AllocatedType ==
    ASSUME NEW l \in List, NEW c \in Cells
    PROVE  /\ Allocated(l, c) \in List
           /\ Allocated(l, c).head = l.head /\ Allocated(l, c).tail = l.tail
           /\ Allocated(l, c).len = l.len
           /\ Allocated(l, c).next = [l.next EXCEPT ![c] = Nil]
           /\ Allocated(l, c).prev = [l.prev EXCEPT ![c] = Nil]
  BY DEF Allocated, List, Ptr

(* ... and points at no other node.                                        *)
LEMMA AllocatedPointed ==
    ASSUME NEW l \in List, NEW c \in Cells
    PROVE  Pointed(Allocated(l, c)) \subseteq Pointed(l)
<1> DEFINE m == Allocated(l, c)
<1>0. l.next \in [Cells -> Ptr] /\ l.prev \in [Cells -> Ptr]
  BY ListFields
<1>1. /\ m.head = l.head /\ m.tail = l.tail
      /\ \A d \in Cells : /\ m.next[d] = (IF d = c THEN Nil ELSE l.next[d])
                          /\ m.prev[d] = (IF d = c THEN Nil ELSE l.prev[d])
  <2>1. /\ m.head = l.head /\ m.tail = l.tail
        /\ m.next = [l.next EXCEPT ![c] = Nil] /\ m.prev = [l.prev EXCEPT ![c] = Nil]
    BY AllocatedType
  <2> QED BY <1>0, <2>1
<1> HIDE DEF m
<1>2. Pointed(m) \subseteq Pointed(l)
  BY <1>1, NilAssumption DEF Pointed
<1> QED BY <1>2 DEF m

(* One step keeps the types.                                               *)
LEMMA TypeStep == TypeOK /\ [Next]_vars => TypeOK'
<1> SUFFICES ASSUME TypeOK, [Next]_vars PROVE TypeOK'
  OBVIOUS
<1>0. /\ Clients \subseteq Threads /\ Worker \in Threads
      /\ ThreadsOK /\ list \in List /\ node \in [Cells -> Node] /\ keyVal \in [Keys -> Ptr]
      /\ expired \in SUBSET (Cells \X Keys) /\ created \in BOOLEAN /\ crashed \in BOOLEAN
      /\ {"never", "future", "past"} \subseteq Expiry
  BY DEF TypeOK, Threads, Expiry
<1>1. CASE CreateBucket
  BY <1>0, <1>1 DEF CreateBucket, TypeOK, ThreadsOK
<1>2. ASSUME NEW t \in Clients, NEW k \in Keys, GetLookup(t, k) PROVE TypeOK'
  <2>1. keyVal[k] \in Ptr
    BY <1>0
  <2>2. ThreadsOK'
    BY <1>0, <1>2, <2>1, ReturnType, HoldType DEF GetLookup, Hold
  <2> QED BY <1>0, <1>2, <2>2 DEF GetLookup, TypeOK
<1>3. ASSUME NEW t \in Threads, GetPush(t) PROVE TypeOK'
  <2>1. th[t].cell \in Cells
    BY <1>0, <1>3 DEF GetPush, ThreadsOK, HoldsCell
  <2>2. list' \in List
    BY <1>0, <1>3, <2>1, PushType DEF GetPush
  <2>3. ThreadsOK'
    BY <1>0, <1>3, GotoType DEF GetPush
  <2> QED BY <1>0, <1>3, <2>2, <2>3 DEF GetPush, TypeOK
<1>4. ASSUME NEW t \in Threads, GetRead(t) PROVE TypeOK'
  BY <1>0, <1>4, ReturnType DEF GetRead, TypeOK
<1>5. ASSUME NEW t \in Clients, NEW k \in Keys, NEW v \in Values, NEW e \in {"never", "future"},
             SetLookup(t, k, v, e)
      PROVE  TypeOK'
  <2>1. keyVal[k] \in Ptr /\ Free \subseteq Cells
    BY <1>0 DEF Free
  <2>2. CASE Return(t) /\ UNCHANGED <<list, node>>
    BY <1>0, <1>5, <2>2, ReturnType DEF SetLookup, TypeOK
  <2>3. CASE /\ keyVal[k] # Nil
             /\ th' = [th EXCEPT ![t] = [pc |-> "setWrite", key |-> k, cell |-> keyVal[k],
                                         data |-> v, expiresAt |-> e]]
             /\ UNCHANGED <<list, node>>
    <3>1. ThreadsOK'
      BY <1>0, <2>1, <2>3, HoldType
    <3> QED BY <1>0, <1>5, <2>3, <3>1 DEF SetLookup, TypeOK
  <2>4. ASSUME NEW c \in Free, list' = Allocated(list, c),
               node' = [node EXCEPT ![c] = [key |-> k, data |-> v, expiresAt |-> e]],
               Hold(t, "newMap", k, c)
        PROVE  TypeOK'
    <3>1. c \in Cells /\ c \in Ptr /\ c # Nil
      BY <2>1, NilAssumption DEF Ptr
    <3>2. ThreadsOK'
      BY <1>0, <2>4, <3>1, HoldType DEF Hold
    <3>3. node' \in [Cells -> Node]
      BY <1>0, <2>4, <3>1 DEF Node
    <3>4. list' \in List
      BY <1>0, <2>4, <3>1, AllocatedType
    <3> QED BY <1>0, <1>5, <3>2, <3>3, <3>4 DEF SetLookup, TypeOK
  <2> QED BY <1>5, <2>2, <2>3, <2>4 DEF SetLookup
<1>6. ASSUME NEW t \in Threads, SetWrite(t) PROVE TypeOK'
  <2>1. th[t].cell \in Cells /\ th[t].data \in Values \cup {Nil} /\ th[t].expiresAt \in Expiry
    BY <1>0, <1>6 DEF SetWrite, ThreadsOK, Thread, HoldsCell
  <2>2. node' \in [Cells -> Node]
    BY <1>0, <1>6, <2>1 DEF SetWrite, Node
  <2>3. ThreadsOK'
    BY <1>0, <1>6, <2>1 DEF SetWrite, Hold, ThreadsOK, Thread, HoldsCell, HoldsKey, Ptr
  <2> QED BY <1>0, <1>6, <2>2, <2>3 DEF SetWrite, TypeOK
<1>7. ASSUME NEW t \in Threads, SetPush(t) PROVE TypeOK'
  <2>1. th[t].cell \in Cells
    BY <1>0, <1>7 DEF SetPush, ThreadsOK, HoldsCell
  <2>2. list' \in List
    BY <1>0, <1>7, <2>1, PushType DEF SetPush
  <2> QED BY <1>0, <1>7, <2>2, ReturnType DEF SetPush, TypeOK
<1>8. ASSUME NEW t \in Threads, NewMap(t) PROVE TypeOK'
  <2>1. th[t].cell \in Cells /\ th[t].key \in Keys
    BY <1>0, <1>8 DEF NewMap, ThreadsOK, HoldsCell, HoldsKey
  <2>2. keyVal' \in [Keys -> Ptr]
    BY <1>0, <1>8, <2>1 DEF NewMap, Ptr
  <2>3. ThreadsOK'
    BY <1>0, <1>8, GotoType DEF NewMap
  <2> QED BY <1>0, <1>8, <2>2, <2>3 DEF NewMap, TypeOK
<1>9. ASSUME NEW t \in Threads, NewPush(t) PROVE TypeOK'
  <2>1. th[t].cell \in Cells
    BY <1>0, <1>9 DEF NewPush, ThreadsOK, HoldsCell
  <2>2. list' \in List
    BY <1>0, <1>9, <2>1, PushType DEF NewPush
  <2>3. ThreadsOK'
    BY <1>0, <1>9 DEF NewPush, Rest, ThreadsOK, Thread, HoldsCell, HoldsKey, Ptr
  <2> QED BY <1>0, <1>9, <2>2, <2>3 DEF NewPush, TypeOK
<1>10. ASSUME NEW t \in Threads, NewCheck(t) PROVE TypeOK'
  <2>1. ThreadsOK'
    BY <1>0, <1>10, GotoType, ReturnType DEF NewCheck
  <2> QED BY <1>0, <1>10, <2>1 DEF NewCheck, TypeOK
<1>11. ASSUME NEW t \in Threads, Evict(t) PROVE TypeOK'
  <2>1. CASE list.tail = Nil
    BY <1>0, <1>11, <2>1 DEF Evict, TypeOK, ThreadsOK
  <2>2. CASE list.tail # Nil
    <3>1. list.tail \in Cells
      BY <1>0, <2>2, ListFields DEF Ptr
    <3>2. list' \in List
      BY <1>0, <1>11, <2>2, CutTailType DEF Evict
    <3>3. node' \in [Cells -> Node]
      BY <1>0, <1>11, <2>2, <3>1 DEF Evict, Node
    <3>4. keyVal' \in [Keys -> Ptr]
      BY <1>0, <1>11, <2>2, <3>1 DEF Evict, Node, Ptr
    <3>5. ThreadsOK'
      BY <1>0, <1>11, <2>2, ReturnType DEF Evict
    <3> QED BY <1>0, <1>11, <2>2, <3>2, <3>3, <3>4, <3>5 DEF Evict, TypeOK
  <2> QED BY <2>1, <2>2
<1>12. ASSUME NEW t \in Clients, NEW k \in Keys, ClientDelete(t, k) PROVE TypeOK'
  <2>1. ThreadsOK' /\ list' \in List /\ node' \in [Cells -> Node]
    BY <1>0, <1>12, DeleteListType DEF ClientDelete
  <2> QED BY <1>0, <1>12, <2>1 DEF ClientDelete, DeleteList, TypeOK
<1>13. ASSUME NEW t \in Threads, DelMap(t) PROVE TypeOK'
  <2>1. th[t].key \in Keys
    BY <1>0, <1>13 DEF DelMap, ThreadsOK, HoldsKey
  <2>2. keyVal' \in [Keys -> Ptr]
    BY <1>0, <1>13, <2>1 DEF DelMap, Ptr
  <2> QED BY <1>0, <1>13, <2>2, ReturnType DEF DelMap, TypeOK
<1>14. ASSUME NEW t \in Clients, NEW k \in Keys, NEW e \in {"future", "past"}, TtlLookup(t, k, e)
       PROVE  TypeOK'
  <2>1. keyVal[k] \in Ptr
    BY <1>0
  <2>2. ThreadsOK'
    BY <1>0, <1>14, <2>1, ReturnType, HoldType DEF TtlLookup
  <2> QED BY <1>0, <1>14, <2>2 DEF TtlLookup, TypeOK
<1>15. ASSUME NEW t \in Threads, TtlWrite(t) PROVE TypeOK'
  <2>1. th[t].cell \in Cells /\ th[t].key \in Keys /\ th[t].expiresAt \in Expiry
    BY <1>0, <1>15 DEF TtlWrite, ThreadsOK, Thread, HoldsCell, HoldsKey
  <2>2. node' \in [Cells -> Node]
    BY <1>0, <1>15, <2>1 DEF TtlWrite, Node
  <2>3. keyVal' \in [Keys -> Ptr]
    BY <1>0, <1>15, <2>1 DEF TtlWrite, Ptr
  <2> QED BY <1>0, <1>15, <2>2, <2>3, ReturnType DEF TtlWrite, TypeOK
<1>16. CASE Sweep
  <2>1. expired' \in SUBSET (Cells \X Keys)
    <3>1. Walk(list) \subseteq Cells
      BY DEF Walk, WalkPast
    <3> QED BY <1>0, <1>16, <3>1 DEF Sweep, Node
  <2>2. ThreadsOK'
    BY <1>0, <1>16, GotoType DEF Sweep
  <2> QED BY <1>0, <1>16, <2>1, <2>2 DEF Sweep, TypeOK
<1>17. CASE SweepDelete
  <2>1. PICK x \in expired : expired' = expired \ {x} /\ DeleteList(Worker, x[2])
    BY <1>17 DEF SweepDelete
  <2>2. x[2] \in Keys
    BY <1>0
  <2>3. ThreadsOK' /\ list' \in List /\ node' \in [Cells -> Node]
    BY <1>0, <2>1, <2>2, DeleteListType
  <2> QED BY <1>0, <2>1, <2>3 DEF DeleteList, TypeOK
<1>18. CASE SweepDone
  <2>1. ThreadsOK'
    BY <1>0, <1>18, GotoType DEF SweepDone
  <2> QED BY <1>0, <1>18, <2>1 DEF SweepDone, TypeOK
<1>19. ASSUME NEW c \in Cells, Expire(c) PROVE TypeOK'
  <2>1. node' \in [Cells -> Node]
    BY <1>0, <1>19 DEF Expire, Node
  <2> QED BY <1>0, <1>19, <2>1 DEF Expire, TypeOK, ThreadsOK
<1>20. CASE UNCHANGED vars
  BY <1>0, <1>20 DEF vars, TypeOK, ThreadsOK
<1>21. ASSUME NEW t \in Clients, ClientCall(t) PROVE TypeOK'
  BY <1>21, <1>2, <1>5, <1>12, <1>14 DEF ClientCall
<1>22. ASSUME NEW t \in Threads, ThreadStep(t) PROVE TypeOK'
  BY <1>22, <1>3, <1>4, <1>6, <1>7, <1>8, <1>9, <1>10, <1>11, <1>13, <1>15 DEF ThreadStep
<1> QED
  BY <1>1, <1>16, <1>17, <1>18, <1>19, <1>20, <1>21, <1>22 DEF Next, WorkerStep

(* Type correctness: every variable keeps its type and an operation past   *)
(* its lookup always holds a node object.                                  *)
THEOREM TypeCorrect == Spec => []TypeOK
<1>1. Init => TypeOK
  <2> SUFFICES ASSUME Init PROVE TypeOK
    OBVIOUS
  <2>1. (CHOOSE k \in Keys : TRUE) \in Keys
    BY LocalCacheAssumption
  <2>2. list \in List
    BY EmptyWellFormed DEF Init
  <2>3. node \in [Cells -> Node]
    BY <2>1 DEF Init, Node, Expiry
  <2> QED
    BY <2>2, <2>3 DEF Init, TypeOK, ThreadsOK, Rest, Thread, Ptr, Expiry, HoldsCell, HoldsKey
<1> QED BY <1>1, TypeStep, PTL DEF Spec
-----------------------------------------------------------------------------
(* The inductive invariant behind ListOK: as long as the nodes in use fit  *)
(* the bucket no goroutine decides to evict, and then every step that      *)
(* writes the list is a Push of some node or the unlinking of a linked     *)
(* one.                                                                    *)
NoEviction == \A t \in Threads : th[t].pc # "evict"
ListInv == WellFormed(list) /\ NoEviction

(* deleteLocal keeps the list well formed, whoever calls it.               *)
LEMMA DeleteListWellFormed ==
    ASSUME TypeOK, IsFiniteSet(Cells), WellFormed(list),
           NEW t \in Threads, NEW k \in Keys, DeleteList(t, k)
    PROVE  WellFormed(list')
<1> DEFINE n == FirstOf(list, {c \in Cells : node[c].key = k})
<1>1. list \in List /\ Stitched(list) /\ Grounded(list) /\ IsFiniteSet(Linked(list))
  BY FS_Subset DEF TypeOK, WellFormed, Linked
<1>2. n # Nil => n \in Linked(list)
  BY <1>1, FirstOfLinked
<1> HIDE DEF n
<1>3. n # Nil => WellFormed(Unlink(list, n))
  BY <1>1, <1>2, UnlinkWellFormed
<1> QED BY <1>3 DEF DeleteList, n

(* A node that nothing refers to has no neighbours in a well-formed list.  *)
LEMMA AllocatedSame ==
    ASSUME TypeOK, WellFormed(list), NEW c \in Free
    PROVE  Allocated(list, c) = list
<1>1. list \in List /\ c \in Cells /\ Stitched(list)
  BY DEF TypeOK, WellFormed, Free
<1>2. c # list.head /\ \A d \in Cells : list.next[d] # c
  BY DEF Free
<1>3. list.prev[c] = Nil
  BY <1>1, <1>2, ListFields DEF Stitched, Ptr
<1>4. list.next[c] = Nil
  BY <1>1, <1>2, <1>3 DEF Stitched, Linked
<1> QED BY <1>1, <1>3, <1>4 DEF Allocated, List

(* One step keeps the list invariant.                                      *)
LEMMA ListStep ==
    ASSUME IsFiniteSet(Cells), Cardinality(Cells) <= MaxLen
    PROVE  TypeOK /\ ListInv /\ [Next]_vars => ListInv'
<1> SUFFICES ASSUME TypeOK, ListInv, [Next]_vars PROVE ListInv'
  OBVIOUS
<1>0. /\ Clients \subseteq Threads /\ Worker \in Threads
      /\ list \in List /\ WellFormed(list) /\ NoEviction /\ th \in [Threads -> Thread]
  BY DEF TypeOK, ThreadsOK, ListInv, Threads
<1>1. IsFiniteSet(Linked(list)) /\ Cardinality(Linked(list)) <= Cardinality(Cells)
  BY FS_Subset DEF Linked
<1>2. list.len <= MaxLen
  <2>1. Cardinality(Linked(list)) \in Int /\ Cardinality(Cells) \in Int /\ MaxLen \in Int
    BY <1>1, FS_CardinalityType, LocalCacheAssumption
  <2> QED BY <1>0, <1>1, <2>1 DEF WellFormed, Counted
<1>3. ASSUME NEW t \in Threads, HoldsCell(th[t].pc) PROVE WellFormed(Push(list, th[t].cell))
  <2>1. th[t].cell \in Cells
    BY <1>3 DEF TypeOK, ThreadsOK
  <2> QED BY <2>1, <1>0, <1>1, PushWellFormed
<1>4. ASSUME NEW t \in Threads, ThreadStep(t) PROVE ListInv'
  <2>1. WellFormed(list')
    <3>1. CASE GetPush(t) \/ SetPush(t) \/ NewPush(t)
      BY <3>1, <1>3 DEF GetPush, SetPush, NewPush, HoldsCell
    <3>2. CASE UNCHANGED list
      BY <3>2, <1>0
    <3> QED BY <1>0, <1>4, <3>1, <3>2 DEF NoEviction, ThreadStep, GetRead, SetWrite, NewMap,
                                          NewCheck, Evict, DelMap, TtlWrite
  <2>2. NoEviction'
    <3>1. CASE NewCheck(t)
      BY <3>1, <1>0, <1>2, ListFields, LocalCacheAssumption DEF NewCheck, Return, Rest, NoEviction
    <3>2. CASE GetPush(t) \/ GetRead(t) \/ SetWrite(t) \/ SetPush(t)
      BY <3>2, <1>0 DEF GetPush, GetRead, SetWrite, SetPush, Goto, Return, Rest, Hold, NoEviction, Thread
    <3>3. CASE NewMap(t) \/ NewPush(t) \/ DelMap(t) \/ TtlWrite(t)
      BY <3>3, <1>0 DEF NewMap, NewPush, DelMap, TtlWrite, Goto, Return, Rest, NoEviction, Thread
    <3> QED BY <1>0, <1>4, <3>1, <3>2, <3>3 DEF ThreadStep, Evict, NoEviction
  <2> QED BY <2>1, <2>2 DEF ListInv
<1>5. ASSUME NEW t \in Threads, NEW k \in Keys, DeleteList(t, k) PROVE ListInv'
  <2>1. WellFormed(list')
    BY <1>0, <1>5, DeleteListWellFormed
  <2>2. NoEviction'
    BY <1>0, <1>5 DEF DeleteList, Return, Rest, Hold, NoEviction
  <2> QED BY <2>1, <2>2 DEF ListInv
<1>6. ASSUME NEW t \in Clients, ClientCall(t) PROVE ListInv'
  <2>1. ASSUME NEW k \in Keys, GetLookup(t, k) PROVE ListInv'
    BY <2>1, <1>0 DEF GetLookup, Return, Rest, Hold, NoEviction, ListInv
  <2>2. ASSUME NEW k \in Keys, NEW v, NEW e, SetLookup(t, k, v, e) PROVE ListInv'
    <3>1. list' = list
      BY <1>0, <2>2, AllocatedSame DEF SetLookup
    <3> QED BY <2>2, <3>1, <1>0 DEF SetLookup, Return, Rest, Hold, NoEviction, ListInv
  <2>3. ASSUME NEW k \in Keys, NEW e, TtlLookup(t, k, e) PROVE ListInv'
    BY <2>3, <1>0 DEF TtlLookup, Return, Rest, NoEviction, ListInv
  <2> QED BY <1>0, <1>5, <1>6, <2>1, <2>2, <2>3 DEF ClientCall, ClientDelete
<1>7. CASE WorkerStep
  <2>1. CASE Sweep \/ SweepDone
    BY <2>1, <1>0 DEF Sweep, SweepDone, Goto, NoEviction, ListInv, Thread
  <2>2. CASE SweepDelete
    <3>1. PICK x \in expired : DeleteList(Worker, x[2])
      BY <2>2 DEF SweepDelete
    <3>2. x[2] \in Keys
      BY DEF TypeOK
    <3> QED BY <1>0, <1>5, <3>1, <3>2
  <2> QED BY <1>7, <2>1, <2>2 DEF WorkerStep
<1>8. CASE CreateBucket \/ (\E c \in Cells : Expire(c)) \/ UNCHANGED vars
  BY <1>0, <1>8 DEF CreateBucket, Expire, vars, NoEviction, ListInv
<1> QED BY <1>4, <1>6, <1>7, <1>8 DEF Next

(* Every interleaving of gets, sets, deletes, TTL changes and TTL sweeps,  *)
(* with any number of goroutines, keeps the list well formed and its walks *)
(* complete, as long as the nodes in use never exceed maxLen.              *)
THEOREM ListStaysWellFormed ==
    ASSUME IsFiniteSet(Cells), Cardinality(Cells) <= MaxLen
    PROVE  Spec => []ListOK
<1>1. Init => ListInv
  BY EmptyWellFormed DEF Init, ListInv, NoEviction, Rest
<1>2. TypeOK /\ ListInv => ListOK
  BY WalkIsLinked DEF TypeOK, ListInv, ListOK, WellFormed
<1> QED BY <1>1, <1>2, TypeCorrect, ListStep, PTL DEF Spec

-----------------------------------------------------------------------------
(* The inductive invariant behind MappedHasData.  It does not need a well- *)
(* formed list, so it covers evictions too.  Three things have to be known *)
(* about the operations under way: a mapped node is of its key, and is     *)
(* emptied only while some deletion is about to remove the key's entry; a  *)
(* node that setLocal has created and not yet entered in the map has its   *)
(* data and is out of reach of every other goroutine, of the map and of    *)
(* the list; what is written has data, and nobody is about to enter an old *)
(* node in the map again, as setTtlLocal does.                             *)
Removing(k) == \E t \in Threads : th[t].pc = "delMap" /\ th[t].key = k

EntryInv ==
    \A k \in Mapped : /\ node[keyVal[k]].key = k
                      /\ node[keyVal[k]].data # Nil \/ Removing(k)

Fresh(t) ==
    LET c == th[t].cell
    IN  /\ node[c].key = th[t].key /\ node[c].data # Nil
        /\ c \notin Pointed(list)
        /\ \A k \in Keys : keyVal[k] # c
        /\ \A u \in Threads \ {t} : th[u].cell # c

FreshInv == \A t \in Threads : th[t].pc = "newMap" => Fresh(t)

WriteInv == \A t \in Threads : /\ th[t].pc = "setWrite" => th[t].data # Nil
                               /\ th[t].pc # "ttlWrite"

MapInv == EntryInv /\ FreshInv /\ WriteInv

(* A goroutine's step leaves alone the nodes that others have created: it  *)
(* writes only its own node and those the list points at, and enters       *)
(* nothing but its own node in the map or the list.                        *)
LEMMA FreshKept ==
    ASSUME TypeOK, FreshInv, NEW t \in Threads, NEW r,
           th' = [th EXCEPT ![t] = r],
           r.pc # "newMap",
           r.cell \in {th[t].cell, Nil} \cup {keyVal[k] : k \in Keys},
           \A c \in Cells : c # th[t].cell /\ c \notin Pointed(list)
               => node'[c].key = node[c].key /\ node'[c].data = node[c].data,
           \A k \in Keys : keyVal'[k] \in {keyVal[k], Nil, th[t].cell},
           Pointed(list') \subseteq Pointed(list) \cup {th[t].cell}
    PROVE  FreshInv'
<1> SUFFICES ASSUME NEW u \in Threads, th'[u].pc = "newMap" PROVE Fresh(u)'
  BY DEF FreshInv
<1>0. th \in [Threads -> Thread]
  BY DEF TypeOK, ThreadsOK
<1>1. u # t /\ th'[u] = th[u] /\ th'[t] = r
  BY <1>0
<1>2. PICK c \in Cells : c = th[u].cell
  BY <1>1 DEF TypeOK, ThreadsOK, HoldsCell
<1>3. /\ node[c].key = th[u].key /\ node[c].data # Nil
      /\ c \notin Pointed(list)
      /\ \A k \in Keys : keyVal[k] # c
      /\ \A w \in Threads \ {u} : th[w].cell # c
  BY <1>1, <1>2 DEF FreshInv, Fresh
<1>4. c # Nil /\ th[t].cell # c
  BY <1>1, <1>3, NilAssumption
<1>5. node'[c].key = th'[u].key /\ node'[c].data # Nil
  BY <1>1, <1>3, <1>4
<1>6. c \notin Pointed(list')
  BY <1>3, <1>4
<1>7. \A k \in Keys : keyVal'[k] # c
  BY <1>3, <1>4
<1>8. ASSUME NEW w \in Threads \ {u} PROVE th'[w].cell # c
  <2>1. CASE w = t
    BY <1>1, <1>3, <1>4, <2>1
  <2>2. CASE w # t
    BY <1>0, <1>3, <2>2
  <2> QED BY <2>1, <2>2
<1>9. c = th'[u].cell
  BY <1>1, <1>2
<1> QED BY <1>5, <1>6, <1>7, <1>8, <1>9 DEF Fresh

(* A step that removes no node's data, enters nothing in the map and is    *)
(* not the end of a deletion keeps the entries.                            *)
LEMMA EntriesKept ==
    ASSUME TypeOK, EntryInv, NEW t \in Threads, NEW r,
           th' = [th EXCEPT ![t] = r], th[t].pc # "delMap",
           \A k \in Mapped : node'[keyVal[k]].key = node[keyVal[k]].key
               /\ (node'[keyVal[k]].data # Nil \/ node'[keyVal[k]].data = node[keyVal[k]].data),
           \A k \in Keys : keyVal'[k] \in {keyVal[k], Nil}
    PROVE  EntryInv'
<1> SUFFICES ASSUME NEW k \in Keys, keyVal'[k] # Nil
             PROVE  node'[keyVal'[k]].key = k /\ (node'[keyVal'[k]].data # Nil \/ Removing(k)')
  BY DEF EntryInv, Mapped
<1>0. th \in [Threads -> Thread]
  BY DEF TypeOK, ThreadsOK
<1>1. keyVal'[k] = keyVal[k] /\ k \in Mapped
  BY DEF Mapped
<1>2. node[keyVal[k]].key = k /\ (node[keyVal[k]].data # Nil \/ Removing(k))
  BY <1>1 DEF EntryInv
<1>3. ASSUME Removing(k) PROVE Removing(k)'
  <2>1. PICK u \in Threads : th[u].pc = "delMap" /\ th[u].key = k
    BY <1>3 DEF Removing
  <2>2. th'[u] = th[u]
    BY <1>0, <2>1
  <2> QED BY <2>1, <2>2 DEF Removing
<1> QED BY <1>1, <1>2, <1>3

(* What a goroutine writes stays data when its step starts no write.       *)
LEMMA WritesKept ==
    ASSUME TypeOK, WriteInv, NEW t \in Threads, NEW r,
           th' = [th EXCEPT ![t] = r], r.pc # "ttlWrite",
           r.pc = "setWrite" => r.data # Nil
    PROVE  WriteInv'
  BY DEF WriteInv, TypeOK, ThreadsOK

(* A step of one goroutine that leaves the map, the nodes' keys and data   *)
(* and the deletions alone, and takes up or pushes no new node.            *)
LEMMA MapKept ==
    ASSUME TypeOK, MapInv, NEW t \in Threads, NEW r,
           th' = [th EXCEPT ![t] = r], th[t].pc # "delMap",
           r.pc \notin {"newMap", "ttlWrite"}, r.pc = "setWrite" => r.data # Nil,
           r.cell \in {th[t].cell, Nil} \cup {keyVal[k] : k \in Keys},
           UNCHANGED <<node, keyVal>>,
           Pointed(list') \subseteq Pointed(list) \cup {th[t].cell}
    PROVE  MapInv'
<1>1. FreshInv'
  BY FreshKept DEF MapInv
<1>2. EntryInv'
  BY EntriesKept DEF MapInv
<1>3. WriteInv'
  BY WritesKept DEF MapInv
<1> QED BY <1>1, <1>2, <1>3 DEF MapInv
(* deleteLocal empties a node of the key it goes on to remove, never one   *)
(* that another goroutine is about to enter in the map.                    *)
LEMMA DeleteListMap ==
    ASSUME TypeOK, MapInv, NEW t \in Threads, NEW k \in Keys, th[t].pc # "delMap",
           DeleteList(t, k)
    PROVE  MapInv'
<1> DEFINE n == FirstOf(list, {c \in Cells : node[c].key = k})
<1>0. /\ list \in List /\ node \in [Cells -> Node] /\ th \in [Threads -> Thread]
      /\ UNCHANGED keyVal
  BY DEF TypeOK, ThreadsOK, DeleteList
<1>1. n # Nil => n \in Cells /\ n \in Pointed(list) /\ node[n].key = k
  BY <1>0, FirstOfPointed
<1> HIDE DEF n
<1>2. CASE Return(t) /\ UNCHANGED <<list, node>>
  <2> DEFINE r == Rest(IF t = Worker THEN "sweep" ELSE "idle")
  <2>1. /\ th' = [th EXCEPT ![t] = r] /\ r.pc \in {"sweep", "idle"} /\ r.cell = Nil
    BY <1>2 DEF Return, Rest
  <2> HIDE DEF r
  <2> QED BY <1>0, <1>2, <2>1, MapKept
<1>3. CASE /\ n # Nil /\ list' = Unlink(list, n) /\ node' = [node EXCEPT ![n].data = Nil]
           /\ Hold(t, "delMap", k, Nil)
  <2> DEFINE r == [pc |-> "delMap", key |-> k, cell |-> Nil, data |-> Nil, expiresAt |-> "never"]
  <2>1. th' = [th EXCEPT ![t] = r] /\ r.pc = "delMap" /\ r.key = k /\ r.cell = Nil
    BY <1>3 DEF Hold
  <2> HIDE DEF r
  <2>2. Pointed(list') \subseteq Pointed(list)
    BY <1>0, <1>1, <1>3, UnlinkPointed
  <2>3. \A c \in Cells : /\ node'[c].key = node[c].key
                         /\ c # n => node'[c].data = node[c].data
    BY <1>0, <1>1, <1>3 DEF Node
  <2>4. FreshInv'
    BY <1>0, <1>1, <1>3, <2>1, <2>2, <2>3, FreshKept DEF MapInv
  <2>5. EntryInv'
    <3> SUFFICES ASSUME NEW j \in Keys, keyVal[j] # Nil
                 PROVE  node'[keyVal[j]].key = j /\ (node'[keyVal[j]].data # Nil \/ Removing(j)')
      BY <1>0 DEF EntryInv, Mapped
    <3>1. keyVal[j] \in Cells
      BY DEF TypeOK, Ptr
    <3>2. node[keyVal[j]].key = j /\ (node[keyVal[j]].data # Nil \/ Removing(j))
      BY DEF MapInv, EntryInv, Mapped
    <3>3. CASE keyVal[j] = n
      <4>1. j = k /\ th'[t] = r
        BY <1>0, <1>1, <1>3, <2>1, <3>2, <3>3
      <4> QED BY <2>1, <2>3, <3>1, <3>2, <4>1 DEF Removing
    <3>4. CASE keyVal[j] # n
      <4>1. ASSUME Removing(j) PROVE Removing(j)'
        <5>1. PICK u \in Threads : th[u].pc = "delMap" /\ th[u].key = j
          BY <4>1 DEF Removing
        <5>2. th'[u] = th[u]
          BY <1>0, <2>1, <5>1
        <5> QED BY <5>1, <5>2 DEF Removing
      <4> QED BY <2>3, <3>1, <3>2, <3>4, <4>1
    <3> QED BY <3>3, <3>4
  <2>6. WriteInv'
    BY <2>1, WritesKept DEF MapInv
  <2> QED BY <2>4, <2>5, <2>6 DEF MapInv
<1> QED BY <1>2, <1>3 DEF DeleteList, n

(* setLocal on a key that is mapped remembers the node it found; on a key  *)
(* that is not, it creates one that nothing refers to.                     *)
LEMMA SetLookupMap ==
    ASSUME TypeOK, MapInv, NEW t \in Threads, NEW k \in Keys, NEW v \in Values,
           NEW e \in Expiry, th[t].pc = "idle", SetLookup(t, k, v, e)
    PROVE  MapInv'
<1>0. /\ list \in List /\ node \in [Cells -> Node] /\ th \in [Threads -> Thread]
      /\ keyVal \in [Keys -> Ptr] /\ UNCHANGED keyVal /\ v # Nil
  BY LocalCacheAssumption DEF TypeOK, ThreadsOK, SetLookup
<1>1. CASE Return(t) /\ UNCHANGED <<list, node>>
  <2> DEFINE r == Rest(IF t = Worker THEN "sweep" ELSE "idle")
  <2>1. /\ th' = [th EXCEPT ![t] = r] /\ r.pc \in {"sweep", "idle"} /\ r.cell = Nil
    BY <1>1 DEF Return, Rest
  <2> HIDE DEF r
  <2> QED BY <1>0, <1>1, <2>1, MapKept
<1>2. CASE /\ th' = [th EXCEPT ![t] = [pc |-> "setWrite", key |-> k, cell |-> keyVal[k],
                                       data |-> v, expiresAt |-> e]]
           /\ UNCHANGED <<list, node>>
  <2> DEFINE r == [pc |-> "setWrite", key |-> k, cell |-> keyVal[k], data |-> v, expiresAt |-> e]
  <2>1. th' = [th EXCEPT ![t] = r] /\ r.pc = "setWrite" /\ r.cell = keyVal[k] /\ r.data = v
    BY <1>2
  <2>2. r.cell \in {th[t].cell, Nil} \cup {keyVal[j] : j \in Keys}
    BY <2>1
  <2>3. Pointed(list') = Pointed(list)
    BY <1>2
  <2> HIDE DEF r
  <2> QED BY <1>0, <1>2, <2>1, <2>2, <2>3, MapKept
<1>3. ASSUME NEW c \in Free, list' = Allocated(list, c),
             node' = [node EXCEPT ![c] = [key |-> k, data |-> v, expiresAt |-> e]],
             Hold(t, "newMap", k, c)
      PROVE  MapInv'
  <2> DEFINE r == [pc |-> "newMap", key |-> k, cell |-> c, data |-> Nil, expiresAt |-> "never"]
  <2>1. th' = [th EXCEPT ![t] = r] /\ r.pc = "newMap" /\ r.key = k /\ r.cell = c
    BY <1>3 DEF Hold
  <2> HIDE DEF r
  <2>2. /\ c \in Cells /\ c \notin Pointed(list)
        /\ \A j \in Keys : keyVal[j] # c
        /\ \A u \in Threads : th[u].cell # c
    BY DEF Free, Pointed
  <2>3. /\ node'[c].key = k /\ node'[c].data = v
        /\ \A d \in Cells : d # c => node'[d] = node[d]
    BY <1>0, <1>3, <2>2
  <2>7. Pointed(list') \subseteq Pointed(list)
    BY <1>0, <1>3, <2>2, AllocatedPointed
  <2>4. FreshInv'
    <3> SUFFICES ASSUME NEW u \in Threads, th'[u].pc = "newMap" PROVE Fresh(u)'
      BY DEF FreshInv
    <3>1. \A w \in Threads : w # t => th'[w] = th[w]
      BY <1>0, <2>1
    <3>2. th'[t] = r
      BY <1>0, <2>1
    <3>3. CASE u = t
      BY <1>0, <2>1, <2>2, <2>3, <2>7, <3>1, <3>2, <3>3 DEF Fresh
    <3>4. CASE u # t
      <4>1. th'[u] = th[u] /\ Fresh(u) /\ th[u].cell \in Cells
        BY <3>1, <3>4 DEF MapInv, FreshInv, TypeOK, ThreadsOK, HoldsCell
      <4>2. node'[th[u].cell] = node[th[u].cell]
        BY <2>2, <2>3, <4>1
      <4>3. \A w \in Threads \ {u} : th'[w].cell # th[u].cell
        BY <2>1, <2>2, <3>1, <3>2, <4>1 DEF Fresh
      <4> QED BY <1>0, <2>7, <4>1, <4>2, <4>3 DEF Fresh
    <3> QED BY <3>3, <3>4
  <2>5. EntryInv'
    <3>1. \A j \in Mapped : node'[keyVal[j]] = node[keyVal[j]]
      BY <1>0, <2>2, <2>3 DEF Mapped, Ptr
    <3> QED BY <1>0, <2>1, <3>1, EntriesKept DEF MapInv
  <2>6. WriteInv'
    BY <2>1, WritesKept DEF MapInv
  <2> QED BY <2>4, <2>5, <2>6 DEF MapInv
<1> QED BY <1>1, <1>2, <1>3 DEF SetLookup
(* A goroutine that returns, or moves on without new work, touching        *)
(* neither the map nor a node, and pushing at most its own node.           *)
LEMMA MovesOn ==
    ASSUME TypeOK, MapInv, NEW t \in Threads, NEW s, th[t].pc # "delMap",
           s \notin {"newMap", "ttlWrite", "setWrite"},
           Return(t) \/ Goto(t, s) \/ th' = [th EXCEPT ![t] = Rest(s)],
           UNCHANGED <<node, keyVal>>,
           Pointed(list') \subseteq Pointed(list) \cup {th[t].cell}
    PROVE  MapInv'
<1>1. CASE Goto(t, s)
  <2> DEFINE r == [th[t] EXCEPT !.pc = s]
  <2>1. th' = [th EXCEPT ![t] = r] /\ r.pc = s /\ r.cell = th[t].cell
    BY <1>1 DEF Goto, TypeOK, ThreadsOK, Thread
  <2> HIDE DEF r
  <2> QED BY <2>1, MapKept
<1>2. ASSUME NEW q \in {s, "sweep", "idle"}, th' = [th EXCEPT ![t] = Rest(q)] PROVE MapInv'
  <2>1. Rest(q).pc = q /\ Rest(q).cell = Nil
    BY DEF Rest
  <2>2. q \notin {"newMap", "ttlWrite", "setWrite"}
    OBVIOUS
  <2> QED BY <1>2, <2>1, <2>2, MapKept
<1> QED BY <1>1, <1>2 DEF Return

(* The steps of an operation past its lookup.                              *)
LEMMA ThreadStepMap ==
    ASSUME TypeOK, MapInv, NEW t \in Threads, ThreadStep(t)
    PROVE  MapInv'
<1>0. /\ list \in List /\ node \in [Cells -> Node] /\ th \in [Threads -> Thread]
      /\ keyVal \in [Keys -> Ptr]
      /\ HoldsCell(th[t].pc) => th[t].cell \in Cells
      /\ HoldsKey(th[t].pc) => th[t].key \in Keys
  BY DEF TypeOK, ThreadsOK
<1>1. HoldsCell(th[t].pc) => Pointed(Push(list, th[t].cell)) \subseteq Pointed(list) \cup {th[t].cell}
  BY <1>0, PushPointed
<1>2. CASE GetPush(t) \/ GetRead(t) \/ SetPush(t) \/ NewPush(t) \/ NewCheck(t)
  <2>1. CASE GetPush(t)
    BY <1>1, <2>1, MovesOn DEF GetPush, HoldsCell
  <2>2. CASE GetRead(t)
    BY <2>2, MovesOn DEF GetRead
  <2>3. CASE SetPush(t)
    BY <1>1, <2>3, MovesOn DEF SetPush, HoldsCell
  <2>4. CASE NewPush(t)
    BY <1>1, <2>4, MovesOn DEF NewPush, HoldsCell
  <2>5. CASE NewCheck(t)
    BY <2>5, MovesOn DEF NewCheck
  <2> QED BY <1>2, <2>1, <2>2, <2>3, <2>4, <2>5
<1>3. CASE SetWrite(t)
  <2> DEFINE c == th[t].cell
             r == [pc |-> "setPush", key |-> th[t].key, cell |-> c, data |-> Nil, expiresAt |-> "never"]
  <2>1. /\ th' = [th EXCEPT ![t] = r] /\ r.pc = "setPush" /\ r.cell = th[t].cell
        /\ th[t].pc = "setWrite" /\ UNCHANGED <<list, keyVal>>
    BY <1>3 DEF SetWrite, Hold
  <2>2. c \in Cells /\ th[t].data # Nil
    BY <1>0, <2>1 DEF HoldsCell, MapInv, WriteInv
  <2>3. /\ node'[c].key = node[c].key /\ node'[c].data # Nil
        /\ \A d \in Cells : d # c => node'[d] = node[d]
    BY <1>0, <1>3, <2>2 DEF SetWrite
  <2> HIDE DEF r, c
  <2>4. FreshInv'
    BY <1>0, <2>1, <2>3, FreshKept DEF MapInv, c
  <2>5. \A k \in Mapped : /\ node'[keyVal[k]].key = node[keyVal[k]].key
                          /\ (node'[keyVal[k]].data # Nil \/ node'[keyVal[k]].data = node[keyVal[k]].data)
    BY <1>0, <2>2, <2>3 DEF Mapped, Ptr
  <2>6. EntryInv'
    BY <2>1, <2>5, EntriesKept DEF MapInv
  <2>7. WriteInv'
    BY <2>1, WritesKept DEF MapInv
  <2> QED BY <2>4, <2>6, <2>7 DEF MapInv
<1>4. CASE NewMap(t)
  <2> DEFINE c == th[t].cell
             j == th[t].key
             r == [th[t] EXCEPT !.pc = "newPush"]
  <2>1. /\ th' = [th EXCEPT ![t] = r] /\ r.pc = "newPush" /\ r.cell = c
        /\ th[t].pc = "newMap" /\ UNCHANGED <<list, node>>
        /\ c \in Cells /\ j \in Keys /\ keyVal' = [keyVal EXCEPT ![j] = c]
    BY <1>0, <1>4 DEF NewMap, Goto, HoldsCell, HoldsKey, Thread
  <2>2. node[c].key = j /\ node[c].data # Nil
    BY <2>1 DEF MapInv, FreshInv, Fresh
  <2>3. /\ keyVal'[j] = c
        /\ \A k \in Keys : k # j => keyVal'[k] = keyVal[k]
    BY <1>0, <2>1
  <2> HIDE DEF r, c, j
  <2>4. FreshInv'
    BY <1>0, <2>1, <2>3, FreshKept DEF MapInv, c
  <2>5. EntryInv'
    <3> SUFFICES ASSUME NEW k \in Keys, keyVal'[k] # Nil
                 PROVE  node[keyVal'[k]].key = k /\ (node[keyVal'[k]].data # Nil \/ Removing(k)')
      BY <2>1 DEF EntryInv, Mapped
    <3>1. CASE k = j
      BY <2>2, <2>3, <3>1
    <3>2. CASE k # j
      <4>1. keyVal'[k] = keyVal[k]
        BY <2>3, <3>2
      <4>2. node[keyVal[k]].key = k /\ (node[keyVal[k]].data # Nil \/ Removing(k))
        BY <4>1 DEF MapInv, EntryInv, Mapped
      <4>3. ASSUME Removing(k) PROVE Removing(k)'
        <5>1. PICK u \in Threads : th[u].pc = "delMap" /\ th[u].key = k
          BY <4>3 DEF Removing
        <5>2. th'[u] = th[u]
          BY <1>0, <2>1, <5>1
        <5> QED BY <5>1, <5>2 DEF Removing
      <4> QED BY <4>1, <4>2, <4>3
    <3> QED BY <3>1, <3>2
  <2>6. WriteInv'
    BY <2>1, WritesKept DEF MapInv
  <2> QED BY <2>4, <2>5, <2>6 DEF MapInv
<1>5. CASE Evict(t)
  <2>1. CASE list.tail = Nil
    BY <1>5, <2>1 DEF Evict, MapInv, EntryInv, Mapped, Removing, FreshInv, Fresh, WriteInv
  <2>2. CASE list.tail # Nil
    <3> DEFINE n == list.tail
               j == node[n].key
               r == Rest(IF t = Worker THEN "sweep" ELSE "idle")
    <3>1. /\ th' = [th EXCEPT ![t] = r] /\ r.pc \in {"sweep", "idle"} /\ r.cell = Nil
          /\ th[t].pc = "evict"
          /\ node' = [node EXCEPT ![n].data = Nil] /\ keyVal' = [keyVal EXCEPT ![j] = Nil]
          /\ list' = CutTail(list)
      BY <1>5, <2>2 DEF Evict, Return, Rest
    <3>2. n \in Cells /\ n \in Pointed(list)
      BY <1>0, <2>2, ListFields DEF Pointed, Ptr
    <3>3. j \in Keys
      BY <1>0, <3>2 DEF Node
    <3>4. Pointed(list') \subseteq Pointed(list)
      BY <1>0, <2>2, <3>1, CutTailPointed
    <3>5. \A c \in Cells : /\ node'[c].key = node[c].key
                           /\ c # n => node'[c].data = node[c].data
      BY <1>0, <3>1, <3>2 DEF Node
    <3>6. /\ keyVal'[j] = Nil
          /\ \A k \in Keys : k # j => keyVal'[k] = keyVal[k]
      BY <1>0, <3>1, <3>3
    <3> HIDE DEF r, n
    <3>7. FreshInv'
      BY <3>1, <3>2, <3>4, <3>5, <3>6, FreshKept DEF MapInv
    <3>8. EntryInv'
      <4> SUFFICES ASSUME NEW k \in Keys, keyVal'[k] # Nil
                   PROVE  node'[keyVal'[k]].key = k /\ (node'[keyVal'[k]].data # Nil \/ Removing(k)')
        BY DEF EntryInv, Mapped
      <4>1. k # j /\ keyVal'[k] = keyVal[k] /\ keyVal[k] \in Cells
        BY <1>0, <3>6 DEF Ptr
      <4>2. node[keyVal[k]].key = k /\ (node[keyVal[k]].data # Nil \/ Removing(k))
        BY <4>1 DEF MapInv, EntryInv, Mapped
      <4>3. keyVal[k] # n
        BY <4>1, <4>2
      <4>4. ASSUME Removing(k) PROVE Removing(k)'
        <5>1. PICK u \in Threads : th[u].pc = "delMap" /\ th[u].key = k
          BY <4>4 DEF Removing
        <5>2. th'[u] = th[u]
          BY <1>0, <3>1, <5>1
        <5> QED BY <5>1, <5>2 DEF Removing
      <4> QED BY <3>5, <4>1, <4>2, <4>3, <4>4
    <3>9. WriteInv'
      BY <3>1, WritesKept DEF MapInv
    <3> QED BY <3>7, <3>8, <3>9 DEF MapInv
  <2> QED BY <2>1, <2>2
<1>6. CASE DelMap(t)
  <2> DEFINE j == th[t].key
             r == Rest(IF t = Worker THEN "sweep" ELSE "idle")
  <2>1. /\ th' = [th EXCEPT ![t] = r] /\ r.pc \in {"sweep", "idle"} /\ r.cell = Nil
        /\ th[t].pc = "delMap" /\ UNCHANGED <<list, node>>
        /\ j \in Keys /\ keyVal' = [keyVal EXCEPT ![j] = Nil]
    BY <1>0, <1>6 DEF DelMap, Return, Rest, HoldsKey
  <2>2. /\ keyVal'[j] = Nil
        /\ \A k \in Keys : k # j => keyVal'[k] = keyVal[k]
    BY <1>0, <2>1
  <2> HIDE DEF r
  <2>3. FreshInv'
    BY <2>1, <2>2, FreshKept DEF MapInv
  <2>4. EntryInv'
    <3> SUFFICES ASSUME NEW k \in Keys, keyVal'[k] # Nil
                 PROVE  node[keyVal'[k]].key = k /\ (node[keyVal'[k]].data # Nil \/ Removing(k)')
      BY <2>1 DEF EntryInv, Mapped
    <3>1. k # j /\ keyVal'[k] = keyVal[k]
      BY <2>2
    <3>2. node[keyVal[k]].key = k /\ (node[keyVal[k]].data # Nil \/ Removing(k))
      BY <3>1 DEF MapInv, EntryInv, Mapped
    <3>3. ASSUME Removing(k) PROVE Removing(k)'
      <4>1. PICK u \in Threads : th[u].pc = "delMap" /\ th[u].key = k
        BY <3>3 DEF Removing
      <4>2. u # t
        BY <3>1, <4>1
      <4>3. th'[u] = th[u]
        BY <1>0, <2>1, <4>2
      <4> QED BY <4>1, <4>3 DEF Removing
    <3> QED BY <3>1, <3>2, <3>3
  <2>5. WriteInv'
    BY <2>1, WritesKept DEF MapInv
  <2> QED BY <2>3, <2>4, <2>5 DEF MapInv
<1>7. CASE TtlWrite(t)
  BY <1>7 DEF TtlWrite, MapInv, WriteInv
<1> QED BY <1>2, <1>3, <1>4, <1>5, <1>6, <1>7 DEF ThreadStep

(* One step keeps the map's invariant, unless it is a TTL change.          *)
LEMMA MapStep ==
    ASSUME Ops \cap {"setTtl", "setTtlZero"} = {}
    PROVE  TypeOK /\ MapInv /\ [Next]_vars => MapInv'
<1> SUFFICES ASSUME TypeOK, MapInv, [Next]_vars PROVE MapInv'
  OBVIOUS
<1>0. /\ Clients \subseteq Threads /\ Worker \in Threads
      /\ node \in [Cells -> Node] /\ th \in [Threads -> Thread] /\ keyVal \in [Keys -> Ptr]
  BY DEF TypeOK, ThreadsOK, Threads
<1>1. ASSUME NEW t \in Threads, ThreadStep(t) PROVE MapInv'
  BY <1>1, ThreadStepMap
<1>2. ASSUME NEW t \in Clients, ClientCall(t) PROVE MapInv'
  <2>1. ASSUME NEW k \in Keys, GetLookup(t, k) PROVE MapInv'
    <3>1. CASE Return(t)
      BY <1>0, <2>1, <3>1, MovesOn DEF GetLookup
    <3>2. CASE Hold(t, "getPush", k, keyVal[k])
      <4> DEFINE r == [pc |-> "getPush", key |-> k, cell |-> keyVal[k], data |-> Nil,
                       expiresAt |-> "never"]
      <4>1. th' = [th EXCEPT ![t] = r] /\ r.pc = "getPush" /\ r.cell = keyVal[k]
        BY <3>2 DEF Hold
      <4> HIDE DEF r
      <4> QED BY <1>0, <2>1, <4>1, MapKept DEF GetLookup
    <3> QED BY <2>1, <3>1, <3>2 DEF GetLookup
  <2>2. ASSUME NEW k \in Keys, NEW v \in Values, NEW e \in {"never", "future"}, SetLookup(t, k, v, e)
        PROVE  MapInv'
    <3>1. e \in Expiry /\ th[t].pc = "idle"
      BY <2>2 DEF Expiry, SetLookup
    <3> QED BY <1>0, <2>2, <3>1, SetLookupMap
  <2>3. ASSUME NEW k \in Keys, ClientDelete(t, k) PROVE MapInv'
    BY <1>0, <2>3, DeleteListMap DEF ClientDelete
  <2>4. "setTtl" \notin Ops /\ "setTtlZero" \notin Ops
    OBVIOUS
  <2> QED BY <1>2, <2>1, <2>2, <2>3, <2>4 DEF ClientCall
<1>3. CASE WorkerStep
  <2>1. CASE Sweep \/ SweepDone
    BY <1>0, <2>1, MovesOn DEF Sweep, SweepDone
  <2>2. CASE SweepDelete
    <3>1. PICK x \in expired : DeleteList(Worker, x[2])
      BY <2>2 DEF SweepDelete
    <3>2. x[2] \in Keys /\ th[Worker].pc # "delMap"
      BY <2>2 DEF TypeOK, SweepDelete
    <3> QED BY <1>0, <3>1, <3>2, DeleteListMap
  <2> QED BY <1>3, <2>1, <2>2 DEF WorkerStep
<1>4. ASSUME NEW c \in Cells, Expire(c) PROVE MapInv'
  <2>1. \A d \in Cells : node'[d].key = node[d].key /\ node'[d].data = node[d].data
    BY <1>0, <1>4 DEF Expire, Node
  <2>2. UNCHANGED <<list, keyVal, th>>
    BY <1>4 DEF Expire
  <2>3. EntryInv'
    BY <1>0, <2>1, <2>2 DEF MapInv, EntryInv, Mapped, Removing, Ptr
  <2>4. FreshInv'
    <3> SUFFICES ASSUME NEW u \in Threads, th[u].pc = "newMap" PROVE Fresh(u)'
      BY <2>2 DEF FreshInv
    <3>1. Fresh(u) /\ th[u].cell \in Cells
      BY DEF MapInv, FreshInv, TypeOK, ThreadsOK, HoldsCell
    <3> QED BY <2>1, <2>2, <3>1 DEF Fresh
  <2> QED BY <2>2, <2>3, <2>4 DEF MapInv, WriteInv
<1>5. CASE CreateBucket \/ UNCHANGED vars
  BY <1>5 DEF CreateBucket, vars, MapInv, EntryInv, Mapped, Removing, FreshInv, Fresh, WriteInv
<1> QED BY <1>1, <1>2, <1>3, <1>4, <1>5 DEF Next

(* Whatever gets, sets, deletes, evictions and TTL sweeps interleave, in   *)
(* any number of goroutines and at any capacity, a key that is still       *)
(* mapped when they are done is mapped to a node of its own that has its   *)
(* data.  setTtlLocal is left out because it breaks this: it enters the    *)
(* node it looked up again after a deletion has emptied it.                *)
THEOREM MappedKeysHaveData ==
    ASSUME Ops \cap {"setTtl", "setTtlZero"} = {}
    PROVE  Spec => []MappedHasData
<1>1. Init => MapInv
  BY DEF Init, Rest, MapInv, EntryInv, Mapped, FreshInv, WriteInv
<1>2. MapInv => MappedHasData
  BY DEF MapInv, EntryInv, Removing, Quiet, MappedHasData
<1> QED BY <1>1, <1>2, TypeCorrect, MapStep, PTL DEF Spec

-----------------------------------------------------------------------------
(* The list as a move-to-front sequence.                                   *)

(* A function on 1..n is a sequence of n elements.                         *)
LEMMA SeqOf ==
    ASSUME NEW S, NEW n \in Nat, NEW s \in [1..n -> S]
    PROVE  s \in Seq(S) /\ Len(s) = n
<1>1. s \in Seq(S)
  BY SeqDef
<1>2. Len(s) \in Nat /\ DOMAIN s = 1..Len(s) /\ DOMAIN s = 1..n
  BY <1>1, LenProperties
<1>3. \A i \in Nat : i \in 1..Len(s) <=> i \in 1..n
  BY <1>2
<1> QED BY <1>1, <1>2, <1>3

(* RemoveAt of the community modules, element by element.                  *)
LEMMA RemovedAt ==
    ASSUME NEW S, NEW s \in Seq(S), NEW p \in 1..Len(s)
    PROVE  LET w == MTF!RemoveAt(s, p) IN
           /\ w \in Seq(S) /\ Len(w) = Len(s) - 1
           /\ \A i \in 1..(Len(s) - 1) : w[i] = IF i < p THEN s[i] ELSE s[i + 1]
<1> DEFINE a == SubSeq(s, 1, p - 1)
           b == SubSeq(s, p + 1, Len(s))
<1>1. Len(s) \in Nat /\ \A i \in 1..Len(s) : s[i] \in S
  BY LenProperties, ElementOfSeq
<1>2. /\ a \in Seq(S) /\ Len(a) = p - 1
      /\ \A i \in 1..(p - 1) : a[i] = s[i]
  BY <1>1, SubSeqProperties
<1>3. /\ b \in Seq(S) /\ Len(b) = Len(s) - p
      /\ \A i \in 1..(Len(s) - p) : b[i] = s[p + i]
  <2>1. p + 1 \in Int /\ Len(s) \in Int /\ \A i \in (p + 1)..Len(s) : s[i] \in S
    BY <1>1
  <2>2. /\ b \in Seq(S) /\ Len(b) = IF p + 1 <= Len(s) THEN Len(s) - (p + 1) + 1 ELSE 0
        /\ \A i \in 1..(Len(s) - (p + 1) + 1) : b[i] = s[p + 1 + i - 1]
    BY <2>1, SubSeqProperties
  <2> HIDE DEF b
  <2>3. Len(b) = Len(s) - p
    BY <1>1, <2>2
  <2>4. \A i \in 1..(Len(s) - p) : b[i] = s[p + i]
    <3> SUFFICES ASSUME NEW i \in 1..(Len(s) - p) PROVE b[i] = s[p + i]
      OBVIOUS
    <3>1. i \in 1..(Len(s) - (p + 1) + 1) /\ p + 1 + i - 1 = p + i
      BY <1>1
    <3> QED BY <2>2, <3>1
  <2> QED BY <2>2, <2>3, <2>4
<1>4. MTF!RemoveAt(s, p) = a \o b
  BY DEF MTF!RemoveAt
<1> HIDE DEF a, b
<1>5. /\ a \o b \in Seq(S) /\ Len(a \o b) = Len(a) + Len(b)
      /\ \A i \in 1..(Len(a) + Len(b)) : (a \o b)[i] = IF i <= Len(a) THEN a[i] ELSE b[i - Len(a)]
  BY <1>2, <1>3, ConcatProperties
<1>6. Len(a) + Len(b) = Len(s) - 1
  BY <1>1, <1>2, <1>3
<1>7. ASSUME NEW i \in 1..(Len(s) - 1) PROVE (a \o b)[i] = IF i < p THEN s[i] ELSE s[i + 1]
  <2>1. (a \o b)[i] = IF i <= p - 1 THEN a[i] ELSE b[i - (p - 1)]
    BY <1>2, <1>5, <1>6, <1>7
  <2>2. CASE i < p
    <3>1. i <= p - 1 /\ i \in 1..(p - 1)
      BY <1>1, <2>2
    <3> QED BY <1>2, <2>1, <2>2, <3>1
  <2>3. CASE ~(i < p)
    <3>1. ~(i <= p - 1) /\ i - (p - 1) \in 1..(Len(s) - p) /\ p + (i - (p - 1)) = i + 1
      BY <1>1, <2>3
    <3>2. b[i - (p - 1)] = s[i + 1]
      BY <1>3, <3>1
    <3> QED BY <2>1, <2>3, <3>1, <3>2
  <2> QED BY <2>2, <2>3
<1> QED BY <1>4, <1>5, <1>6, <1>7

(* Cons of the community modules, element by element.                      *)
LEMMA Fronted ==
    ASSUME NEW S, NEW s \in Seq(S), NEW e \in S
    PROVE  LET u == MTF!Cons(e, s) IN
           /\ u \in Seq(S) /\ Len(u) = Len(s) + 1
           /\ u[1] = e /\ \A i \in 1..Len(s) : u[i + 1] = s[i]
<1>1. Len(s) \in Nat
  BY LenProperties
<1>2. <<e>> \in Seq(S) /\ Len(<<e>>) = 1 /\ <<e>>[1] = e
  OBVIOUS
<1>3. MTF!Cons(e, s) = <<e>> \o s
  BY DEF MTF!Cons
<1> DEFINE o == <<e>>
<1> HIDE DEF o
<1>4. /\ o \o s \in Seq(S) /\ Len(o \o s) = 1 + Len(s)
      /\ \A i \in 1..(1 + Len(s)) : (o \o s)[i] = IF i <= 1 THEN o[i] ELSE s[i - 1]
  BY <1>2, ConcatProperties DEF o
<1>5. (o \o s)[1] = e
  BY <1>1, <1>2, <1>4 DEF o
<1>6. ASSUME NEW i \in 1..Len(s) PROVE (o \o s)[i + 1] = s[i]
  <2>1. i + 1 \in 1..(1 + Len(s)) /\ ~(i + 1 <= 1) /\ (i + 1) - 1 = i
    BY <1>1
  <2> QED BY <1>4, <2>1
<1>7. MTF!Cons(e, s) = o \o s
  BY <1>3 DEF o
<1> QED BY <1>1, <1>4, <1>5, <1>6, <1>7

(* A set of natural numbers with 0 that every step stays in has them all.  *)
LEMMA Stepwise ==
    ASSUME NEW S, 0 \in S, \A n \in Nat : n \in S => n + 1 \in S
    PROVE  \A n \in Nat : n \in S
<1> SUFFICES ASSUME Nat \ S # {} PROVE FALSE
  OBVIOUS
<1> DEFINE less == OpToRel(<, Nat)
<1>1. IsWellFoundedOn(less, Nat)
  BY NatLessThanWellFounded, Zenon
<1>2. \A x, y \in Nat : y < x => <<y, x>> \in less
  BY DEF OpToRel
<1> HIDE DEF less
<1>3. PICK x \in Nat \ S : \A y \in Nat \ S : ~(<<y, x>> \in less)
  BY <1>1, WFMin
<1>4. x - 1 \in Nat /\ x - 1 < x /\ x - 1 + 1 = x
  BY <1>3
<1>5. x - 1 \in S
  BY <1>2, <1>3, <1>4
<1> QED BY <1>3, <1>4, <1>5

(* Functions that agree on their domain are the same.                      *)
LEMMA SameFunction ==
    ASSUME NEW S, NEW T, NEW f \in [S -> T], NEW g \in [S -> T], \A x \in S : f[x] = g[x]
    PROVE  f = g
  OBVIOUS

(* A sequence of the linked nodes, each once, as next leads from the head. *)
InOrder(l, s) ==
    /\ s \in Seq(Cells)
    /\ \A i, j \in 1..Len(s) : s[i] = s[j] => i = j
    /\ \A c \in Cells : c \in Linked(l) <=> \E i \in 1..Len(s) : s[i] = c
    /\ Len(s) > 0 => s[1] = l.head
    /\ \A i \in 1..(Len(s) - 1) : l.next[s[i]] = s[i + 1]

(* There is one such sequence, which Order is.                             *)
LEMMA OrderIs ==
    ASSUME NEW l, NEW s, InOrder(l, s)
    PROVE  OrderOf(l) = s
<1> DEFINE n == Len(s)
           nodes == Linked(l)
           P(t) == /\ n > 0 => t[1] = l.head
                   /\ \A i \in 1..(n - 1) : t[i + 1] = l.next[t[i]]
<1>1. /\ s \in Seq(Cells) /\ n \in Nat /\ s \in [1..n -> Cells]
      /\ \A i \in 1..n : s[i] \in Cells
  BY LenProperties, ElementOfSeq DEF InOrder
<1>2. nodes = {s[i] : i \in 1..n}
  BY <1>1 DEF InOrder, Linked
<1>3. s \in [1..n -> nodes]
  <2> HIDE DEF n, nodes
  <2> QED BY <1>1, <1>2
<1>4. Cardinality(nodes) = n
  <2>1. \A i, j \in 1..n : s[i] = s[j] => i = j
    BY DEF InOrder
  <2>2. \A c \in nodes : \E i \in 1..n : s[i] = c
    BY <1>2
  <2> HIDE DEF n, nodes
  <2>3. s \in Injection(1..n, nodes)
    BY <1>3, <2>1 DEF Injection, IsInjective
  <2>4. s \in Surjection(1..n, nodes)
    BY <1>3, <2>2 DEF Surjection
  <2>5. ExistsBijection(1..n, nodes)
    BY <2>3, <2>4 DEF ExistsBijection, Bijection
  <2> QED BY <1>1, <2>5, FS_CountingElements
<1>5. P(s)
  BY DEF InOrder
<1>6. ASSUME NEW t \in [1..n -> nodes], P(t) PROVE t = s
  <2> DEFINE S == {i \in Nat : i + 1 \in 1..n => t[i + 1] = s[i + 1]}
  <2>1. 0 \in S
    BY <1>1, <1>5, <1>6
  <2>2. ASSUME NEW i \in Nat, i \in S PROVE i + 1 \in S
    <3> SUFFICES ASSUME i + 1 + 1 \in 1..n PROVE t[i + 1 + 1] = s[i + 1 + 1]
      BY <2>2
    <3>1. i + 1 \in 1..n /\ i + 1 \in 1..(n - 1)
      BY <1>1
    <3>2. t[i + 1] = s[i + 1]
      BY <2>2, <3>1
    <3>3. t[i + 1 + 1] = l.next[t[i + 1]] /\ s[i + 1 + 1] = l.next[s[i + 1]]
      BY <1>5, <1>6, <3>1
    <3> QED BY <3>2, <3>3
  <2> HIDE DEF S
  <2>3. \A i \in Nat : i \in S
    BY <2>1, <2>2, Stepwise
  <2>4. ASSUME NEW j \in 1..n PROVE t[j] = s[j]
    <3>1. j - 1 \in Nat /\ j - 1 + 1 = j
      BY <1>1
    <3>2. j - 1 \in S
      BY <2>3, <3>1
    <3> QED BY <3>1, <3>2 DEF S
  <2> HIDE DEF n, nodes
  <2>5. t \in [1..n -> nodes] /\ \A j \in 1..n : t[j] = s[j]
    BY <1>6, <2>4
  <2> HIDE DEF P
  <2>6. s \in [1..n -> nodes]
    BY <1>3
  <2>7. \A f, g \in [1..n -> nodes] : (\A j \in 1..n : f[j] = g[j]) => f = g
    BY SameFunction
  <2> QED BY <2>5, <2>6, <2>7
<1>7. OrderOf(l) = CHOOSE t \in [1..n -> nodes] : P(t)
  BY <1>4 DEF OrderOf
<1> HIDE DEF n, nodes, P
<1> QED BY <1>3, <1>5, <1>6, <1>7

(* Without takes out the one place an entry has, or nothing.               *)
LEMMA WithoutAt ==
    ASSUME NEW s \in Seq(Cells), \A i, j \in 1..Len(s) : s[i] = s[j] => i = j, NEW e
    PROVE  /\ \A p \in 1..Len(s) : s[p] = e =>
                 MTF!Contains(s, e) /\ MTF!Without(s, e) = MTF!RemoveAt(s, p)
           /\ (\A i \in 1..Len(s) : s[i] # e) => ~MTF!Contains(s, e) /\ MTF!Without(s, e) = s
<1>1. ASSUME NEW p \in 1..Len(s), s[p] = e
      PROVE  MTF!Contains(s, e) /\ MTF!Without(s, e) = MTF!RemoveAt(s, p)
  <2>1. MTF!Contains(s, e)
    BY <1>1 DEF MTF!Contains
  <2>2. (CHOOSE q \in 1..Len(s) : s[q] = e) = p
    BY <1>1
  <2> QED BY <2>1, <2>2 DEF MTF!Without
<1>2. ASSUME \A i \in 1..Len(s) : s[i] # e
      PROVE  ~MTF!Contains(s, e) /\ MTF!Without(s, e) = s
  BY <1>2 DEF MTF!Contains, MTF!Without
<1> QED BY <1>1, <1>2

(* The order without one node, seen from the pointers of the others.       *)
LEMMA CutOrder ==
    ASSUME NEW l \in List, Stitched(l), Grounded(l), NEW s, InOrder(l, s), NEW p \in 1..Len(s)
    PROVE  LET w == MTF!RemoveAt(s, p)
               n == s[p]
           IN  /\ n \in Linked(l)
               /\ (p = 1) <=> (n = l.head)
               /\ w \in Seq(Cells) /\ Len(w) \in Nat
               /\ \A i, j \in 1..Len(w) : w[i] = w[j] => i = j
               /\ \A c \in Cells : c \in Linked(l) \ {n} <=> \E i \in 1..Len(w) : w[i] = c
               /\ \A i \in 1..Len(w) : w[i] \in Cells /\ w[i] # n
               /\ Len(w) > 0 => w[1] = IF p = 1 THEN l.next[n] ELSE l.head
               /\ \A i \in 1..(Len(w) - 1) :
                     w[i + 1] = IF w[i] = l.prev[n] THEN l.next[n] ELSE l.next[w[i]]
<1> DEFINE w == MTF!RemoveAt(s, p)
           n == s[p]
           m == Len(s)
<1>1. /\ s \in Seq(Cells) /\ m \in Nat
      /\ \A i \in 1..m : s[i] \in Cells
  BY LenProperties, ElementOfSeq DEF InOrder
<1>2. /\ \A i, j \in 1..m : s[i] = s[j] => i = j
      /\ \A c \in Cells : c \in Linked(l) <=> \E i \in 1..m : s[i] = c
      /\ m > 0 => s[1] = l.head
      /\ \A i \in 1..(m - 1) : l.next[s[i]] = s[i + 1]
  BY DEF InOrder
<1>3. /\ w \in Seq(Cells) /\ Len(w) = m - 1
      /\ \A i \in 1..(m - 1) : w[i] = IF i < p THEN s[i] ELSE s[i + 1]
  BY <1>1, RemovedAt
<1>4. n \in Linked(l) /\ n \in Cells
  BY <1>1, <1>2
<1>5. p \in 1..m /\ p \in Nat /\ 1 \in 1..m
  BY <1>1
<1> HIDE DEF w, m
<1>6. (p = 1) <=> (n = l.head)
  BY <1>1, <1>2, <1>5
<1>7. ASSUME NEW i \in 1..(m - 1) PROVE l.prev[s[i + 1]] = s[i]
  <2>1. i \in 1..m /\ i + 1 \in 1..m
    BY <1>1
  <2>2. l.next[s[i]] = s[i + 1] /\ s[i] \in Cells /\ s[i + 1] \in Cells
    BY <1>1, <1>2, <2>1
  <2> QED BY <2>2 DEF Stitched
<1>8. ASSUME NEW i \in 1..(m - 1)
      PROVE  \E a \in 1..m : a # p /\ w[i] = s[a] /\ a = IF i < p THEN i ELSE i + 1
  <2>1. (IF i < p THEN i ELSE i + 1) \in 1..m /\ (IF i < p THEN i ELSE i + 1) # p
    BY <1>1, <1>5
  <2> QED BY <1>3, <2>1
<1>9. ASSUME NEW i \in 1..Len(w), NEW j \in 1..Len(w), w[i] = w[j] PROVE i = j
  <2>1. i \in 1..(m - 1) /\ j \in 1..(m - 1)
    BY <1>3
  <2>2. PICK a \in 1..m : w[i] = s[a] /\ a = IF i < p THEN i ELSE i + 1
    BY <1>8, <2>1
  <2>3. PICK b \in 1..m : w[j] = s[b] /\ b = IF j < p THEN j ELSE j + 1
    BY <1>8, <2>1
  <2>4. a = b
    <3>1. s[a] = s[b]
      BY <1>9, <2>2, <2>3, Zenon
    <3> QED BY <1>2, <3>1
  <2> QED BY <1>1, <1>5, <2>1, <2>2, <2>3, <2>4
<1>10. ASSUME NEW i \in 1..Len(w) PROVE w[i] \in Cells /\ w[i] # n /\ w[i] \in Linked(l)
  <2>1. i \in 1..(m - 1)
    BY <1>3
  <2>2. PICK a \in 1..m : a # p /\ w[i] = s[a]
    BY <1>8, <2>1
  <2> QED BY <1>1, <1>2, <1>5, <2>2
<1>11. ASSUME NEW c \in Linked(l) \ {n} PROVE \E i \in 1..Len(w) : w[i] = c
  <2>1. c \in Cells
    BY DEF Linked
  <2>2. PICK a \in 1..m : s[a] = c
    BY <1>2, <2>1
  <2>3. a # p
    BY <2>2
  <2>4. CASE a < p
    <3>1. a \in 1..(m - 1)
      BY <1>1, <1>5, <2>4
    <3> QED BY <1>3, <2>2, <2>4, <3>1
  <2>5. CASE ~(a < p)
    <3>1. a - 1 \in 1..(m - 1) /\ ~(a - 1 < p) /\ a - 1 + 1 = a
      BY <1>1, <1>5, <2>3, <2>5
    <3>2. w[a - 1] = s[a]
      BY <1>3, <3>1
    <3> QED BY <1>3, <2>2, <3>1, <3>2
  <2> QED BY <2>4, <2>5
<1>12. ASSUME Len(w) > 0 PROVE w[1] = IF p = 1 THEN l.next[n] ELSE l.head
  <2>1. 1 \in 1..(m - 1)
    BY <1>1, <1>3, <1>12
  <2>2. CASE p = 1
    <3>1. w[1] = s[1 + 1] /\ l.next[s[1]] = s[1 + 1]
      BY <1>2, <1>3, <2>1, <2>2
    <3> QED BY <2>2, <3>1
  <2>3. CASE p # 1
    <3>1. 1 < p
      BY <1>5, <2>3
    <3> QED BY <1>1, <1>2, <1>3, <1>5, <2>1, <2>3, <3>1
  <2> QED BY <2>2, <2>3
<1>13. ASSUME NEW i \in 1..(Len(w) - 1)
       PROVE  w[i + 1] = IF w[i] = l.prev[n] THEN l.next[n] ELSE l.next[w[i]]
  <2>1. /\ i \in 1..(m - 1) /\ i + 1 \in 1..(m - 1) /\ i \in 1..m /\ i + 1 \in 1..m
        /\ i + 1 + 1 \in 1..m
    BY <1>1, <1>3
  <2>2. CASE i + 1 < p
    <3>1. w[i] = s[i] /\ w[i + 1] = s[i + 1]
      BY <1>3, <1>5, <2>1, <2>2
    <3>2. p - 1 \in 1..(m - 1) /\ p - 1 \in 1..m /\ p - 1 + 1 = p /\ i # p - 1
      BY <1>1, <1>5, <2>1, <2>2
    <3>3. l.prev[n] = s[p - 1]
      BY <1>7, <3>2
    <3>4. w[i] # l.prev[n]
      BY <1>2, <2>1, <3>1, <3>2, <3>3
    <3> QED BY <1>2, <2>1, <3>1, <3>4
  <2>3. CASE i + 1 = p
    <3>1. w[i] = s[i] /\ w[i + 1] = s[i + 1 + 1]
      BY <1>3, <1>5, <2>1, <2>3
    <3>2. l.prev[n] = s[i]
      BY <1>7, <2>1, <2>3
    <3>3. l.next[n] = s[i + 1 + 1]
      BY <1>2, <2>1, <2>3
    <3> QED BY <3>1, <3>2, <3>3
  <2>4. CASE i + 1 > p
    <3>1. w[i] = s[i + 1] /\ w[i + 1] = s[i + 1 + 1] /\ ~(i < p) /\ ~(i + 1 < p)
      BY <1>3, <1>5, <2>1, <2>4
    <3>2. l.next[s[i + 1]] = s[i + 1 + 1]
      BY <1>2, <2>1
    <3>3. w[i] # l.prev[n]
      <4>1. CASE p = 1
        <5>1. l.prev[n] = Nil
          BY <1>4, <1>6, <4>1, NilAssumption DEF Stitched
        <5> QED BY <1>1, <2>1, <3>1, <5>1, NilAssumption
      <4>2. CASE p # 1
        <5>1. p - 1 \in 1..(m - 1) /\ p - 1 \in 1..m /\ p - 1 + 1 = p /\ i + 1 # p - 1
          BY <1>1, <1>5, <2>1, <2>4, <4>2
        <5>2. l.prev[n] = s[p - 1]
          BY <1>7, <5>1
        <5> QED BY <1>2, <2>1, <3>1, <5>1, <5>2
      <4> QED BY <4>1, <4>2
    <3> QED BY <3>1, <3>2, <3>3
  <2> QED BY <1>1, <1>5, <2>1, <2>2, <2>3, <2>4
<1>14. Len(w) \in Nat
  BY <1>3, LenProperties
<1>15. \A c \in Cells : c \in Linked(l) \ {n} <=> \E i \in 1..Len(w) : w[i] = c
  BY <1>10, <1>11
<1> HIDE DEF n
<1>16. \A i \in 1..Len(w) : w[i] \in Cells /\ w[i] # n
  BY <1>10
<1>17. \A i, j \in 1..Len(w) : w[i] = w[j] => i = j
  BY <1>9
<1>18. \A i \in 1..(Len(w) - 1) :
          w[i + 1] = IF w[i] = l.prev[n] THEN l.next[n] ELSE l.next[w[i]]
  BY <1>13
<1> QED BY <1>3, <1>4, <1>6, <1>12, <1>14, <1>15, <1>16, <1>17, <1>18, Zenon DEF w, n

(* A push that changes the list moves its node to the front.               *)
LEMMA PushOrder ==
    ASSUME NEW l \in List, NEW s, WellFormed(l), IsFiniteSet(Linked(l)), InOrder(l, s),
           NEW n \in Cells, l.head # n
    PROVE  InOrder(Push(l, n), MTF!Cons(n, MTF!Without(s, n)))
<1> DEFINE m == Push(l, n)
           w == MTF!Without(s, n)
           u == MTF!Cons(n, w)
<1>1. Stitched(l) /\ Grounded(l)
  BY DEF WellFormed
<1>2. /\ m.head = n
      /\ \A c \in Cells : m.next[c] = IF c = n THEN l.head
                                      ELSE IF c = l.prev[n] THEN l.next[n] ELSE l.next[c]
  BY <1>1, PushShape
<1>3. Linked(m) = Linked(l) \cup {n}
  BY PushWellFormed
<1>4. /\ s \in Seq(Cells) /\ Len(s) \in Nat
      /\ \A i \in 1..Len(s) : s[i] \in Cells
      /\ \A i, j \in 1..Len(s) : s[i] = s[j] => i = j
      /\ \A c \in Cells : c \in Linked(l) <=> \E i \in 1..Len(s) : s[i] = c
      /\ Len(s) > 0 => s[1] = l.head
      /\ \A i \in 1..(Len(s) - 1) : l.next[s[i]] = s[i + 1]
  BY LenProperties, ElementOfSeq DEF InOrder
<1> HIDE DEF m, w
<1>5. /\ w \in Seq(Cells) /\ Len(w) \in Nat
      /\ \A i, j \in 1..Len(w) : w[i] = w[j] => i = j
      /\ \A c \in Cells : c \in Linked(l) \ {n} <=> \E i \in 1..Len(w) : w[i] = c
      /\ \A i \in 1..Len(w) : w[i] \in Cells /\ w[i] # n
      /\ Len(w) > 0 => w[1] = l.head
      /\ \A i \in 1..(Len(w) - 1) :
            w[i + 1] = IF w[i] = l.prev[n] THEN l.next[n] ELSE l.next[w[i]]
  <2>1. CASE n \in Linked(l)
    <3>1. PICK p \in 1..Len(s) : s[p] = n
      BY <1>4, <2>1
    <3>2. w = MTF!RemoveAt(s, p)
      BY <1>4, <3>1, WithoutAt DEF w
    <3>3. p # 1
      BY <1>1, <3>1, CutOrder
    <3> QED BY <1>1, <3>1, <3>2, <3>3, CutOrder
  <2>2. CASE n \notin Linked(l)
    <3>1. \A i \in 1..Len(s) : s[i] # n
      BY <1>4, <2>2
    <3>2. w = s
      BY <1>4, <3>1, WithoutAt DEF w
    <3>3. l.prev[n] = Nil
      BY <2>2 DEF Linked
    <3>4. \A i \in 1..(Len(s) - 1) : s[i] # l.prev[n]
      BY <1>4, <3>3, NilAssumption
    <3> QED BY <1>4, <2>2, <3>1, <3>2, <3>4
  <2> QED BY <2>1, <2>2
<1>6. /\ u \in Seq(Cells) /\ Len(u) = Len(w) + 1
      /\ u[1] = n /\ \A i \in 1..Len(w) : u[i + 1] = w[i]
  <2>1. w \in Seq(Cells)
    BY <1>5
  <2> QED BY <2>1, Fronted, Zenon
<1> HIDE DEF u
<1>7. ASSUME NEW i \in 1..Len(u), i # 1 PROVE i - 1 \in 1..Len(w) /\ i - 1 + 1 = i /\ u[i] = w[i - 1]
  <2>1. i - 1 \in 1..Len(w) /\ i - 1 + 1 = i
    BY <1>5, <1>6, <1>7
  <2> QED BY <1>6, <2>1
<1>8. 1 \in 1..Len(u)
  BY <1>5, <1>6
<1>9. ASSUME NEW i \in 1..Len(u), NEW j \in 1..Len(u), u[i] = u[j] PROVE i = j
  <2>1. CASE i = 1
    <3>1. SUFFICES ASSUME j # 1 PROVE FALSE
      BY <2>1
    <3> QED BY <1>5, <1>6, <1>7, <1>9, <2>1, <3>1
  <2>2. CASE i # 1
    <3>1. CASE j = 1
      BY <1>5, <1>6, <1>7, <1>9, <2>2, <3>1
    <3>2. CASE j # 1
      <4>1. i - 1 \in 1..Len(w) /\ u[i] = w[i - 1]
        BY <1>7, <2>2
      <4>2. j - 1 \in 1..Len(w) /\ u[j] = w[j - 1]
        BY <1>7, <3>2
      <4>3. w[i - 1] = w[j - 1]
        BY <1>9, <4>1, <4>2, Zenon
      <4>4. i - 1 = j - 1
        BY <1>5, <4>1, <4>2, <4>3
      <4> QED BY <4>4
    <3> QED BY <3>1, <3>2
  <2> QED BY <2>1, <2>2
<1>10. ASSUME NEW c \in Cells PROVE c \in Linked(m) <=> \E i \in 1..Len(u) : u[i] = c
  <2>1. ASSUME c \in Linked(m), c # n PROVE \E i \in 1..Len(u) : u[i] = c
    <3>1. PICK i \in 1..Len(w) : w[i] = c
      BY <1>3, <1>5, <2>1
    <3>2. i + 1 \in 1..Len(u)
      BY <1>5, <1>6
    <3> QED BY <1>6, <3>1, <3>2
  <2>2. ASSUME NEW i \in 1..Len(u), u[i] = c PROVE c \in Linked(m)
    <3>1. CASE i = 1
      BY <1>3, <1>6, <2>2, <3>1
    <3>2. CASE i # 1
      BY <1>3, <1>5, <1>7, <2>2, <3>2
    <3> QED BY <3>1, <3>2
  <2> QED BY <1>3, <1>6, <1>8, <2>1, <2>2
<1>11. ASSUME NEW i \in 1..(Len(u) - 1) PROVE m.next[u[i]] = u[i + 1]
  <2>1. i \in 1..Len(u) /\ i \in 1..Len(w) /\ u[i + 1] = w[i]
    BY <1>5, <1>6
  <2>2. CASE i = 1
    BY <1>2, <1>5, <1>6, <2>1, <2>2
  <2>3. CASE i # 1
    <3>1. u[i] = w[i - 1] /\ i - 1 \in 1..(Len(w) - 1) /\ i - 1 \in 1..Len(w) /\ i - 1 + 1 = i
      BY <1>5, <1>7, <2>1, <2>3
    <3>2. w[i] = IF w[i - 1] = l.prev[n] THEN l.next[n] ELSE l.next[w[i - 1]]
      BY <1>5, <3>1
    <3> QED BY <1>2, <1>5, <2>1, <3>1, <3>2
  <2> QED BY <2>2, <2>3
<1>12. InOrder(m, u)
  BY <1>2, <1>6, <1>9, <1>10, <1>11 DEF InOrder
<1> QED BY <1>12 DEF m, u, w

(* Unlinking a node takes it out of the order.                             *)
LEMMA UnlinkOrder ==
    ASSUME NEW l \in List, NEW s, WellFormed(l), IsFiniteSet(Linked(l)), InOrder(l, s),
           NEW n \in Linked(l)
    PROVE  /\ MTF!Contains(s, n)
           /\ InOrder(Unlink(l, n), MTF!Without(s, n))
<1> DEFINE m == Unlink(l, n)
           w == MTF!Without(s, n)
<1>1. Stitched(l) /\ Grounded(l) /\ n \in Cells
  BY DEF WellFormed, Linked
<1>2. /\ m.head = IF l.prev[n] = Nil THEN l.next[n] ELSE l.head
      /\ \A c \in Cells : m.next[c] = IF c = n THEN Nil
                                      ELSE IF c = l.prev[n] THEN l.next[n] ELSE l.next[c]
  BY <1>1, UnlinkType
<1>3. Linked(m) = Linked(l) \ {n}
  BY UnlinkWellFormed
<1>4. /\ s \in Seq(Cells)
      /\ \A i, j \in 1..Len(s) : s[i] = s[j] => i = j
      /\ \A c \in Cells : c \in Linked(l) <=> \E i \in 1..Len(s) : s[i] = c
  BY DEF InOrder
<1>5. PICK p \in 1..Len(s) : s[p] = n
  BY <1>1, <1>4
<1>6. MTF!Contains(s, n) /\ w = MTF!RemoveAt(s, p)
  BY <1>4, <1>5, WithoutAt
<1> HIDE DEF m, w
<1>7. /\ (p = 1) <=> (n = l.head)
      /\ w \in Seq(Cells) /\ Len(w) \in Nat
      /\ \A i, j \in 1..Len(w) : w[i] = w[j] => i = j
      /\ \A c \in Cells : c \in Linked(l) \ {n} <=> \E i \in 1..Len(w) : w[i] = c
      /\ \A i \in 1..Len(w) : w[i] \in Cells /\ w[i] # n
      /\ Len(w) > 0 => w[1] = IF p = 1 THEN l.next[n] ELSE l.head
      /\ \A i \in 1..(Len(w) - 1) :
            w[i + 1] = IF w[i] = l.prev[n] THEN l.next[n] ELSE l.next[w[i]]
  BY <1>1, <1>5, <1>6, CutOrder
<1>8. l.prev[n] = Nil <=> n = l.head
  BY <1>1, NilAssumption DEF Linked, Stitched
<1>9. Len(w) > 0 => w[1] = m.head
  BY <1>2, <1>7, <1>8
<1>10. ASSUME NEW i \in 1..(Len(w) - 1) PROVE m.next[w[i]] = w[i + 1]
  <2>1. i \in 1..Len(w)
    BY <1>7
  <2> QED BY <1>2, <1>7, <2>1
<1>11. InOrder(m, w)
  BY <1>3, <1>7, <1>9, <1>10 DEF InOrder
<1> QED BY <1>6, <1>11 DEF m, w

(* The only steps that write the list push a node or unlink a linked one.  *)
LEMMA ListMoves ==
    ASSUME TypeOK, ListInv, [Next]_vars
    PROVE  \/ list' = list
           \/ \E c \in Cells : list' = Push(list, c)
           \/ \E c \in Linked(list) : list' = Unlink(list, c)
<1> DEFINE Moves == \/ list' = list
                    \/ \E c \in Cells : list' = Push(list, c)
                    \/ \E c \in Linked(list) : list' = Unlink(list, c)
<1> SUFFICES Moves
  OBVIOUS
<1>0. /\ Clients \subseteq Threads /\ Worker \in Threads
      /\ list \in List /\ WellFormed(list) /\ Stitched(list) /\ Grounded(list)
  BY DEF TypeOK, ListInv, Threads, WellFormed
<1>1. ASSUME NEW t \in Threads, HoldsCell(th[t].pc), list' = Push(list, th[t].cell) PROVE Moves
  <2>1. th[t].cell \in Cells
    BY <1>1 DEF TypeOK, ThreadsOK
  <2> QED BY <1>1, <2>1
<1>2. ASSUME NEW t, NEW k, DeleteList(t, k) PROVE Moves
  <2> DEFINE n == FirstOf(list, {c \in Cells : node[c].key = k})
  <2>1. n # Nil => n \in Linked(list)
    BY <1>0, FirstOfLinked
  <2>2. list' = list \/ (n # Nil /\ list' = Unlink(list, n))
    BY <1>2 DEF DeleteList
  <2> HIDE DEF n
  <2> QED BY <2>1, <2>2
<1>3. ASSUME NEW t \in Threads, ThreadStep(t) PROVE Moves
  <2>1. CASE GetPush(t)
    BY <2>1, <1>1 DEF GetPush, HoldsCell
  <2>2. CASE SetPush(t)
    BY <2>2, <1>1 DEF SetPush, HoldsCell
  <2>3. CASE NewPush(t)
    BY <2>3, <1>1 DEF NewPush, HoldsCell
  <2>4. CASE Evict(t)
    BY <2>4 DEF Evict, ListInv, NoEviction
  <2>5. CASE UNCHANGED list
    BY <2>5
  <2> QED BY <1>3, <2>1, <2>2, <2>3, <2>4, <2>5
          DEF ThreadStep, GetRead, SetWrite, NewMap, NewCheck, DelMap, TtlWrite
<1>4. ASSUME NEW t \in Clients, ClientCall(t) PROVE Moves
  <2>1. ASSUME NEW k \in Keys, GetLookup(t, k) \/ (\E e : TtlLookup(t, k, e)) PROVE Moves
    BY <2>1 DEF GetLookup, TtlLookup
  <2>2. ASSUME NEW k, NEW v, NEW e, SetLookup(t, k, v, e) PROVE Moves
    BY <1>0, <2>2, AllocatedSame DEF SetLookup
  <2>3. ASSUME NEW k, ClientDelete(t, k) PROVE Moves
    BY <1>2, <2>3 DEF ClientDelete
  <2> HIDE DEF Moves
  <2> QED BY <1>4, <2>1, <2>2, <2>3 DEF ClientCall
<1>5. CASE WorkerStep
  <2>1. CASE Sweep \/ SweepDone
    BY <2>1 DEF Sweep, SweepDone
  <2>2. CASE SweepDelete
    <3>1. PICK x \in expired : DeleteList(Worker, x[2])
      BY <2>2 DEF SweepDelete
    <3> HIDE DEF Moves
    <3> QED BY <1>2, <3>1
  <2> QED BY <1>5, <2>1, <2>2 DEF WorkerStep
<1>6. CASE CreateBucket \/ (\E c \in Cells : Expire(c)) \/ UNCHANGED vars
  BY <1>6 DEF CreateBucket, Expire, vars
<1> HIDE DEF Moves
<1> QED BY <1>3, <1>4, <1>5, <1>6 DEF Next

(* Every step acts on the order as a step of MoveToFront or leaves it.     *)
LEMMA OrderStep ==
    ASSUME IsFiniteSet(Cells), TypeOK, ListInv, InOrder(list, Order), [Next]_vars
    PROVE  [MTF!Next]_Order /\ InOrder(list, Order)'
<1>0. list \in List /\ WellFormed(list) /\ IsFiniteSet(Linked(list)) /\ Linked(list) \subseteq Cells
  BY FS_Subset DEF TypeOK, ListInv, Linked
<1>1. ASSUME NEW s, InOrder(list', s) PROVE Order' = s /\ InOrder(list, Order)'
  <2>1. OrderOf(list') = s
    BY <1>1, OrderIs
  <2>2. Order' = s
    BY <2>1 DEF Order
  <2> QED BY <1>1, <2>2
<1>2. CASE list' = list
  <2>1. InOrder(list', Order)
    BY <1>2
  <2> QED BY <1>1, <2>1
<1>3. ASSUME NEW c \in Cells, list' = Push(list, c) PROVE [MTF!Next]_Order /\ InOrder(list, Order)'
  <2>1. CASE list.head = c
    BY <1>2, <1>3, <2>1 DEF Push
  <2>2. CASE list.head # c
    <3> DEFINE u == MTF!Cons(c, MTF!Without(Order, c))
    <3>1. InOrder(list', u)
      BY <1>0, <1>3, <2>2, PushOrder
    <3> HIDE DEF u
    <3>2. Order' = u /\ InOrder(list, Order)'
      BY <1>1, <3>1
    <3>3. MTF!Use(c)
      BY <3>2 DEF MTF!Use, u
    <3> QED BY <3>2, <3>3 DEF MTF!Next
  <2> QED BY <2>1, <2>2
<1>4. ASSUME NEW c \in Linked(list), list' = Unlink(list, c)
      PROVE  [MTF!Next]_Order /\ InOrder(list, Order)'
  <2> DEFINE w == MTF!Without(Order, c)
  <2>1. MTF!Contains(Order, c) /\ InOrder(list', w)
    BY <1>0, <1>4, UnlinkOrder
  <2> HIDE DEF w
  <2>2. Order' = w /\ InOrder(list, Order)'
    BY <1>1, <2>1
  <2>3. MTF!Drop(c)
    BY <2>1, <2>2 DEF MTF!Drop, w
  <2> QED BY <1>0, <2>2, <2>3 DEF MTF!Next
<1> QED BY <1>2, <1>3, <1>4, ListMoves

(* The list has an order from the start.                                   *)
LEMMA OrderInitially == Init => MTF!Init /\ InOrder(list, Order) /\ ListInv
<1> SUFFICES ASSUME Init PROVE MTF!Init /\ InOrder(list, Order) /\ ListInv
  OBVIOUS
<1>1. list = EmptyList /\ ListInv
  BY EmptyWellFormed DEF Init, ListInv, NoEviction, Rest
<1>2. Linked(EmptyList) = {}
  BY NilAssumption DEF Linked, EmptyList
<1>3. << >> \in Seq(Cells) /\ Len(<< >>) = 0
  OBVIOUS
<1>4. InOrder(EmptyList, << >>)
  BY <1>2, <1>3 DEF InOrder
<1>5. Order = << >>
  BY <1>1, <1>4, OrderIs DEF Order
<1> QED BY <1>1, <1>4, <1>5 DEF MTF!Init

(* Whatever the goroutines do, and as long as the nodes in use never       *)
(* exceed maxLen, the list implements MoveToFront: each Push takes effect  *)
(* as one use and each Delete as one removal, in the order of the lock.    *)
THEOREM ListMovesToFront ==
    ASSUME IsFiniteSet(Cells), Cardinality(Cells) <= MaxLen
    PROVE  Spec => ImplementsMoveToFront
<1>1. TypeOK /\ ListInv /\ InOrder(list, Order) /\ [Next]_vars
        => [MTF!Next]_Order /\ ListInv' /\ InOrder(list, Order)'
  BY OrderStep, ListStep
<1> QED BY <1>1, OrderInitially, TypeCorrect, PTL DEF Spec, ImplementsMoveToFront, MTF!Spec

(* In a well-formed list with an order no set of nodes is closed under     *)
(* next: counting back from the tail, each node leads out of the set.      *)
LEMMA OrderEnds ==
    ASSUME NEW l \in List, Stitched(l), Grounded(l), NEW s, InOrder(l, s),
           NEW S \in SUBSET Cells, \A c \in S : l.next[c] \in S
    PROVE  S = {}
<1> DEFINE m == Len(s)
<1>1. /\ m \in Nat /\ \A i \in 1..m : s[i] \in Cells
      /\ \A c \in Cells : c \in Linked(l) <=> \E i \in 1..m : s[i] = c
      /\ \A i \in 1..(m - 1) : l.next[s[i]] = s[i + 1]
  BY LenProperties, ElementOfSeq DEF InOrder
<1> HIDE DEF m
<1>2. ASSUME NEW c \in S PROVE c \in Linked(l) /\ c # l.tail /\ c \in Cells
  BY <1>2, NilAssumption DEF Stitched
<1>3. ASSUME m > 0 PROVE s[m] = l.tail
  <2>1. m \in 1..m /\ s[m] \in Linked(l) /\ s[m] \in Cells
    BY <1>1, <1>3
  <2>2. l.tail \in Linked(l) /\ l.tail \in Cells /\ l.next[l.tail] = Nil
    <3>1. l.head # Nil
      BY <2>1, NoHeadNoLinked
    <3>2. l.tail \in Linked(l)
      BY <3>1 DEF Stitched
    <3> QED BY <3>2 DEF Stitched, Linked
  <2>3. PICK i \in 1..m : s[i] = l.tail
    BY <1>1, <2>2
  <2>4. i \notin 1..(m - 1)
    <3>1. SUFFICES ASSUME i \in 1..(m - 1) PROVE FALSE
      OBVIOUS
    <3>2. s[i + 1] = Nil /\ i + 1 \in 1..m
      BY <1>1, <2>2, <2>3, <3>1
    <3> QED BY <1>1, <3>2, NilAssumption
  <2>5. i = m
    BY <1>1, <2>4
  <2> QED BY <2>3, <2>5
<1> DEFINE Out == {i \in Nat : m - i \in 1..m => s[m - i] \notin S}
<1>4. 0 \in Out
  BY <1>1, <1>2, <1>3
<1>5. ASSUME NEW i \in Nat, i \in Out PROVE i + 1 \in Out
  <2>1. SUFFICES ASSUME m - (i + 1) \in 1..m, s[m - (i + 1)] \in S PROVE FALSE
    BY <1>5
  <2>2. m - (i + 1) \in 1..(m - 1) /\ m - (i + 1) + 1 = m - i /\ m - i \in 1..m
    BY <1>1, <2>1
  <2>3. s[m - i] \in S
    BY <1>1, <2>1, <2>2
  <2> QED BY <1>5, <2>2, <2>3
<1> HIDE DEF Out
<1>6. \A i \in Nat : i \in Out
  BY <1>4, <1>5, Stepwise
<1>7. ASSUME NEW c \in S PROVE FALSE
  <2>1. PICK i \in 1..m : s[i] = c
    BY <1>1, <1>2
  <2>2. m - i \in Nat /\ m - (m - i) = i
    BY <1>1
  <2>3. m - i \in Out
    BY <1>6, <2>2
  <2> QED BY <2>1, <2>2, <2>3 DEF Out
<1> QED BY <1>7

(* Every walk along next ends, under the same condition: the searches of   *)
(* deleteLocal and of the worker, which hold the bucket's lock, return.    *)
THEOREM WalksEnd ==
    ASSUME IsFiniteSet(Cells), Cardinality(Cells) <= MaxLen
    PROVE  Spec => []WalkEnds
<1>1. TypeOK /\ ListInv /\ InOrder(list, Order) /\ [Next]_vars
        => ListInv' /\ InOrder(list, Order)'
  BY OrderStep, ListStep
<1>2. ASSUME TypeOK, ListInv, InOrder(list, Order) PROVE WalkEnds
  <2>1. list \in List /\ Stitched(list) /\ Grounded(list)
    BY <1>2 DEF TypeOK, ListInv, WellFormed
  <2> QED BY <1>2, <2>1, OrderEnds DEF WalkEnds
<1> QED BY <1>1, <1>2, OrderInitially, TypeCorrect, PTL DEF Spec
-----------------------------------------------------------------------------
(* Evictions.  An eviction leaves the next of the new tail on the evicted  *)
(* node.  A tail with such a pointer that is pushed again counts as a node *)
(* in the middle: it becomes the head and stays the tail, and the nodes    *)
(* that were before it are linked behind it, past the tail.  So the list   *)
(* of a bucket that evicts is not well formed.  What its Sets and Gets     *)
(* keep is the following, where M are the nodes in use.                    *)

(* From the tail back to the head the nodes are linked both ways.          *)
Trailing(l, S) ==
    /\ l.head \in S /\ l.tail \in S
    /\ \A c \in S : c # l.head => l.prev[c] \in S
    /\ \A c \in S : c # l.tail => l.next[c] \in S
    /\ \A c \in S : l.prev[c] # l.tail

(* Only the head has no predecessor and only the tail may have no          *)
(* successor; what leads to a node in use is its predecessor, which, when  *)
(* it is in use, leads to it.                                              *)
Laced(l, M) ==
    /\ \A d \in M : l.prev[d] = Nil <=> d = l.head
    /\ \A d \in M : l.next[d] = Nil => d = l.tail
    /\ \A c \in Cells, d \in M : l.next[c] = d => l.prev[d] = c
    /\ \A c \in M, d \in M : l.prev[d] = c => l.next[c] = d

(* Neither along next nor back along the prev of nodes in use does a path  *)
(* come to where it was. A successor that an eviction has cut off keeps    *)
(* its prev, and a Push joins it again.                                    *)
Onward(l, M) ==
    \A S \in SUBSET Cells : S # {} =>
        \E c \in S : l.next[c] \notin S /\ \A d \in M \cap S : l.prev[d] # c

(* The counter counts the nodes in use.                                    *)
Loose(l, M) ==
    /\ M = {} => l.head = Nil /\ l.tail = Nil
    /\ M # {} => \E S \in SUBSET M : Trailing(l, S)
    /\ Laced(l, M)
    /\ Onward(l, M)
    /\ IsFiniteSet(M) /\ l.len = Cardinality(M)

(* What Push does to a node that is not the head, field by field.          *)
LEMMA Pushed ==
    ASSUME NEW l \in List, NEW d \in Cells, d # l.head, l.head # Nil
    PROVE  LET m == Push(l, d) IN
           /\ m.head = d
           /\ m.tail = IF l.next[d] = Nil /\ l.prev[d] # Nil THEN l.prev[d] ELSE l.tail
           /\ m.len = IF l.next[d] = Nil /\ l.prev[d] = Nil THEN l.len + 1 ELSE l.len
           /\ m.next[d] = l.head
           /\ \A c \in Cells \ {d} : m.next[c] = IF c = l.prev[d] THEN l.next[d] ELSE l.next[c]
           /\ m.prev[d] = Nil
           /\ \A c \in Cells \ {d} :
                m.prev[c] = IF c = l.head THEN d
                            ELSE IF c = l.next[d] /\ l.prev[d] # Nil THEN l.prev[d] ELSE l.prev[c]
  BY DEF Push, PutFront, TakeOut

(* Wherever the pointers lead, a node that is pushed lies behind nothing.  *)
LEMMA PushOnward ==
    ASSUME NEW l \in List, NEW M \in SUBSET Cells, Laced(l, M), Onward(l, M),
           NEW d \in Cells, d # l.head, l.head \in M,
           \A c \in Cells : l.next[c] = d => l.prev[d] = c,
           d \in M \/ (l.next[d] = Nil /\ l.prev[d] = Nil /\ \A c \in Cells : l.prev[c] # d)
    PROVE  Onward(Push(l, d), M \cup {d})
<1> DEFINE m == Push(l, d)
           nx == l.next[d]
           pv == l.prev[d]
<1>0. /\ l.next \in [Cells -> Ptr] /\ l.prev \in [Cells -> Ptr] /\ l.head # Nil /\ Nil \notin Cells
  BY NilAssumption DEF List
<1>1. /\ m.next[d] = l.head /\ m.prev[d] = Nil
      /\ \A c \in Cells \ {d} : m.next[c] = IF c = pv THEN nx ELSE l.next[c]
      /\ \A c \in Cells \ {d} : m.prev[c] = IF c = l.head THEN d
                                            ELSE IF c = nx /\ pv # Nil THEN pv ELSE l.prev[c]
  BY <1>0, Pushed
<1> HIDE DEF m
<1>2. nx # d
  <2>1. PICK c \in {d} : l.next[c] \notin {d}
    BY DEF Onward
  <2> QED BY <2>1
<1>3. \A c \in Cells : m.next[c] # d
  BY <1>1, <1>2
<1> SUFFICES ASSUME NEW S \in SUBSET Cells, S # {}
             PROVE  \E c \in S : m.next[c] \notin S /\ \A e \in (M \cup {d}) \cap S : m.prev[e] # c
  BY DEF Onward, m
<1>4. CASE S = {d}
  <2>1. d \in S /\ m.next[d] \notin S /\ \A e \in (M \cup {d}) \cap S : m.prev[e] # d
    BY <1>0, <1>1, <1>4
  <2> QED BY <2>1
<1>5. CASE S # {d}
  <2> DEFINE T == S \ {d}
             Last(c, R) == l.next[c] \notin R /\ \A e \in M \cap R : l.prev[e] # c
  <2>1. T # {} /\ T \in SUBSET Cells /\ T \cup {d} \in SUBSET Cells /\ T \cup {d} # {}
    BY <1>5
  <2>2. PICK c0 \in T \cup {d} : Last(c0, T \cup {d})
    BY <2>1 DEF Onward
  <2>3. PICK c1 \in T : Last(c1, T)
    BY <2>1 DEF Onward
  <2>4. ASSUME NEW c \in T, Last(c, T), c # pv \/ nx \notin T
        PROVE  c \in S /\ m.next[c] \notin S /\ \A e \in (M \cup {d}) \cap S : m.prev[e] # c
    <3>1. c \in Cells \ {d} /\ c \in S
      BY <2>1
    <3>2. m.next[c] \notin S
      <4>1. m.next[c] \notin T
        BY <1>1, <2>4, <3>1
      <4> QED BY <1>3, <3>1, <4>1
    <3>3. ASSUME NEW e \in (M \cup {d}) \cap S PROVE m.prev[e] # c
      <4>1. CASE e = d
        BY <1>0, <1>1, <3>1, <4>1
      <4>2. CASE e # d
        <5>1. e \in T /\ e \in M /\ l.prev[e] # c /\ e \in Cells \ {d}
          BY <2>4, <4>2
        <5>2. m.prev[e] = IF e = l.head THEN d ELSE IF e = nx /\ pv # Nil THEN pv ELSE l.prev[e]
          BY <1>1, <5>1
        <5> QED BY <2>4, <3>1, <5>1, <5>2
      <4> QED BY <4>1, <4>2
    <3> QED BY <3>1, <3>2, <3>3
  <2>5. CASE c0 \in T
    <3>1. Last(c0, T)
      BY <2>2
    <3>2. c0 # pv
      <4>1. d \in M => l.prev[d] # c0
        BY <2>2
      <4> QED BY <1>0, <2>1, <2>5, <4>1
    <3> HIDE DEF Last, T
    <3> QED BY <2>4, <2>5, <3>1, <3>2
  <2>6. CASE c0 = d
    <3>1. nx \notin T
      BY <2>2, <2>6
    <3> HIDE DEF Last, T
    <3> QED BY <2>3, <2>4, <3>1
  <2> QED BY <2>2, <2>5, <2>6
<1> QED BY <1>4, <1>5

(* A node in use that is pushed stays in use, with all the others.         *)
LEMMA PushInUse ==
    ASSUME NEW l \in List, NEW M \in SUBSET Cells, Loose(l, M), NEW d \in M
    PROVE  Loose(Push(l, d), M) /\ Push(l, d).len = l.len
<1>0. CASE d = l.head
  BY <1>0 DEF Push
<1>1. CASE d # l.head
  <2> DEFINE m == Push(l, d)
             nx == l.next[d]
             pv == l.prev[d]
             h == l.head
  <2>1. PICK S \in SUBSET M : Trailing(l, S)
    BY DEF Loose
  <2>2. /\ l.next \in [Cells -> Ptr] /\ l.prev \in [Cells -> Ptr] /\ Nil \notin Cells
        /\ h \in S /\ l.tail \in S /\ h \in M /\ h # Nil /\ l.tail # Nil /\ d \in Cells
    BY <2>1, NilAssumption DEF List, Trailing
  <2>3. /\ \A e \in M : l.prev[e] = Nil <=> e = h
        /\ \A e \in M : l.next[e] = Nil => e = l.tail
        /\ \A c \in Cells, e \in M : l.next[c] = e => l.prev[e] = c
        /\ \A c \in M, e \in M : l.prev[e] = c => l.next[c] = e
    BY DEF Loose, Laced
  <2>4. pv \in Cells /\ pv # Nil
    BY <1>1, <2>2, <2>3 DEF Ptr
  <2>5. nx # d /\ pv # d
    <3>1. {d} \in SUBSET Cells /\ {d} # {} /\ Onward(l, M)
      BY DEF Loose
    <3>2. PICK c \in {d} : l.next[c] \notin {d} /\ \A e \in M \cap {d} : l.prev[e] # c
      BY <3>1 DEF Onward
    <3> QED BY <3>2
  <2>6. nx # h /\ (nx \in M => l.prev[nx] = d)
    BY <2>2, <2>3
  <2>7. /\ m.head = d
        /\ m.tail = IF nx = Nil THEN pv ELSE l.tail
        /\ m.len = l.len
        /\ m.next[d] = h
        /\ \A c \in Cells \ {d} : m.next[c] = IF c = pv THEN nx ELSE l.next[c]
        /\ m.prev[d] = Nil
        /\ \A c \in Cells \ {d} : m.prev[c] = IF c = h THEN d
                                              ELSE IF c = nx THEN pv ELSE l.prev[c]
    BY <1>1, <2>2, <2>4, Pushed
  <2> HIDE DEF m
  <2>8. \A e \in M : m.prev[e] = Nil <=> e = m.head
    BY <2>2, <2>3, <2>4, <2>7
  <2>9. \A e \in M : m.next[e] = Nil => e = m.tail
    <3> SUFFICES ASSUME NEW e \in M, m.next[e] = Nil PROVE e = m.tail
      OBVIOUS
    <3>1. e # d
      BY <2>2, <2>7
    <3>2. CASE e = pv
      BY <2>7, <3>1, <3>2
    <3>3. CASE e # pv
      <4>1. l.next[e] = Nil /\ e = l.tail
        BY <2>3, <2>7, <3>1, <3>3
      <4>2. nx # Nil
        BY <2>3, <3>1, <4>1
      <4> QED BY <2>7, <4>1, <4>2
    <3> QED BY <3>2, <3>3
  <2>10. \A c \in Cells, e \in M : m.next[c] = e => m.prev[e] = c
    <3> SUFFICES ASSUME NEW c \in Cells, NEW e \in M, m.next[c] = e PROVE m.prev[e] = c
      OBVIOUS
    <3>1. e # d
      BY <2>2, <2>3, <2>5, <2>7, <1>1
    <3>2. CASE c = d
      BY <1>1, <2>2, <2>7, <3>2
    <3>3. CASE c # d /\ c = pv
      BY <2>6, <2>7, <3>1, <3>3
    <3>4. CASE c # d /\ c # pv
      <4>1. l.next[c] = e /\ l.prev[e] = c
        BY <2>3, <2>7, <3>4
      <4>2. e # h /\ e # nx
        BY <2>2, <2>3, <2>6, <3>4, <4>1
      <4> QED BY <2>7, <3>1, <4>1, <4>2
    <3> QED BY <3>2, <3>3, <3>4
  <2>11. \A c \in M, e \in M : m.prev[e] = c => m.next[c] = e
    <3> SUFFICES ASSUME NEW c \in M, NEW e \in M, m.prev[e] = c PROVE m.next[c] = e
      OBVIOUS
    <3>1. e # d
      BY <2>2, <2>7
    <3>2. CASE e = h
      BY <1>1, <2>7, <3>1, <3>2
    <3>3. CASE e # h /\ e = nx
      <4>1. c = pv /\ c # d
        BY <2>5, <2>7, <3>1, <3>3
      <4> QED BY <2>7, <3>3, <4>1
    <3>4. CASE e # h /\ e # nx
      <4>1. l.prev[e] = c /\ l.next[c] = e
        BY <2>3, <2>7, <3>1, <3>4
      <4>2. c # d /\ c # pv
        BY <2>3, <2>2, <3>1, <3>4, <4>1
      <4> QED BY <2>7, <4>1, <4>2
    <3> QED BY <3>2, <3>3, <3>4
  <2>12. Onward(m, M)
    <3>1. \A c \in Cells : l.next[c] = d => l.prev[d] = c
      BY <2>3
    <3>2. Onward(m, M \cup {d})
      BY <1>1, <2>2, <3>1, PushOnward DEF Loose, m
    <3>3. M \cup {d} = M
      OBVIOUS
    <3> QED BY <3>2, <3>3
  <2>13. \E R \in SUBSET M : Trailing(m, R)
    <3>1. CASE d = l.tail /\ nx # Nil
      <4>1. Trailing(m, {d})
        BY <1>1, <2>2, <2>7, <3>1 DEF Trailing
      <4> QED BY <4>1
    <3>2. CASE d # l.tail \/ nx = Nil
      <4> DEFINE R == S \cup {d}
      <4>0. /\ \A c \in S : c # h => l.prev[c] \in S
            /\ \A c \in S : c # l.tail => l.next[c] \in S
            /\ \A c \in S : l.prev[c] # l.tail
        BY <2>1 DEF Trailing
      <4>1. d \in S => pv \in S
        BY <1>1, <4>0
      <4>2. d = l.tail <=> nx = Nil
        BY <2>3, <3>2
      <4>3. m.tail \in R
        BY <2>2, <2>7, <4>1, <4>2
      <4>4. ASSUME NEW c \in R, c # m.head PROVE m.prev[c] \in R
        <5>1. c \in S /\ c # d /\ c \in Cells
          BY <2>2, <2>7, <4>4
        <5>2. CASE c = h
          BY <2>7, <5>1, <5>2
        <5>3. CASE c # h /\ c = nx
          <6>1. l.prev[c] = d /\ d \in S
            BY <2>6, <4>0, <5>1, <5>3
          <6> QED BY <2>7, <4>1, <5>1, <5>3, <6>1
        <5>4. CASE c # h /\ c # nx
          BY <2>7, <4>0, <5>1, <5>4
        <5> QED BY <5>2, <5>3, <5>4
      <4>5. ASSUME NEW c \in R, c # m.tail PROVE m.next[c] \in R
        <5>1. CASE c = d
          BY <2>2, <2>7, <5>1
        <5>2. CASE c # d /\ c = pv
          <6>1. c \in S /\ l.next[c] = d /\ nx # Nil
            BY <2>3, <2>7, <4>5, <5>2
          <6>2. d \in S \/ c = l.tail
            BY <4>0, <6>1
          <6>3. c # l.tail
            BY <2>7, <4>5, <6>1
          <6>4. nx \in S
            BY <4>0, <4>2, <6>1, <6>2, <6>3
          <6> QED BY <2>2, <2>7, <5>2, <6>1, <6>4
        <5>3. CASE c # d /\ c # pv
          <6>1. c \in S /\ c # l.tail /\ c \in Cells
            <7>1. c \in S /\ c \in Cells
              BY <5>3
            <7>2. CASE nx = Nil
              BY <4>2, <5>3, <7>1, <7>2
            <7>3. CASE nx # Nil
              BY <2>7, <4>5, <7>1, <7>3
            <7> QED BY <7>1, <7>2, <7>3
          <6> QED BY <2>7, <4>0, <5>3, <6>1
        <5> QED BY <5>1, <5>2, <5>3
      <4>6. ASSUME NEW c \in R PROVE m.prev[c] # m.tail
        <5>1. CASE nx = Nil
          <6>1. m.tail = pv /\ d = l.tail /\ pv \in S /\ d \in S
            BY <2>2, <2>7, <4>1, <4>2, <5>1
          <6>2. CASE c = d
            BY <2>2, <2>7, <2>4, <6>1, <6>2
          <6>3. CASE c # d
            <7>1. SUFFICES ASSUME m.prev[c] = pv PROVE FALSE
              BY <6>1
            <7>2. c \in M /\ c \in Cells /\ pv \in M /\ c # nx
              BY <2>2, <5>1, <6>1, <6>3
            <7>3. l.prev[c] = pv
              BY <2>5, <2>7, <6>3, <7>1, <7>2
            <7> QED BY <2>3, <6>3, <7>2, <7>3
          <6> QED BY <6>2, <6>3
        <5>2. CASE nx # Nil
          <6>1. m.tail = l.tail /\ d # l.tail
            BY <2>7, <4>2, <5>2
          <6>2. CASE c = d
            BY <2>2, <2>7, <6>1, <6>2
          <6>3. CASE c # d
            <7>1. c \in S /\ c \in Cells /\ l.prev[c] # l.tail
              BY <4>0, <6>3
            <7>2. CASE c = h
              BY <2>7, <6>1, <6>3, <7>1, <7>2
            <7>3. CASE c # h /\ c = nx
              <8>1. d \in S
                BY <2>6, <4>0, <7>1, <7>3
              <8> QED BY <2>7, <4>0, <6>1, <6>3, <7>1, <7>3, <8>1
            <7>4. CASE c # h /\ c # nx
              BY <2>7, <6>1, <6>3, <7>1, <7>4
            <7> QED BY <7>2, <7>3, <7>4
          <6> QED BY <6>2, <6>3
        <5> QED BY <5>1, <5>2
      <4>7. R \in SUBSET M /\ m.head \in R
        BY <2>7
      <4> HIDE DEF R
      <4>8. Trailing(m, R)
        BY <4>3, <4>4, <4>5, <4>6, <4>7 DEF Trailing
      <4> QED BY <4>7, <4>8
    <3> QED BY <3>1, <3>2
  <2>14. Laced(m, M)
    BY <2>8, <2>9, <2>10, <2>11 DEF Laced
  <2> QED BY <2>7, <2>12, <2>13, <2>14 DEF Loose, m
<1> QED BY <1>0, <1>1

(* A node that is new to the list is in use from then on.                  *)
LEMMA PushFresh ==
    ASSUME NEW l \in List, NEW M \in SUBSET Cells, Loose(l, M),
           NEW d \in Cells, d \notin M, d \notin Pointed(l), l.next[d] = Nil, l.prev[d] = Nil
    PROVE  /\ Loose(Push(l, d), M \cup {d})
           /\ Push(l, d).len = l.len + 1
           /\ M # {} => Push(l, d).head # Push(l, d).tail
<1> DEFINE m == Push(l, d)
           h == l.head
<1>0. /\ l.next \in [Cells -> Ptr] /\ l.prev \in [Cells -> Ptr] /\ Nil \notin Cells
      /\ h # d /\ l.tail # d /\ \A c \in Cells : l.next[c] # d /\ l.prev[c] # d
  BY NilAssumption DEF List, Pointed
<1>1. Laced(l, M) /\ Onward(l, M) /\ IsFiniteSet(M) /\ l.len = Cardinality(M)
  BY DEF Loose
<1>2. /\ \A e \in M : l.prev[e] = Nil <=> e = h
      /\ \A e \in M : l.next[e] = Nil => e = l.tail
      /\ \A c \in Cells, e \in M : l.next[c] = e => l.prev[e] = c
      /\ \A c \in M, e \in M : l.prev[e] = c => l.next[c] = e
  BY <1>1 DEF Laced
<1>3. IsFiniteSet(M \cup {d}) /\ Cardinality(M \cup {d}) = l.len + 1
  BY <1>1, FS_AddElement
<1>4. CASE M = {}
  <2>1. h = Nil /\ l.tail = Nil
    BY <1>4 DEF Loose
  <2>2. /\ m.head = d /\ m.tail = d /\ m.len = l.len + 1
        /\ \A c \in Cells : m.next[c] = l.next[c] /\ m.prev[c] = l.prev[c]
    BY <1>0, <2>1 DEF Push, PutFront, TakeOut
  <2> HIDE DEF m
  <2>3. Trailing(m, {d})
    BY <1>0, <2>2 DEF Trailing
  <2>4. Laced(m, {d})
    BY <1>0, <2>2 DEF Laced
  <2>5. Onward(m, {d})
    <3> SUFFICES ASSUME NEW S \in SUBSET Cells, S # {}
                 PROVE  \E c \in S : m.next[c] \notin S /\ \A e \in {d} \cap S : m.prev[e] # c
      BY DEF Onward
    <3>1. PICK c \in S : l.next[c] \notin S
      BY <1>1 DEF Onward
    <3>2. m.next[c] \notin S /\ m.prev[d] # c
      BY <1>0, <2>2, <3>1
    <3> QED BY <3>2
  <2>6. M \cup {d} = {d}
    BY <1>4
  <2>7. Loose(m, {d})
    BY <1>3, <2>2, <2>3, <2>4, <2>5, <2>6 DEF Loose
  <2> QED BY <1>4, <2>2, <2>6, <2>7 DEF m
<1>5. CASE M # {}
  <2>1. PICK S \in SUBSET M : Trailing(l, S)
    BY <1>5 DEF Loose
  <2>2. h \in S /\ l.tail \in S /\ h \in M /\ h # Nil /\ h \in Cells
    BY <1>0, <2>1 DEF Trailing
  <2>3. /\ m.head = d /\ m.tail = l.tail /\ m.len = l.len + 1
        /\ m.next[d] = h /\ m.prev[d] = Nil
        /\ \A c \in Cells \ {d} : /\ m.next[c] = l.next[c]
                                  /\ m.prev[c] = IF c = h THEN d ELSE l.prev[c]
    BY <1>0, <2>2, Pushed
  <2>4. Onward(m, M \cup {d})
    BY <1>0, <1>1, <2>2, PushOnward DEF m
  <2> HIDE DEF m
  <2>5. \A e \in M \cup {d} : m.prev[e] = Nil <=> e = m.head
    BY <1>0, <1>2, <2>2, <2>3
  <2>6. \A e \in M \cup {d} : m.next[e] = Nil => e = m.tail
    BY <1>0, <1>2, <2>2, <2>3
  <2>7. \A c \in Cells, e \in M \cup {d} : m.next[c] = e => m.prev[e] = c
    <3> SUFFICES ASSUME NEW c \in Cells, NEW e \in M \cup {d}, m.next[c] = e PROVE m.prev[e] = c
      OBVIOUS
    <3>1. e # d /\ e \in M
      BY <1>0, <2>2, <2>3
    <3>2. CASE c = d
      BY <2>3, <3>1, <3>2
    <3>3. CASE c # d
      <4>1. l.next[c] = e /\ l.prev[e] = c
        BY <1>2, <2>3, <3>1, <3>3
      <4>2. e # h
        BY <1>0, <1>2, <2>2, <4>1
      <4> QED BY <2>3, <3>1, <4>1, <4>2
    <3> QED BY <3>2, <3>3
  <2>8. \A c \in M \cup {d}, e \in M \cup {d} : m.prev[e] = c => m.next[c] = e
    <3> SUFFICES ASSUME NEW c \in M \cup {d}, NEW e \in M \cup {d}, m.prev[e] = c PROVE m.next[c] = e
      OBVIOUS
    <3>1. e # d /\ e \in M /\ c \in Cells
      BY <1>0, <2>3
    <3>2. CASE e = h
      BY <2>3, <3>1, <3>2
    <3>3. CASE e # h
      <4>1. l.prev[e] = c
        BY <2>3, <3>1, <3>3
      <4>2. c # d /\ c \in M
        BY <1>0, <3>1, <4>1
      <4> QED BY <1>2, <2>3, <3>1, <4>1, <4>2
    <3> QED BY <3>2, <3>3
  <2>9. Trailing(m, S \cup {d})
    <3>0. /\ \A c \in S : c # h => l.prev[c] \in S
          /\ \A c \in S : c # l.tail => l.next[c] \in S
          /\ \A c \in S : l.prev[c] # l.tail
      BY <2>1 DEF Trailing
    <3>1. \A c \in S : c \in Cells \ {d}
      OBVIOUS
    <3>2. \A c \in S \cup {d} : c # m.head => m.prev[c] \in S \cup {d}
      BY <2>3, <3>0, <3>1
    <3>3. \A c \in S \cup {d} : c # m.tail => m.next[c] \in S \cup {d}
      BY <2>2, <2>3, <3>0, <3>1
    <3>4. \A c \in S \cup {d} : m.prev[c] # m.tail
      BY <1>0, <2>2, <2>3, <3>0, <3>1
    <3> QED BY <2>2, <2>3, <3>2, <3>3, <3>4 DEF Trailing
  <2>10. Laced(m, M \cup {d})
    BY <2>5, <2>6, <2>7, <2>8 DEF Laced
  <2>11. Loose(m, M \cup {d})
    BY <1>3, <2>3, <2>4, <2>9, <2>10 DEF Loose
  <2> QED BY <1>0, <2>3, <2>11 DEF m
<1> QED BY <1>4, <1>5

(* An eviction takes the tail out of use, and the node before it, which is *)
(* still in use, is the new tail.                                          *)
LEMMA CutTailLoose ==
    ASSUME NEW l \in List, NEW M \in SUBSET Cells, Loose(l, M), M # {}, l.head # l.tail
    PROVE  /\ l.tail \in M
           /\ Loose(CutTail(l), M \ {l.tail})
           /\ CutTail(l).len = l.len - 1
<1> DEFINE m == CutTail(l)
           t == l.tail
           N == M \ {t}
<1>1. PICK S \in SUBSET M : Trailing(l, S)
  BY DEF Loose
<1>2. /\ l.head \in S /\ t \in S /\ t \in Cells
      /\ \A c \in S : c # l.head => l.prev[c] \in S
      /\ \A c \in S : c # t => l.next[c] \in S
      /\ \A c \in S : l.prev[c] # t
  BY <1>1 DEF Trailing
<1>3. /\ l.next \in [Cells -> Ptr] /\ l.prev \in [Cells -> Ptr] /\ Nil \notin Cells
  BY NilAssumption DEF List
<1>4. /\ \A e \in M : l.prev[e] = Nil <=> e = l.head
      /\ \A e \in M : l.next[e] = Nil => e = t
      /\ \A c \in Cells, e \in M : l.next[c] = e => l.prev[e] = c
      /\ \A c \in M, e \in M : l.prev[e] = c => l.next[c] = e
  BY DEF Loose, Laced
<1>5. /\ m.head = l.head /\ m.tail = l.prev[t] /\ m.len = l.len - 1
      /\ m.next[t] = Nil /\ m.prev[t] = Nil
      /\ \A c \in Cells \ {t} : m.next[c] = l.next[c] /\ m.prev[c] = l.prev[c]
  BY <1>2, <1>3 DEF CutTail
<1> HIDE DEF m
<1>6. Laced(m, N)
  <2>1. \A e \in N : m.prev[e] = Nil <=> e = m.head
    BY <1>4, <1>5
  <2>2. \A e \in N : m.next[e] = Nil => e = m.tail
    BY <1>4, <1>5
  <2>3. \A c \in Cells, e \in N : m.next[c] = e => m.prev[e] = c
    BY <1>3, <1>4, <1>5
  <2>4. \A c \in N, e \in N : m.prev[e] = c => m.next[c] = e
    BY <1>4, <1>5
  <2> QED BY <2>1, <2>2, <2>3, <2>4 DEF Laced
<1>7. Onward(m, N)
  <2> SUFFICES ASSUME NEW R \in SUBSET Cells, R # {}
               PROVE  \E c \in R : m.next[c] \notin R /\ \A e \in N \cap R : m.prev[e] # c
    BY DEF Onward
  <2>1. PICK c \in R : l.next[c] \notin R /\ \A e \in M \cap R : l.prev[e] # c
    BY DEF Loose, Onward
  <2>2. m.next[c] \notin R
    BY <1>2, <1>3, <1>5, <2>1
  <2>3. \A e \in N \cap R : m.prev[e] # c
    BY <1>5, <2>1
  <2> QED BY <2>2, <2>3
<1>8. Trailing(m, S \ {t})
  <2>0. \A c \in S \ {t} : c \in Cells \ {t}
    OBVIOUS
  <2>1. m.tail \in S \ {t}
    BY <1>2, <1>5
  <2>2. \A c \in S \ {t} : c # m.head => m.prev[c] \in S \ {t}
    BY <1>2, <1>5, <2>0
  <2>3. ASSUME NEW c \in S \ {t}, c # m.tail PROVE m.next[c] \in S \ {t}
    <3>1. l.next[c] \in S /\ c \in Cells
      BY <1>2
    <3>2. l.next[c] # t
      BY <1>2, <1>4, <1>5, <2>3, <3>1
    <3> QED BY <1>5, <3>1, <3>2
  <2>4. ASSUME NEW c \in S \ {t} PROVE m.prev[c] # m.tail
    <3>1. SUFFICES ASSUME l.prev[c] = l.prev[t] PROVE FALSE
      BY <1>5, <2>0
    <3>2. l.prev[t] \in S /\ l.next[l.prev[t]] = t
      BY <1>2, <1>4
    <3>3. l.next[l.prev[t]] = c
      BY <1>4, <3>1, <3>2
    <3> QED BY <3>2, <3>3
  <2> QED BY <1>2, <1>5, <2>1, <2>2, <2>3, <2>4 DEF Trailing
<1>9. IsFiniteSet(N) /\ Cardinality(N) = l.len - 1
  <2>1. IsFiniteSet(M) /\ t \in M /\ l.len = Cardinality(M)
    BY <1>2 DEF Loose
  <2>2. \A x \in M : IsFiniteSet(M \ {x}) /\ Cardinality(M \ {x}) = Cardinality(M) - 1
    BY <2>1, FS_RemoveElement
  <2> QED BY <2>1, <2>2
<1>10. S \ {t} \in SUBSET N /\ N # {}
  BY <1>2
<1>11. Loose(m, N)
  BY <1>5, <1>6, <1>7, <1>8, <1>9, <1>10 DEF Loose
<1> QED BY <1>2, <1>5, <1>11 DEF m

(* A node that is allocated is out of use, and loses its pointers.         *)
LEMMA AllocatedLoose ==
    ASSUME NEW l \in List, NEW M \in SUBSET Cells, Loose(l, M), NEW d \in Cells, d \notin M
    PROVE  Loose(Allocated(l, d), M)
<1> DEFINE m == Allocated(l, d)
<1>1. /\ m.head = l.head /\ m.tail = l.tail /\ m.len = l.len
      /\ m.next[d] = Nil /\ m.prev[d] = Nil
      /\ \A c \in Cells \ {d} : m.next[c] = l.next[c] /\ m.prev[c] = l.prev[c]
  <2>1. l.next \in [Cells -> Ptr] /\ l.prev \in [Cells -> Ptr]
    BY DEF List
  <2>2. /\ m.head = l.head /\ m.tail = l.tail /\ m.len = l.len
        /\ m.next = [l.next EXCEPT ![d] = Nil] /\ m.prev = [l.prev EXCEPT ![d] = Nil]
    BY AllocatedType
  <2> HIDE DEF m
  <2> QED BY <2>1, <2>2
<1> HIDE DEF m
<1>2. \A c \in M : c \in Cells \ {d}
  OBVIOUS
<1>3. Laced(m, M)
  BY <1>1, <1>2, NilAssumption DEF Loose, Laced
<1>4. Onward(m, M)
  <2> SUFFICES ASSUME NEW R \in SUBSET Cells, R # {}
               PROVE  \E c \in R : m.next[c] \notin R /\ \A e \in M \cap R : m.prev[e] # c
    BY DEF Onward
  <2>1. PICK c \in R : l.next[c] \notin R /\ \A e \in M \cap R : l.prev[e] # c
    BY DEF Loose, Onward
  <2>2. m.next[c] \notin R
    BY <1>1, <2>1, NilAssumption
  <2>3. \A e \in M \cap R : m.prev[e] # c
    BY <1>1, <1>2, <2>1
  <2> QED BY <2>2, <2>3
<1>5. ASSUME NEW S \in SUBSET M, Trailing(l, S) PROVE Trailing(m, S)
  BY <1>1, <1>2, <1>5 DEF Trailing
<1>6. Loose(m, M)
  BY <1>1, <1>3, <1>4, <1>5 DEF Loose
<1> QED BY <1>6 DEF m

-----------------------------------------------------------------------------
(* One goroutine that calls Set and Get, on a bucket that holds something, *)
(* with entries that do not expire.                                        *)
SetsAndGets == (\E p : Clients = {p}) /\ Ops \subseteq {"get", "set"} /\ MaxLen > 0

(* The nodes in use: those in the map, but for one that is still to be     *)
(* pushed.                                                                 *)
InUse == {c \in Cells : /\ \E k \in Keys : keyVal[k] = c
                        /\ \A t \in Clients : th[t].pc = "newPush" => th[t].cell # c}

NothingExpires ==
    /\ expired = {} /\ th[Worker].pc \in {"idle", "sweep"}
    /\ \A c \in Cells : node[c].expiresAt = "never"

(* What holds at each step of an operation. The last two conjuncts are     *)
(* about the counter: only a new node makes the bucket too long, and then  *)
(* the node that was pushed is not the one that goes.                      *)
Underway(t) ==
    LET pc == th[t].pc
        c  == th[t].cell
    IN  /\ pc # "delMap"
        /\ pc \in {"getPush", "setWrite", "setPush"} => c \in InUse
        /\ pc = "setWrite" => th[t].expiresAt = "never"
        /\ pc \in {"newMap", "newPush"} =>
             c \notin Pointed(list) /\ list.next[c] = Nil /\ list.prev[c] = Nil
        /\ pc = "newMap" => keyVal[th[t].key] = Nil
        /\ pc = "newPush" => \E k \in Keys : keyVal[k] = c
        /\ pc = "evict" => list.len > MaxLen
        /\ pc \in {"newCheck", "evict"} =>
             list.len <= MaxLen + 1 /\ (list.len > 1 => list.head # list.tail)
        /\ pc \notin {"newCheck", "evict"} => list.len <= MaxLen

(* The invariant.                                                          *)
EvictInv == ~crashed /\ Loose(list, InUse) /\ NothingExpires /\ \A t \in Clients : Underway(t)

(* Steps that neither enter a node in the map nor push a new one.          *)
LEMMA InUseSame ==
    ASSUME NEW p, Clients = {p}, keyVal' = keyVal, th[p].pc # "newPush", th'[p].pc # "newPush"
    PROVE  InUse' = InUse
  BY DEF InUse

(* Steps of the client that leave the list alone and take up what is in    *)
(* use, or nothing.                                                        *)
LEMMA ClientGoesOn ==
    ASSUME TypeOK, EvictInv, NEW p, Clients = {p}, NEW r, th' = [th EXCEPT ![p] = r],
           UNCHANGED <<list, keyVal, expired, crashed>>,
           \A c \in Cells : node'[c].expiresAt = "never",
           th[p].pc \notin {"newPush", "newCheck", "evict"},
           r.pc \notin {"delMap", "newMap", "newPush", "newCheck", "evict"},
           r.pc \in {"getPush", "setWrite", "setPush"} => r.cell \in InUse,
           r.pc = "setWrite" => r.expiresAt = "never"
    PROVE  EvictInv'
<1>1. th'[p] = r /\ th'[Worker] = th[Worker]
  BY LocalCacheAssumption DEF TypeOK, ThreadsOK, Threads
<1>2. InUse' = InUse
  BY <1>1, InUseSame
<1>3. Underway(p)'
  BY <1>1, <1>2 DEF Underway, EvictInv
<1>4. NothingExpires'
  BY <1>1 DEF NothingExpires, EvictInv
<1> QED BY <1>2, <1>3, <1>4 DEF EvictInv

(* Pushing what is in use, in Get and in Set.                              *)
LEMMA ClientPushes ==
    ASSUME TypeOK, EvictInv, NEW p, Clients = {p}, NEW r, th' = [th EXCEPT ![p] = r],
           th[p].pc \in {"getPush", "setPush"}, r.pc \in {"getRead", "idle"},
           list' = Push(list, th[p].cell), UNCHANGED <<node, keyVal, expired, crashed>>
    PROVE  EvictInv'
<1>1. th'[p] = r /\ th'[Worker] = th[Worker]
  BY LocalCacheAssumption DEF TypeOK, ThreadsOK, Threads
<1>2. InUse' = InUse /\ InUse \in SUBSET Cells
  BY <1>1, InUseSame DEF InUse
<1>3. /\ list \in List /\ Loose(list, InUse) /\ th[p].cell \in InUse /\ list.len <= MaxLen
  BY DEF TypeOK, EvictInv, Underway
<1>4. Loose(list', InUse) /\ list'.len = list.len
  BY <1>2, <1>3, PushInUse
<1>5. Underway(p)'
  BY <1>1, <1>3, <1>4 DEF Underway
<1>6. NothingExpires'
  BY <1>1 DEF NothingExpires, EvictInv
<1> QED BY <1>2, <1>4, <1>5, <1>6 DEF EvictInv

(* Set takes a new node for a key that is not mapped.                      *)
LEMMA NewNodeLoose ==
    ASSUME TypeOK, EvictInv, NEW p, Clients = {p}, NEW k \in Keys, NEW v \in Values,
           NEW c \in Free, keyVal[k] = Nil, th[p].pc = "idle",
           list' = Allocated(list, c),
           node' = [node EXCEPT ![c] = [key |-> k, data |-> v, expiresAt |-> "never"]],
           Hold(p, "newMap", k, c), UNCHANGED <<keyVal, expired, crashed>>
    PROVE  EvictInv'
<1>1. /\ th'[p].pc = "newMap" /\ th'[p].cell = c /\ th'[p].key = k /\ th'[Worker] = th[Worker]
      /\ list \in List /\ node \in [Cells -> Node] /\ c \in Cells
  BY LocalCacheAssumption DEF Hold, TypeOK, ThreadsOK, Threads, Free
<1>2. InUse' = InUse /\ InUse \in SUBSET Cells /\ c \notin InUse /\ c \notin Pointed(list)
  BY <1>1, InUseSame DEF InUse, Free, Pointed
<1>3. Loose(list', InUse)
  BY <1>1, <1>2, AllocatedLoose DEF EvictInv
<1>4. /\ c \notin Pointed(list') /\ list'.next[c] = Nil /\ list'.prev[c] = Nil
      /\ list'.len = list.len
  <2>1. list.next \in [Cells -> Ptr] /\ list.prev \in [Cells -> Ptr]
    BY <1>1 DEF List
  <2>2. /\ list'.len = list.len
        /\ list'.next = [list.next EXCEPT ![c] = Nil] /\ list'.prev = [list.prev EXCEPT ![c] = Nil]
    BY <1>1, AllocatedType
  <2>3. c \notin Pointed(list')
    BY <1>1, <1>2, AllocatedPointed
  <2> QED BY <1>1, <2>1, <2>2, <2>3
<1>5. Underway(p)'
  BY <1>1, <1>4 DEF Underway, EvictInv
<1>6. NothingExpires'
  BY <1>1 DEF NothingExpires, EvictInv, Node
<1> QED BY <1>2, <1>3, <1>5, <1>6 DEF EvictInv

(* Set enters it in the map, where nothing was under its key.              *)
LEMMA NewMapLoose ==
    ASSUME TypeOK, MapInv, EvictInv, NEW p, Clients = {p}, NewMap(p)
    PROVE  EvictInv'
<1> DEFINE c == th[p].cell
           k == th[p].key
<1>1. /\ th[p].pc = "newMap" /\ c \in Cells /\ k \in Keys /\ keyVal \in [Keys -> Ptr]
      /\ th'[p].pc = "newPush" /\ th'[p].cell = c /\ th'[Worker] = th[Worker]
      /\ keyVal' = [keyVal EXCEPT ![k] = c] /\ keyVal[k] = Nil
      /\ \A j \in Keys : keyVal[j] # c
      /\ UNCHANGED <<list, node, expired, crashed>>
  BY LocalCacheAssumption
     DEF NewMap, Goto, TypeOK, ThreadsOK, Threads, HoldsCell, HoldsKey, EvictInv, Underway,
         MapInv, FreshInv, Fresh
<1> HIDE DEF c, k
<1>2. InUse' = InUse
  <2>1. InUse = {d \in Cells : \E j \in Keys : keyVal[j] = d}
    BY <1>1 DEF InUse
  <2>2. InUse' = {d \in Cells : (\E j \in Keys : keyVal'[j] = d) /\ d # c}
    BY <1>1 DEF InUse
  <2>3. \A d \in Cells : (\E j \in Keys : keyVal[j] = d) <=> (\E j \in Keys : keyVal'[j] = d) /\ d # c
    BY <1>1, NilAssumption
  <2> QED BY <2>1, <2>2, <2>3
<1>3. Underway(p)'
  <2>1. keyVal'[k] = c
    BY <1>1
  <2> QED BY <1>1, <2>1 DEF Underway, EvictInv, c
<1>4. NothingExpires'
  BY <1>1 DEF NothingExpires, EvictInv
<1> QED BY <1>1, <1>2, <1>3, <1>4 DEF EvictInv

(* Set pushes it, and the counter may now be one beyond the capacity.      *)
LEMMA NewPushLoose ==
    ASSUME TypeOK, EvictInv, NEW p, Clients = {p}, NewPush(p)
    PROVE  EvictInv'
<1> DEFINE c == th[p].cell
<1>1. /\ th[p].pc = "newPush" /\ c \in Cells
      /\ th'[p].pc = "newCheck" /\ th'[Worker] = th[Worker]
      /\ list' = Push(list, c) /\ list \in List
      /\ c \notin Pointed(list) /\ list.next[c] = Nil /\ list.prev[c] = Nil
      /\ \E k \in Keys : keyVal[k] = c
      /\ list.len <= MaxLen
      /\ UNCHANGED <<keyVal, node, expired, crashed>>
  BY LocalCacheAssumption
     DEF NewPush, Rest, TypeOK, ThreadsOK, Threads, HoldsCell, EvictInv, Underway
<1>2. c \notin InUse /\ InUse' = InUse \cup {c} /\ InUse \in SUBSET Cells
  BY <1>1 DEF InUse
<1> HIDE DEF c
<1>3. /\ Loose(list', InUse') /\ list'.len = list.len + 1
      /\ InUse # {} => list'.head # list'.tail
  BY <1>1, <1>2, PushFresh DEF EvictInv
<1>4. list.len \in Int /\ MaxLen \in Int /\ (InUse = {} => list.len = 0)
  BY <1>1, FS_EmptySet, LocalCacheAssumption DEF EvictInv, Loose, List
<1>5. list'.len <= MaxLen + 1 /\ (list'.len > 1 => list'.head # list'.tail)
  BY <1>1, <1>3, <1>4
<1>6. Underway(p)'
  BY <1>1, <1>5 DEF Underway
<1>7. NothingExpires'
  BY <1>1 DEF NothingExpires, EvictInv
<1> QED BY <1>1, <1>3, <1>6, <1>7 DEF EvictInv

(* Set looks at the counter.                                               *)
LEMMA NewCheckLoose ==
    ASSUME TypeOK, EvictInv, NEW p, Clients = {p}, NewCheck(p)
    PROVE  EvictInv'
<1>1. /\ th[p].pc = "newCheck" /\ th'[Worker] = th[Worker]
      /\ \/ list.len > MaxLen /\ th'[p].pc = "evict"
         \/ list.len <= MaxLen /\ th'[p].pc = "idle"
      /\ UNCHANGED <<list, keyVal, node, expired, crashed>>
  <2>1. p \in Threads /\ p # Worker /\ Worker \in Threads /\ th \in [Threads -> Thread]
    BY LocalCacheAssumption DEF TypeOK, ThreadsOK, Threads
  <2>2. \A s : Goto(p, s) => th'[p].pc = s /\ th'[Worker] = th[Worker]
    BY <2>1 DEF Goto, Thread
  <2>3. Return(p) => th'[p].pc = "idle" /\ th'[Worker] = th[Worker]
    BY <2>1 DEF Return, Rest
  <2> QED BY <2>2, <2>3 DEF NewCheck
<1>2. InUse' = InUse
  BY <1>1, InUseSame
<1>3. Underway(p)'
  BY <1>1 DEF Underway, EvictInv
<1>4. NothingExpires'
  BY <1>1 DEF NothingExpires, EvictInv
<1> QED BY <1>1, <1>2, <1>3, <1>4 DEF EvictInv

(* An eviction finds a tail, which is not the head.                        *)
LEMMA EvictLoose ==
    ASSUME TypeOK, MapInv, EvictInv, MaxLen > 0, NEW p, Clients = {p}, Evict(p)
    PROVE  EvictInv'
<1> DEFINE t == list.tail
           k == node[t].key
<1>1. /\ th[p].pc = "evict" /\ list \in List /\ Loose(list, InUse) /\ InUse \in SUBSET Cells
      /\ list.len > MaxLen /\ list.len <= MaxLen + 1 /\ (list.len > 1 => list.head # t)
      /\ list.len \in Int /\ MaxLen \in Int
  BY LocalCacheAssumption DEF Evict, TypeOK, EvictInv, Underway, InUse, List
<1>2. list.head # t /\ InUse # {}
  <2>1. InUse = {} => list.len = 0
    BY <1>1, FS_EmptySet DEF Loose
  <2> QED BY <1>1, <2>1
<1>3. t \in InUse /\ Loose(CutTail(list), InUse \ {t}) /\ CutTail(list).len = list.len - 1
  BY <1>1, <1>2, CutTailLoose
<1>4. t # Nil /\ t \in Cells
  BY <1>1, <1>3, NilAssumption
<1>5. /\ list' = CutTail(list) /\ node' = [node EXCEPT ![t].data = Nil]
      /\ keyVal' = [keyVal EXCEPT ![k] = Nil] /\ Return(p)
      /\ UNCHANGED <<created, expired, crashed>>
  BY <1>4 DEF Evict
<1>6. th'[p].pc = "idle" /\ th'[Worker] = th[Worker]
  BY <1>5, LocalCacheAssumption DEF Return, Rest, TypeOK, ThreadsOK, Threads
<1>7. InUse' = InUse \ {t}
  <2>1. /\ InUse = {d \in Cells : \E j \in Keys : keyVal[j] = d}
        /\ InUse' = {d \in Cells : \E j \in Keys : keyVal'[j] = d}
    BY <1>1, <1>6 DEF InUse
  <2>2. \A j \in Keys : keyVal[j] # Nil => node[keyVal[j]].key = j
    BY DEF MapInv, EntryInv, Mapped
  <2>3. keyVal \in [Keys -> Ptr] /\ Nil \notin Cells
    BY NilAssumption DEF TypeOK
  <2>4. \A j \in Keys : keyVal[j] = t <=> (j = k /\ keyVal[k] = t)
    BY <1>4, <2>2
  <2>5. k \in Keys /\ keyVal[k] = t
    BY <1>3, <2>1, <2>4
  <2>6. \A j \in Keys : keyVal'[j] = IF j = k THEN Nil ELSE keyVal[j]
    BY <1>5, <2>3
  <2> HIDE DEF t, k
  <2>7. \A d \in Cells : (\E j \in Keys : keyVal'[j] = d) <=> (\E j \in Keys : keyVal[j] = d) /\ d # t
    BY <2>3, <2>4, <2>5, <2>6
  <2> QED BY <2>1, <2>7
<1>8. list'.len <= MaxLen
  BY <1>1, <1>3, <1>5
<1>9. Underway(p)'
  BY <1>6, <1>8 DEF Underway
<1>10. NothingExpires'
  <2>1. node \in [Cells -> Node]
    BY DEF TypeOK
  <2>2. \A c \in Cells : node'[c].expiresAt = node[c].expiresAt
    BY <1>5, <2>1 DEF Node
  <2> QED BY <1>5, <1>6, <2>2 DEF NothingExpires, EvictInv
<1> QED BY <1>3, <1>5, <1>7, <1>9, <1>10 DEF EvictInv

(* The client's step.                                                      *)
LEMMA ClientEvicts ==
    ASSUME TypeOK, MapInv, EvictInv, SetsAndGets, NEW p, Clients = {p},
           ClientCall(p) \/ ThreadStep(p)
    PROVE  EvictInv'
<1>0. /\ p \in Threads /\ p # Worker /\ th[p] \in Thread /\ Underway(p) /\ InUse \in SUBSET Cells
      /\ node \in [Cells -> Node] /\ keyVal \in [Keys -> Ptr]
      /\ \A c \in Cells : node[c].expiresAt = "never"
  BY LocalCacheAssumption DEF TypeOK, ThreadsOK, Threads, EvictInv, NothingExpires, InUse
<1>1. /\ Rest("idle").pc = "idle"
      /\ \A s : Return(p) => th' = [th EXCEPT ![p] = Rest("idle")]
  BY <1>0 DEF Return, Rest
<1>2. \A s : Goto(p, s) => th' = [th EXCEPT ![p] = [th[p] EXCEPT !.pc = s]] /\ [th[p] EXCEPT !.pc = s].pc = s
  BY <1>0 DEF Goto, Thread
<1>3. ASSUME th[p].pc # "newPush", NEW k \in Keys, keyVal[k] # Nil PROVE keyVal[k] \in InUse
  BY <1>0, <1>3, LocalCacheAssumption DEF InUse, Ptr, SetsAndGets
<1>4. ASSUME NEW k \in Keys, GetLookup(p, k) PROVE EvictInv'
  <2>1. /\ th[p].pc = "idle" /\ UNCHANGED <<list, node, keyVal, expired, crashed>>
        /\ Return(p) \/ (keyVal[k] # Nil /\ Hold(p, "getPush", k, keyVal[k]))
    BY <1>4 DEF GetLookup
  <2>2. CASE Return(p)
    BY <1>0, <1>1, <2>1, <2>2, ClientGoesOn
  <2>3. CASE keyVal[k] # Nil /\ Hold(p, "getPush", k, keyVal[k])
    <3> DEFINE r == [pc |-> "getPush", key |-> k, cell |-> keyVal[k], data |-> Nil, expiresAt |-> "never"]
    <3>1. th' = [th EXCEPT ![p] = r] /\ r.pc = "getPush" /\ r.cell \in InUse
      BY <1>3, <2>1, <2>3 DEF Hold
    <3> HIDE DEF r
    <3> QED BY <1>0, <2>1, <3>1, ClientGoesOn
  <2> QED BY <2>1, <2>2, <2>3
<1>5. ASSUME NEW k \in Keys, NEW v \in Values, SetLookup(p, k, v, "never") PROVE EvictInv'
  <2>1. th[p].pc = "idle" /\ UNCHANGED <<keyVal, expired, crashed>>
    BY <1>5 DEF SetLookup
  <2>2. CASE Return(p) /\ UNCHANGED <<list, node>>
    BY <1>0, <1>1, <2>1, <2>2, ClientGoesOn
  <2>3. CASE /\ keyVal[k] # Nil /\ UNCHANGED <<list, node>>
             /\ th' = [th EXCEPT ![p] = [pc |-> "setWrite", key |-> k, cell |-> keyVal[k],
                                         data |-> v, expiresAt |-> "never"]]
    <3> DEFINE r == [pc |-> "setWrite", key |-> k, cell |-> keyVal[k], data |-> v, expiresAt |-> "never"]
    <3>1. th' = [th EXCEPT ![p] = r] /\ r.pc = "setWrite" /\ r.cell \in InUse /\ r.expiresAt = "never"
      BY <1>3, <2>1, <2>3
    <3> HIDE DEF r
    <3> QED BY <1>0, <2>1, <2>3, <3>1, ClientGoesOn
  <2>4. ASSUME NEW c \in Free, keyVal[k] = Nil, list' = Allocated(list, c),
               node' = [node EXCEPT ![c] = [key |-> k, data |-> v, expiresAt |-> "never"]],
               Hold(p, "newMap", k, c)
        PROVE  EvictInv'
    BY <2>1, <2>4, NewNodeLoose
  <2> QED BY <1>5, <2>2, <2>3, <2>4 DEF SetLookup
<1>6. CASE ClientCall(p)
  BY <1>4, <1>5, <1>6 DEF ClientCall, ClientDelete, SetsAndGets
<1>7. CASE GetPush(p)
  BY <1>2, <1>7, ClientPushes DEF GetPush
<1>8. CASE GetRead(p)
  BY <1>0, <1>1, <1>8, ClientGoesOn DEF GetRead
<1>9. CASE SetWrite(p)
  <2> DEFINE c == th[p].cell
             r == [pc |-> "setPush", key |-> th[p].key, cell |-> c, data |-> Nil, expiresAt |-> "never"]
  <2>1. /\ th[p].pc = "setWrite" /\ c \in InUse /\ th[p].expiresAt = "never"
        /\ th' = [th EXCEPT ![p] = r] /\ r.pc = "setPush" /\ r.cell = c
        /\ UNCHANGED <<list, keyVal, expired, crashed>>
        /\ node' = [node EXCEPT ![c] = [key |-> node[c].key, data |-> th[p].data,
                                        expiresAt |-> th[p].expiresAt]]
    BY <1>0, <1>9 DEF SetWrite, Hold, Underway
  <2> HIDE DEF r, c
  <2>2. \A d \in Cells : node'[d].expiresAt = "never"
    BY <1>0, <2>1
  <2> QED BY <2>1, <2>2, ClientGoesOn
<1>10. CASE SetPush(p)
  BY <1>1, <1>10, ClientPushes DEF SetPush
<1>11. CASE NewMap(p) \/ NewPush(p) \/ NewCheck(p) \/ Evict(p)
  BY <1>11, NewMapLoose, NewPushLoose, NewCheckLoose, EvictLoose DEF SetsAndGets
<1>12. CASE DelMap(p) \/ TtlWrite(p)
  BY <1>0, <1>12 DEF DelMap, TtlWrite, Underway, MapInv, WriteInv
<1> QED BY <1>6, <1>7, <1>8, <1>9, <1>10, <1>11, <1>12 DEF ThreadStep

(* Every step: the worker finds nothing that has expired.                  *)
LEMMA EvictStep ==
    ASSUME TypeOK, MapInv, EvictInv, SetsAndGets, [Next]_vars
    PROVE  EvictInv'
<1>1. PICK p : Clients = {p}
  BY DEF SetsAndGets
<1>2. /\ p \in Threads /\ Worker \in Threads /\ p # Worker /\ th \in [Threads -> Thread]
      /\ NothingExpires /\ \A c \in Cells : node[c].expiresAt # "past"
  BY <1>1, LocalCacheAssumption DEF TypeOK, ThreadsOK, Threads, EvictInv, NothingExpires
<1>3. ASSUME UNCHANGED <<list, node, keyVal, crashed>>, expired' = {},
             th'[p] = th[p], th'[Worker].pc \in {"idle", "sweep"}
      PROVE  EvictInv'
  <2>1. InUse' = InUse
    BY <1>1, <1>3 DEF InUse
  <2>2. Underway(p)'
    BY <1>1, <1>3, <2>1 DEF Underway, EvictInv
  <2>3. NothingExpires'
    BY <1>2, <1>3 DEF NothingExpires
  <2> QED BY <1>1, <1>3, <2>1, <2>2, <2>3 DEF EvictInv
<1>4. CASE WorkerStep
  <2>1. CASE Sweep
    <3>1. expired' = {} /\ UNCHANGED <<list, node, keyVal, crashed>>
      BY <1>2, <2>1 DEF Sweep, Walk, WalkPast
    <3>2. th'[p] = th[p] /\ th'[Worker].pc = "sweep"
      BY <1>2, <2>1 DEF Sweep, Goto, Thread
    <3> QED BY <1>3, <3>1, <3>2
  <2>2. CASE SweepDelete
    BY <1>2, <2>2 DEF SweepDelete, NothingExpires
  <2>3. CASE SweepDone
    <3>1. expired' = {} /\ UNCHANGED <<list, node, keyVal, crashed>>
      BY <2>3 DEF SweepDone
    <3>2. th'[p] = th[p] /\ th'[Worker].pc = "idle"
      BY <1>2, <2>3 DEF SweepDone, Goto, Thread
    <3> QED BY <1>3, <3>1, <3>2
  <2> QED BY <1>4, <2>1, <2>2, <2>3 DEF WorkerStep
<1>5. CASE CreateBucket \/ UNCHANGED vars
  <2>1. UNCHANGED <<list, node, keyVal, th, expired, crashed>>
    BY <1>5 DEF CreateBucket, vars
  <2> QED BY <1>2, <1>3, <2>1 DEF NothingExpires
<1>6. ASSUME NEW c \in Cells, Expire(c) PROVE EvictInv'
  BY <1>2, <1>6 DEF Expire, NothingExpires
<1>7. CASE ThreadStep(Worker)
  BY <1>2, <1>7
     DEF NothingExpires, ThreadStep, GetPush, GetRead, SetWrite, SetPush, NewMap, NewPush, NewCheck,
         Evict, DelMap, TtlWrite
<1>8. CASE ClientCall(p) \/ ThreadStep(p)
  BY <1>1, <1>8, ClientEvicts
<1> QED BY <1>1, <1>4, <1>5, <1>6, <1>7, <1>8 DEF Next, Threads

(* Nothing has happened to an empty list.                                  *)
LEMMA EvictInitially == Init /\ SetsAndGets => EvictInv
<1> SUFFICES ASSUME Init, SetsAndGets PROVE EvictInv
  OBVIOUS
<1>1. /\ list = EmptyList /\ ~crashed /\ \A k \in Keys : keyVal[k] = Nil
      /\ \A t \in Threads : th[t].pc = "idle"
      /\ expired = {} /\ \A c \in Cells : node[c].expiresAt = "never"
  BY DEF Init, Rest
<1>2. InUse = {} /\ IsFiniteSet({}) /\ Cardinality({}) = 0
  BY <1>1, NilAssumption, FS_EmptySet DEF InUse
<1>3. Loose(list, {})
  BY <1>1, <1>2, NilAssumption DEF EmptyList, Loose, Laced, Onward
<1>4. NothingExpires
  BY <1>1 DEF NothingExpires, Threads
<1>5. \A t \in Clients : Underway(t)
  BY <1>1, LocalCacheAssumption DEF Underway, Threads, SetsAndGets, EmptyList
<1> QED BY <1>1, <1>2, <1>3, <1>4, <1>5 DEF EvictInv

(* Sets and Gets of one goroutine, through any number of evictions: the    *)
(* invariant.                                                              *)
LEMMA EvictionInvariant == ASSUME SetsAndGets PROVE Spec => []EvictInv
<1>1. Init => MapInv
  BY DEF Init, Rest, MapInv, EntryInv, Mapped, FreshInv, WriteInv
<1>2. Ops \cap {"setTtl", "setTtlZero"} = {}
  BY DEF SetsAndGets
<1>3. TypeOK /\ MapInv /\ [Next]_vars => MapInv'
  BY <1>2, MapStep
<1>4. Init => EvictInv
  BY EvictInitially
<1>5. TypeOK /\ MapInv /\ EvictInv /\ [Next]_vars => EvictInv'
  BY EvictStep
<1> QED BY <1>1, <1>3, <1>4, <1>5, TypeCorrect, PTL DEF Spec

(* Each eviction finds a tail to evict, although evictions leave the new   *)
(* tail with a pointer to the evicted node and later Pushes then leave the *)
(* bucket's tail behind: nil is never dereferenced.                        *)
THEOREM EvictionFindsTail == ASSUME SetsAndGets PROVE Spec => []NoCrash
<1>1. EvictInv => NoCrash
  BY DEF EvictInv, NoCrash
<1> QED BY <1>1, EvictionInvariant, PTL

(* The counter stays the number of nodes in use, so each Set that makes    *)
(* the bucket too long by one is followed by one eviction.                 *)
THEOREM EvictionBounds == ASSUME SetsAndGets PROVE Spec => []LenBounded
<1>1. EvictInv => LenBounded
  BY DEF EvictInv, Underway, LenBounded, Quiet, Threads, SetsAndGets
<1> QED BY <1>1, EvictionInvariant, PTL

(* Every walk along next ends, though nodes that were evicted are on it.   *)
THEOREM EvictionKeepsWalks == ASSUME SetsAndGets PROVE Spec => []WalkEnds
<1>1. EvictInv => WalkEnds
  BY DEF EvictInv, Loose, Onward, WalkEnds
<1> QED BY <1>1, EvictionInvariant, PTL
=============================================================================
