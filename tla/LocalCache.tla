----------------------------- MODULE LocalCache -----------------------------
(***************************************************************************)
(* The store one process keeps for a bucket: the key map (keyVal), the LRU *)
(* list and its nodes, used at the same time by the goroutines that serve  *)
(* local calls and remote requests (getLocal, setLocal, deleteLocal,       *)
(* setTtlLocal of src/internal/mycel/local.go) and by the TTL eviction     *)
(* worker (src/internal/mycel/task.go).  Every action is one critical      *)
(* section: between two of them any other goroutine may run.               *)
(***************************************************************************)
EXTENDS LruBucket

CONSTANTS
    Values,
    Ops            \* the operations the clients of this instance call

(* "set" is Set with ttl 0, "setFor" with a positive ttl; "setTtl" and     *)
(* "setTtlZero" likewise.                                                  *)
AllOps == {"get", "set", "setFor", "delete", "setTtl", "setTtlZero"}

ASSUME LocalCacheAssumption ==
    /\ Keys # {}
    /\ Nil \notin Values
    /\ Worker \notin Clients
    /\ MaxLen \in Int
    /\ Ops \subseteq AllOps

VARIABLES
    created,   \* does the bucket exist in lruBuckets
    expired    \* what the worker collected: nodes, each with the key it read

vars == <<created, list, node, keyVal, th, expired, crashed>>

(* expiresAt is the zero time, a time to come or a time that has passed.   *)
Expiry == {"never", "future", "past"}

Node == [key : Keys, data : Values \cup {Nil}, expiresAt : Expiry]

(* A goroutine: the step it takes next, the key it works on, the node it   *)
(* looked up or created, and what setLocal is to store.                    *)
Thread == [pc : {"idle", "getPush", "getRead", "setWrite", "setPush", "newMap", "newPush",
                 "newCheck", "evict", "delMap", "ttlWrite", "sweep"},
           key : Keys \cup {Nil}, cell : Ptr, data : Values \cup {Nil}, expiresAt : Expiry]

HoldsCell(s) == s \in {"getPush", "getRead", "setWrite", "setPush", "newMap", "newPush", "ttlWrite"}
HoldsKey(s)  == s \in {"newMap", "delMap", "ttlWrite"}

ThreadsOK ==
    /\ th \in [Threads -> Thread]
    /\ \A t \in Threads : /\ HoldsCell(th[t].pc) => th[t].cell \in Cells
                          /\ HoldsKey(th[t].pc) => th[t].key \in Keys

TypeOK ==
    /\ created \in BOOLEAN /\ crashed \in BOOLEAN
    /\ list \in List
    /\ node \in [Cells -> Node]
    /\ keyVal \in [Keys -> Ptr]
    /\ ThreadsOK
    /\ expired \in SUBSET (Cells \X Keys)

-----------------------------------------------------------------------------
Rest(s) == [pc |-> s, key |-> Nil, cell |-> Nil, data |-> Nil, expiresAt |-> "never"]

Init ==
    /\ created = FALSE
    /\ list = EmptyList
    /\ node = [c \in Cells |-> [key |-> CHOOSE k \in Keys : TRUE, data |-> Nil,
                                expiresAt |-> "never"]]
    /\ keyVal = [k \in Keys |-> Nil]
    /\ th = [t \in Threads |-> Rest("idle")]
    /\ expired = {}
    /\ crashed = FALSE

Goto(t, s)   == th' = [th EXCEPT ![t].pc = s]
Hold(t, s, k, c) == th' = [th EXCEPT ![t] = [pc |-> s, key |-> k, cell |-> c,
                                             data |-> Nil, expiresAt |-> "never"]]

(* An operation returns, with a value or with an error; a deletion made    *)
(* for the worker returns to its loop.                                     *)
Return(t) == th' = [th EXCEPT ![t] = Rest(IF t = Worker THEN "sweep" ELSE "idle")]

(* A node object can be allocated when nothing refers to it (the garbage   *)
(* collector has freed it, or it was never used).                          *)
Free == {c \in Cells :
           /\ c \notin {list.head, list.tail}
           /\ \A d \in Cells : list.next[d] # c /\ list.prev[d] # c
           /\ \A k \in Keys : keyVal[k] # c
           /\ \A t \in Threads : th[t].cell # c}

(* A node object starts without neighbours.                                *)
Allocated(l, c) == [l EXCEPT !.next[c] = Nil, !.prev[c] = Nil]

-----------------------------------------------------------------------------
(* CreateBucket waits for the write lock of lruBuckets, which the worker   *)
(* holds for reading during its whole task.                                *)
CreateBucket ==
    /\ ~created
    /\ th[Worker].pc = "idle"
    /\ created' = TRUE
    /\ UNCHANGED <<list, node, keyVal, th, expired, crashed>>

-----------------------------------------------------------------------------
(* Mutant of GetLookup: the missing key is not noticed.                    *)
GetLookupUnchecked(t, k) ==
    /\ th[t].pc = "idle" /\ "get" \in Ops
    /\ Hold(t, "getPush", k, keyVal[k])
    /\ UNCHANGED <<created, list, node, keyVal, expired, crashed>>

(* getLocal *)
GetLookup(t, k) ==
    /\ th[t].pc = "idle" /\ "get" \in Ops
    /\ \/ keyVal[k] = Nil /\ Return(t)
       \/ keyVal[k] # Nil /\ Hold(t, "getPush", k, keyVal[k])
    /\ UNCHANGED <<created, list, node, keyVal, expired, crashed>>

GetPush(t) ==
    /\ th[t].pc = "getPush"
    /\ list' = Push(list, th[t].cell)
    /\ Goto(t, "getRead")
    /\ UNCHANGED <<created, node, keyVal, expired, crashed>>

GetRead(t) ==
    /\ th[t].pc = "getRead"
    /\ Return(t)
    /\ UNCHANGED <<created, list, node, keyVal, expired, crashed>>

-----------------------------------------------------------------------------
(* setLocal: the existing node is overwritten and pushed, or a new one is  *)
(* entered in the map and pushed, after which the bucket may be too long.  *)
SetLookup(t, k, v, e) ==
    /\ th[t].pc = "idle"
    /\ \/ /\ ~created
          /\ Return(t) /\ UNCHANGED <<list, node>>
       \/ /\ created /\ keyVal[k] # Nil
          /\ th' = [th EXCEPT ![t] = [pc |-> "setWrite", key |-> k, cell |-> keyVal[k],
                                      data |-> v, expiresAt |-> e]]
          /\ UNCHANGED <<list, node>>
       \/ /\ created /\ keyVal[k] = Nil
          /\ \E c \in Free :
                /\ c = CHOOSE d \in Free : TRUE
                /\ list' = Allocated(list, c)
                /\ node' = [node EXCEPT ![c] = [key |-> k, data |-> v, expiresAt |-> e]]
                /\ Hold(t, "newMap", k, c)
    /\ UNCHANGED <<created, keyVal, expired, crashed>>

SetWrite(t) ==
    /\ th[t].pc = "setWrite"
    /\ node' = [node EXCEPT ![th[t].cell] = [key |-> node[th[t].cell].key, data |-> th[t].data,
                                             expiresAt |-> th[t].expiresAt]]
    /\ Hold(t, "setPush", th[t].key, th[t].cell)
    /\ UNCHANGED <<created, list, keyVal, expired, crashed>>

SetPush(t) ==
    /\ th[t].pc = "setPush"
    /\ list' = Push(list, th[t].cell)
    /\ Return(t)
    /\ UNCHANGED <<created, node, keyVal, expired, crashed>>

NewMap(t) ==
    /\ th[t].pc = "newMap"
    /\ keyVal' = [keyVal EXCEPT ![th[t].key] = th[t].cell]
    /\ Goto(t, "newPush")
    /\ UNCHANGED <<created, list, node, expired, crashed>>

NewPush(t) ==
    /\ th[t].pc = "newPush"
    /\ list' = Push(list, th[t].cell)
    /\ th' = [th EXCEPT ![t] = Rest("newCheck")]
    /\ UNCHANGED <<created, node, keyVal, expired, crashed>>

(* Mutant of NewCheck: off by one.                                         *)
NewCheckLate(t) ==
    /\ th[t].pc = "newCheck"
    /\ IF list.len > MaxLen + 1 THEN Goto(t, "evict") ELSE Return(t)
    /\ UNCHANGED <<created, list, node, keyVal, expired, crashed>>

(* len is read without the lock, and the bucket is locked afterwards.      *)
NewCheck(t) ==
    /\ th[t].pc = "newCheck"
    /\ \/ list.len > MaxLen /\ Goto(t, "evict")
       \/ list.len <= MaxLen /\ Return(t)
    /\ UNCHANGED <<created, list, node, keyVal, expired, crashed>>

(* Mutant of Evict: the evicted node stays in the map.                     *)
EvictKeepsMap(t) ==
    /\ th[t].pc = "evict" /\ list.tail # Nil
    /\ list' = CutTail(list)
    /\ node' = [node EXCEPT ![list.tail].data = Nil]
    /\ Return(t)
    /\ UNCHANGED <<created, keyVal, expired, crashed>>

(* The tail leaves the list and the map; with no tail the code             *)
(* dereferences nil.                                                       *)
Evict(t) ==
    /\ th[t].pc = "evict"
    /\ \/ /\ list.tail = Nil
          /\ crashed' = TRUE
          /\ UNCHANGED <<list, node, keyVal, th>>
       \/ /\ list.tail # Nil
          /\ list' = CutTail(list)
          /\ node' = [node EXCEPT ![list.tail].data = Nil]
          /\ keyVal' = [keyVal EXCEPT ![node[list.tail].key] = Nil]
          /\ Return(t)
          /\ UNCHANGED crashed
    /\ UNCHANGED <<created, expired>>

-----------------------------------------------------------------------------
(* deleteLocal: lruBucket.Delete, then the map entry if a node was found.  *)
DeleteList(t, k) ==
    LET n == FirstOf(list, {c \in Cells : node[c].key = k})
    IN  /\ \/ ~created /\ Return(t) /\ UNCHANGED <<list, node>>
           \/ created /\ n = Nil /\ Return(t) /\ UNCHANGED <<list, node>>
           \/ /\ created /\ n # Nil
              /\ list' = Unlink(list, n)
              /\ node' = [node EXCEPT ![n].data = Nil]
              /\ Hold(t, "delMap", k, Nil)
        /\ UNCHANGED <<created, keyVal, crashed>>

ClientDelete(t, k) ==
    /\ th[t].pc = "idle" /\ "delete" \in Ops
    /\ DeleteList(t, k)
    /\ UNCHANGED expired

(* Mutant of DelMap: the map entry is forgotten.                           *)
DelMapSkipped(t) ==
    /\ th[t].pc = "delMap"
    /\ Return(t)
    /\ UNCHANGED <<created, list, node, keyVal, expired, crashed>>

DelMap(t) ==
    /\ th[t].pc = "delMap"
    /\ keyVal' = [keyVal EXCEPT ![th[t].key] = Nil]
    /\ Return(t)
    /\ UNCHANGED <<created, list, node, expired, crashed>>

-----------------------------------------------------------------------------
(* setTtlLocal: the node that was looked up gets the new expiry and is     *)
(* entered in the map again; the list is not touched.                      *)
TtlLookup(t, k, e) ==
    /\ th[t].pc = "idle"
    /\ \/ keyVal[k] = Nil /\ Return(t)
       \/ /\ keyVal[k] # Nil
          /\ th' = [th EXCEPT ![t] = [pc |-> "ttlWrite", key |-> k, cell |-> keyVal[k],
                                      data |-> Nil, expiresAt |-> e]]
    /\ UNCHANGED <<created, list, node, keyVal, expired, crashed>>

TtlWrite(t) ==
    /\ th[t].pc = "ttlWrite"
    /\ node' = [node EXCEPT ![th[t].cell].expiresAt = th[t].expiresAt]
    /\ keyVal' = [keyVal EXCEPT ![th[t].key] = th[t].cell]
    /\ Return(t)
    /\ UNCHANGED <<created, list, expired, crashed>>

-----------------------------------------------------------------------------
(* Mutant of Sweep: the comparison of the times is turned round.           *)
SweepUnexpired ==
    /\ th[Worker].pc = "idle" /\ created
    /\ expired' = {<<c, node[c].key>> : c \in {d \in Walk(list) : node[d].expiresAt = "future"}}
    /\ Goto(Worker, "sweep")
    /\ UNCHANGED <<created, list, node, keyVal, crashed>>

(* The TTL worker: collect the expired nodes of the list under the read    *)
(* lock, then delete their keys one by one.                                *)
Sweep ==
    /\ th[Worker].pc = "idle" /\ created
    /\ expired' = {<<c, node[c].key>> : c \in {d \in Walk(list) : node[d].expiresAt = "past"}}
    /\ Goto(Worker, "sweep")
    /\ UNCHANGED <<created, list, node, keyVal, crashed>>

SweepDelete ==
    /\ th[Worker].pc = "sweep"
    /\ \E x \in expired : expired' = expired \ {x} /\ DeleteList(Worker, x[2])

SweepDone ==
    /\ th[Worker].pc = "sweep" /\ expired = {}
    /\ Goto(Worker, "idle")
    /\ UNCHANGED <<created, list, node, keyVal, expired, crashed>>

(* Time passes the deadline of a node that is in use.                      *)
Expire(c) ==
    /\ c \notin Free
    /\ node[c].expiresAt = "future"
    /\ node' = [node EXCEPT ![c].expiresAt = "past"]
    /\ UNCHANGED <<created, list, keyVal, th, expired, crashed>>

-----------------------------------------------------------------------------
ClientCall(t) ==
    \E k \in Keys :
        \/ GetLookup(t, k)
        \/ \E v \in Values : \/ "set" \in Ops /\ SetLookup(t, k, v, "never")
                             \/ "setFor" \in Ops /\ SetLookup(t, k, v, "future")
        \/ ClientDelete(t, k)
        \/ "setTtl" \in Ops /\ TtlLookup(t, k, "future")
        \/ "setTtlZero" \in Ops /\ TtlLookup(t, k, "past")

ThreadStep(t) ==
    \/ GetPush(t) \/ GetRead(t)
    \/ SetWrite(t) \/ SetPush(t) \/ NewMap(t) \/ NewPush(t) \/ NewCheck(t) \/ Evict(t)
    \/ DelMap(t) \/ TtlWrite(t)

WorkerStep == Sweep \/ SweepDelete \/ SweepDone

Next ==
    /\ ~crashed
    /\ \/ CreateBucket
       \/ \E t \in Clients : ClientCall(t)
       \/ \E t \in Threads : ThreadStep(t)
       \/ WorkerStep
       \/ \E c \in Cells : Expire(c)

Spec == Init /\ [][Next]_vars

(* Goroutines keep running, and the worker runs its task again and again   *)
(* (it is started with an interval); nothing obliges a client to call.     *)
Fairness == /\ \A t \in Threads : WF_vars(~crashed /\ ThreadStep(t))
            /\ WF_vars(~crashed /\ WorkerStep)

FairSpec == Spec /\ Fairness

-----------------------------------------------------------------------------
ClientsIdle == \A t \in Clients : th[t].pc = "idle"

(* Whatever the goroutines do, and as long as nothing is evicted, Push and *)
(* Delete leave a well-formed list in which a walk from the head visits    *)
(* exactly the linked nodes.                                               *)
ListOK == WellFormed(list) /\ Walk(list) = Linked(list)

(* A bucket holds at most maxLen keys once the operations are done.        *)
Bounded == Quiet => Cardinality(Mapped) <= MaxLen

ExpiredLinked == {c \in Linked(list) : node[c].expiresAt = "past"}

(* Once the clients stop calling, every node that expires leaves the list. *)
ExpiredLeave == <>[]ClientsIdle => <>[](ExpiredLinked = {})
=============================================================================
