----------------------------- MODULE LruBucket ------------------------------
(***************************************************************************)
(* One bucket as its goroutines share it: the list of LruList with what    *)
(* its nodes hold, the key map, and where each goroutine is. LocalCache    *)
(* has the steps; here is what must hold of the state between them.        *)
(***************************************************************************)
EXTENDS LruList

CONSTANTS
    Keys,
    Clients,       \* goroutines that run cache operations
    Worker,        \* the TTL eviction worker
    MaxLen         \* lruBucket.maxLen

VARIABLES
    list,      \* the bucket's list
    node,      \* key, data and expiry of every node object
    keyVal,    \* the key map
    th,        \* each goroutine: its next step and its local variables
    crashed    \* a nil dereference has stopped the process

Threads == Clients \cup {Worker}

Quiet == \A t \in Threads : th[t].pc = "idle"
Mapped == {k \in Keys : keyVal[k] # Nil}

(* With no operation running, the node the map gives for a key is the node *)
(* of that key and still has its data: neither a delete, an expiry nor an  *)
(* eviction may leave a mapped node emptied.                               *)
MappedHasData ==
    Quiet => \A k \in Mapped : node[keyVal[k]].key = k /\ node[keyVal[k]].data # Nil

(* No walk along next is endless, so the loops in Delete, in the TTL worker *)
(* and in the rebalancer end and release the bucket's lock.                *)
WalkEnds == \A S \in SUBSET Cells : S # {} => \E c \in S : list.next[c] \notin S

(* The bucket's counter never stays above its capacity.                    *)
LenBounded == Quiet => list.len <= MaxLen

(* The process does not dereference a nil tail.                            *)
NoCrash == ~crashed
=============================================================================
