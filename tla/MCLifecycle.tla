----------------------------- MODULE MCLifecycle ----------------------------
(***************************************************************************)
(* The lifecycle of a node, and the local cache that runs in it, for TLC.  *)
(* The parts share no variable, so each behaviour moves one of them: a     *)
(* node whose calls and workers come and go; the cache under the eviction  *)
(* worker that the lifecycle runs; or a bucket filled beyond its capacity  *)
(* by a client that neither deletes nor sets a ttl.                        *)
(***************************************************************************)
EXTENDS Lifecycle, LruBucket

CONSTANTS
    Values,
    FewKeys, FewCells, Ops,   \* of the cache under the worker
    SetGet                    \* the operations on the full bucket

VARIABLES created, collected

Full == INSTANCE LocalCache WITH Ops <- SetGet, expired <- collected

full == <<created, list, node, keyVal, th, collected, crashed>>

VARIABLES created2, list2, node2, keyVal2, th2, collected2, crashed2

Cache == INSTANCE LocalCache WITH
    Keys <- FewKeys, Cells <- FewCells, created <- created2, list <- list2, node <- node2,
    keyVal <- keyVal2, th <- th2, expired <- collected2, crashed <- crashed2

cache == <<created2, list2, node2, keyVal2, th2, collected2, crashed2>>

VARIABLE moves    \* the part that moves

MCInit == moves \in {"node", "cache", "full"} /\ Init /\ Cache!Init /\ Full!Init

MCNext ==
    /\ UNCHANGED moves
    /\ \/ moves = "node" /\ Next /\ UNCHANGED <<cache, full>>
       \/ moves = "cache" /\ Cache!Next /\ UNCHANGED <<vars, full>>
       \/ moves = "full" /\ Full!Next /\ UNCHANGED <<vars, cache>>

MCSpec ==
    /\ MCInit /\ [][MCNext]_<<vars, cache, full, moves>>
    /\ \/ moves = "node" /\ Fairness
       \/ moves = "cache" /\ Cache!Fairness
       \/ moves = "full"

(* Once the clients stop calling, the TTL worker's sweeps take every       *)
(* expired node out of the list for good, whatever Get, Set, Delete and    *)
(* SetTtl did to it between the collection and the deletion.               *)
ExpiredGone == Cache!ExpiredLeave
=============================================================================
