-------------------------------- MODULE Geo --------------------------------
(***************************************************************************)
(* The geo cache: every node keeps the locations of a geo bucket, an index *)
(* of them per precision and an entry per user in its LRU bucket           *)
(* (src/internal/mycel/geo.go, geo_local.go); SetLocation and              *)
(* DeleteLocation act locally and are then broadcast (geo_remote.go).      *)
(*                                                                         *)
(* One geo bucket, created without a default TTL before the first call.    *)
(* The LRU bucket is a map here (LocalCache models its inside), and the    *)
(* eviction may take any entry.  The TTL worker and the rebalancer treat   *)
(* the bucket as any other: their deletions and copies go to the replicas  *)
(* of the user's key, and touch the LRU bucket only.                       *)
(***************************************************************************)
EXTENDS Integers, FiniteSets

CONSTANTS
    Nodes, Users, Positions, Nil,
    Precisions,    \* the indexed precisions
    MaxPrecision,  \* the highest of them
    Cells,
    Cell,          \* [Precisions -> [Positions -> Cells]]: the geohash
    Ops,           \* 1..n: the calls made in a behaviour (a bound)
    Callers,       \* the nodes whose clients make calls (a bound)
    HasBucket,     \* the nodes on which CreateGeoBucket was called
    Holders,       \* [Users -> SUBSET Nodes]: the replicas of a user's key
    MaxLen,        \* lruBucket.maxLen
    Lossy,         \* whether messages get lost
    Expiring,      \* the calls whose deadline passes (a bound)
    Rebalancers    \* the nodes whose rebalancers run (a bound)

(* A geohash of lower precision is a prefix of the one of higher precision. *)
ASSUME GeoAssumption ==
    /\ Nil \notin Positions /\ Nil \notin Ops
    /\ Nil \notin [pos : Positions, exp : Ops \cup {Nil}]
    /\ MaxPrecision \in Precisions
    /\ Cell \in [Precisions -> [Positions -> Cells]]
    /\ \A x, y \in Positions, p \in Precisions :
         Cell[MaxPrecision][x] = Cell[MaxPrecision][y] => Cell[p][x] = Cell[p][y]
    /\ Callers \subseteq Nodes /\ HasBucket \subseteq Nodes
    /\ Holders \in [Users -> SUBSET Nodes]
    /\ Ops \subseteq Nat
    /\ MaxLen \in Nat \ {0}
    /\ Lossy \in BOOLEAN
    /\ Expiring \subseteq Ops /\ Rebalancers \subseteq Nodes

VARIABLES
    op,      \* the calls, with what is broadcast for them
    job,     \* the step at which a call is on a node
    store,   \* the nodes that have a geoStore for the bucket
    points,  \* per node: geoStore.points
    index,   \* per node: geoStore.index
    lru,     \* per node: the LRU bucket
    dead,    \* the calls whose deadline has passed
    clean    \* nothing has got lost or overlapped so far (history)

vars == <<op, job, store, points, index, lru, dead, clean>>

(* The deadline of an entry is that of the call that set it; a location    *)
(* without a TTL is one whose deadline does not pass.                      *)
Entry == [pos : Positions, exp : Ops \cup {Nil}]

Op == [kind : {"none", "set", "delete"}, at : Nodes \cup {Nil}, user : Users \cup {Nil},
       pos : Positions \cup {Nil}, exp : Ops \cup {Nil}]

TypeOK ==
    /\ op \in [Ops -> Op]
    /\ job \in [Ops -> [Nodes -> {"none", "sent", "geo", "lru", "undo", "send", "done"}]]
    /\ \A i \in Ops, n \in Nodes : /\ job[i][n] # "none" => op[i].kind # "none"
                                   /\ job[i][n] = "sent" => op[i].at # n
    /\ store \subseteq Nodes
    /\ points \in [Nodes -> [Users -> Entry \cup {Nil}]]
    /\ index \in [Nodes -> [Precisions -> [Cells -> SUBSET Users]]]
    /\ lru \in [Nodes -> [Users -> Entry \cup {Nil}]]
    /\ dead \subseteq Ops
    /\ clean \in BOOLEAN

Init ==
    /\ op = [i \in Ops |-> [kind |-> "none", at |-> Nil, user |-> Nil, pos |-> Nil, exp |-> Nil]]
    /\ job = [i \in Ops |-> [n \in Nodes |-> "none"]]
    /\ store = HasBucket
    /\ points = [n \in Nodes |-> [u \in Users |-> Nil]]
    /\ index = [n \in Nodes |-> [p \in Precisions |-> [c \in Cells |-> {}]]]
    /\ lru = [n \in Nodes |-> [u \in Users |-> Nil]]
    /\ dead = {}
    /\ clean = TRUE

Active(i, n) == job[i][n] \in {"geo", "lru", "undo", "send"}
Quiet == \A i \in Ops, n \in Nodes : job[i][n] \in {"none", "done"}

Goto(i, n, pc) == job' = [job EXCEPT ![i][n] = pc]
NextStep(i, n) == IF op[i].at = n THEN "send" ELSE "done"

(* The index with user u taken out of the cells of a position, or put in.  *)
Without(ix, u, pos) ==
    [p \in Precisions |-> [ix[p] EXCEPT ![Cell[p][pos]] = @ \ {u}]]
With(ix, u, pos) ==
    [p \in Precisions |-> [ix[p] EXCEPT ![Cell[p][pos]] = @ \cup {u}]]

-----------------------------------------------------------------------------
(* SetLocation and DeleteLocation start; without a store a SetLocation     *)
(* fails at once and a DeleteLocation is only broadcast.                   *)
CallSet(i, n, u, pos) ==
    /\ op[i].kind = "none" /\ n \in Callers
    /\ op' = [op EXCEPT ![i] = [kind |-> "set", at |-> n, user |-> u, pos |-> pos, exp |-> i]]
    /\ Goto(i, n, IF n \in store THEN "geo" ELSE "done")
    /\ clean' = (clean /\ Quiet)
    /\ UNCHANGED <<store, points, index, lru, dead>>

CallDelete(i, n, u) ==
    /\ op[i].kind = "none" /\ n \in Callers
    /\ op' = [op EXCEPT ![i] = [kind |-> "delete", at |-> n, user |-> u, pos |-> Nil, exp |-> Nil]]
    /\ Goto(i, n, IF n \in store THEN "geo" ELSE "send")
    /\ clean' = (clean /\ Quiet)
    /\ UNCHANGED <<store, points, index, lru, dead>>

(* handleGeoReceive: the receive worker takes one message after another.   *)
(* A location that has expired on the way is dropped.                      *)
Receive(i, n) ==
    /\ job[i][n] = "sent"
    /\ \A j \in Ops : op[j].at # n => ~Active(j, n)
    /\ store' = IF op[i].kind = "set" THEN store \cup {n} ELSE store
    /\ \/ /\ op[i].kind = "set" /\ op[i].exp \in dead
          /\ Goto(i, n, "done") /\ clean' = FALSE
       \/ /\ op[i].kind = "delete" /\ n \notin store
          /\ Goto(i, n, "done") /\ UNCHANGED clean
       \/ /\ IF op[i].kind = "set" THEN op[i].exp \notin dead ELSE n \in store
          /\ Goto(i, n, "geo") /\ UNCHANGED clean
    /\ UNCHANGED <<op, points, index, lru, dead>>

(* Mutant of GeoSet: a user leaves the old cells only when they differ at  *)
(* every precision.                                                        *)
GeoSetCoarse(i, n) ==
    LET u == op[i].user
        old == points[n][u]
        moved == old # Nil /\ \A p \in Precisions : Cell[p][old.pos] # Cell[p][op[i].pos]
    IN  /\ job[i][n] = "geo" /\ op[i].kind = "set"
        /\ index' = [index EXCEPT ![n] =
                        With(IF moved THEN Without(@, u, old.pos) ELSE @, u, op[i].pos)]
        /\ points' = [points EXCEPT ![n][u] = [pos |-> op[i].pos, exp |-> op[i].exp]]
        /\ Goto(i, n, "lru")
        /\ UNCHANGED <<op, store, lru, dead, clean>>

(* setLocationLocal under the lock of the store: a user who has left the   *)
(* cell of highest precision leaves the old cells of every precision.      *)
GeoSet(i, n) ==
    LET u == op[i].user
        old == points[n][u]
        moved == old # Nil /\ Cell[MaxPrecision][old.pos] # Cell[MaxPrecision][op[i].pos]
    IN  /\ job[i][n] = "geo" /\ op[i].kind = "set"
        /\ index' = [index EXCEPT ![n] =
                        With(IF moved THEN Without(@, u, old.pos) ELSE @, u, op[i].pos)]
        /\ points' = [points EXCEPT ![n][u] = [pos |-> op[i].pos, exp |-> op[i].exp]]
        /\ Goto(i, n, "lru")
        /\ UNCHANGED <<op, store, lru, dead, clean>>

(* ... and then setLocal, which evicts an entry when there are too many.   *)
LruUsers(n) == {u \in Users : lru[n][u] # Nil}

SetLocal(n, u, entry) ==
    LET set == [lru[n] EXCEPT ![u] = entry]
    IN  \/ /\ Cardinality(LruUsers(n) \cup {u}) <= MaxLen
           /\ lru' = [lru EXCEPT ![n] = set]
           /\ UNCHANGED clean
        \/ /\ Cardinality(LruUsers(n) \cup {u}) > MaxLen
           /\ \E v \in LruUsers(n) \ {u} : lru' = [lru EXCEPT ![n] = [set EXCEPT ![v] = Nil]]
           /\ clean' = FALSE

LruSet(i, n) ==
    /\ job[i][n] = "lru" /\ op[i].kind = "set"
    /\ \/ /\ n \notin HasBucket
          /\ Goto(i, n, "undo") /\ UNCHANGED <<lru, clean>>
       \/ /\ n \in HasBucket
          /\ SetLocal(n, op[i].user, [pos |-> op[i].pos, exp |-> op[i].exp])
          /\ Goto(i, n, NextStep(i, n))
    /\ UNCHANGED <<op, store, points, index, dead>>

(* deleteLocationLocal under the lock of the store: for a DeleteLocation,  *)
(* or to take back what could not be entered in the LRU bucket.            *)
GeoRemove(n, u) ==
    /\ index' = IF points[n][u] = Nil THEN index
                ELSE [index EXCEPT ![n] = Without(@, u, points[n][u].pos)]
    /\ points' = [points EXCEPT ![n][u] = Nil]

(* Mutant of Undo: nothing is taken back.                                  *)
UndoNothing(i, n) ==
    /\ job[i][n] = "undo"
    /\ Goto(i, n, "done")
    /\ UNCHANGED <<op, store, points, index, lru, dead, clean>>

Undo(i, n) ==
    /\ job[i][n] = "undo"
    /\ GeoRemove(n, op[i].user)
    /\ Goto(i, n, "done")
    /\ UNCHANGED <<op, store, lru, dead, clean>>

GeoDelete(i, n) ==
    /\ job[i][n] = "geo" /\ op[i].kind = "delete"
    /\ GeoRemove(n, op[i].user)
    /\ Goto(i, n, "lru")
    /\ UNCHANGED <<op, store, lru, dead, clean>>

(* ... and then deleteLocal.  Its not-found (or a missing bucket) ends a   *)
(* DeleteLocation before the broadcast.                                    *)
LruDelete(i, n) ==
    LET u == op[i].user
    IN  /\ job[i][n] = "lru" /\ op[i].kind = "delete"
        /\ lru' = [lru EXCEPT ![n][u] = Nil]
        /\ Goto(i, n, IF lru[n][u] # Nil THEN NextStep(i, n) ELSE "done")
        /\ UNCHANGED <<op, store, points, index, dead, clean>>

(* Mutants of Broadcast: a node sends to itself too; the deletions are not *)
(* sent.                                                                   *)
BroadcastToAll(i) ==
    /\ op[i].kind # "none" /\ job[i][op[i].at] = "send"
    /\ job' = [job EXCEPT ![i] = [m \in Nodes |-> "sent"]]
    /\ UNCHANGED <<op, store, points, index, lru, dead, clean>>

BroadcastSets(i) ==
    LET n == op[i].at
    IN  /\ op[i].kind # "none" /\ job[i][n] = "send"
        /\ job' = [job EXCEPT ![i] = [m \in Nodes |->
                       IF m # n /\ op[i].kind = "set" THEN "sent" ELSE "done"]]
        /\ UNCHANGED <<op, store, points, index, lru, dead, clean>>

(* The goroutine that sends to every other node.  The deadline that is     *)
(* sent is the one the store has for the user now.                         *)
Broadcast(i) ==
    LET n == op[i].at
        entry == points[n][op[i].user]
    IN  /\ op[i].kind # "none" /\ job[i][n] = "send"
        /\ job' = [job EXCEPT ![i] = [m \in Nodes |-> IF m = n THEN "done" ELSE "sent"]]
        /\ op' = IF op[i].kind = "set"
                 THEN [op EXCEPT ![i].exp = IF entry = Nil THEN Nil ELSE entry.exp] ELSE op
        /\ UNCHANGED <<store, points, index, lru, dead, clean>>

-----------------------------------------------------------------------------
(* A message gets lost: no connection, or the receive queue stays full.    *)
Lose(i, n) ==
    /\ Lossy /\ job[i][n] = "sent"
    /\ Goto(i, n, "done") /\ clean' = FALSE
    /\ UNCHANGED <<op, store, points, index, lru, dead>>

Expire(i) ==
    /\ i \in Expiring \ dead /\ op[i].kind = "set"
    /\ dead' = dead \cup {i}
    /\ UNCHANGED <<op, job, store, points, index, lru, clean>>

(* The TTL worker of n deletes an expired entry: at the replicas of its    *)
(* key, and from the LRU bucket only.                                      *)
TtlDelete(n, u, m) ==
    /\ lru[n][u] # Nil /\ lru[n][u].exp \in dead
    /\ m \in Holders[u] /\ lru[m][u] # Nil
    /\ lru' = [lru EXCEPT ![m][u] = Nil]
    /\ clean' = FALSE
    /\ UNCHANGED <<op, job, store, points, index, dead>>

(* The rebalancer of n drops the entry of a key it is no replica of, and   *)
(* copies the others to the other replicas.                                *)
RebDrop(n, u) ==
    /\ n \in Rebalancers /\ lru[n][u] # Nil /\ n \notin Holders[u]
    /\ lru' = [lru EXCEPT ![n][u] = Nil]
    /\ clean' = FALSE
    /\ UNCHANGED <<op, job, store, points, index, dead>>

RebCopy(n, u, m) ==
    /\ n \in Rebalancers /\ lru[n][u] # Nil /\ lru[n][u].exp \notin dead
    /\ n # m /\ {n, m} \subseteq Holders[u] /\ m \in HasBucket
    /\ SetLocal(m, u, lru[n][u])
    /\ UNCHANGED <<op, job, store, points, index, dead>>

-----------------------------------------------------------------------------
Client ==
    \E i \in Ops, n \in Nodes, u \in Users :
        /\ \A j \in Ops : j < i => op[j].kind # "none"
        /\ \/ \E pos \in Positions : CallSet(i, n, u, pos)
           \/ CallDelete(i, n, u)

JobStep(i, n) ==
    \/ Receive(i, n) \/ GeoSet(i, n) \/ LruSet(i, n) \/ Undo(i, n)
    \/ GeoDelete(i, n) \/ LruDelete(i, n) \/ Lose(i, n)

Background ==
    \/ \E i \in Ops : Expire(i)
    \/ \E n, m \in Nodes, u \in Users : TtlDelete(n, u, m) \/ RebCopy(n, u, m)
    \/ \E n \in Nodes, u \in Users : RebDrop(n, u)

Next ==
    \/ Client \/ Background
    \/ \E i \in Ops : Broadcast(i) \/ \E n \in Nodes : JobStep(i, n)

Spec == Init /\ [][Next]_vars

-----------------------------------------------------------------------------
(* Every user with a location is in exactly the cells of that location, at *)
(* every precision, and nobody else is in a cell.                          *)
IndexMatches ==
    \A n \in Nodes, p \in Precisions, c \in Cells :
        index[n][p][c] = {u \in Users : points[n][u] # Nil /\ Cell[p][points[n][u].pos] = c}

Live(n, u) == points[n][u] # Nil /\ points[n][u].exp \notin dead

(* Mutant of BoundingBox: the expiry is not looked at.                     *)
BoundingBoxStale(n, box, p) ==
    {u \in Users : /\ points[n][u] # Nil /\ points[n][u].pos \in box
                   /\ \E x \in box : u \in index[n][p][Cell[p][x]]}

(* BoundingBox for a box given by its positions: the covering cells, the   *)
(* expiry and the exact coordinates.                                       *)
BoundingBox(n, box, p) ==
    {u \in Users : /\ Live(n, u) /\ points[n][u].pos \in box
                   /\ \E x \in box : u \in index[n][p][Cell[p][x]]}

(* A query finds every user in its box whose location has not expired,     *)
(* whichever precision it is asked at.                                     *)
QueryExact ==
    \A n \in Nodes, box \in SUBSET Positions, p \in Precisions :
        BoundingBox(n, box, p) = {u \in Users : Live(n, u) /\ points[n][u].pos \in box}

(* A node whose LRU bucket is missing keeps no location once it is done.   *)
NothingLeft ==
    \A n \in Nodes \ HasBucket : (\A i \in Ops : ~Active(i, n))
        => \A u \in Users : points[n][u] = Nil

(* When all is done, and calls did not overlap and nothing was lost,       *)
(* expired, evicted or dropped on the way, all nodes with the bucket have  *)
(* the same locations.                                                     *)
Agree ==
    Quiet /\ clean => \A n, m \in HasBucket : points[n] = points[m]
=============================================================================
