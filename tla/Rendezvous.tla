----------------------------- MODULE Rendezvous -----------------------------
(***************************************************************************)
(* Placement of keys on nodes by rendezvous hashing (getReplicas,          *)
(* getReplicaNodes and the quorum of src/internal/mycel).  A view is the   *)
(* set of nodes a node knows: its connections and itself.                  *)
(***************************************************************************)
EXTENDS Integers, FiniteSets

CONSTANTS
    Nodes, Keys,
    Score,      \* Score[k][n]: the hash of key k and node n
    Replicas    \* c.replicas

(* Two nodes never have the same 64-bit score for a key: with a tie the    *)
(* order of sort.Slice would be unspecified.                               *)
ASSUME RendezvousAssumption ==
    /\ Score \in [Keys -> [Nodes -> Int]]
    /\ \A k \in Keys, m, n \in Nodes : Score[k][m] = Score[k][n] => m = n
    /\ Replicas \in Nat \ {0}

(* The nodes of a view that getReplicas sorts before n.                    *)
Above(view, k, n) == {m \in view : Score[k][m] > Score[k][n]}

(* getReplicaNodes: the first Replicas nodes of the sorted view.           *)
ReplicaNodes(view, k) == {n \in view : Cardinality(Above(view, k, n)) < Replicas}

(* replicas[0] of the sorted view.                                         *)
Primary(view, k) == CHOOSE n \in view : Above(view, k, n) = {}

(* (len(replicaSet) / 2) + 1                                               *)
Quorum(replicas) == Cardinality(replicas) \div 2 + 1
=============================================================================
