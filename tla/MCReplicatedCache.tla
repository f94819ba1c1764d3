------------------------- MODULE MCReplicatedCache -------------------------
(***************************************************************************)
(* ReplicatedCache for TLC: nodes are numbers and the scores are tables.   *)
(***************************************************************************)
EXTENDS ReplicatedCache

(* For every key the higher-numbered nodes score higher, so that a joining *)
(* node with a high number displaces a replica.                            *)
HighWins == [k \in Keys |-> [n \in Nodes |-> n]]

(* The node with the lower number dials, or the one with the higher.       *)
LowDials  == {d \in Nodes \X Nodes : d[1] < d[2]}
HighDials == {d \in Nodes \X Nodes : d[1] > d[2]}
=============================================================================
