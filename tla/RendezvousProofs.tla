-------------------------- MODULE RendezvousProofs --------------------------
(***************************************************************************)
(* What a change of the view does to the replicas of a key, for any number *)
(* of nodes and replicas and any scores.                                   *)
(***************************************************************************)
EXTENDS Rendezvous, FiniteSetTheorems, WellFoundedInduction, TLAPS

(* The nodes above n in a smaller view are not more.                       *)
LEMMA AboveGrows ==
    ASSUME NEW U, NEW V, IsFiniteSet(V), U \subseteq V, NEW k, NEW n
    PROVE  /\ IsFiniteSet(Above(U, k, n)) /\ IsFiniteSet(Above(V, k, n))
           /\ Cardinality(Above(U, k, n)) \in Nat /\ Cardinality(Above(V, k, n)) \in Nat
           /\ Cardinality(Above(U, k, n)) <= Cardinality(Above(V, k, n))
<1>1. Above(U, k, n) \subseteq Above(V, k, n) /\ Above(V, k, n) \subseteq V
  BY DEF Above
<1>2. IsFiniteSet(Above(V, k, n))
  BY <1>1, FS_Subset
<1> QED BY <1>1, <1>2, FS_Subset, FS_CardinalityType

(* One node of a view has the highest score.                               *)
LEMMA TopExists ==
    ASSUME NEW view \in SUBSET Nodes, IsFiniteSet(view), view # {}, NEW k \in Keys
    PROVE  \E n \in view : Above(view, k, n) = {}
<1> DEFINE T == {Above(view, k, n) : n \in view}
<1>1. T \subseteq FiniteSubsetsOf(view) /\ T # {}
  <2>1. \A n \in view : Above(view, k, n) \subseteq view
    BY DEF Above
  <2>2. \A n \in view : IsFiniteSet(Above(view, k, n))
    BY <2>1, FS_Subset
  <2> QED  BY <2>1, <2>2 DEF FiniteSubsetsOf
<1>2. PICK A \in T : \A B \in T : <<B, A>> \notin StrictSubsetOrdering(view)
  <2>1. IsWellFoundedOn(StrictSubsetOrdering(view), FiniteSubsetsOf(view))
    BY FS_StrictSubsetOrderingWellFounded
  <2> HIDE DEF T
  <2> QED  BY <1>1, <2>1, WFMin
<1>3. PICK n \in view : A = Above(view, k, n)
  BY <1>2
<1>4. ASSUME NEW m \in Above(view, k, n) PROVE FALSE
  <2>1. /\ m \in view /\ Score[k][m] > Score[k][n]
        /\ \A d \in view : Score[k][d] \in Int
    BY <1>4, RendezvousAssumption DEF Above
  <2>2. Above(view, k, m) \subseteq Above(view, k, n) /\ m \notin Above(view, k, m)
    BY <2>1 DEF Above
  <2>3. <<Above(view, k, m), A>> \in StrictSubsetOrdering(view)
    BY <1>1, <1>3, <1>4, <2>1, <2>2 DEF StrictSubsetOrdering, FiniteSubsetsOf
  <2> QED  BY <1>2, <2>1, <2>3
<1> QED  BY <1>3, <1>4

(* getPrimary names a node of the view, and one of the key's replicas: a   *)
(* Get is never sent to a node that setReplicated would not choose.        *)
THEOREM PrimaryIsReplica ==
    ASSUME NEW view \in SUBSET Nodes, IsFiniteSet(view), view # {}, NEW k \in Keys
    PROVE  Primary(view, k) \in view /\ Primary(view, k) \in ReplicaNodes(view, k)
<1>1. Primary(view, k) \in view /\ Above(view, k, Primary(view, k)) = {}
  BY TopExists DEF Primary
<1>2. Cardinality(Above(view, k, Primary(view, k))) = 0
  BY <1>1, FS_EmptySet
<1>3. 0 < Replicas
  BY RendezvousAssumption
<1> QED  BY <1>1, <1>2, <1>3 DEF ReplicaNodes

(* A node that stays in the view and was a replica before another node     *)
(* left is one afterwards (getReplicaNodes after NotifyLeave).             *)
THEOREM LeaveKeepsReplicas ==
    ASSUME NEW view \in SUBSET Nodes, IsFiniteSet(view), NEW x \in Nodes, NEW k \in Keys
    PROVE  ReplicaNodes(view, k) \ {x} \subseteq ReplicaNodes(view \ {x}, k)
<1> SUFFICES ASSUME NEW n \in ReplicaNodes(view, k), n # x
             PROVE  n \in ReplicaNodes(view \ {x}, k)
  OBVIOUS
<1>1. n \in view \ {x} /\ Cardinality(Above(view, k, n)) < Replicas
  BY DEF ReplicaNodes
<1>2. Cardinality(Above(view \ {x}, k, n)) <= Cardinality(Above(view, k, n))
      /\ Cardinality(Above(view \ {x}, k, n)) \in Nat /\ Cardinality(Above(view, k, n)) \in Nat
  BY AboveGrows
<1> QED BY <1>1, <1>2, RendezvousAssumption DEF ReplicaNodes

(* A join makes no node but the new one a replica.                         *)
THEOREM JoinPromotesNoOther ==
    ASSUME NEW view \in SUBSET Nodes, IsFiniteSet(view), NEW x \in Nodes, x \notin view, NEW k \in Keys
    PROVE  ReplicaNodes(view \cup {x}, k) \ {x} \subseteq ReplicaNodes(view, k)
<1>1. IsFiniteSet(view \cup {x}) /\ (view \cup {x}) \ {x} = view
  BY FS_AddElement
<1> QED BY <1>1, LeaveKeepsReplicas

(* Of two nodes the one with the higher score has fewer nodes above it.    *)
LEMMA AboveOrdered ==
    ASSUME NEW view \in SUBSET Nodes, IsFiniteSet(view), NEW k \in Keys,
           NEW m \in view, NEW n \in view, Score[k][m] > Score[k][n]
    PROVE  Cardinality(Above(view, k, m)) < Cardinality(Above(view, k, n))
<1>1. /\ Score[k][m] \in Int /\ Score[k][n] \in Int
      /\ \A d \in view : Score[k][d] \in Int
  BY RendezvousAssumption
<1>2. Above(view, k, m) \subseteq Above(view, k, n) \ {m} /\ m \in Above(view, k, n)
  BY <1>1 DEF Above
<1>3. IsFiniteSet(Above(view, k, n)) /\ Cardinality(Above(view, k, n)) \in Nat
      /\ Cardinality(Above(view, k, m)) \in Nat
  BY AboveGrows
<1>4. IsFiniteSet(Above(view, k, n) \ {m})
      /\ Cardinality(Above(view, k, n) \ {m}) = Cardinality(Above(view, k, n)) - 1
  BY <1>2, <1>3, FS_RemoveElement
<1>5. Cardinality(Above(view, k, m)) <= Cardinality(Above(view, k, n) \ {m})
  BY <1>2, <1>4, FS_Subset
<1> QED BY <1>3, <1>4, <1>5

(* A join makes at most one node cease to be a replica: the rebalancers    *)
(* drop at most one copy of a key for each join.                           *)
THEOREM JoinDisplacesAtMostOne ==
    ASSUME NEW view \in SUBSET Nodes, IsFiniteSet(view), NEW x \in Nodes, x \notin view, NEW k \in Keys,
           NEW m \in ReplicaNodes(view, k) \ ReplicaNodes(view \cup {x}, k),
           NEW n \in ReplicaNodes(view, k) \ ReplicaNodes(view \cup {x}, k)
    PROVE  m = n
<1> DEFINE W == view \cup {x}
<1>1. IsFiniteSet(W)
  BY FS_AddElement
<1>2. ASSUME NEW d \in ReplicaNodes(view, k) \ ReplicaNodes(W, k)
      PROVE  d \in view /\ Cardinality(Above(view, k, d)) = Replicas - 1
  <2>1. /\ d \in view /\ Cardinality(Above(view, k, d)) < Replicas
        /\ ~(Cardinality(Above(W, k, d)) < Replicas)
    BY <1>2 DEF ReplicaNodes
  <2>2. /\ IsFiniteSet(Above(view, k, d))
        /\ Cardinality(Above(view, k, d)) \in Nat /\ Cardinality(Above(W, k, d)) \in Nat
    <3>1. view \subseteq W
      OBVIOUS
    <3> HIDE DEF W
    <3> QED BY <1>1, <3>1, AboveGrows
  <2>3. Above(W, k, d) = Above(view, k, d) \/ Above(W, k, d) = Above(view, k, d) \cup {x}
    BY DEF Above
  <2>4. Cardinality(Above(view, k, d) \cup {x}) <= Cardinality(Above(view, k, d)) + 1
    <3> DEFINE A == Above(view, k, d)
    <3> HIDE DEF A
    <3>1. IsFiniteSet(A) /\ Cardinality(A) \in Nat
      BY <2>2 DEF A
    <3>2. Cardinality(A \cup {x}) = IF x \in A THEN Cardinality(A) ELSE Cardinality(A) + 1
      BY <3>1, FS_AddElement
    <3>3. Cardinality(A \cup {x}) <= Cardinality(A) + 1
      BY <3>1, <3>2
    <3> QED BY <3>3 DEF A
  <2> HIDE DEF W
  <2>5. Cardinality(Above(W, k, d)) <= Cardinality(Above(view, k, d)) + 1
    <3>1. CASE Above(W, k, d) = Above(view, k, d)
      BY <2>2, <3>1
    <3>2. CASE Above(W, k, d) = Above(view, k, d) \cup {x}
      BY <2>4, <3>2
    <3> QED BY <2>3, <3>1, <3>2
  <2>6. Replicas \in Nat
    BY RendezvousAssumption, Zenon
  <2> QED BY <2>1, <2>2, <2>5, <2>6
<1>3. m \in view /\ n \in view /\ Cardinality(Above(view, k, m)) = Cardinality(Above(view, k, n))
  BY <1>2
<1>4. Cardinality(Above(view, k, m)) \in Nat
  BY AboveGrows
<1>5. ~(Score[k][m] > Score[k][n]) /\ ~(Score[k][n] > Score[k][m])
  BY <1>3, <1>4, AboveOrdered
<1>6. Score[k][m] \in Int /\ Score[k][n] \in Int
  BY <1>3, RendezvousAssumption
<1> QED BY <1>3, <1>5, <1>6, RendezvousAssumption

(* When two replicas hold a key, one of them is still a replica after a    *)
(* join and keeps the key: with a quorum of at least two copies no single  *)
(* join can make the rebalancers drop them all.                            *)
THEOREM JoinLeavesAHolder ==
    ASSUME NEW view \in SUBSET Nodes, IsFiniteSet(view), NEW x \in Nodes, x \notin view, NEW k \in Keys,
           NEW m \in ReplicaNodes(view, k), NEW n \in ReplicaNodes(view, k), m # n
    PROVE  m \in ReplicaNodes(view \cup {x}, k) \/ n \in ReplicaNodes(view \cup {x}, k)
  BY JoinDisplacesAtMostOne

(* Two quorums of one replica set have a replica in common (the quorum of  *)
(* setReplicated and deleteReplicated).                                    *)
THEOREM QuorumsMeet ==
    ASSUME NEW S, IsFiniteSet(S), NEW A \in SUBSET S, NEW B \in SUBSET S,
           Cardinality(A) >= Quorum(S), Cardinality(B) >= Quorum(S)
    PROVE  A \cap B # {}
<1>1. Cardinality(S) \in Nat /\ Cardinality(A) \in Nat /\ Cardinality(B) \in Nat
  BY FS_CardinalityType, FS_Subset
<1>2. Cardinality(A) + Cardinality(B) > Cardinality(S)
  BY <1>1 DEF Quorum
<1> QED BY <1>2, FS_MajoritiesIntersect

(* The node with the lowest score of a set has all the others above it.    *)
LEMMA BottomExists ==
    ASSUME NEW S \in SUBSET Nodes, IsFiniteSet(S), S # {}, NEW k \in Keys
    PROVE  \E b \in S : S \ {b} \subseteq Above(S, k, b)
<1> DEFINE Below(n) == {m \in S : Score[k][m] < Score[k][n]}
           T == {Below(n) : n \in S}
<1>1. T \subseteq FiniteSubsetsOf(S) /\ T # {}
  <2>1. \A n \in S : Below(n) \subseteq S
    OBVIOUS
  <2>2. \A n \in S : IsFiniteSet(Below(n))
    BY <2>1, FS_Subset
  <2> QED  BY <2>1, <2>2 DEF FiniteSubsetsOf
<1>2. PICK B \in T : \A C \in T : <<C, B>> \notin StrictSubsetOrdering(S)
  <2>1. IsWellFoundedOn(StrictSubsetOrdering(S), FiniteSubsetsOf(S))
    BY FS_StrictSubsetOrderingWellFounded
  <2> HIDE DEF T
  <2> QED  BY <1>1, <2>1, WFMin
<1>3. PICK b \in S : B = Below(b)
  BY <1>2
<1>4. \A d \in S : Score[k][d] \in Int
  BY RendezvousAssumption
<1>5. ASSUME NEW m \in Below(b) PROVE FALSE
  <2>1. m \in S /\ Score[k][m] < Score[k][b]
    OBVIOUS
  <2>2. Below(m) \subseteq Below(b) /\ m \notin Below(m)
    BY <1>4, <2>1
  <2>3. Below(m) \in FiniteSubsetsOf(S) /\ B \in FiniteSubsetsOf(S) /\ Below(m) \in T
    BY <1>1, <1>2, <2>1
  <2>4. Below(m) # Below(b)
    BY <1>5, <2>2
  <2> HIDE DEF Below
  <2>5. <<Below(m), B>> \in StrictSubsetOrdering(S)
    BY <1>3, <2>2, <2>3, <2>4 DEF StrictSubsetOrdering, FiniteSubsetsOf
  <2> QED  BY <1>2, <2>3, <2>5
<1>6. ASSUME NEW m \in S \ {b} PROVE m \in Above(S, k, b)
  <2>1. ~(Score[k][m] < Score[k][b])
    BY <1>5
  <2>2. Score[k][m] # Score[k][b]
    BY RendezvousAssumption
  <2> QED  BY <1>4, <2>1, <2>2 DEF Above
<1> QED  BY <1>6

(* getReplicaNodes cuts the sorted view at c.replicas nodes, no earlier    *)
(* and no later: a key has exactly Replicas replicas, or all nodes of a    *)
(* view that has no more than that.                                        *)
THEOREM ReplicaCount ==
    ASSUME NEW view \in SUBSET Nodes, IsFiniteSet(view), NEW k \in Keys
    PROVE  /\ IsFiniteSet(ReplicaNodes(view, k))
           /\ Cardinality(ReplicaNodes(view, k)) \in Nat
           /\ Cardinality(ReplicaNodes(view, k)) <= Replicas
           /\ Cardinality(ReplicaNodes(view, k)) < Replicas => ReplicaNodes(view, k) = view
<1> DEFINE R == ReplicaNodes(view, k)
<1>1. R \subseteq view /\ Replicas \in Nat \ {0}
  BY RendezvousAssumption DEF ReplicaNodes
<1>2. IsFiniteSet(R) /\ Cardinality(R) \in Nat
  BY <1>1, FS_Subset, FS_CardinalityType
<1>3. Cardinality(R) <= Replicas
  <2>1. CASE R = {}
    BY <1>1, <2>1, FS_EmptySet
  <2>2. CASE R # {}
    <3>1. PICK b \in R : R \ {b} \subseteq Above(R, k, b)
      <4> HIDE DEF R
      <4>1. R \in SUBSET Nodes
        BY <1>1
      <4> QED  BY <1>2, <2>2, <4>1, BottomExists
    <3>2. Above(R, k, b) \subseteq Above(view, k, b)
      BY <1>1 DEF Above
    <3>3. Cardinality(Above(view, k, b)) < Replicas
      BY DEF ReplicaNodes
    <3>4. IsFiniteSet(Above(view, k, b)) /\ Cardinality(Above(view, k, b)) \in Nat
      BY AboveGrows
    <3> HIDE DEF R
    <3>5. R \ {b} \subseteq Above(view, k, b)
      BY <3>1, <3>2
    <3>6. /\ IsFiniteSet(R \ {b}) /\ Cardinality(R \ {b}) = Cardinality(R) - 1
          /\ Cardinality(R \ {b}) <= Cardinality(Above(view, k, b))
      BY <1>2, <3>1, <3>4, <3>5, FS_RemoveElement, FS_Subset
    <3> QED  BY <1>1, <1>2, <3>3, <3>4, <3>6
  <2> QED  BY <2>1, <2>2
<1>4. ASSUME Cardinality(R) < Replicas, R # view
      PROVE  FALSE
  <2> DEFINE D == view \ R
  <2>1. D \in SUBSET Nodes /\ D # {} /\ IsFiniteSet(D)
    <3> HIDE DEF R
    <3> QED  BY <1>1, <1>4, FS_Difference
  <2>2. PICK d \in D : Above(D, k, d) = {}
    <3> HIDE DEF D
    <3> QED  BY <2>1, TopExists
  <2>3. d \in view /\ Above(view, k, d) \subseteq R
    BY <2>2 DEF Above
  <2>4. ~(Cardinality(Above(view, k, d)) < Replicas)
    BY <2>2 DEF ReplicaNodes
  <2> HIDE DEF R
  <2>5. Cardinality(Above(view, k, d)) <= Cardinality(R) /\ Cardinality(Above(view, k, d)) \in Nat
    BY <1>2, <2>3, FS_Subset, FS_CardinalityType
  <2> QED  BY <1>1, <1>2, <1>4, <2>4, <2>5
<1> QED  BY <1>2, <1>3, <1>4

(* A smaller view has no more replicas, and a replica of the larger view   *)
(* that is in the smaller one is a replica there too.                      *)
LEMMA ReplicasOfSmaller ==
    ASSUME NEW V \in SUBSET Nodes, IsFiniteSet(V), NEW U \in SUBSET V, NEW k \in Keys
    PROVE  /\ ReplicaNodes(V, k) \cap U \subseteq ReplicaNodes(U, k)
           /\ Cardinality(ReplicaNodes(U, k)) <= Cardinality(ReplicaNodes(V, k))
<1>1. U \in SUBSET Nodes /\ IsFiniteSet(U)
  BY FS_Subset
<1>2. ASSUME NEW n \in ReplicaNodes(V, k) \cap U PROVE n \in ReplicaNodes(U, k)
  <2>1. n \in U /\ Cardinality(Above(V, k, n)) < Replicas
    BY DEF ReplicaNodes
  <2>2. /\ Cardinality(Above(U, k, n)) <= Cardinality(Above(V, k, n))
        /\ Cardinality(Above(U, k, n)) \in Nat /\ Cardinality(Above(V, k, n)) \in Nat
    BY AboveGrows
  <2> QED  BY <2>1, <2>2, RendezvousAssumption DEF ReplicaNodes
<1>3. /\ Cardinality(ReplicaNodes(U, k)) \in Nat /\ Cardinality(ReplicaNodes(V, k)) \in Nat
      /\ Cardinality(ReplicaNodes(U, k)) <= Replicas
      /\ Cardinality(ReplicaNodes(V, k)) < Replicas => ReplicaNodes(V, k) = V
  BY <1>1, ReplicaCount
<1>4. CASE Cardinality(ReplicaNodes(V, k)) < Replicas
  <2>1. ReplicaNodes(U, k) \subseteq ReplicaNodes(V, k)
    BY <1>3, <1>4 DEF ReplicaNodes
  <2>2. IsFiniteSet(ReplicaNodes(V, k))
    BY ReplicaCount
  <2> QED  BY <1>2, <2>1, <2>2, FS_Subset
<1> QED  BY <1>2, <1>3, <1>4, RendezvousAssumption

(* A quorum of the replicas that some view gives, where the view lacks     *)
(* only nodes of F, has a member outside F that is a replica for every     *)
(* view it is in: getReplicas of any node, with any nodes still to join,   *)
(* keeps choosing it.  F is smaller than a quorum of the whole cluster.    *)
THEOREM QuorumHasLastingReplica ==
    ASSUME IsFiniteSet(Nodes), NEW k \in Keys, NEW F \in SUBSET Nodes,
           Cardinality(F) < Quorum(ReplicaNodes(Nodes, k)),
           NEW E \in SUBSET F, NEW A \in SUBSET ReplicaNodes(Nodes \ E, k),
           Cardinality(A) >= Quorum(ReplicaNodes(Nodes \ E, k))
    PROVE  \E n \in A \cap ReplicaNodes(Nodes, k) : n \notin F
<1> DEFINE H == ReplicaNodes(Nodes, k)
           L == ReplicaNodes(Nodes \ E, k)
<1> SUFFICES ASSUME A \cap H \subseteq F PROVE FALSE
  OBVIOUS
<1>1. H \cap (Nodes \ E) \subseteq L /\ Cardinality(L) <= Cardinality(H)
  BY ReplicasOfSmaller
<1>2. H \subseteq Nodes /\ L \subseteq Nodes \ E
  BY DEF ReplicaNodes
<1>3. Cardinality(F) < Quorum(H) /\ A \subseteq L /\ Cardinality(A) >= Quorum(L)
  OBVIOUS
<1> HIDE DEF H, L
<1>4. IsFiniteSet(H) /\ IsFiniteSet(L) /\ IsFiniteSet(F)
  BY <1>2, FS_Subset
<1>5. IsFiniteSet(E) /\ IsFiniteSet(A)
  BY <1>3, <1>4, FS_Subset
<1>6. /\ Cardinality(H) \in Nat /\ Cardinality(L) \in Nat /\ Cardinality(F) \in Nat
      /\ Cardinality(E) \in Nat /\ Cardinality(A) \in Nat
  BY <1>4, <1>5, FS_CardinalityType
<1>7. /\ IsFiniteSet(H \ E) /\ Cardinality(H \ E) \in Nat
      /\ Cardinality(H \ E) >= Cardinality(H) - Cardinality(E)
  <2>1. IsFiniteSet(H \ E) /\ Cardinality(H \ E) = Cardinality(H) - Cardinality(H \cap E)
    BY <1>4, FS_Difference
  <2>2. IsFiniteSet(H \cap E) /\ Cardinality(H \cap E) <= Cardinality(E)
    BY <1>5, FS_Intersection
  <2>3. Cardinality(H \cap E) \in Nat /\ Cardinality(H \ E) \in Nat
    BY <2>1, <2>2, FS_CardinalityType
  <2> QED  BY <1>6, <2>1, <2>2, <2>3
<1>8. /\ IsFiniteSet(L \ (H \ E))
      /\ Cardinality(L \ (H \ E)) = Cardinality(L) - Cardinality(H \ E)
  <2>1. L \cap (H \ E) = H \ E
    BY <1>1, <1>2
  <2> QED  BY <1>4, <2>1, FS_Difference
<1>9. IsFiniteSet(F \ E) /\ Cardinality(F \ E) = Cardinality(F) - Cardinality(E)
  <2>1. F \cap E = E
    OBVIOUS
  <2> QED  BY <1>4, <2>1, FS_Difference
<1>10. A \subseteq (L \ (H \ E)) \cup (F \ E)
  BY <1>2, <1>3
<1>11. Cardinality(A) <= Cardinality(L) - Cardinality(H \ E) + Cardinality(F) - Cardinality(E)
  <2> DEFINE X == L \ (H \ E)
             Y == F \ E
  <2>1. IsFiniteSet(X) /\ IsFiniteSet(Y) /\ A \subseteq X \cup Y
    BY <1>8, <1>9, <1>10
  <2>2. /\ Cardinality(X) = Cardinality(L) - Cardinality(H \ E)
        /\ Cardinality(Y) = Cardinality(F) - Cardinality(E)
    BY <1>8, <1>9
  <2> HIDE DEF X, Y
  <2>3. /\ IsFiniteSet(X \cup Y) /\ Cardinality(X) \in Nat /\ Cardinality(Y) \in Nat
        /\ Cardinality(X \cup Y) = Cardinality(X) + Cardinality(Y) - Cardinality(X \cap Y)
    BY <2>1, FS_Union, FS_CardinalityType
  <2>4. Cardinality(X \cap Y) \in Nat
    BY <2>1, FS_Intersection, FS_CardinalityType
  <2>5. Cardinality(A) <= Cardinality(X \cup Y)
    BY <2>1, <2>3, FS_Subset
  <2> QED  BY <1>6, <1>7, <2>2, <2>3, <2>4, <2>5
<1>12. Cardinality(L) \div 2 + 1 <= Cardinality(L) - Cardinality(H) + Cardinality(H) \div 2
  BY <1>3, <1>6, <1>7, <1>11 DEF Quorum
<1> QED  BY <1>1, <1>6, <1>12
=============================================================================
