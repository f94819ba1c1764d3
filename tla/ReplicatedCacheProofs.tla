----------------------- MODULE ReplicatedCacheProofs -----------------------
(***************************************************************************)
(* The cluster's cache, for any number of nodes, keys, replicas and calls, *)
(* with every loss, timeout, join, crash and rebalancing: the types, and   *)
(* that a write is acknowledged only when a quorum of its replicas has it. *)
(***************************************************************************)
EXTENDS ReplicatedCache, RendezvousProofs

(* A call that was made has a node and a key, and its primary once it is   *)
(* known.                                                                  *)
Called ==
    \A i \in Ops :
        /\ op[i].st # "idle" => op[i].at \in Nodes /\ op[i].key \in Keys
        /\ op[i].st = "routed" => op[i].to \in Nodes
        /\ \A r \in Nodes : wire[i][r] # "none" \/ wait[i][r] # "none" => op[i].st # "idle"

(* A rebalancer that has replicas left to send to is at a key, whose value *)
(* it has in its snapshot.                                                 *)
AtKey == \A n \in Nodes : reb[n].todo # {} => reb[n].cur \in Keys /\ reb[n].snap[reb[n].cur] # Nil

(* What reports success at the caller has taken effect at the replica.     *)
Honest ==
    \A i \in Ops, r \in Nodes : wait[i][r] = "ok" \/ wire[i][r] = "ok" => r \in applied[i]

(* A write that has returned waits for no leg, and what it counted stays.  *)
Returned ==
    \A i \in Ops : op[i].kind # "get" =>
        /\ op[i].st \in {"ok", "fail"} => \A r \in Nodes : wait[i][r] \notin {"go", "wait"}
        /\ op[i].st = "ok" => Cardinality(Succeeded(i)) >= Quorum(LegsOf(i))

IInv == TypeOK /\ Called /\ AtKey /\ Honest /\ Returned

-----------------------------------------------------------------------------
(* A cluster that has just come up.                                        *)
LEMMA Initially == Init => TypeOK /\ Called /\ AtKey
<1> SUFFICES ASSUME Init PROVE TypeOK /\ Called /\ AtKey  OBVIOUS
<1>1. NoKeys \in [Keys -> Entry]  BY DEF NoKeys, Entry
<1>2. IdleCall \in Call  BY DEF IdleCall, Call, Entry
<1>3. IdleReb \in Rebalancer /\ IdleReb.todo = {}  BY <1>1 DEF IdleReb, Rebalancer
<1>4. /\ alive = Nodes /\ hooks = {} /\ opened = {} /\ pushes = {}
      /\ peers \in [Nodes -> SUBSET Nodes]
    BY ReplicatedCacheAssumption DEF Init
<1>5. store \in [Nodes -> [Keys -> Entry]]  BY <1>1 DEF Init
<1>6. hash \in [Nodes -> [Keys -> Nodes \cup {Nil}]]  BY DEF Init, NoKeys
<1>7. op \in [Ops -> Call]  BY <1>2 DEF Init
<1>8. wait \in [Ops -> [Nodes -> Leg]]  BY DEF Init, Leg
<1>9. wire \in [Ops -> [Nodes -> Msg]]  BY DEF Init, Msg
<1>10. applied \in [Ops -> SUBSET Nodes]  BY DEF Init
<1>11. reb \in [Nodes -> Rebalancer]  BY <1>3 DEF Init
<1>12. Called  BY DEF Init, Called, IdleCall
<1>13. AtKey  BY <1>3 DEF Init, AtKey
<1> QED
    BY <1>4, <1>5, <1>6, <1>7, <1>8, <1>9, <1>10, <1>11, <1>12, <1>13 DEF TypeOK

(* getReplicas on a node's view: its replicas are nodes, and so is the     *)
(* primary.                                                                *)
LEMMA Chosen ==
    ASSUME TypeOK, NEW n \in Nodes, NEW k \in Keys
    PROVE  ReplicaNodes(View(n), k) \subseteq Nodes /\ Primary(View(n), k) \in Nodes
<1>1. View(n) \in SUBSET Nodes /\ View(n) # {}  BY DEF TypeOK, View
<1>2. IsFiniteSet(View(n))  BY <1>1, FS_Subset, ReplicatedCacheAssumption
<1>3. Primary(View(n), k) \in View(n)  BY <1>1, <1>2, PrimaryIsReplica
<1> QED  BY <1>1, <1>3 DEF ReplicaNodes

(* The local operation at a node.                                          *)
LEMMA Applied ==
    ASSUME TypeOK, NEW i \in Ops, NEW n \in Nodes, op[i].key \in Keys, Apply(i, n)
    PROVE  /\ store' \in [Nodes -> [Keys -> Entry]]
           /\ applied' \in [Ops -> SUBSET Nodes]
           /\ \A j \in Ops : applied[j] \subseteq applied'[j]
           /\ Succeeds(i, n) => n \in applied'[i]
<1>1. /\ store \in [Nodes -> [Keys -> Entry]] /\ applied \in [Ops -> SUBSET Nodes]
      /\ op[i].val \in Entry
    BY DEF TypeOK, Call
<1>2. Leaves(i, n) \in Entry  BY <1>1 DEF Leaves
<1>3. store' \in [Nodes -> [Keys -> Entry]]  BY <1>1, <1>2 DEF Apply
<1> QED  BY <1>1, <1>3 DEF Apply

-----------------------------------------------------------------------------
(* What the steps of a call may change, by their types.                    *)
Calling ==
    /\ store' \in [Nodes -> [Keys -> Entry]] /\ hash' \in [Nodes -> [Keys -> Nodes \cup {Nil}]]
    /\ op' \in [Ops -> Call] /\ wait' \in [Ops -> [Nodes -> Leg]]
    /\ wire' \in [Ops -> [Nodes -> Msg]] /\ applied' \in [Ops -> SUBSET Nodes]
    /\ opened' \subseteq Dials
    /\ Called'

(* Calling is all that is needed where topology and rebalancers rest.      *)
LEMMA CallingTypes ==
    ASSUME TypeOK, AtKey, Calling, UNCHANGED <<topo, reb, pushes>>
    PROVE  TypeOK' /\ AtKey'
BY DEF TypeOK, AtKey, Calling, topo

(* setReplicated, deleteReplicated, setTtlReplicated.                      *)
LEMMA StartReplicatedTypes ==
    ASSUME TypeOK, Called, NEW i \in Ops, NEW n \in Nodes, NEW kind \in Kinds, NEW k \in Keys,
           NEW v \in Entry, StartReplicated(i, n, kind, k, v)
    PROVE  Calling
<1> DEFINE c == [st |-> "run", kind |-> kind, at |-> n, key |-> k,
                 val |-> IF kind = "set" THEN v ELSE Nil, to |-> Nil]
           w == [r \in Nodes |-> IF r \in ReplicaNodes(View(n), k) THEN "go" ELSE "none"]
<1>1. op' = [op EXCEPT ![i] = c] /\ wait' = [wait EXCEPT ![i] = w]
      /\ UNCHANGED <<opened, store, hash, wire, applied>>
    BY DEF StartReplicated
<1>2. c \in Call  BY DEF Call, Entry
<1>3. w \in [Nodes -> Leg]  BY DEF Leg
<1>4. c.st = "run" /\ c.at = n /\ c.key = k  OBVIOUS
<1> HIDE DEF c, w
<1>5. op' \in [Ops -> Call]  BY <1>1, <1>2 DEF TypeOK
<1>6. wait' \in [Ops -> [Nodes -> Leg]]  BY <1>1, <1>3 DEF TypeOK
<1>7. op \in [Ops -> Call] /\ wait \in [Ops -> [Nodes -> Leg]]  BY DEF TypeOK
<1>8. Called'
    <2>1. op'[i] = c /\ \A j \in Ops : j # i => op'[j] = op[j] /\ wait'[j] = wait[j]
        BY <1>1, <1>7
    <2> QED  BY <1>1, <1>4, <2>1 DEF Called
<1> QED  BY <1>1, <1>5, <1>6, <1>8 DEF Calling, TypeOK

(* A leg of a call, or what is in flight for it, set to a new value.       *)
LEMMA SetLeg ==
    ASSUME NEW S, NEW f \in [Ops -> [Nodes -> S]], NEW i \in Ops, NEW r \in Nodes, NEW v \in S,
           NEW g, g = [f EXCEPT ![i][r] = v]
    PROVE  /\ g \in [Ops -> [Nodes -> S]]
           /\ \A j \in Ops : j # i => g[j] = f[j]
           /\ g[i][r] = v /\ \A q \in Nodes : q # r => g[i][q] = f[i][q]
OBVIOUS

(* A step that touches only the legs of a call that is under way.          *)
LEMMA LegTypes ==
    ASSUME TypeOK, Called, NEW i \in Ops, op[i].st # "idle", op' = op,
           \A j \in Ops : j # i => wait'[j] = wait[j] /\ wire'[j] = wire[j]
    PROVE  op' \in [Ops -> Call] /\ Called'
<1>1. op' \in [Ops -> Call]  BY DEF TypeOK
<1>2. Called'  BY DEF Called
<1> QED  BY <1>1, <1>2

(* A call's own goroutines, the handler, the answer, the timer, a loss.    *)
LEMMA LocalLegTypes ==
    ASSUME TypeOK, Called, NEW i \in Ops, LocalLeg(i)
    PROVE  Calling
<1> DEFINE n == op[i].at
           v == IF Succeeds(i, n) THEN "ok" ELSE "err"
<1>1. /\ op[i].st # "idle" /\ Apply(i, n) /\ wait' = [wait EXCEPT ![i][n] = v]
      /\ UNCHANGED <<opened, hash, op, wire>>
    BY DEF LocalLeg
<1>2. n \in Nodes /\ op[i].key \in Keys  BY <1>1 DEF Called
<1>3. wait \in [Ops -> [Nodes -> Leg]] /\ v \in Leg  BY DEF TypeOK, Leg
<1> HIDE DEF n, v
<1>4. wait' \in [Ops -> [Nodes -> Leg]] /\ \A j \in Ops : j # i => wait'[j] = wait[j]
    BY <1>1, <1>2, <1>3, SetLeg
<1>5. op' \in [Ops -> Call] /\ Called'  BY <1>1, <1>4, LegTypes
<1>6. store' \in [Nodes -> [Keys -> Entry]] /\ applied' \in [Ops -> SUBSET Nodes]
    BY <1>1, <1>2, Applied
<1> QED  BY <1>1, <1>4, <1>5, <1>6 DEF Calling, TypeOK

(* The request is sent, or there is no connection to send it on.           *)
LEMMA SendLegTypes ==
    ASSUME TypeOK, Called, NEW i \in Ops, NEW r \in Nodes, SendLeg(i, r)
    PROVE  Calling
<1>1. op[i].st # "idle" /\ UNCHANGED <<store, hash, op, applied>>  BY DEF SendLeg
<1>2. wait \in [Ops -> [Nodes -> Leg]] /\ wire \in [Ops -> [Nodes -> Msg]]  BY DEF TypeOK
<1>3. \E v \in Leg : wait' = [wait EXCEPT ![i][r] = v]  BY DEF SendLeg, Leg
<1>4. wire' = wire \/ wire' = [wire EXCEPT ![i][r] = "request"]  BY DEF SendLeg
<1>5. opened' \subseteq Dials  BY DEF SendLeg, TypeOK
<1>6. wait' \in [Ops -> [Nodes -> Leg]] /\ \A j \in Ops : j # i => wait'[j] = wait[j]
    BY <1>2, <1>3, SetLeg
<1>7. wire' \in [Ops -> [Nodes -> Msg]] /\ \A j \in Ops : j # i => wire'[j] = wire[j]
    <2>1. "request" \in Msg  BY DEF Msg
    <2>2. CASE wire' = wire  BY <1>2, <2>2
    <2>3. CASE wire' = [wire EXCEPT ![i][r] = "request"]  BY <1>2, <2>1, <2>3, SetLeg
    <2> QED  BY <1>4, <2>2, <2>3
<1>8. op' \in [Ops -> Call] /\ Called'  BY <1>1, <1>6, <1>7, LegTypes
<1> QED  BY <1>1, <1>5, <1>6, <1>7, <1>8 DEF Calling, TypeOK

(* The handler at the replica.                                             *)
LEMMA HandleLegTypes ==
    ASSUME TypeOK, Called, NEW i \in Ops, NEW r \in Nodes, HandleLeg(i, r)
    PROVE  Calling
<1> DEFINE m == IF Result(i, r) = "ok" THEN "ok" ELSE "err"
<1>1. /\ wire[i][r] = "request" /\ Apply(i, r) /\ wire' = [wire EXCEPT ![i][r] = m]
      /\ UNCHANGED <<opened, hash, wait>>
    BY DEF HandleLeg
<1>2. /\ wire \in [Ops -> [Nodes -> Msg]] /\ m \in Msg /\ op \in [Ops -> Call]
      /\ store \in [Nodes -> [Keys -> Entry]]
    BY DEF TypeOK, Msg
<1>3. op[i].st # "idle" /\ op[i].key \in Keys  BY <1>1 DEF Called
<1> HIDE DEF m
<1>4. wire' \in [Ops -> [Nodes -> Msg]] /\ \A j \in Ops : j # i => wire'[j] = wire[j]
    BY <1>1, <1>2, SetLeg
<1>5. op' = op \/ op' = [op EXCEPT ![i].val = store[r][op[i].key]]  BY DEF HandleLeg
<1>6. store[r][op[i].key] \in Entry  BY <1>2, <1>3
<1>7. op' \in [Ops -> Call]
    <2> DEFINE c == [op[i] EXCEPT !.val = store[r][op[i].key]]
    <2>1. c \in Call  BY <1>2, <1>6 DEF Call
    <2>2. op' = op \/ op' = [op EXCEPT ![i] = c]  BY <1>5
    <2> HIDE DEF c
    <2> QED  BY <1>2, <2>1, <2>2
<1>8. \A j \in Ops : /\ op'[j].st = op[j].st /\ op'[j].at = op[j].at
                     /\ op'[j].key = op[j].key /\ op'[j].to = op[j].to
    BY <1>2, <1>5 DEF Call
<1>9. Called'
    <2>1. \A j \in Ops : op'[j].st # "idle" => op'[j].at \in Nodes /\ op'[j].key \in Keys
        BY <1>8 DEF Called
    <2>2. \A j \in Ops : op'[j].st = "routed" => op'[j].to \in Nodes  BY <1>8 DEF Called
    <2>3. \A j \in Ops : \A q \in Nodes :
              wire'[j][q] # "none" \/ wait'[j][q] # "none" => op'[j].st # "idle"
        BY <1>1, <1>3, <1>4, <1>8 DEF Called
    <2> QED  BY <2>1, <2>2, <2>3 DEF Called
<1>10. store' \in [Nodes -> [Keys -> Entry]] /\ applied' \in [Ops -> SUBSET Nodes]
    BY <1>1, <1>3, Applied
<1> QED  BY <1>1, <1>4, <1>7, <1>9, <1>10 DEF Calling, TypeOK

(* The answer reaches the caller, in time or not.                          *)
LEMMA AnswerLegTypes ==
    ASSUME TypeOK, Called, NEW i \in Ops, NEW r \in Nodes, AnswerLeg(i, r)
    PROVE  Calling
<1> DEFINE v == IF wait[i][r] = "wait" THEN wire[i][r] ELSE wait[i][r]
<1>1. wait \in [Ops -> [Nodes -> Leg]] /\ wire \in [Ops -> [Nodes -> Msg]]  BY DEF TypeOK
<1>2. /\ wire[i][r] \in {"ok", "err"} /\ wait' = [wait EXCEPT ![i][r] = v]
      /\ wire' = [wire EXCEPT ![i][r] = "none"]
      /\ UNCHANGED <<opened, store, hash, op, applied>>
    BY <1>1 DEF AnswerLeg
<1>3. v \in Leg /\ "none" \in Msg /\ op[i].st # "idle"  BY <1>1, <1>2 DEF Leg, Msg, Called
<1> HIDE DEF v
<1>4. wait' \in [Ops -> [Nodes -> Leg]] /\ \A j \in Ops : j # i => wait'[j] = wait[j]
    BY <1>1, <1>2, <1>3, SetLeg
<1>5. wire' \in [Ops -> [Nodes -> Msg]] /\ \A j \in Ops : j # i => wire'[j] = wire[j]
    BY <1>1, <1>2, <1>3, SetLeg
<1>6. op' \in [Ops -> Call] /\ Called'  BY <1>2, <1>3, <1>4, <1>5, LegTypes
<1> QED  BY <1>2, <1>4, <1>5, <1>6 DEF Calling, TypeOK

(* The timer of a request.                                                 *)
LEMMA TimeoutLegTypes ==
    ASSUME TypeOK, Called, NEW i \in Ops, NEW r \in Nodes, TimeoutLeg(i, r)
    PROVE  Calling
<1>1. /\ wait[i][r] = "wait" /\ wait' = [wait EXCEPT ![i][r] = "late"]
      /\ UNCHANGED <<opened, store, hash, op, wire, applied>>
    BY DEF TimeoutLeg
<1>2. wait \in [Ops -> [Nodes -> Leg]] /\ "late" \in Leg  BY DEF TypeOK, Leg
<1>3. op[i].st # "idle"  BY <1>1 DEF Called
<1>4. wait' \in [Ops -> [Nodes -> Leg]] /\ \A j \in Ops : j # i => wait'[j] = wait[j]
    BY <1>1, <1>2, SetLeg
<1>5. op' \in [Ops -> Call] /\ Called'  BY <1>1, <1>3, <1>4, LegTypes
<1> QED  BY <1>1, <1>4, <1>5 DEF Calling, TypeOK

(* A message is lost.                                                      *)
LEMMA LoseLegTypes ==
    ASSUME TypeOK, Called, NEW i \in Ops, NEW r \in Nodes, LoseLeg(i, r)
    PROVE  Calling
<1>1. /\ wire[i][r] # "none" /\ wire' = [wire EXCEPT ![i][r] = "none"]
      /\ UNCHANGED <<opened, store, hash, op, wait, applied>>
    BY DEF LoseLeg
<1>2. wire \in [Ops -> [Nodes -> Msg]] /\ "none" \in Msg  BY DEF TypeOK, Msg
<1>3. op[i].st # "idle"  BY <1>1 DEF Called
<1>4. wire' \in [Ops -> [Nodes -> Msg]] /\ \A j \in Ops : j # i => wire'[j] = wire[j]
    BY <1>1, <1>2, SetLeg
<1>5. op' \in [Ops -> Call] /\ Called'  BY <1>1, <1>3, <1>4, LegTypes
<1> QED  BY <1>1, <1>4, <1>5 DEF Calling, TypeOK

(* All legs of a call have reported.                                       *)
LEMMA FinishTypes ==
    ASSUME TypeOK, Called, NEW i \in Ops, Finish(i)
    PROVE  Calling
<1>1. op[i].st = "run" /\ UNCHANGED <<opened, store, hash, wait, wire, applied>>
    BY DEF Finish
<1>2. \E s \in {"ok", "fail"} : op' = [op EXCEPT ![i].st = s]  BY DEF Finish
<1>3. op \in [Ops -> Call]  BY DEF TypeOK
<1>4. op' \in [Ops -> Call] /\ op'[i].st \in {"ok", "fail"}
      /\ \A j \in Ops : /\ op'[j].at = op[j].at /\ op'[j].key = op[j].key
                        /\ op'[j].to = op[j].to /\ (j # i => op'[j].st = op[j].st)
    BY <1>2, <1>3 DEF Call
<1>5. Called'  BY <1>1, <1>4 DEF Called
<1> QED  BY <1>1, <1>4, <1>5 DEF Calling, TypeOK

(* Get: the primary from the routing cache, or computed from the view.     *)
LEMMA StartGetTypes ==
    ASSUME TypeOK, Called, NEW i \in Ops, NEW n \in Nodes, NEW k \in Keys, StartGet(i, n, k)
    PROVE  Calling
<1> DEFINE call(st, v, t) == [st |-> st, kind |-> "get", at |-> n, key |-> k, val |-> v, to |-> t]
<1>1. /\ wait \in [Ops -> [Nodes -> Leg]] /\ op \in [Ops -> Call]
      /\ store[n][k] \in Entry /\ hash[n][k] \in Nodes \cup {Nil}
    BY DEF TypeOK
<1>2. UNCHANGED <<opened, store, hash, wire, applied>> /\ "get" \in Kinds  BY DEF StartGet
<1>3. \E st \in {"ok", "run", "routed"}, v \in Entry, t \in Nodes \cup {Nil} :
          /\ op' = [op EXCEPT ![i] = call(st, v, t)]
          /\ st = "routed" => t \in Nodes
          /\ wait' = wait \/ \E r \in Nodes : wait' = [wait EXCEPT ![i][r] = "go"]
    <2>0. Nil \in Entry  BY DEF Entry
    <2>1. CASE /\ store[n][k] # Nil /\ op' = [op EXCEPT ![i] = call("ok", store[n][k], Nil)]
               /\ UNCHANGED wait
        BY <1>1, <2>1
    <2>2. CASE /\ hash[n][k] # Nil /\ op' = [op EXCEPT ![i] = call("run", Nil, hash[n][k])]
               /\ wait' = [wait EXCEPT ![i][hash[n][k]] = "go"]
        BY <1>1, <2>0, <2>2
    <2>3. CASE /\ op' = [op EXCEPT ![i] = call("routed", Nil, Primary(View(n), k))]
               /\ UNCHANGED wait
        BY <2>0, <2>3, Chosen
    <2> QED  BY <2>1, <2>2, <2>3 DEF StartGet
<1>4. PICK st \in {"ok", "run", "routed"}, v \in Entry, t \in Nodes \cup {Nil} :
          /\ op' = [op EXCEPT ![i] = call(st, v, t)]
          /\ st = "routed" => t \in Nodes
          /\ wait' = wait \/ \E r \in Nodes : wait' = [wait EXCEPT ![i][r] = "go"]
    BY <1>3
<1>5. call(st, v, t) \in Call  BY <1>2 DEF Call
<1>6. op' \in [Ops -> Call]  BY <1>1, <1>4, <1>5
<1>7. /\ op'[i].st = st /\ op'[i].at = n /\ op'[i].key = k /\ op'[i].to = t
      /\ \A j \in Ops : j # i => op'[j] = op[j]
    BY <1>1, <1>4
<1>8. wait' \in [Ops -> [Nodes -> Leg]] /\ \A j \in Ops : j # i => wait'[j] = wait[j]
    <2>1. "go" \in Leg  BY DEF Leg
    <2>2. CASE wait' = wait  BY <1>1, <2>2
    <2>3. CASE \E r \in Nodes : wait' = [wait EXCEPT ![i][r] = "go"]  BY <1>1, <2>1, <2>3, SetLeg
    <2> QED  BY <1>4, <2>2, <2>3
<1> HIDE DEF call
<1>9. Called'  BY <1>2, <1>4, <1>7, <1>8 DEF Called
<1> QED  BY <1>2, <1>6, <1>8, <1>9 DEF Calling, TypeOK

(* The computed primary enters the routing cache.                          *)
LEMMA StorePrimaryTypes ==
    ASSUME TypeOK, Called, NEW i \in Ops, StorePrimary(i)
    PROVE  Calling
<1> DEFINE n == op[i].at
           k == op[i].key
           t == op[i].to
<1>1. /\ op[i].st = "routed" /\ hash' = [hash EXCEPT ![n][k] = t]
      /\ op' = [op EXCEPT ![i].st = "run"] /\ wait' = [wait EXCEPT ![i][t] = "go"]
      /\ UNCHANGED <<opened, store, wire, applied>>
    BY DEF StorePrimary
<1>2. n \in Nodes /\ k \in Keys /\ t \in Nodes  BY <1>1 DEF Called
<1>3. /\ wait \in [Ops -> [Nodes -> Leg]] /\ op \in [Ops -> Call] /\ "go" \in Leg
      /\ hash \in [Nodes -> [Keys -> Nodes \cup {Nil}]]
    BY DEF TypeOK, Leg
<1>4. op' \in [Ops -> Call] /\ op'[i].st = "run"
      /\ \A j \in Ops : /\ op'[j].at = op[j].at /\ op'[j].key = op[j].key
                        /\ op'[j].to = op[j].to /\ (j # i => op'[j].st = op[j].st)
    <2> DEFINE called == [op[i] EXCEPT !.st = "run"]
    <2>1. /\ called \in Call /\ called.st = "run" /\ called.at = op[i].at
          /\ called.key = op[i].key /\ called.to = op[i].to
        BY <1>3 DEF Call
    <2>2. op' = [op EXCEPT ![i] = called]
        BY <1>1
    <2> HIDE DEF called
    <2> QED  BY <1>3, <2>1, <2>2
<1> HIDE DEF n, k, t
<1>5. hash' \in [Nodes -> [Keys -> Nodes \cup {Nil}]]  BY <1>1, <1>2, <1>3
<1>6. wait' \in [Ops -> [Nodes -> Leg]] /\ \A j \in Ops : j # i => wait'[j] = wait[j]
    BY <1>1, <1>2, <1>3, SetLeg
<1>7. Called'  BY <1>1, <1>4, <1>6 DEF Called
<1> QED  BY <1>1, <1>4, <1>5, <1>6, <1>7 DEF Calling, TypeOK

-----------------------------------------------------------------------------
(* The topology events touch no call; a crash clears the node's memory.    *)
LEMMA TopologyTypes ==
    ASSUME TypeOK, Called, AtKey, Topology
    PROVE  TypeOK' /\ Called' /\ AtKey'
<1>1. UNCHANGED <<op, wait, wire, applied, pushes, opened>>
    BY DEF Topology, NotifyJoin, AcceptConn, NotifyLeave, Hook, Crash, calls
<1>2. Called'  BY <1>1 DEF Called
<1>3. NoKeys \in [Keys -> Entry] /\ NoKeys \in [Keys -> Nodes \cup {Nil}]  BY DEF NoKeys, Entry
<1>4. IdleReb \in Rebalancer /\ IdleReb.todo = {}  BY <1>3 DEF IdleReb, Rebalancer
<1>5. /\ peers \in [Nodes -> SUBSET Nodes] /\ alive \subseteq Nodes /\ hooks \subseteq Nodes
      /\ store \in [Nodes -> [Keys -> Entry]] /\ reb \in [Nodes -> Rebalancer]
      /\ hash \in [Nodes -> [Keys -> Nodes \cup {Nil}]]
    BY DEF TypeOK
<1>6. ASSUME NEW n \in Nodes, NEW m \in Nodes, NotifyJoin(n, m) \/ AcceptConn(n, m) \/ NotifyLeave(n, m)
      PROVE  TypeOK' /\ AtKey'
    <2>1. peers' = [peers EXCEPT ![n] = @ \cup {m}] \/ peers' = [peers EXCEPT ![n] = @ \ {m}]
        BY <1>6 DEF NotifyJoin, AcceptConn, NotifyLeave
    <2>2. peers' \in [Nodes -> SUBSET Nodes]  BY <1>5, <2>1
    <2>3. hooks' \subseteq Nodes  BY <1>5, <1>6 DEF NotifyJoin, AcceptConn, NotifyLeave
    <2>4. UNCHANGED <<alive, store, hash, reb>>
        BY <1>6 DEF NotifyJoin, AcceptConn, NotifyLeave
    <2> QED  BY <1>1, <2>2, <2>3, <2>4 DEF TypeOK, AtKey
<1>7. ASSUME NEW n \in Nodes, Hook(n)
      PROVE  TypeOK' /\ AtKey'
    <2>1. hash' \in [Nodes -> [Keys -> Nodes \cup {Nil}]]  BY <1>3, <1>5, <1>7 DEF Hook
    <2>2. hooks' \subseteq Nodes /\ UNCHANGED <<alive, peers, store, reb>>  BY <1>5, <1>7 DEF Hook
    <2> QED  BY <1>1, <2>1, <2>2 DEF TypeOK, AtKey
<1>8. ASSUME NEW n \in Nodes, Crash(n)
      PROVE  TypeOK' /\ AtKey'
    <2>1. store' \in [Nodes -> [Keys -> Entry]]  BY <1>3, <1>5, <1>8 DEF Crash
    <2>2. hash' \in [Nodes -> [Keys -> Nodes \cup {Nil}]]  BY <1>3, <1>5, <1>8 DEF Crash
    <2>3. reb' = [reb EXCEPT ![n] = IdleReb]  BY <1>8 DEF Crash
    <2>4. reb' \in [Nodes -> Rebalancer]  BY <1>4, <1>5, <2>3
    <2>5. AtKey'  BY <1>4, <1>5, <2>3 DEF AtKey
    <2>6. alive' \subseteq Nodes /\ hooks' \subseteq Nodes /\ UNCHANGED peers
        BY <1>5, <1>8 DEF Crash
    <2> QED  BY <1>1, <2>1, <2>2, <2>4, <2>5, <2>6 DEF TypeOK
<1> QED  BY <1>2, <1>6, <1>7, <1>8 DEF Topology

-----------------------------------------------------------------------------
(* The rebalancer after it has sent a key to all replicas but todo.        *)
LEMMA SendingTypes ==
    ASSUME TypeOK, NEW n \in Nodes, NEW k \in Keys, NEW todo \in SUBSET Nodes,
           reb[n].snap[k] # Nil, reb' = [reb EXCEPT ![n] = Sending(n, k, todo)], AtKey
    PROVE  reb' \in [Nodes -> Rebalancer] /\ AtKey'
<1>1. reb \in [Nodes -> Rebalancer] /\ reb[n].snap \in [Keys -> Entry] /\ Nil \in Entry
    BY DEF TypeOK, Rebalancer, Entry
<1>2. [reb[n].snap EXCEPT ![k] = Nil] \in [Keys -> Entry]  BY <1>1
<1>3. CASE todo = {}
    <2>1. Sending(n, k, todo) = [snap |-> [reb[n].snap EXCEPT ![k] = Nil], cur |-> Nil, todo |-> {}]
        BY <1>3 DEF Sending, IdleReb
    <2>2. Sending(n, k, todo) \in Rebalancer /\ Sending(n, k, todo).todo = {}
        BY <1>2, <2>1 DEF Rebalancer
    <2> QED  BY <1>1, <2>2 DEF AtKey
<1>4. CASE todo # {}
    <2>1. Sending(n, k, todo) = [snap |-> reb[n].snap, cur |-> k, todo |-> todo]
        BY <1>4 DEF Sending
    <2>2. Sending(n, k, todo) \in Rebalancer  BY <1>1, <2>1 DEF Rebalancer
    <2>3. Sending(n, k, todo).cur = k /\ Sending(n, k, todo).snap[k] # Nil  BY <2>1
    <2> QED  BY <1>1, <2>2, <2>3 DEF AtKey
<1> QED  BY <1>3, <1>4

(* The steps of a rebalancer.                                              *)
LEMMA RebStepTypes ==
    ASSUME TypeOK, Called, AtKey, NEW n \in Nodes, RebStep(n)
    PROVE  TypeOK' /\ Called' /\ AtKey'
<1>1. UNCHANGED <<op, wait, wire, applied, hash, alive, peers, hooks>>
    BY DEF RebStep, RebStart, RebDrop, RebKeep, RebPush, calls, topo
<1>2. Called'  BY <1>1 DEF Called
<1>3. /\ store \in [Nodes -> [Keys -> Entry]] /\ reb \in [Nodes -> Rebalancer]
      /\ reb[n].snap \in [Keys -> Entry] /\ reb[n].todo \in SUBSET Nodes /\ Nil \in Entry
    BY DEF TypeOK, Rebalancer, Entry
<1>4. CASE RebStart(n)
    <2>1. reb' = [reb EXCEPT ![n].snap = store[n]] /\ reb[n].snap = NoKeys
          /\ UNCHANGED <<store, opened, pushes>>
        BY <1>4 DEF RebStart
    <2>2. reb' \in [Nodes -> Rebalancer]
        <3> DEFINE b == [reb[n] EXCEPT !.snap = store[n]]
        <3>0. reb[n] \in Rebalancer /\ store[n] \in [Keys -> Entry]  BY <1>3
        <3>1. b \in Rebalancer  BY <3>0 DEF Rebalancer
        <3>2. reb' = [reb EXCEPT ![n] = b]  BY <2>1
        <3> HIDE DEF b
        <3> QED  BY <1>3, <3>1, <3>2
    <2>3. reb[n].todo = {}
        <3>1. \A k \in Keys : reb[n].snap[k] = Nil  BY <2>1 DEF NoKeys
        <3> QED  BY <3>1 DEF AtKey
    <2>4. reb'[n].todo = {} /\ \A m \in Nodes : m # n => reb'[m] = reb[m]
        BY <1>3, <2>1, <2>3 DEF Rebalancer
    <2>5. AtKey'  BY <2>4 DEF AtKey
    <2> QED  BY <1>1, <1>2, <2>1, <2>2, <2>5 DEF TypeOK
<1>5. ASSUME NEW k \in Keys, RebDrop(n, k)
      PROVE  TypeOK' /\ AtKey'
    <2>1. /\ store' = [store EXCEPT ![n][k] = Nil] /\ reb' = [reb EXCEPT ![n].snap[k] = Nil]
          /\ reb[n].cur = Nil /\ UNCHANGED <<opened, pushes>>
        BY <1>5 DEF RebDrop
    <2>2. store' \in [Nodes -> [Keys -> Entry]]  BY <1>3, <2>1
    <2>3. [reb[n].snap EXCEPT ![k] = Nil] \in [Keys -> Entry]  BY <1>3
    <2>4. reb' \in [Nodes -> Rebalancer]
        <3> DEFINE b == [reb[n] EXCEPT !.snap = [reb[n].snap EXCEPT ![k] = Nil]]
        <3>0. reb[n] \in Rebalancer  BY <1>3
        <3>1. b \in Rebalancer  BY <2>3, <3>0 DEF Rebalancer
        <3>2. reb' = [reb EXCEPT ![n] = b]  BY <2>1
        <3> HIDE DEF b
        <3> QED  BY <1>3, <3>1, <3>2
    <2>5. reb[n].todo = {}  BY <2>1, ReplicatedCacheAssumption DEF AtKey
    <2>6. reb'[n].todo = {} /\ \A m \in Nodes : m # n => reb'[m] = reb[m]
        BY <1>3, <2>1, <2>5 DEF Rebalancer
    <2>7. AtKey'  BY <2>6 DEF AtKey
    <2> QED  BY <1>1, <2>1, <2>2, <2>4, <2>7 DEF TypeOK
<1>6. ASSUME NEW k \in Keys, RebKeep(n, k)
      PROVE  TypeOK' /\ AtKey'
    <2>1. /\ reb' = [reb EXCEPT ![n] = Sending(n, k, ReplicaNodes(View(n), k) \ {n})]
          /\ reb[n].snap[k] # Nil /\ UNCHANGED <<opened, store, pushes>>
        BY <1>6 DEF RebKeep
    <2>2. ReplicaNodes(View(n), k) \ {n} \in SUBSET Nodes  BY Chosen
    <2>3. reb' \in [Nodes -> Rebalancer] /\ AtKey'  BY <2>1, <2>2, SendingTypes
    <2> QED  BY <1>1, <2>1, <2>3 DEF TypeOK
<1>7. ASSUME NEW r \in Nodes, RebPush(n, r)
      PROVE  TypeOK' /\ AtKey'
    <2>1. /\ r \in reb[n].todo /\ UNCHANGED store
          /\ reb' = [reb EXCEPT ![n] = Sending(n, reb[n].cur, reb[n].todo \ {r})]
        BY <1>3, <1>7 DEF RebPush
    <2>2. reb[n].cur \in Keys /\ reb[n].snap[reb[n].cur] # Nil  BY <2>1 DEF AtKey
    <2>3. reb[n].todo \ {r} \in SUBSET Nodes  BY <1>3
    <2>4. reb' \in [Nodes -> Rebalancer] /\ AtKey'  BY <2>1, <2>2, <2>3, SendingTypes
    <2>5. opened' \subseteq Dials  BY <1>7 DEF RebPush, TypeOK
    <2>6. reb[n].snap[reb[n].cur] \in Values  BY <1>3, <2>2 DEF Entry
    <2>7. pushes' \subseteq [to : Nodes, key : Keys, val : Values]
        <3>1. [to |-> r, key |-> reb[n].cur, val |-> reb[n].snap[reb[n].cur]]
                  \in [to : Nodes, key : Keys, val : Values]
            BY <2>2, <2>6
        <3> QED  BY <1>7, <3>1 DEF RebPush, TypeOK
    <2> QED  BY <1>1, <2>1, <2>4, <2>5, <2>7 DEF TypeOK
<1> QED  BY <1>2, <1>4, <1>5, <1>6, <1>7 DEF RebStep

(* A rebalancer's SET arrives or is lost.                                  *)
LEMMA PushTypes ==
    ASSUME TypeOK, Called, AtKey, NEW p \in pushes, HandlePush(p) \/ LosePush(p)
    PROVE  TypeOK' /\ Called' /\ AtKey'
<1>1. UNCHANGED <<op, wait, wire, applied, hash, alive, peers, hooks, opened, reb>>
    BY DEF HandlePush, LosePush, calls, topo
<1>2. p \in [to : Nodes, key : Keys, val : Values]  BY DEF TypeOK
<1>3. pushes' \subseteq [to : Nodes, key : Keys, val : Values]
    BY DEF TypeOK, HandlePush, LosePush
<1>4. store' \in [Nodes -> [Keys -> Entry]]
    <2>1. store \in [Nodes -> [Keys -> Entry]] /\ p.val \in Entry
        BY <1>2 DEF TypeOK, Entry
    <2>2. CASE LosePush(p)  BY <2>1, <2>2 DEF LosePush
    <2>3. CASE HandlePush(p)
        <3>1. \E v \in Entry : store' = [store EXCEPT ![p.to][p.key] = v]
            BY <1>2, <2>1, <2>3 DEF HandlePush
        <3> QED  BY <1>2, <2>1, <3>1
    <2> QED  BY <2>2, <2>3
<1>5. Called' /\ AtKey'  BY <1>1 DEF Called, AtKey
<1> QED  BY <1>1, <1>3, <1>4, <1>5 DEF TypeOK

(* Every step of the system keeps the types.                               *)
LEMMA NextTypes ==
    ASSUME TypeOK, Called, AtKey, Next
    PROVE  TypeOK' /\ Called' /\ AtKey'
<1>1. CASE Client
    <2>1. ASSUME NEW i \in Ops, NEW n \in Nodes, NEW k \in Keys, StartGet(i, n, k)
          PROVE  TypeOK' /\ Called' /\ AtKey'
        <3>1. UNCHANGED <<topo, reb, pushes>>  BY <2>1 DEF StartGet
        <3> QED  BY <2>1, <3>1, StartGetTypes, CallingTypes DEF Calling
    <2>2. ASSUME NEW i \in Ops, NEW n \in Nodes, NEW k \in Keys, NEW kind \in Kinds,
                 NEW v \in Entry, StartReplicated(i, n, kind, k, v)
          PROVE  TypeOK' /\ Called' /\ AtKey'
        <3>1. UNCHANGED <<topo, reb, pushes>>  BY <2>2 DEF StartReplicated
        <3> QED  BY <2>2, <3>1, StartReplicatedTypes, CallingTypes DEF Calling
    <2>3. Nil \in Entry /\ Values \subseteq Entry  BY DEF Entry
    <2> QED  BY <1>1, <2>1, <2>2, <2>3 DEF Client
<1>2. CASE Topology  BY <1>2, TopologyTypes
<1>3. CASE Network
    <2>1. ASSUME NEW i \in Ops, NEW r \in Nodes, LoseLeg(i, r)
          PROVE  TypeOK' /\ Called' /\ AtKey'
        <3>1. UNCHANGED <<topo, reb, pushes>>  BY <2>1 DEF LoseLeg
        <3> QED  BY <2>1, <3>1, LoseLegTypes, CallingTypes DEF Calling
    <2> QED  BY <1>3, <2>1, PushTypes DEF Network
<1>4. ASSUME NEW i \in Ops, CallStep(i)
      PROVE  TypeOK' /\ Called' /\ AtKey'
    <2>1. UNCHANGED <<topo, reb, pushes>>
        BY <1>4 DEF CallStep, LocalLeg, StorePrimary, Finish, SendLeg, HandleLeg, AnswerLeg, TimeoutLeg
    <2>2. Calling
        BY <1>4, LocalLegTypes, StorePrimaryTypes, FinishTypes, SendLegTypes, HandleLegTypes,
           AnswerLegTypes, TimeoutLegTypes
        DEF CallStep
    <2> QED  BY <2>1, <2>2, CallingTypes DEF Calling
<1>5. ASSUME NEW n \in Nodes, RebStep(n)
      PROVE  TypeOK' /\ Called' /\ AtKey'
    BY <1>5, RebStepTypes
<1> QED  BY <1>1, <1>2, <1>3, <1>4, <1>5 DEF Next

-----------------------------------------------------------------------------
(* What reports success: an answer in flight, or a replica that did it.    *)
LEMMA StillHonest ==
    ASSUME Honest, \A j \in Ops : applied[j] \subseteq applied'[j],
           \A j \in Ops, r \in Nodes : wait'[j][r] = "ok" \/ wire'[j][r] = "ok"
               => wait[j][r] = "ok" \/ wire[j][r] = "ok" \/ r \in applied'[j]
    PROVE  Honest'
BY DEF Honest

(* A write that has returned stays as it was.                              *)
LEMMA StillReturned ==
    ASSUME Returned,
           \A j \in Ops : \/ op'[j].kind = "get" \/ op'[j].st \notin {"ok", "fail"}
                          \/ /\ op'[j].kind = op[j].kind /\ op'[j].st = op[j].st
                             /\ wait'[j] = wait[j]
    PROVE  Returned'
<1> SUFFICES ASSUME NEW j \in Ops, op'[j].kind # "get", op'[j].st \in {"ok", "fail"}
             PROVE  /\ \A r \in Nodes : wait'[j][r] \notin {"go", "wait"}
                    /\ op'[j].st = "ok" => Cardinality(Succeeded(j)') >= Quorum(LegsOf(j)')
    BY DEF Returned
<1>1. op'[j].kind = op[j].kind /\ op'[j].st = op[j].st /\ wait'[j] = wait[j]  OBVIOUS
<1>2. Succeeded(j)' = Succeeded(j) /\ LegsOf(j)' = LegsOf(j)
    BY <1>1 DEF Succeeded, LegsOf
<1> QED  BY <1>1, <1>2 DEF Returned

(* The client's steps: a new call has no leg that succeeded.               *)
LEMMA ClientCounts ==
    ASSUME IInv, Client
    PROVE  Honest' /\ Returned'
<1>0. op \in [Ops -> Call] /\ wait \in [Ops -> [Nodes -> Leg]]  BY DEF IInv, TypeOK
<1>1. ASSUME NEW i \in Ops, NEW n \in Nodes, NEW k \in Keys, StartGet(i, n, k)
      PROVE  Honest' /\ Returned'
    <2>1. UNCHANGED <<wire, applied>>  BY <1>1 DEF StartGet
    <2>2. op'[i].kind = "get" /\ \A j \in Ops : j # i => op'[j] = op[j]
        BY <1>0, <1>1 DEF StartGet
    <2>3. hash[n][k] \in Nodes \cup {Nil}  BY DEF IInv, TypeOK
    <2>4. wait' = wait \/ (hash[n][k] \in Nodes /\ wait' = [wait EXCEPT ![i][hash[n][k]] = "go"])
        BY <1>1, <2>3 DEF StartGet
    <2>5. \A j \in Ops, r \in Nodes :
              (j # i => wait'[j] = wait[j]) /\ (wait'[j][r] = "ok" => wait[j][r] = "ok")
        BY <1>0, <2>4
    <2> QED  BY <2>1, <2>2, <2>5, StillHonest, StillReturned DEF IInv
<1>2. ASSUME NEW i \in Ops, NEW n \in Nodes, NEW k \in Keys, NEW kind \in Kinds,
             NEW v \in Entry, StartReplicated(i, n, kind, k, v)
      PROVE  Honest' /\ Returned'
    <2>1. UNCHANGED <<wire, applied>>  BY <1>2 DEF StartReplicated
    <2>2. op'[i].st = "run" /\ \A j \in Ops : j # i => op'[j] = op[j] /\ wait'[j] = wait[j]
        BY <1>0, <1>2 DEF StartReplicated
    <2>3. \A r \in Nodes : wait'[i][r] # "ok"  BY <1>0, <1>2 DEF StartReplicated
    <2> QED  BY <2>1, <2>2, <2>3, StillHonest, StillReturned DEF IInv
<1>3. Nil \in Entry /\ Values \subseteq Entry  BY DEF Entry
<1> QED  BY <1>1, <1>2, <1>3 DEF Client

(* A call's steps: a leg succeeds when the operation did, or an answer     *)
(* says so, and only while the call has not returned.                      *)
LEMMA CallCounts ==
    ASSUME IInv, NEW i \in Ops, CallStep(i)
    PROVE  Honest' /\ Returned'
<1>0. /\ op \in [Ops -> Call] /\ wait \in [Ops -> [Nodes -> Leg]] /\ wire \in [Ops -> [Nodes -> Msg]]
      /\ applied \in [Ops -> SUBSET Nodes]
    BY DEF IInv, TypeOK
<1>1. CASE LocalLeg(i)
    <2> DEFINE n == op[i].at
               v == IF Succeeds(i, n) THEN "ok" ELSE "err"
    <2>1. /\ op[i].st = "run" /\ Apply(i, n) /\ wait' = [wait EXCEPT ![i][n] = v]
          /\ UNCHANGED <<op, wire>>
        BY <1>1 DEF LocalLeg
    <2>2. n \in Nodes /\ op[i].key \in Keys  BY <2>1 DEF IInv, Called
    <2>3. (\A j \in Ops : applied[j] \subseteq applied'[j]) /\ (v = "ok" => n \in applied'[i])
        BY <2>1, <2>2, Applied DEF IInv
    <2>4. v \in Leg  BY DEF Leg
    <2> HIDE DEF n, v
    <2>5. /\ \A j \in Ops : j # i => wait'[j] = wait[j]
          /\ wait'[i][n] = v /\ \A q \in Nodes : q # n => wait'[i][q] = wait[i][q]
        BY <1>0, <2>1, <2>2, <2>4, SetLeg
    <2>6. Honest'  BY <2>1, <2>3, <2>5, StillHonest DEF IInv
    <2>7. Returned'  BY <2>1, <2>5, StillReturned DEF IInv
    <2> QED  BY <2>6, <2>7
<1>2. CASE StorePrimary(i)
    <2>1. /\ op[i].st = "routed" /\ op' = [op EXCEPT ![i].st = "run"]
          /\ wait' = [wait EXCEPT ![i][op[i].to] = "go"] /\ UNCHANGED <<wire, applied>>
        BY <1>2 DEF StorePrimary
    <2>2. op[i].to \in Nodes /\ "go" \in Leg  BY <2>1 DEF IInv, Called, Leg
    <2>3. op'[i].st = "run" /\ \A j \in Ops : j # i => op'[j] = op[j]  BY <1>0, <2>1 DEF Call
    <2>4. /\ \A j \in Ops : j # i => wait'[j] = wait[j]
          /\ \A q \in Nodes : wait'[i][q] = "ok" => wait[i][q] = "ok"
        BY <1>0, <2>1, <2>2
    <2> QED  BY <2>1, <2>3, <2>4, StillHonest, StillReturned DEF IInv
<1>3. CASE Finish(i)
    <2> DEFINE s == IF Cardinality(Succeeded(i)) >= Quorum(LegsOf(i)) THEN "ok" ELSE "fail"
    <2>1. /\ \A r \in Nodes : wait[i][r] \notin {"go", "wait"}
          /\ op' = [op EXCEPT ![i].st = s] /\ UNCHANGED <<wait, wire, applied>>
        BY <1>3 DEF Finish
    <2>2. Honest'  BY <2>1, StillHonest DEF IInv
    <2>3. /\ Succeeded(i)' = Succeeded(i) /\ LegsOf(i)' = LegsOf(i)
          /\ \A j \in Ops : Succeeded(j)' = Succeeded(j) /\ LegsOf(j)' = LegsOf(j)
        BY <2>1 DEF Succeeded, LegsOf
    <2>4. /\ op'[i].st = s /\ op'[i].kind = op[i].kind
          /\ \A j \in Ops : j # i => op'[j] = op[j]
        BY <1>0, <2>1 DEF Call
    <2>5. s = "ok" => Cardinality(Succeeded(i)) >= Quorum(LegsOf(i))  OBVIOUS
    <2> HIDE DEF s
    <2>6. Returned'
        <3> SUFFICES ASSUME NEW j \in Ops, op'[j].kind # "get"
                     PROVE  /\ op'[j].st \in {"ok", "fail"}
                                => \A r \in Nodes : wait'[j][r] \notin {"go", "wait"}
                            /\ op'[j].st = "ok"
                                => Cardinality(Succeeded(j)') >= Quorum(LegsOf(j)')
            BY DEF Returned
        <3>1. CASE j = i  BY <2>1, <2>3, <2>4, <2>5, <3>1
        <3>2. CASE j # i  BY <2>1, <2>3, <2>4, <3>2 DEF IInv, Returned
        <3> QED  BY <3>1, <3>2
    <2> QED  BY <2>2, <2>6
<1>4. ASSUME NEW r \in Nodes, SendLeg(i, r)
      PROVE  Honest' /\ Returned'
    <2>1. op[i].st = "run" /\ UNCHANGED <<op, applied>>  BY <1>4 DEF SendLeg
    <2>2. \E v \in {"wait", "down"} : wait' = [wait EXCEPT ![i][r] = v]  BY <1>4 DEF SendLeg
    <2>3. wire' = wire \/ wire' = [wire EXCEPT ![i][r] = "request"]  BY <1>4 DEF SendLeg
    <2>4. /\ \A j \in Ops : j # i => wait'[j] = wait[j]
          /\ \A q \in Nodes : wait'[i][q] = "ok" => wait[i][q] = "ok"
        BY <1>0, <2>2
    <2>5. \A j \in Ops, q \in Nodes : wire'[j][q] = "ok" => wire[j][q] = "ok"  BY <1>0, <2>3
    <2> QED  BY <2>1, <2>4, <2>5, StillHonest, StillReturned DEF IInv
<1>5. ASSUME NEW r \in Nodes, HandleLeg(i, r)
      PROVE  Honest' /\ Returned'
    <2> DEFINE m == IF Result(i, r) = "ok" THEN "ok" ELSE "err"
    <2>1. /\ wire[i][r] = "request" /\ Apply(i, r) /\ wire' = [wire EXCEPT ![i][r] = m]
          /\ UNCHANGED wait
        BY <1>5 DEF HandleLeg
    <2>2. op[i].key \in Keys /\ m \in Msg  BY <2>1 DEF IInv, Called, Msg
    <2>3. (\A j \in Ops : applied[j] \subseteq applied'[j]) /\ (m = "ok" => r \in applied'[i])
        BY <2>1, <2>2, Applied DEF IInv, Succeeds
    <2> HIDE DEF m
    <2>4. /\ \A j \in Ops : j # i => wire'[j] = wire[j]
          /\ wire'[i][r] = m /\ \A q \in Nodes : q # r => wire'[i][q] = wire[i][q]
        BY <1>0, <2>1, <2>2, SetLeg
    <2>5. Honest'  BY <2>1, <2>3, <2>4, StillHonest DEF IInv
    <2>6. op' = op \/ op' = [op EXCEPT ![i].val = store[r][op[i].key]]  BY <1>5 DEF HandleLeg
    <2>7. \A j \in Ops : op'[j].st = op[j].st /\ op'[j].kind = op[j].kind
        <3>1. CASE op' = op  BY <3>1
        <3>2. CASE op' = [op EXCEPT ![i].val = store[r][op[i].key]]
            <4>1. op[i] \in Call  BY <1>0
            <4> QED  BY <1>0, <3>2, <4>1 DEF Call
        <3> QED  BY <2>6, <3>1, <3>2
    <2>8. Returned'  BY <2>1, <2>7, StillReturned DEF IInv
    <2> QED  BY <2>5, <2>8
<1>6. ASSUME NEW r \in Nodes, AnswerLeg(i, r)
      PROVE  Honest' /\ Returned'
    <2> DEFINE v == IF wait[i][r] = "wait" THEN wire[i][r] ELSE wait[i][r]
    <2>1. /\ wire[i][r] \in {"ok", "err"} /\ wait' = [wait EXCEPT ![i][r] = v]
          /\ wire' = [wire EXCEPT ![i][r] = "none"] /\ UNCHANGED <<op, applied>>
        BY <1>0, <1>6 DEF AnswerLeg
    <2>2. v \in Leg /\ "none" \in Msg  BY <1>0, <2>1 DEF Leg, Msg
    <2>3. (v = "ok" => wire[i][r] = "ok" \/ wait[i][r] = "ok") /\ (wait[i][r] # "wait" => v = wait[i][r])
        OBVIOUS
    <2> HIDE DEF v
    <2>4. /\ wait' \in [Ops -> [Nodes -> Leg]] /\ \A j \in Ops : j # i => wait'[j] = wait[j]
          /\ wait'[i][r] = v /\ \A q \in Nodes : q # r => wait'[i][q] = wait[i][q]
        BY <1>0, <2>1, <2>2, SetLeg
    <2>5. /\ \A j \in Ops : j # i => wire'[j] = wire[j]
          /\ wire'[i][r] = "none" /\ \A q \in Nodes : q # r => wire'[i][q] = wire[i][q]
        BY <1>0, <2>1, <2>2, SetLeg
    <2>6. Honest'  BY <2>1, <2>3, <2>4, <2>5, StillHonest DEF IInv
    <2>7. CASE wait[i][r] = "wait"
        <3>1. op[i].kind = "get" \/ op[i].st \notin {"ok", "fail"}  BY <2>7 DEF IInv, Returned
        <3>2. Returned'  BY <2>1, <2>4, <3>1, StillReturned DEF IInv
        <3> QED  BY <2>6, <3>2
    <2>8. CASE wait[i][r] # "wait"
        <3>1. wait' = wait  BY <1>0, <2>1, <2>3, <2>8
        <3>2. Returned'  BY <2>1, <3>1, StillReturned DEF IInv
        <3> QED  BY <2>6, <3>2
    <2> QED  BY <2>7, <2>8
<1>7. ASSUME NEW r \in Nodes, TimeoutLeg(i, r)
      PROVE  Honest' /\ Returned'
    <2>1. /\ wait[i][r] = "wait" /\ wait' = [wait EXCEPT ![i][r] = "late"]
          /\ UNCHANGED <<op, wire, applied>>
        BY <1>7 DEF TimeoutLeg
    <2>2. /\ \A j \in Ops : j # i => wait'[j] = wait[j]
          /\ \A q \in Nodes : wait'[i][q] = "ok" => wait[i][q] = "ok"
        BY <1>0, <2>1
    <2>3. op[i].kind = "get" \/ op[i].st \notin {"ok", "fail"}  BY <2>1 DEF IInv, Returned
    <2>4. Honest'  BY <2>1, <2>2, StillHonest DEF IInv
    <2>5. Returned'  BY <2>1, <2>2, <2>3, StillReturned DEF IInv
    <2> QED  BY <2>4, <2>5
<1> QED  BY <1>1, <1>2, <1>3, <1>4, <1>5, <1>6, <1>7 DEF CallStep

-----------------------------------------------------------------------------
(* The invariant, of which both theorems are consequences.                 *)
LEMMA Invariant == Spec => []IInv
<1>1. Init => IInv
    <2>1. ASSUME Init PROVE Honest /\ Returned  BY <2>1 DEF Init, IdleCall, Honest, Returned
    <2> QED  BY <2>1, Initially DEF IInv
<1>2. IInv /\ [Next]_vars => IInv'
    <2> SUFFICES ASSUME IInv, [Next]_vars PROVE IInv'  OBVIOUS
    <2>1. CASE Next
        <3>1. TypeOK' /\ Called' /\ AtKey'  BY <2>1, NextTypes DEF IInv
        <3>2. CASE Client  BY <3>1, <3>2, ClientCounts DEF IInv
        <3>3. CASE Topology \/ (\E n \in Nodes : RebStep(n)) \/ (\E p \in pushes : HandlePush(p) \/ LosePush(p))
            <4>1. UNCHANGED <<op, wait, wire, applied>>
                BY <3>3 DEF Topology, NotifyJoin, AcceptConn, NotifyLeave, Hook, Crash, calls, RebStep,
                            RebStart, RebDrop, RebKeep, RebPush, HandlePush, LosePush
            <4>2. Honest' /\ Returned'  BY <4>1, StillHonest, StillReturned DEF IInv
            <4> QED  BY <3>1, <4>2 DEF IInv
        <3>4. ASSUME NEW i \in Ops, NEW r \in Nodes, LoseLeg(i, r)
              PROVE  IInv'
            <4>1. UNCHANGED <<op, wait, applied>> /\ wire' = [wire EXCEPT ![i][r] = "none"]
                BY <3>4 DEF LoseLeg
            <4>2. \A j \in Ops, q \in Nodes : wire'[j][q] = "ok" => wire[j][q] = "ok"
                BY <4>1 DEF IInv, TypeOK
            <4>3. Honest' /\ Returned'  BY <4>1, <4>2, StillHonest, StillReturned DEF IInv
            <4> QED  BY <3>1, <4>3 DEF IInv
        <3>5. ASSUME NEW i \in Ops, CallStep(i)
              PROVE  IInv'
            BY <3>1, <3>5, CallCounts DEF IInv
        <3> QED  BY <2>1, <3>2, <3>3, <3>4, <3>5 DEF Next, Network
    <2>2. CASE UNCHANGED vars
        BY <2>2 DEF IInv, TypeOK, Called, AtKey, Honest, Returned, Succeeded, LegsOf, vars
    <2> QED  BY <2>1, <2>2
<1> QED  BY <1>1, <1>2, PTL DEF Spec

(* Every state of the cluster is of its types: a call that waits has a     *)
(* node and a key, and a rebalancer never sends a key without a value.     *)
THEOREM TypeCorrect == Spec => []TypeOK
<1>1. IInv => TypeOK  BY DEF IInv
<1> QED  BY <1>1, Invariant, PTL

(* setReplicated and its like: what is acknowledged has taken effect on a  *)
(* majority of the replicas it was sent to, whatever was lost, late,       *)
(* refused, crashed or rebalanced, and for ever.                           *)
THEOREM AckedByQuorum == Spec => []AckedOnQuorum
<1>1. IInv => AckedOnQuorum
    <2> SUFFICES ASSUME IInv, NEW i \in Ops, op[i].st = "ok", op[i].kind # "get"
                 PROVE  Cardinality(applied[i] \cap LegsOf(i)) >= Quorum(LegsOf(i))
        BY DEF AckedOnQuorum, Acked
    <2>1. Cardinality(Succeeded(i)) >= Quorum(LegsOf(i))  BY DEF IInv, Returned
    <2>2. Succeeded(i) \subseteq applied[i] \cap LegsOf(i)
        BY DEF IInv, Honest, Succeeded, LegsOf
    <2>3. LegsOf(i) \subseteq Nodes /\ IsFiniteSet(Nodes)  BY ReplicatedCacheAssumption DEF LegsOf
    <2>4. IsFiniteSet(LegsOf(i)) /\ IsFiniteSet(applied[i] \cap LegsOf(i))  BY <2>3, FS_Subset
    <2>5. /\ Cardinality(Succeeded(i)) \in Nat /\ Cardinality(applied[i] \cap LegsOf(i)) \in Nat
          /\ Cardinality(Succeeded(i)) <= Cardinality(applied[i] \cap LegsOf(i))
        BY <2>2, <2>4, FS_Subset, FS_CardinalityType
    <2>6. Quorum(LegsOf(i)) \in Int
        <3>1. Cardinality(LegsOf(i)) \in Nat  BY <2>4, FS_CardinalityType
        <3> QED  BY <3>1 DEF Quorum
    <2> QED  BY <2>1, <2>5, <2>6
<1> QED  BY <1>1, Invariant, PTL

-----------------------------------------------------------------------------
(* How many nodes may come or go before an acknowledged Set can be lost.   *)
(* The nodes that are not members yet and the nodes that may crash are     *)
(* together fewer than a quorum of a key's replicas in the whole cluster,  *)
(* and calls are made at members.                                          *)
FewChanges ==
    /\ Callers \subseteq Members
    /\ \A k \in Keys : Cardinality(Nodes \ Members) + MaxCrashes < Quorum(ReplicaNodes(Nodes, k))

(* The nodes that some node's view may lack.                               *)
Gone == (Nodes \ alive) \cup (Nodes \ Members)

(* No more nodes have crashed than may, and running members know of each   *)
(* other.                                                                  *)
Connected ==
    /\ Cardinality(Nodes \ alive) <= MaxCrashes
    /\ \A n \in Members : Members \cap alive \subseteq View(n)

(* A call is nothing before it is made, only a Get is routed, and a Set    *)
(* carries a value.                                                        *)
Written ==
    \A i \in Ops : /\ op[i].st = "idle" => op[i].kind = "none" /\ applied[i] = {}
                   /\ op[i].st = "routed" => op[i].kind = "get"
                   /\ op[i].kind = "set" => op[i].val \in Values

(* A write was sent to the replicas of a view that lacked only nodes that  *)
(* had crashed or were to join.                                            *)
Sent ==
    \A i \in Ops, k \in Keys : op[i].kind \notin {"none", "get"} /\ op[i].key = k =>
        \E E \in SUBSET Gone : LegsOf(i) = ReplicaNodes(Nodes \ E, k)

Undeleted(k) == \A j \in Ops : op[j].kind = "delete" => op[j].key # k

(* A node at which a Set took effect has the key as long as it runs and    *)
(* nobody deletes the key, when it is a replica for the whole cluster: no  *)
(* rebalancer drops the key there, whatever its node's view.               *)
Kept ==
    \A i \in Ops, k \in Keys : op[i].kind = "set" /\ op[i].key = k /\ Undeleted(k) =>
        \A n \in applied[i] \cap alive \cap ReplicaNodes(Nodes, k) : store[n][k] # Nil

Lasting == Connected /\ Written /\ Sent /\ Kept

(* Steps that leave the nature of the calls alone.                         *)
SameCalls ==
    \A j \in Ops : /\ op'[j].kind = op[j].kind /\ op'[j].key = op[j].key
                   /\ op'[j].val = op[j].val \/ op[j].kind = "get"
                   /\ op'[j].st = "idle" => op[j].st = "idle" /\ applied'[j] = applied[j]
                   /\ op'[j].st = "routed" => op[j].st = "routed"

SameLegs ==
    \A j \in Ops : op[j].kind # "get" =>
        \A r \in Nodes : wait'[j][r] = "none" <=> wait[j][r] = "none"

(* Where a call's replicas stay and nodes only crash, Sent stays.          *)
LEMMA StillSent ==
    ASSUME Sent, alive' \subseteq alive,
           \A j \in Ops : op'[j].kind \notin {"none", "get"} =>
               /\ op[j].kind = op'[j].kind /\ op[j].key = op'[j].key
               /\ \A r \in Nodes : wait'[j][r] = "none" <=> wait[j][r] = "none"
    PROVE  Sent'
<1> SUFFICES ASSUME NEW j \in Ops, NEW k \in Keys, op'[j].kind \notin {"none", "get"}, op'[j].key = k
             PROVE  \E E \in SUBSET Gone' : LegsOf(j)' = ReplicaNodes(Nodes \ E, k)
    BY DEF Sent
<1>1. LegsOf(j)' = LegsOf(j)  BY DEF LegsOf
<1>2. Gone \subseteq Gone'  BY DEF Gone
<1>3. PICK E \in SUBSET Gone : LegsOf(j) = ReplicaNodes(Nodes \ E, k)  BY DEF Sent
<1> QED  BY <1>1, <1>2, <1>3

(* What is held stays held where a step clears no entry of a key that      *)
(* nobody deletes, at a running node that is a lasting replica of it, and  *)
(* where a node at which a Set takes effect has the key afterwards.        *)
LEMMA StillKept ==
    ASSUME Kept, alive' \subseteq alive,
           \A j \in Ops : op'[j].kind = "set" => \/ op[j].kind = "set" /\ op'[j].key = op[j].key
                                                 \/ applied'[j] = {},
           \A j \in Ops : op[j].kind = "delete" => op'[j].kind = "delete" /\ op'[j].key = op[j].key,
           \A k \in Keys : Undeleted(k)' => \A n \in alive' \cap ReplicaNodes(Nodes, k) :
               store[n][k] # Nil => store'[n][k] # Nil,
           \A j \in Ops : op[j].kind = "set" =>
               \A n \in applied'[j] \ applied[j] : store'[n][op[j].key] # Nil
    PROVE  Kept'
<1> SUFFICES ASSUME NEW j \in Ops, NEW k \in Keys, op'[j].kind = "set", op'[j].key = k, Undeleted(k)',
                    NEW n \in applied'[j] \cap alive' \cap ReplicaNodes(Nodes, k)
             PROVE  store'[n][k] # Nil
    BY DEF Kept
<1>1. op[j].kind = "set" /\ op[j].key = k  OBVIOUS
<1>2. Undeleted(k)  BY DEF Undeleted
<1>3. CASE n \in applied[j]
    <2>1. store[n][k] # Nil  BY <1>1, <1>2, <1>3 DEF Kept
    <2> QED  BY <2>1
<1>4. CASE n \notin applied[j]  BY <1>1, <1>4
<1> QED  BY <1>3, <1>4

(* A step that leaves the calls, the entries and the views alone.          *)
LEMMA StillWritten ==
    ASSUME Written, SameCalls
    PROVE  Written'
BY DEF Written, SameCalls

(* A fresh cluster.                                                        *)
LEMMA LastingInitially == ASSUME FewChanges, Init PROVE Lasting
<1>1. Connected
    <2>1. Nodes \ alive = {}  BY DEF Init
    <2>2. Cardinality(Nodes \ alive) <= MaxCrashes
        <3>1. Cardinality(Nodes \ alive) = 0  BY <2>1, FS_EmptySet
        <3> QED  BY <3>1, ReplicatedCacheAssumption
    <2>3. ASSUME NEW n \in Members PROVE Members \subseteq View(n)
        BY ReplicatedCacheAssumption DEF Init, View
    <2> QED  BY <2>2, <2>3 DEF Connected
<1>2. Written /\ Sent /\ Kept  BY DEF Init, IdleCall, Written, Sent, Kept
<1> QED  BY <1>1, <1>2 DEF Lasting

(* The views' replicas when a write starts.                                *)
LEMMA StartSends ==
    ASSUME TypeOK, Connected, NEW n \in Members \cap alive, NEW k \in Keys
    PROVE  \E E \in SUBSET Gone : ReplicaNodes(View(n), k) = ReplicaNodes(Nodes \ E, k)
<1>1. View(n) \subseteq Nodes  BY ReplicatedCacheAssumption DEF View, TypeOK
<1>2. Nodes \ View(n) \subseteq Gone  BY DEF Connected, Gone
<1>3. Nodes \ (Nodes \ View(n)) = View(n)  BY <1>1
<1> QED  BY <1>2, <1>3

(* The local operation at a running node clears no entry but that of a     *)
(* Delete, and leaves an entry where a Set takes effect.                   *)
LEMMA AppliedKeeps ==
    ASSUME TypeOK, Written, Sent, Kept, NEW i \in Ops, NEW n \in Nodes, op[i].key \in Keys,
           op[i].st # "idle", Apply(i, n), SameCalls, SameLegs, UNCHANGED <<alive, peers>>
    PROVE  Written' /\ Sent' /\ Kept'
<1>1. /\ store \in [Nodes -> [Keys -> Entry]] /\ applied \in [Ops -> SUBSET Nodes]
      /\ store' = [store EXCEPT ![n][op[i].key] = Leaves(i, n)]
      /\ applied' = [applied EXCEPT ![i] = IF Succeeds(i, n) THEN @ \cup {n} ELSE @]
    BY DEF TypeOK, Apply
<1>2. \A m \in Nodes, k \in Keys : m # n \/ k # op[i].key => store'[m][k] = store[m][k]
    BY <1>1
<1>3. store'[n][op[i].key] = Leaves(i, n)  BY <1>1
<1>4. op[i].kind # "delete" /\ store[n][op[i].key] # Nil => Leaves(i, n) # Nil
    BY ReplicatedCacheAssumption DEF Leaves, Written
<1>5. op[i].kind = "set" /\ Succeeds(i, n) => Leaves(i, n) # Nil
    BY ReplicatedCacheAssumption DEF Leaves, Succeeds, Written
<1>6. \A j \in Ops : applied'[j] \ applied[j] # {} => j = i /\ Succeeds(i, n)
                                                      /\ applied'[j] \ applied[j] \subseteq {n}
    BY <1>1
<1>7. \A j \in Ops : op[j].kind = "set" =>
          \A m \in applied'[j] \ applied[j] : store'[m][op[j].key] # Nil
    BY <1>3, <1>5, <1>6
<1>8. \A k \in Keys : Undeleted(k)' =>
          \A m \in alive' \cap ReplicaNodes(Nodes, k) : store[m][k] # Nil => store'[m][k] # Nil
    <2> SUFFICES ASSUME NEW k \in Keys, Undeleted(k)', NEW m \in alive', store[m][k] # Nil
                 PROVE  store'[m][k] # Nil
        OBVIOUS
    <2>1. m \in Nodes  BY DEF TypeOK
    <2>2. op[i].kind = "delete" => op[i].key # k  BY DEF SameCalls, Undeleted
    <2> QED  BY <1>2, <1>3, <1>4, <2>1, <2>2
<1>9. Kept'  BY <1>7, <1>8, StillKept DEF SameCalls
<1>10. Sent'  BY StillSent DEF SameCalls, SameLegs
<1> QED  BY <1>9, <1>10, StillWritten

(* A step of the calls that takes effect nowhere.                          *)
LEMMA SteadyKeeps ==
    ASSUME Written, Sent, Kept, SameCalls, SameLegs, UNCHANGED <<alive, peers, store, applied>>
    PROVE  Written' /\ Sent' /\ Kept'
<1>1. Kept'  BY StillKept DEF SameCalls
<1>2. Sent'  BY StillSent DEF SameCalls, SameLegs
<1> QED  BY <1>1, <1>2, StillWritten

(* The client's steps: a write goes to the replicas of its caller's view.  *)
LEMMA ClientLasts ==
    ASSUME FewChanges, IInv, Lasting, Client
    PROVE  Lasting'
<1>0. op \in [Ops -> Call] /\ wait \in [Ops -> [Nodes -> Leg]]  BY DEF IInv, TypeOK
<1>1. ASSUME NEW i \in Ops, NEW n \in Nodes, NEW k \in Keys, StartGet(i, n, k)
      PROVE  Lasting'
    <2>1. UNCHANGED <<alive, peers, store, applied>> /\ op[i].st = "idle"
        BY <1>1 DEF StartGet, topo, CanCall
    <2>2. op'[i].kind = "get" /\ \A j \in Ops : j # i => op'[j] = op[j]
        BY <1>0, <1>1 DEF StartGet
    <2>3. op'[i].st # "idle"  BY <1>0, <1>1 DEF StartGet
    <2>4. \A j \in Ops : j # i => wait'[j] = wait[j]  BY <1>0, <1>1 DEF StartGet
    <2>5. op[i].kind = "none"  BY <2>1 DEF Lasting, Written
    <2>6. Sent'  BY <2>1, <2>2, <2>4, StillSent DEF Lasting
    <2>7. Kept'  BY <2>1, <2>2, <2>5, StillKept DEF Lasting
    <2>8. Written'
        <3>1. \A j \in Ops : applied'[j] = applied[j]  BY <2>1
        <3> QED  BY <2>2, <2>3, <3>1 DEF Lasting, Written
    <2>9. Connected'  BY <2>1 DEF Lasting, Connected, View
    <2> QED  BY <2>6, <2>7, <2>8, <2>9 DEF Lasting
<1>2. ASSUME NEW i \in Ops, NEW n \in Nodes, NEW k \in Keys, NEW kind \in Kinds,
             NEW v \in Entry, kind = "set" => v \in Values, StartReplicated(i, n, kind, k, v)
      PROVE  Lasting'
    <2>1. /\ UNCHANGED <<alive, peers, store, applied>> /\ op[i].st = "idle"
          /\ n \in alive \cap Callers /\ kind # "get"
        BY <1>2 DEF StartReplicated, topo, CanCall
    <2>2. /\ op'[i].st = "run" /\ op'[i].kind = kind /\ op'[i].key = k
          /\ kind = "set" => op'[i].val = v
          /\ \A j \in Ops : j # i => op'[j] = op[j] /\ wait'[j] = wait[j]
        BY <1>0, <1>2 DEF StartReplicated
    <2>3. op[i].kind = "none" /\ applied[i] = {}  BY <2>1 DEF Lasting, Written
    <2>4. LegsOf(i)' = ReplicaNodes(View(n), k)
        <3>1. \A r \in Nodes : wait'[i][r] = IF r \in ReplicaNodes(View(n), k) THEN "go" ELSE "none"
            BY <1>0, <1>2 DEF StartReplicated
        <3>2. ReplicaNodes(View(n), k) \subseteq Nodes  BY Chosen DEF IInv
        <3> QED  BY <3>1, <3>2 DEF LegsOf
    <2>5. Sent'
        <3>1. Gone' = Gone  BY <2>1 DEF Gone
        <3>2. \E E \in SUBSET Gone : ReplicaNodes(View(n), k) = ReplicaNodes(Nodes \ E, k)
            BY <2>1, StartSends DEF FewChanges, Lasting, IInv
        <3> SUFFICES ASSUME NEW j \in Ops, NEW q \in Keys,
                            op'[j].kind \notin {"none", "get"}, op'[j].key = q
                     PROVE  \E E \in SUBSET Gone' : LegsOf(j)' = ReplicaNodes(Nodes \ E, q)
            BY DEF Sent
        <3>3. CASE j = i
            <4>1. q = k  BY <2>2, <3>3
            <4> QED  BY <2>4, <3>1, <3>2, <3>3, <4>1
        <3>4. CASE j # i
            <4>1. op'[j] = op[j] /\ LegsOf(j)' = LegsOf(j)  BY <2>2, <3>4 DEF LegsOf
            <4> QED  BY <3>1, <4>1 DEF Lasting, Sent
        <3> QED  BY <3>3, <3>4
    <2>6. Kept'  BY <2>1, <2>2, <2>3, StillKept DEF Lasting
    <2>7. Written'
        <3>1. \A j \in Ops : applied'[j] = applied[j]  BY <2>1
        <3> QED  BY <1>2, <2>2, <3>1 DEF Lasting, Written
    <2>8. Connected'  BY <2>1 DEF Lasting, Connected, View
    <2> QED  BY <2>5, <2>6, <2>7, <2>8 DEF Lasting
<1>3. Nil \in Entry /\ Values \subseteq Entry  BY DEF Entry
<1> QED  BY <1>1, <1>2, <1>3 DEF Client

(* A call's steps: only the goroutine of the caller's own replica and the  *)
(* handler touch the entries.                                              *)
LEMMA CallLasts ==
    ASSUME IInv, Lasting, NEW i \in Ops, CallStep(i)
    PROVE  Lasting'
<1>0. /\ op \in [Ops -> Call] /\ wait \in [Ops -> [Nodes -> Leg]] /\ wire \in [Ops -> [Nodes -> Msg]]
      /\ TypeOK
    BY DEF IInv, TypeOK
<1>1. UNCHANGED <<alive, peers>>
    BY DEF CallStep, LocalLeg, StorePrimary, Finish, SendLeg, HandleLeg, AnswerLeg, TimeoutLeg, topo
<1>2. Connected'  BY <1>1 DEF Lasting, Connected, View
<1>3. op' = op /\ SameLegs /\ UNCHANGED <<store, applied>> => Lasting'
    <2>1. op' = op /\ UNCHANGED applied => SameCalls  BY DEF SameCalls
    <2> QED  BY <1>1, <1>2, <2>1, SteadyKeeps DEF Lasting
<1>4. CASE LocalLeg(i)
    <2> DEFINE n == op[i].at
               v == IF Succeeds(i, n) THEN "ok" ELSE "err"
    <2>1. /\ op[i].st = "run" /\ Apply(i, n) /\ wait' = [wait EXCEPT ![i][n] = v] /\ op' = op
          /\ wait[i][n] = "go"
        BY <1>4 DEF LocalLeg
    <2>2. n \in Nodes /\ op[i].key \in Keys  BY <2>1 DEF IInv, Called
    <2>3. v # "none" /\ v \in Leg  BY DEF Leg
    <2> HIDE DEF n, v
    <2>4. /\ \A j \in Ops : j # i => wait'[j] = wait[j]
          /\ wait'[i][n] = v /\ \A q \in Nodes : q # n => wait'[i][q] = wait[i][q]
        BY <1>0, <2>1, <2>2, <2>3, SetLeg
    <2>5. SameLegs  BY <2>1, <2>3, <2>4 DEF SameLegs
    <2>6. \A j \in Ops : op[j].st = "idle" => applied'[j] = applied[j]
        BY <1>0, <2>1, <2>2 DEF TypeOK, Apply
    <2>7. SameCalls  BY <2>1, <2>6 DEF SameCalls
    <2> QED  BY <1>0, <1>1, <1>2, <2>1, <2>2, <2>5, <2>7, AppliedKeeps DEF Lasting
<1>5. CASE StorePrimary(i)
    <2>1. /\ op[i].st = "routed" /\ op' = [op EXCEPT ![i].st = "run"]
          /\ wait' = [wait EXCEPT ![i][op[i].to] = "go"] /\ UNCHANGED <<store, applied>>
        BY <1>5 DEF StorePrimary
    <2>2. op[i].kind = "get"  BY <2>1 DEF Lasting, Written
    <2>3. op'[i].st = "run" /\ op'[i].kind = op[i].kind /\ op'[i].key = op[i].key
          /\ \A j \in Ops : j # i => op'[j] = op[j] /\ wait'[j] = wait[j]
        BY <1>0, <2>1 DEF Call
    <2>4. SameCalls  BY <2>1, <2>2, <2>3 DEF SameCalls
    <2>5. SameLegs  BY <2>2, <2>3 DEF SameLegs
    <2> QED  BY <1>1, <1>2, <2>1, <2>4, <2>5, SteadyKeeps DEF Lasting
<1>6. CASE Finish(i)
    <2>1. /\ \E s \in {"ok", "fail"} : op' = [op EXCEPT ![i].st = s]
          /\ UNCHANGED <<wait, store, applied>>
        BY <1>6 DEF Finish
    <2>2. /\ op'[i].st \in {"ok", "fail"} /\ op'[i].kind = op[i].kind /\ op'[i].key = op[i].key
          /\ op'[i].val = op[i].val /\ \A j \in Ops : j # i => op'[j] = op[j]
        BY <1>0, <2>1 DEF Call
    <2>3. SameCalls  BY <2>1, <2>2 DEF SameCalls
    <2>4. SameLegs  BY <2>1 DEF SameLegs
    <2> QED  BY <1>1, <1>2, <2>1, <2>3, <2>4, SteadyKeeps DEF Lasting
<1>7. ASSUME NEW r \in Nodes, SendLeg(i, r)
      PROVE  Lasting'
    <2>1. op' = op /\ UNCHANGED <<store, applied>> /\ wait[i][r] = "go"  BY <1>7 DEF SendLeg
    <2>2. \E v \in {"wait", "down"} : wait' = [wait EXCEPT ![i][r] = v]  BY <1>7 DEF SendLeg
    <2>3. SameLegs  BY <1>0, <2>1, <2>2 DEF SameLegs
    <2> QED  BY <1>3, <2>1, <2>3
<1>8. ASSUME NEW r \in Nodes, HandleLeg(i, r)
      PROVE  Lasting'
    <2>0. op' = op \/ (op[i].kind = "get" /\ op' = [op EXCEPT ![i].val = store[r][op[i].key]])
        BY <1>8 DEF HandleLeg
    <2>1. wire[i][r] = "request" /\ Apply(i, r) /\ wait' = wait  BY <1>8 DEF HandleLeg
    <2>2. op[i].key \in Keys /\ op[i].st # "idle"  BY <2>1 DEF IInv, Called
    <2>3. \A j \in Ops : /\ op'[j].kind = op[j].kind /\ op'[j].key = op[j].key /\ op'[j].st = op[j].st
                         /\ op'[j].val = op[j].val \/ op[j].kind = "get"
        <3>1. CASE op' = op  BY <3>1
        <3>2. CASE op[i].kind = "get" /\ op' = [op EXCEPT ![i].val = store[r][op[i].key]]
            <4> DEFINE v == store[r][op[i].key]
            <4>1. op' = [op EXCEPT ![i].val = v]  BY <3>2
            <4> HIDE DEF v
            <4>2. \A j \in Ops : j # i => op'[j] = op[j]  BY <1>0, <4>1
            <4>3. op[i] \in Call /\ op'[i] = [op[i] EXCEPT !.val = v]  BY <1>0, <4>1
            <4>4. /\ op'[i].kind = op[i].kind /\ op'[i].key = op[i].key
                  /\ op'[i].st = op[i].st
                BY <4>3 DEF Call
            <4> QED  BY <3>2, <4>2, <4>4
        <3> QED  BY <2>0, <3>1, <3>2
    <2>4. \A j \in Ops : op[j].st = "idle" => applied'[j] = applied[j]
        BY <1>0, <2>1, <2>2 DEF TypeOK, Apply
    <2>5. SameCalls  BY <2>3, <2>4 DEF SameCalls
    <2>6. SameLegs  BY <2>1 DEF SameLegs
    <2> QED  BY <1>0, <1>1, <1>2, <2>1, <2>2, <2>5, <2>6, AppliedKeeps DEF Lasting
<1>9. ASSUME NEW r \in Nodes, AnswerLeg(i, r)
      PROVE  Lasting'
    <2> DEFINE v == IF wait[i][r] = "wait" THEN wire[i][r] ELSE wait[i][r]
    <2>1. /\ op' = op /\ UNCHANGED <<store, applied>> /\ wire[i][r] \in {"ok", "err"}
          /\ wait' = [wait EXCEPT ![i][r] = v]
        BY <1>0, <1>9 DEF AnswerLeg
    <2>2. v = "none" <=> wait[i][r] = "none"  BY <2>1
    <2>3. v \in Leg  BY <1>0, <2>1 DEF Leg
    <2> HIDE DEF v
    <2>4. /\ \A j \in Ops : j # i => wait'[j] = wait[j]
          /\ wait'[i][r] = v /\ \A q \in Nodes : q # r => wait'[i][q] = wait[i][q]
        BY <1>0, <2>1, <2>3, SetLeg
    <2>5. SameLegs  BY <2>2, <2>4 DEF SameLegs
    <2> QED  BY <1>3, <2>1, <2>5
<1>10. ASSUME NEW r \in Nodes, TimeoutLeg(i, r)
       PROVE  Lasting'
    <2>1. /\ op' = op /\ UNCHANGED <<store, applied>> /\ wait[i][r] = "wait"
          /\ wait' = [wait EXCEPT ![i][r] = "late"]
        BY <1>10 DEF TimeoutLeg
    <2>2. SameLegs  BY <1>0, <2>1 DEF SameLegs
    <2> QED  BY <1>3, <2>1, <2>2
<1> QED  BY <1>4, <1>5, <1>6, <1>7, <1>8, <1>9, <1>10 DEF CallStep

(* Steps that leave the calls alone, take no running node into the cluster *)
(* and clear no entry of a lasting replica.                                *)
LEMMA OthersKeep ==
    ASSUME Lasting, UNCHANGED calls, alive' \subseteq alive,
           \A k \in Keys : \A n \in alive' \cap ReplicaNodes(Nodes, k) :
               store[n][k] # Nil => store'[n][k] # Nil
    PROVE  Written' /\ Sent' /\ Kept'
<1>1. UNCHANGED <<op, wait, applied>>  BY DEF calls
<1>2. Written'  BY <1>1 DEF Lasting, Written
<1>3. Sent'  BY <1>1, StillSent DEF Lasting
<1>4. Kept'  BY <1>1, StillKept DEF Lasting
<1> QED  BY <1>2, <1>3, <1>4

(* Joins, failures noticed, hooks and crashes.                             *)
LEMMA TopologyLasts ==
    ASSUME IInv, Lasting, Topology
    PROVE  Lasting'
<1>0. /\ alive \subseteq Nodes /\ peers \in [Nodes -> SUBSET Nodes]
      /\ store \in [Nodes -> [Keys -> Entry]]
    BY DEF IInv, TypeOK
<1>1. ASSUME NEW n \in Nodes, NEW m \in Nodes, NotifyJoin(n, m) \/ AcceptConn(n, m) \/ NotifyLeave(n, m)
      PROVE  Lasting'
    <2>1. UNCHANGED <<alive, store, calls>>  BY <1>1 DEF NotifyJoin, AcceptConn, NotifyLeave
    <2>2. /\ \A p \in Nodes : p # n => peers'[p] = peers[p]
          /\ peers[n] \cap alive \subseteq peers'[n]
        BY <1>0, <1>1 DEF NotifyJoin, AcceptConn, NotifyLeave
    <2>3. \A p \in Nodes : View(p) \cap alive \subseteq View(p)'  BY <2>2 DEF View
    <2>4. Connected'
        <3>1. \A p \in Members : Members \cap alive \subseteq View(p)'
            BY <2>3, ReplicatedCacheAssumption DEF Lasting, Connected
        <3> QED  BY <2>1, <3>1 DEF Lasting, Connected
    <2>5. Written' /\ Sent' /\ Kept'  BY <2>1, OthersKeep
    <2> QED  BY <2>4, <2>5 DEF Lasting
<1>2. ASSUME NEW n \in Nodes, Hook(n)
      PROVE  Lasting'
    <2>1. UNCHANGED <<alive, peers, store, calls>>  BY <1>2 DEF Hook
    <2>2. Connected'  BY <2>1 DEF Lasting, Connected, View
    <2>3. Written' /\ Sent' /\ Kept'  BY <2>1, OthersKeep
    <2> QED  BY <2>2, <2>3 DEF Lasting
<1>3. ASSUME NEW n \in Nodes, Crash(n)
      PROVE  Lasting'
    <2>1. /\ n \in alive /\ Cardinality(Nodes \ alive) < MaxCrashes /\ alive' = alive \ {n}
          /\ store' = [store EXCEPT ![n] = NoKeys] /\ UNCHANGED <<peers, calls>>
        BY <1>3 DEF Crash
    <2>2. Cardinality(Nodes \ alive') <= MaxCrashes
        <3> DEFINE D == Nodes \ alive
        <3>1. IsFiniteSet(D) /\ Cardinality(D) \in Nat
            BY FS_Subset, FS_CardinalityType, ReplicatedCacheAssumption
        <3>2. n \notin D /\ Nodes \ alive' = D \cup {n} /\ Cardinality(D) < MaxCrashes
            BY <2>1
        <3> HIDE DEF D
        <3>3. Cardinality(D \cup {n}) = Cardinality(D) + 1  BY <3>1, <3>2, FS_AddElement
        <3>4. MaxCrashes \in Nat  BY ReplicatedCacheAssumption
        <3> QED  BY <3>1, <3>2, <3>3, <3>4
    <2>3. Connected'  BY <2>1, <2>2 DEF Lasting, Connected, View
    <2>4. \A k \in Keys, m \in alive' : store'[m][k] = store[m][k]  BY <1>0, <2>1
    <2>5. Written' /\ Sent' /\ Kept'  BY <2>1, <2>4, OthersKeep
    <2> QED  BY <2>3, <2>5 DEF Lasting
<1> QED  BY <1>1, <1>2, <1>3 DEF Topology

(* The rebalancers and their messages: a node drops a key only when it is  *)
(* no replica in its view, and then it is none for the whole cluster.      *)
LEMMA RebalancingLasts ==
    ASSUME IInv, Lasting, (\E n \in Nodes : RebStep(n)) \/ Network
    PROVE  Lasting'
<1>0. /\ alive \subseteq Nodes /\ peers \in [Nodes -> SUBSET Nodes]
      /\ store \in [Nodes -> [Keys -> Entry]] /\ pushes \subseteq [to : Nodes, key : Keys, val : Values]
    BY DEF IInv, TypeOK
<1>1. UNCHANGED <<alive, peers>>
    BY DEF RebStep, RebStart, RebDrop, RebKeep, RebPush, Network, LoseLeg, HandlePush, LosePush, topo
<1>2. Connected'  BY <1>1 DEF Lasting, Connected, View
<1>3. ASSUME NEW n \in Nodes, NEW k \in Keys, RebDrop(n, k)
      PROVE  Lasting'
    <2>1. /\ n \notin ReplicaNodes(View(n), k) /\ UNCHANGED calls
          /\ store' = [store EXCEPT ![n][k] = Nil]
        BY <1>3 DEF RebDrop
    <2>2. n \notin ReplicaNodes(Nodes, k)
        <3>1. View(n) \in SUBSET Nodes /\ n \in View(n)  BY <1>0 DEF View
        <3>2. IsFiniteSet(Nodes)  BY ReplicatedCacheAssumption
        <3> QED  BY <2>1, <3>1, <3>2, ReplicasOfSmaller
    <2>3. \A q \in Keys : \A m \in alive' \cap ReplicaNodes(Nodes, q) : store'[m][q] = store[m][q]
        BY <1>0, <1>1, <2>1, <2>2
    <2>4. Written' /\ Sent' /\ Kept'  BY <1>1, <2>1, <2>3, OthersKeep
    <2> QED  BY <1>2, <2>4 DEF Lasting
<1>4. ASSUME NEW n \in Nodes,
             RebStart(n) \/ (\E k \in Keys : RebKeep(n, k)) \/ (\E r \in Nodes : RebPush(n, r))
      PROVE  Lasting'
    <2>1. UNCHANGED <<store, calls>>  BY <1>4 DEF RebStart, RebKeep, RebPush
    <2>2. Written' /\ Sent' /\ Kept'  BY <1>1, <2>1, OthersKeep
    <2> QED  BY <1>2, <2>2 DEF Lasting
<1>5. ASSUME NEW p \in pushes, HandlePush(p)
      PROVE  Lasting'
    <2>1. UNCHANGED calls /\ store' = [store EXCEPT ![p.to][p.key] =
                                           IF p.to \in HasBucket THEN p.val ELSE @]
        BY <1>5 DEF HandlePush
    <2>2. p.to \in Nodes /\ p.key \in Keys /\ p.val # Nil
        BY <1>0, ReplicatedCacheAssumption
    <2>3. \A q \in Keys, m \in Nodes : store[m][q] # Nil => store'[m][q] # Nil
        BY <1>0, <2>1, <2>2
    <2>4. Written' /\ Sent' /\ Kept'  BY <1>0, <1>1, <2>1, <2>3, OthersKeep
    <2> QED  BY <1>2, <2>4 DEF Lasting
<1>6. ASSUME NEW p \in pushes, LosePush(p)
      PROVE  Lasting'
    <2>1. UNCHANGED <<store, calls>>  BY <1>6 DEF LosePush
    <2>2. Written' /\ Sent' /\ Kept'  BY <1>1, <2>1, OthersKeep
    <2> QED  BY <1>2, <2>2 DEF Lasting
<1>7. ASSUME NEW i \in Ops, NEW r \in Nodes, LoseLeg(i, r)
      PROVE  Lasting'
    <2>1. UNCHANGED <<store, op, wait, applied>>  BY <1>7 DEF LoseLeg
    <2>2. SameCalls /\ SameLegs  BY <2>1 DEF SameCalls, SameLegs
    <2>3. Written' /\ Sent' /\ Kept'  BY <1>1, <2>1, <2>2, SteadyKeeps DEF Lasting
    <2> QED  BY <1>2, <2>3 DEF Lasting
<1> QED  BY <1>3, <1>4, <1>5, <1>6, <1>7 DEF RebStep, Network

(* What the invariants say of a Set that was acknowledged: among the       *)
(* quorum that has it there is a running node that no rebalancer makes     *)
(* drop it.                                                                *)
LEMMA LastingHolder ==
    ASSUME FewChanges, IInv, AckedOnQuorum, Lasting
    PROVE  NotLost
<1> SUFFICES ASSUME NEW k \in Keys, SetAcked(k)
             PROVE  \E n \in alive : store[n][k] # Nil
    BY DEF NotLost
<1>1. PICK i \in Ops : op[i].st = "ok" /\ op[i].kind = "set" /\ op[i].key = k
    BY DEF SetAcked, Acked
<1>2. Undeleted(k)  BY DEF SetAcked, Undeleted
<1> DEFINE A == applied[i] \cap LegsOf(i)
<1>3. PICK E \in SUBSET Gone : LegsOf(i) = ReplicaNodes(Nodes \ E, k)
    BY <1>1 DEF Lasting, Sent
<1>4. A \in SUBSET ReplicaNodes(Nodes \ E, k) /\ Cardinality(A) >= Quorum(ReplicaNodes(Nodes \ E, k))
    BY <1>1, <1>3 DEF AckedOnQuorum, Acked
<1>5. Gone \in SUBSET Nodes /\ Cardinality(Gone) < Quorum(ReplicaNodes(Nodes, k))
    <2> DEFINE X == Nodes \ alive
               Y == Nodes \ Members
    <2>1. IsFiniteSet(X) /\ IsFiniteSet(Y)  BY FS_Subset, ReplicatedCacheAssumption
    <2>2. Gone = X \cup Y /\ Cardinality(X) <= MaxCrashes
        BY DEF Gone, Lasting, Connected
    <2>3. Cardinality(Y) + MaxCrashes < Quorum(ReplicaNodes(Nodes, k))  BY DEF FewChanges
    <2>4. IsFiniteSet(Nodes) /\ MaxCrashes \in Nat  BY ReplicatedCacheAssumption
    <2>5. Quorum(ReplicaNodes(Nodes, k)) \in Int
        <3>1. Cardinality(ReplicaNodes(Nodes, k)) \in Nat  BY <2>4, ReplicaCount
        <3> QED  BY <3>1 DEF Quorum
    <2>6. Gone \subseteq Nodes  BY DEF Gone
    <2> HIDE DEF X, Y
    <2>7. /\ Cardinality(X) \in Nat /\ Cardinality(Y) \in Nat /\ Cardinality(X \cap Y) \in Nat
          /\ Cardinality(X \cup Y) = Cardinality(X) + Cardinality(Y) - Cardinality(X \cap Y)
        BY <2>1, FS_Union, FS_Intersection, FS_CardinalityType
    <2> QED  BY <2>2, <2>3, <2>4, <2>5, <2>6, <2>7
<1> HIDE DEF A
<1>6. PICK n \in A \cap ReplicaNodes(Nodes, k) : n \notin Gone
    <2>1. IsFiniteSet(Nodes)  BY ReplicatedCacheAssumption
    <2> QED  BY <1>4, <1>5, <2>1, QuorumHasLastingReplica
<1>7. n \in applied[i] \cap alive \cap ReplicaNodes(Nodes, k)
    BY <1>5, <1>6 DEF A, Gone, LegsOf
<1> QED  BY <1>1, <1>2, <1>7 DEF Lasting, Kept

(* A key whose Set was acknowledged and which nobody deletes is held by a  *)
(* running node for ever, whatever is lost, late or refused and whatever   *)
(* the rebalancers drop on the views their nodes have, when the nodes that *)
(* join and the nodes that crash are together fewer than a quorum of the   *)
(* key's replicas (setReplicated, runRebalance).                           *)
THEOREM AckedSetSurvives == ASSUME FewChanges PROVE Spec => []NotLost
<1>1. Init => Lasting  BY LastingInitially
<1>2. IInv /\ Lasting /\ [Next]_vars => Lasting'
    <2> SUFFICES ASSUME IInv, Lasting, [Next]_vars PROVE Lasting'  OBVIOUS
    <2>1. CASE Client  BY <2>1, ClientLasts
    <2>2. CASE Topology  BY <2>2, TopologyLasts
    <2>3. CASE Network \/ (\E n \in Nodes : RebStep(n))  BY <2>3, RebalancingLasts
    <2>4. ASSUME NEW i \in Ops, CallStep(i) PROVE Lasting'  BY <2>4, CallLasts
    <2>5. CASE UNCHANGED vars
        <3>1. UNCHANGED <<alive, peers, store, calls>>  BY <2>5 DEF vars, calls
        <3>2. Connected'  BY <3>1 DEF Lasting, Connected, View
        <3>3. Written' /\ Sent' /\ Kept'  BY <3>1, OthersKeep
        <3> QED  BY <3>2, <3>3 DEF Lasting
    <2> QED  BY <2>1, <2>2, <2>3, <2>4, <2>5 DEF Next
<1>3. IInv /\ AckedOnQuorum /\ Lasting => NotLost  BY LastingHolder
<1> QED  BY <1>1, <1>2, <1>3, Invariant, AckedByQuorum, PTL DEF Spec
=============================================================================
