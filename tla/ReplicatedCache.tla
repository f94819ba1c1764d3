-------------------------- MODULE ReplicatedCache --------------------------
(***************************************************************************)
(* The cache of a cluster: replicated Set, Delete and SetTtl, Get with its *)
(* primary-routing cache (src/internal/mycel/cache.go, remote.go), the     *)
(* request handler (task.go), the rebalancer (rebalancer.go) and the       *)
(* topology events that change the nodes' views (mycel.go, nodosum).       *)
(*                                                                         *)
(* A node's local store is a map here (LocalCache models its inside).      *)
(* Expiry is left out of the stored entries: the TTL worker's deletions    *)
(* are Deletes any node may start, and SetTtl matters by its result.       *)
(***************************************************************************)
EXTENDS Rendezvous

CONSTANTS
    Values, Nil,
    Ops,          \* 1..n: the calls made in a behaviour (a bound)
    Kinds,        \* the kinds of call
    Sequential,   \* is each call made after the one before has returned
    Callers,      \* the nodes whose clients make calls
    HasBucket,    \* the nodes on which the bucket was created
    Members,      \* the nodes connected to each other at the start
    Dials,        \* <<n, m>>: of the two, n dials the connection and m accepts
    Rebalancers,  \* the nodes whose rebalancer runs in a behaviour (a bound)
    Lossy,        \* may messages get lost while both ends are alive
    MaxCrashes    \* how many nodes may crash (a bound)

ASSUME ReplicatedCacheAssumption ==
    /\ Nil \notin Values /\ Nil \notin Nodes /\ Nil \notin Keys
    /\ IsFiniteSet(Nodes)
    /\ IsFiniteSet(Ops) /\ Ops = 1..Cardinality(Ops)
    /\ Kinds \subseteq {"get", "set", "delete", "setTtl"}
    /\ Callers \subseteq Nodes /\ HasBucket \subseteq Nodes /\ Members \subseteq Nodes
    /\ Rebalancers \subseteq Nodes
    /\ Dials \subseteq Nodes \X Nodes
    /\ \A n, m \in Nodes : n # m => (<<n, m>> \in Dials <=> <<m, n>> \notin Dials)
    /\ Lossy \in BOOLEAN /\ Sequential \in BOOLEAN
    /\ MaxCrashes \in Nat

VARIABLES
    alive,    \* the nodes that run
    peers,    \* each node's connected nodes (quicConns)
    opened,   \* the connections on which the dialer has opened its stream
    store,    \* each node's local entries
    hash,     \* each node's nodeScoreHashMap: the cached primary of a key
    hooks,    \* the nodes whose topology hook has been spawned and not run
    op,       \* the calls
    wait,     \* per call and replica: what the goroutine of that leg waits for
    wire,     \* per call and replica: the leg's message in flight
    applied,  \* per call: the nodes at which it took effect (history)
    reb,      \* each node's rebalancer
    pushes    \* the rebalancers' SET requests in flight

topo == <<alive, peers, hooks>>
calls == <<op, wait, wire, applied>>
vars == <<alive, peers, opened, store, hash, hooks, op, wait, wire, applied, reb, pushes>>

Entry == Values \cup {Nil}

(* "go": not yet sent; "wait": request sent; "late": timed out; "down": no  *)
(* connection to send on.                                                  *)
Leg == {"none", "go", "wait", "ok", "err", "late", "down"}
Msg == {"none", "request", "ok", "err"}

Call == [st : {"idle", "routed", "run", "ok", "fail"}, kind : Kinds \cup {"none"},
         at : Nodes \cup {Nil}, key : Keys \cup {Nil}, val : Entry, to : Nodes \cup {Nil}]

(* What is left of the snapshot, the key in work and the replicas that     *)
(* have not been sent it.                                                  *)
Rebalancer == [snap : [Keys -> Entry], cur : Keys \cup {Nil}, todo : SUBSET Nodes]

TypeOK ==
    /\ alive \subseteq Nodes /\ hooks \subseteq Nodes
    /\ peers \in [Nodes -> SUBSET Nodes] /\ opened \subseteq Dials
    /\ store \in [Nodes -> [Keys -> Entry]]
    /\ hash \in [Nodes -> [Keys -> Nodes \cup {Nil}]]
    /\ op \in [Ops -> Call]
    /\ wait \in [Ops -> [Nodes -> Leg]]
    /\ wire \in [Ops -> [Nodes -> Msg]]
    /\ applied \in [Ops -> SUBSET Nodes]
    /\ reb \in [Nodes -> Rebalancer]
    /\ pushes \subseteq [to : Nodes, key : Keys, val : Values]

NoKeys == [k \in Keys |-> Nil]
IdleCall == [st |-> "idle", kind |-> "none", at |-> Nil, key |-> Nil, val |-> Nil, to |-> Nil]
IdleReb == [snap |-> NoKeys, cur |-> Nil, todo |-> {}]

Init ==
    /\ alive = Nodes
    /\ peers = [n \in Nodes |-> IF n \in Members THEN Members \ {n} ELSE {}]
    /\ opened = {}
    /\ store = [n \in Nodes |-> NoKeys]
    /\ hash = [n \in Nodes |-> NoKeys]
    /\ hooks = {}
    /\ op = [i \in Ops |-> IdleCall]
    /\ wait = [i \in Ops |-> [n \in Nodes |-> "none"]]
    /\ wire = [i \in Ops |-> [n \in Nodes |-> "none"]]
    /\ applied = [i \in Ops |-> {}]
    /\ reb = [n \in Nodes |-> IdleReb]
    /\ pushes = {}

(* The nodes n chooses replicas from: app.Nodes() and itself.              *)
View(n) == peers[n] \cup {n}

(* A node sends on the stream it has for the other.  What the dialer sends *)
(* is served.  The dialer accepts no streams: what the accepting node      *)
(* sends is served only on the stream that the dialer has opened.          *)
Served(n, m) == <<n, m>> \in Dials \/ <<m, n>> \in opened

-----------------------------------------------------------------------------
(* What setLocal, deleteLocal, setTtlLocal or getLocal reports at node n   *)
(* for a call, and the entry it leaves.                                    *)
Result(i, n) ==
    IF op[i].kind \in {"set", "delete"} /\ n \notin HasBucket THEN "noBucket"
    ELSE IF op[i].kind = "set" \/ store[n][op[i].key] # Nil THEN "ok"
    ELSE "notFound"

Leaves(i, n) ==
    IF Result(i, n) = "ok" /\ op[i].kind \in {"set", "delete"}
    THEN op[i].val ELSE store[n][op[i].key]

(* Not-found is success for a delete.                                      *)
Succeeds(i, n) == Result(i, n) = "ok" \/ (Result(i, n) = "notFound" /\ op[i].kind = "delete")

Apply(i, n) ==
    /\ store' = [store EXCEPT ![n][op[i].key] = Leaves(i, n)]
    /\ applied' = [applied EXCEPT ![i] = IF Succeeds(i, n) THEN @ \cup {n} ELSE @]

(* Calls are made in the order of their numbers.                           *)
CanCall(i, n) ==
    /\ op[i].st = "idle" /\ n \in alive \cap Callers
    /\ \A j \in Ops : j < i => op[j].st \in IF Sequential THEN {"ok", "fail"}
                                           ELSE {"routed", "run", "ok", "fail"}

(* setReplicated, deleteReplicated, setTtlReplicated: the replicas are     *)
(* chosen from the caller's view and a goroutine is started for each.      *)
StartReplicated(i, n, kind, k, v) ==
    /\ CanCall(i, n) /\ kind \in Kinds \ {"get"}
    /\ op' = [op EXCEPT ![i] = [st |-> "run", kind |-> kind, at |-> n, key |-> k,
                                val |-> IF kind = "set" THEN v ELSE Nil, to |-> Nil]]
    /\ wait' = [wait EXCEPT ![i] = [r \in Nodes |-> IF r \in ReplicaNodes(View(n), k)
                                                    THEN "go" ELSE "none"]]
    /\ UNCHANGED <<opened, topo, store, hash, wire, applied, reb, pushes>>

(* The goroutine of the caller's own replica.                              *)
LocalLeg(i) ==
    LET n == op[i].at
    IN  /\ op[i].st = "run" /\ op[i].kind # "get" /\ n \in alive
        /\ wait[i][n] = "go"
        /\ Apply(i, n)
        /\ wait' = [wait EXCEPT ![i][n] = IF Succeeds(i, n) THEN "ok" ELSE "err"]
        /\ UNCHANGED <<opened, topo, hash, op, wire, reb, pushes>>

(* Request: with no connection to the replica it fails at once.            *)
SendLeg(i, r) ==
    LET n == op[i].at
    IN  /\ op[i].st = "run" /\ n \in alive
        /\ wait[i][r] = "go"
        /\ op[i].kind = "get" \/ r # n
        /\ \/ /\ r \in peers[n]
              /\ wait' = [wait EXCEPT ![i][r] = "wait"]
              /\ wire' = IF Served(n, r) THEN [wire EXCEPT ![i][r] = "request"] ELSE wire
              /\ opened' = opened \cup ({<<n, r>>} \cap Dials)
           \/ /\ r \notin peers[n]
              /\ wait' = [wait EXCEPT ![i][r] = "down"]
              /\ UNCHANGED <<wire, opened>>
        /\ UNCHANGED <<topo, store, hash, op, applied, reb, pushes>>

(* The handler runs the local operation and answers.  An error travels as  *)
(* text, so the caller cannot tell not-found from other errors.            *)
HandleLeg(i, r) ==
    /\ wire[i][r] = "request" /\ r \in alive
    /\ Apply(i, r)
    /\ wire' = [wire EXCEPT ![i][r] = IF Result(i, r) = "ok" THEN "ok" ELSE "err"]
    /\ op' = IF op[i].kind = "get" /\ op[i].st = "run"
             THEN [op EXCEPT ![i].val = store[r][op[i].key]] ELSE op
    /\ UNCHANGED <<opened, topo, hash, wait, reb, pushes>>

AnswerLeg(i, r) ==
    /\ wire[i][r] \in {"ok", "err"} /\ op[i].at \in alive
    /\ wait' = [wait EXCEPT ![i][r] = IF @ = "wait" THEN wire[i][r] ELSE @]
    /\ wire' = [wire EXCEPT ![i][r] = "none"]
    /\ UNCHANGED <<opened, topo, store, hash, op, applied, reb, pushes>>

(* Mutant of TimeoutLeg: the timer runs only while a message is in flight. *)
TimeoutLegInFlight(i, r) ==
    /\ wait[i][r] = "wait" /\ op[i].at \in alive /\ wire[i][r] # "none"
    /\ wait' = [wait EXCEPT ![i][r] = "late"]
    /\ UNCHANGED <<opened, topo, store, hash, op, wire, applied, reb, pushes>>

(* The request stays in flight: it may still be carried out.               *)
TimeoutLeg(i, r) ==
    /\ wait[i][r] = "wait" /\ op[i].at \in alive
    /\ wait' = [wait EXCEPT ![i][r] = "late"]
    /\ UNCHANGED <<opened, topo, store, hash, op, wire, applied, reb, pushes>>

LoseLeg(i, r) ==
    /\ wire[i][r] # "none"
    /\ Lossy \/ r \notin alive \/ op[i].at \notin alive
    /\ wire' = [wire EXCEPT ![i][r] = "none"]
    /\ UNCHANGED <<opened, topo, store, hash, op, wait, applied, reb, pushes>>

LegsOf(i) == {r \in Nodes : wait[i][r] # "none"}
Succeeded(i) == {r \in Nodes : wait[i][r] = "ok"}

(* Mutant of Finish: one success is enough.                                *)
FinishOnAny(i) ==
    /\ op[i].st = "run" /\ op[i].at \in alive
    /\ \A r \in Nodes : wait[i][r] \notin {"go", "wait"}
    /\ op' = [op EXCEPT ![i].st = IF Succeeded(i) # {} THEN "ok" ELSE "fail"]
    /\ UNCHANGED <<opened, topo, store, hash, wait, wire, applied, reb, pushes>>

(* All legs have reported: the call succeeds with a quorum of successes (a *)
(* get has one leg).                                                       *)
Finish(i) ==
    /\ op[i].st = "run" /\ op[i].at \in alive
    /\ \A r \in Nodes : wait[i][r] \notin {"go", "wait"}
    /\ op' = [op EXCEPT ![i].st = IF Cardinality(Succeeded(i)) >= Quorum(LegsOf(i))
                                  THEN "ok" ELSE "fail"]
    /\ UNCHANGED <<opened, topo, store, hash, wait, wire, applied, reb, pushes>>

-----------------------------------------------------------------------------
(* Get: the local entry, else the primary, from the routing cache or       *)
(* computed.  A computed primary is stored in the cache in a later         *)
(* critical section.                                                       *)
StartGet(i, n, k) ==
    /\ CanCall(i, n) /\ "get" \in Kinds
    /\ LET call(st, v, t) == [st |-> st, kind |-> "get", at |-> n, key |-> k, val |-> v, to |-> t]
       IN  \/ /\ store[n][k] # Nil
              /\ op' = [op EXCEPT ![i] = call("ok", store[n][k], Nil)]
              /\ UNCHANGED wait
           \/ /\ store[n][k] = Nil /\ hash[n][k] # Nil
              /\ op' = [op EXCEPT ![i] = call("run", Nil, hash[n][k])]
              /\ wait' = [wait EXCEPT ![i][hash[n][k]] = "go"]
           \/ /\ store[n][k] = Nil /\ hash[n][k] = Nil
              /\ op' = [op EXCEPT ![i] = call("routed", Nil, Primary(View(n), k))]
              /\ UNCHANGED wait
    /\ UNCHANGED <<opened, topo, store, hash, wire, applied, reb, pushes>>

StorePrimary(i) ==
    /\ op[i].st = "routed" /\ op[i].at \in alive
    /\ hash' = [hash EXCEPT ![op[i].at][op[i].key] = op[i].to]
    /\ op' = [op EXCEPT ![i].st = "run"]
    /\ wait' = [wait EXCEPT ![i][op[i].to] = "go"]
    /\ UNCHANGED <<opened, topo, store, wire, applied, reb, pushes>>

-----------------------------------------------------------------------------
(* Topology.  A node that dials registers the connection and spawns the    *)
(* topology hook; the accepting side registers it without a hook.  On a    *)
(* node that never looks a primary up the hook has nothing to clear, so    *)
(* its hooks are not recorded.                                             *)
Getters == IF "get" \in Kinds THEN Callers ELSE {}

NotifyJoin(n, m) ==
    /\ {n, m} \subseteq alive /\ <<n, m>> \in Dials /\ m # n /\ m \notin peers[n]
    /\ peers' = [peers EXCEPT ![n] = @ \cup {m}]
    /\ hooks' = hooks \cup ({n} \cap Getters)
    /\ UNCHANGED <<opened, alive, store, hash, calls, reb, pushes>>

AcceptConn(n, m) ==
    /\ {n, m} \subseteq alive /\ <<m, n>> \in Dials /\ m # n /\ m \notin peers[n]
    /\ peers' = [peers EXCEPT ![n] = @ \cup {m}]
    /\ UNCHANGED <<opened, alive, hooks, store, hash, calls, reb, pushes>>

(* Memberlist reports a node that has failed.                              *)
NotifyLeave(n, m) ==
    /\ n \in alive /\ m \notin alive /\ m \in peers[n]
    /\ peers' = [peers EXCEPT ![n] = @ \ {m}]
    /\ hooks' = hooks \cup ({n} \cap Getters)
    /\ UNCHANGED <<opened, alive, store, hash, calls, reb, pushes>>

(* The hook: invalidateCaches (and a trigger of the rebalancer, which may  *)
(* start at any time anyway).                                              *)
Hook(n) ==
    /\ n \in hooks \cap alive
    /\ hash' = [hash EXCEPT ![n] = NoKeys]
    /\ hooks' = hooks \ {n}
    /\ UNCHANGED <<opened, alive, peers, store, calls, reb, pushes>>

(* A crash takes the node's store and everything in its memory.            *)
Crash(n) ==
    /\ n \in alive /\ Cardinality(Nodes \ alive) < MaxCrashes
    /\ alive' = alive \ {n}
    /\ store' = [store EXCEPT ![n] = NoKeys]
    /\ hash' = [hash EXCEPT ![n] = NoKeys]
    /\ hooks' = hooks \ {n}
    /\ reb' = [reb EXCEPT ![n] = IdleReb]
    /\ UNCHANGED <<opened, peers, calls, pushes>>

-----------------------------------------------------------------------------
(* The rebalancer: a snapshot of the local entries, then key by key.       *)
RebStart(n) ==
    /\ n \in alive \cap Rebalancers /\ reb[n].snap = NoKeys /\ store[n] # NoKeys
    /\ reb' = [reb EXCEPT ![n].snap = store[n]]
    /\ UNCHANGED <<opened, topo, store, hash, calls, pushes>>

(* Mutant of RebDrop: a replica drops its entry too.                       *)
RebDropAny(n, k) ==
    /\ n \in alive /\ reb[n].cur = Nil /\ reb[n].snap[k] # Nil
    /\ store' = [store EXCEPT ![n][k] = Nil]
    /\ reb' = [reb EXCEPT ![n].snap[k] = Nil]
    /\ UNCHANGED <<opened, topo, hash, calls, pushes>>

(* A node that is not among the key's replicas drops its entry.            *)
RebDrop(n, k) ==
    /\ n \in alive /\ reb[n].cur = Nil /\ reb[n].snap[k] # Nil
    /\ n \notin ReplicaNodes(View(n), k)
    /\ store' = [store EXCEPT ![n][k] = Nil]
    /\ reb' = [reb EXCEPT ![n].snap[k] = Nil]
    /\ UNCHANGED <<opened, topo, hash, calls, pushes>>

(* The rebalancer of n after it has sent key k to all replicas but todo.   *)
Sending(n, k, todo) ==
    IF todo = {} THEN [IdleReb EXCEPT !.snap = [reb[n].snap EXCEPT ![k] = Nil]]
    ELSE [snap |-> reb[n].snap, cur |-> k, todo |-> todo]

(* Mutants of RebKeep: a key without an entry is sent; nothing is sent.    *)
RebKeepMissing(n, k) ==
    /\ n \in alive \cap Rebalancers /\ reb[n].cur = Nil
    /\ n \in ReplicaNodes(View(n), k)
    /\ reb' = [reb EXCEPT ![n] = Sending(n, k, ReplicaNodes(View(n), k) \ {n})]
    /\ UNCHANGED <<opened, topo, store, hash, calls, pushes>>

RebKeepSilent(n, k) ==
    /\ n \in alive /\ reb[n].cur = Nil /\ reb[n].snap[k] # Nil
    /\ n \in ReplicaNodes(View(n), k)
    /\ reb' = [reb EXCEPT ![n] = Sending(n, k, {})]
    /\ UNCHANGED <<opened, topo, store, hash, calls, pushes>>

(* A replica sends the snapshot's value to the others, one by one, ...     *)
RebKeep(n, k) ==
    /\ n \in alive /\ reb[n].cur = Nil /\ reb[n].snap[k] # Nil
    /\ n \in ReplicaNodes(View(n), k)
    /\ reb' = [reb EXCEPT ![n] = Sending(n, k, ReplicaNodes(View(n), k) \ {n})]
    /\ UNCHANGED <<opened, topo, store, hash, calls, pushes>>

(* ... going on to the next after an answer, an error or a timeout.        *)
RebPush(n, r) ==
    /\ n \in alive /\ r \in reb[n].todo
    /\ reb' = [reb EXCEPT ![n] = Sending(n, @.cur, @.todo \ {r})]
    /\ opened' = IF r \in peers[n] THEN opened \cup ({<<n, r>>} \cap Dials) ELSE opened
    /\ pushes' = IF r \in peers[n] /\ Served(n, r)
                 THEN pushes \cup {[to |-> r, key |-> reb[n].cur, val |-> reb[n].snap[reb[n].cur]]}
                 ELSE pushes
    /\ UNCHANGED <<topo, store, hash, calls>>

HandlePush(p) ==
    /\ p \in pushes /\ p.to \in alive
    /\ store' = [store EXCEPT ![p.to][p.key] = IF p.to \in HasBucket THEN p.val ELSE @]
    /\ pushes' = pushes \ {p}
    /\ UNCHANGED <<opened, topo, hash, calls, reb>>

LosePush(p) ==
    /\ p \in pushes /\ (Lossy \/ p.to \notin alive)
    /\ pushes' = pushes \ {p}
    /\ UNCHANGED <<opened, topo, store, hash, calls, reb>>

-----------------------------------------------------------------------------
CallStep(i) ==
    \/ LocalLeg(i) \/ StorePrimary(i) \/ Finish(i)
    \/ \E r \in Nodes : SendLeg(i, r) \/ HandleLeg(i, r) \/ AnswerLeg(i, r) \/ TimeoutLeg(i, r)

RebStep(n) ==
    \/ RebStart(n)
    \/ \E k \in Keys : RebDrop(n, k) \/ RebKeep(n, k)
    \/ \E r \in Nodes : RebPush(n, r)

Client == \E i \in Ops, n \in Nodes, k \in Keys :
    \/ StartGet(i, n, k)
    \/ \E kind \in Kinds : IF kind = "set"
                           THEN \E v \in Values : StartReplicated(i, n, kind, k, v)
                           ELSE StartReplicated(i, n, kind, k, Nil)

Topology ==
    \/ \E n, m \in Nodes : NotifyJoin(n, m) \/ AcceptConn(n, m) \/ NotifyLeave(n, m)
    \/ \E n \in Nodes : Hook(n) \/ Crash(n)

Network ==
    \/ \E i \in Ops, r \in Nodes : LoseLeg(i, r)
    \/ \E p \in pushes : HandlePush(p) \/ LosePush(p)

Next ==
    \/ Client \/ Topology \/ Network
    \/ \E i \in Ops : CallStep(i)
    \/ \E n \in Nodes : RebStep(n)

Spec == Init /\ [][Next]_vars

(* Goroutines run, timers fire, hooks run, memberlist reports joins and    *)
(* failures, the rebalancer runs again and again and, where messages are   *)
(* not lost, they are delivered.                                           *)
Fairness ==
    /\ \A i \in Ops : WF_vars(CallStep(i))
    /\ \A n \in Nodes : WF_vars(RebStep(n))
    /\ WF_vars(\E n, m \in Nodes : NotifyJoin(n, m) \/ AcceptConn(n, m) \/ NotifyLeave(n, m))
    /\ WF_vars(\E n \in Nodes : Hook(n))
    /\ WF_vars(\E p \in pushes : HandlePush(p))

FairSpec == Spec /\ Fairness

-----------------------------------------------------------------------------
Acked(i) == op[i].st = "ok"

(* A write that is acknowledged has taken effect on a majority of the      *)
(* replicas it was sent to, whatever was lost, late or refused.            *)
AckedOnQuorum ==
    \A i \in Ops : Acked(i) /\ op[i].kind # "get"
        => Cardinality(applied[i] \cap LegsOf(i)) >= Quorum(LegsOf(i))

(* A key whose Set was acknowledged, and which nobody deleted, is held by  *)
(* some running node, whatever the rebalancers do.                         *)
SetAcked(k) ==
    /\ \E i \in Ops : Acked(i) /\ op[i].kind = "set" /\ op[i].key = k
    /\ \A i \in Ops : op[i].kind = "delete" => op[i].key # k
NotLost == \A k \in Keys : SetAcked(k) => \E n \in alive : store[n][k] # Nil

(* Every call ends unless its node crashes.                                *)
CallsEnd == \A i \in Ops : op[i].st # "idle"
                             ~> op[i].st \in {"ok", "fail"} \/ op[i].at \notin alive

(* Once a Set is acknowledged the key comes to rest on exactly the         *)
(* replicas of the whole cluster: "Eventually, all keys have exactly 3     *)
(* replicas on correct nodes".                                             *)
Placed(k) == {n \in alive : store[n][k] # Nil} = ReplicaNodes(alive, k)
Converges == <>[](\A k \in Keys : SetAcked(k) => Placed(k))
=============================================================================
