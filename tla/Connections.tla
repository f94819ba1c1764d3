---------------------------- MODULE Connections ----------------------------
(***************************************************************************)
(* The connections between nodes: the memberlist delegate that dials       *)
(* (src/internal/nodosum/memberlist.go), the listener that accepts         *)
(* (conn.go) and the map quicConns in which both register what they have.  *)
(*                                                                         *)
(* Every call of NotifyJoin dials at most one connection, so a call and    *)
(* its connection have one name.  NotifyAlive and NotifyMerge are left     *)
(* out: New registers the delegate for Events and Delegate only, so        *)
(* memberlist never calls them.  The topology hook is part of              *)
(* ReplicatedCache.                                                        *)
(***************************************************************************)
EXTENDS Integers

CONSTANTS
    Nodes, Calls, Nil,
    Dialers,       \* the nodes that are told of others (a bound)
    Faults,        \* the events below that happen in a behaviour
    MaxAttempts    \* the limit of dial attempts, 5 in the code

AllFaults == {"leave", "update", "lost", "fail"}

ASSUME ConnectionsAssumption ==
    /\ Nil \notin Calls /\ Nil \notin Nodes
    /\ Dialers \subseteq Nodes
    /\ Faults \subseteq AllFaults
    /\ MaxAttempts \in Nat \ {0}

VARIABLES
    call,      \* the calls of NotifyJoin
    up,        \* the connections that are open
    handler,   \* handleQuicConn, on the accepting side of a connection
    conns,     \* each node's quicConns
    att        \* each node's dial attempts

vars == <<call, up, handler, conns, att>>

NoCall == [pc |-> "idle", at |-> Nil, peer |-> Nil]

Call == {NoCall} \cup [pc : {"dial", "dialed", "retry", "done"}, at : Nodes, peer : Nodes]

TypeOK ==
    /\ call \in [Calls -> Call]
    /\ up \subseteq Calls
    /\ handler \in [Calls -> {"none", "new", "registered", "unregistered", "done"}]
    /\ conns \in [Nodes -> [Nodes -> Calls \cup {Nil}]]
    /\ att \in [Nodes -> [Nodes -> Nat]]
    /\ \A j \in Calls : j \in up \/ handler[j] # "none" => call[j].pc \in {"dialed", "done"}

Init ==
    /\ call = [j \in Calls |-> NoCall]
    /\ up = {}
    /\ handler = [j \in Calls |-> "none"]
    /\ conns = [n \in Nodes |-> [m \in Nodes |-> Nil]]
    /\ att = [n \in Nodes |-> [m \in Nodes |-> 0]]

-----------------------------------------------------------------------------
(* closeQuicConnection: the registered connection, if any, is closed.      *)
CloseQuicConnection(n, m) ==
    /\ up' = up \ {conns[n][m]}
    /\ conns' = [conns EXCEPT ![n][m] = Nil]

(* The start of NotifyJoin at n for m: with a connection in the map it     *)
(* resets the attempts and returns, else it dials.                         *)
Enter(j, n, m) ==
    /\ call' = [call EXCEPT ![j] = [pc |-> IF conns[n][m] = Nil THEN "dial" ELSE "done",
                                    at |-> n, peer |-> m]]
    /\ att' = IF conns[n][m] = Nil THEN att ELSE [att EXCEPT ![n][m] = 0]

(* Memberlist, or the loop of Start over the initial members.              *)
NotifyJoin(j, n, m) ==
    /\ call[j].pc = "idle" /\ n \in Dialers /\ n # m
    /\ Enter(j, n, m)
    /\ UNCHANGED <<up, handler, conns>>

(* The listener of the other node gets the connection too.                 *)
DialOk(j) ==
    /\ call[j].pc = "dial"
    /\ call' = [call EXCEPT ![j].pc = "dialed"]
    /\ up' = up \cup {j}
    /\ handler' = [handler EXCEPT ![j] = "new"]
    /\ UNCHANGED <<conns, att>>

(* A failed dial is counted and repeated later, up to the limit.           *)
DialFail(j) ==
    LET n == call[j].at
        m == call[j].peer
    IN  /\ "fail" \in Faults /\ call[j].pc = "dial"
        /\ att' = [att EXCEPT ![n][m] = @ + 1]
        /\ call' = [call EXCEPT ![j].pc = IF att[n][m] + 1 < MaxAttempts THEN "retry" ELSE "done"]
        /\ UNCHANGED <<up, handler, conns>>

(* The goroutine of time.AfterFunc or NotifyUpdate: NotifyJoin from the    *)
(* start.                                                                  *)
Retry(j) ==
    /\ call[j].pc = "retry"
    /\ Enter(j, call[j].at, call[j].peer)
    /\ UNCHANGED <<up, handler, conns>>

(* Mutants of Register: the duplicate stays open; the duplicate is dialed  *)
(* once more.                                                              *)
RegisterKeepsBoth(j) ==
    LET n == call[j].at
        m == call[j].peer
    IN  /\ call[j].pc = "dialed"
        /\ call' = [call EXCEPT ![j].pc = "done"]
        /\ conns' = IF conns[n][m] = Nil THEN [conns EXCEPT ![n][m] = j] ELSE conns
        /\ att' = [att EXCEPT ![n][m] = 0]
        /\ UNCHANGED <<up, handler>>

RegisterRetries(j) ==
    LET n == call[j].at
        m == call[j].peer
    IN  /\ call[j].pc = "dialed"
        /\ call' = [call EXCEPT ![j].pc = IF conns[n][m] = Nil THEN "done" ELSE "retry"]
        /\ conns' = IF conns[n][m] = Nil THEN [conns EXCEPT ![n][m] = j] ELSE conns
        /\ up' = IF conns[n][m] = Nil THEN up ELSE up \ {j}
        /\ UNCHANGED <<att, handler>>

(* The check under the write lock: a connection that has been registered   *)
(* meanwhile wins and the dialed one is closed.                            *)
Register(j) ==
    LET n == call[j].at
        m == call[j].peer
    IN  /\ call[j].pc = "dialed"
        /\ call' = [call EXCEPT ![j].pc = "done"]
        /\ \/ /\ conns[n][m] # Nil
              /\ up' = up \ {j}
              /\ UNCHANGED <<conns, att>>
           \/ /\ conns[n][m] = Nil
              /\ conns' = [conns EXCEPT ![n][m] = j]
              /\ att' = [att EXCEPT ![n][m] = 0]
              /\ UNCHANGED up
        /\ UNCHANGED handler

-----------------------------------------------------------------------------
(* handleQuicConn on the accepting node: it registers the connection       *)
(* unless it has one, ...                                                  *)
HandleQuicConn(j) ==
    LET n == call[j].peer
        m == call[j].at
    IN  /\ handler[j] = "new"
        /\ \/ /\ conns[n][m] = Nil
              /\ conns' = [conns EXCEPT ![n][m] = j]
              /\ handler' = [handler EXCEPT ![j] = "registered"]
           \/ /\ conns[n][m] # Nil
              /\ handler' = [handler EXCEPT ![j] = "unregistered"]
              /\ UNCHANGED conns
        /\ UNCHANGED <<call, up, att>>

(* Mutant of HandlerEnds: the entry stays.                                 *)
HandlerEndsOnly(j) ==
    /\ handler[j] \in {"registered", "unregistered"} /\ j \notin up
    /\ handler' = [handler EXCEPT ![j] = "done"]
    /\ UNCHANGED <<call, up, conns, att>>

(* ... accepts streams until the connection is closed and then removes     *)
(* what it registered, if it is still there.                               *)
HandlerEnds(j) ==
    LET n == call[j].peer
        m == call[j].at
    IN  /\ handler[j] \in {"registered", "unregistered"} /\ j \notin up
        /\ conns' = IF handler[j] = "registered" /\ conns[n][m] = j
                    THEN [conns EXCEPT ![n][m] = Nil] ELSE conns
        /\ handler' = [handler EXCEPT ![j] = "done"]
        /\ UNCHANGED <<call, up, att>>

-----------------------------------------------------------------------------
(* Memberlist reports that m has left or, rightly or not, that it failed.  *)
NotifyLeave(n, m) ==
    /\ "leave" \in Faults /\ n # m
    /\ CloseQuicConnection(n, m)
    /\ att' = [att EXCEPT ![n][m] = 0]
    /\ UNCHANGED <<call, handler>>

(* New metadata: the connection is closed and NotifyJoin started anew.     *)
NotifyUpdate(j, n, m) ==
    /\ "update" \in Faults /\ call[j].pc = "idle" /\ n # m
    /\ CloseQuicConnection(n, m)
    /\ att' = [att EXCEPT ![n][m] = 0]
    /\ call' = [call EXCEPT ![j] = [pc |-> "retry", at |-> n, peer |-> m]]
    /\ UNCHANGED handler

(* A connection ends by itself (idle timeout, a broken path).              *)
ConnLost(j) ==
    /\ "lost" \in Faults /\ j \in up
    /\ up' = up \ {j}
    /\ UNCHANGED <<call, handler, conns, att>>

-----------------------------------------------------------------------------
CallStep(j) == DialOk(j) \/ DialFail(j) \/ Retry(j) \/ Register(j)

HandlerStep(j) == HandleQuicConn(j) \/ HandlerEnds(j)

Next ==
    \/ \E j \in Calls : CallStep(j) \/ HandlerStep(j) \/ ConnLost(j)
    \/ \E j \in Calls, n, m \in Nodes : NotifyJoin(j, n, m) \/ NotifyUpdate(j, n, m)
    \/ \E n, m \in Nodes : NotifyLeave(n, m)

Spec == Init /\ [][Next]_vars

(* The goroutines of NotifyJoin and handleQuicConn and the retry timer run. *)
FairSpec == Spec /\ \A j \in Calls : WF_vars(CallStep(j)) /\ WF_vars(HandlerStep(j))

-----------------------------------------------------------------------------
(* No connection is left open that nobody uses: once the call that dialed  *)
(* it has returned, an open connection is the one in the dialer's map.     *)
NoOrphan ==
    \A j \in up : call[j].pc = "done" => conns[call[j].at][call[j].peer] = j

(* What a handler registered is gone some time after the connection is.    *)
AcceptedForgotten ==
    \A j \in Calls : handler[j] = "registered" /\ j \notin up
        ~> handler[j] = "done" /\ conns[call[j].peer][call[j].at] # j

(* Without faults a call of NotifyJoin ends with a connection in the map   *)
(* of the node that made it.                                               *)
Connects ==
    \A j \in Calls : call[j].pc # "idle"
        ~> call[j].pc = "done" /\ conns[call[j].at][call[j].peer] # Nil
=============================================================================
