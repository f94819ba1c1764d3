------------------------- MODULE ConnectionsProofs -------------------------
(***************************************************************************)
(* Proofs about Connections for any number of nodes, calls and faults.     *)
(***************************************************************************)
EXTENDS Connections, TLAPS

IInv == TypeOK /\ NoOrphan

(* A call that is past its dial, or waits to run again, names two nodes.   *)
LEMMA CallHasNodes ==
    ASSUME TypeOK, NEW j \in Calls, call[j].pc # "idle"
    PROVE  /\ call[j].at \in Nodes /\ call[j].peer \in Nodes
           /\ call[j] \in [pc : {"dial", "dialed", "retry", "done"}, at : Nodes, peer : Nodes]
  BY DEF TypeOK, Call, NoCall

(* Moving a call on, and writing one place of a node's table, keep their   *)
(* types.                                                                  *)
LEMMA CallMoves ==
    ASSUME TypeOK, NEW j \in Calls, call[j].pc # "idle", NEW s \in {"dial", "dialed", "retry", "done"}
    PROVE  [call EXCEPT ![j].pc = s] \in [Calls -> Call]
  BY CallHasNodes DEF TypeOK, Call

(* A write of one entry of the connection map.                             *)
LEMMA ConnsWrite ==
    ASSUME TypeOK, NEW n \in Nodes, NEW m \in Nodes, NEW c \in Calls \cup {Nil}
    PROVE  /\ [conns EXCEPT ![n][m] = c] \in [Nodes -> [Nodes -> Calls \cup {Nil}]]
           /\ \A a, b \in Nodes : [conns EXCEPT ![n][m] = c][a][b]
                                   = IF a = n /\ b = m THEN c ELSE conns[a][b]
  BY DEF TypeOK

(* A write of one entry of the dial attempts.                              *)
LEMMA AttWrite ==
    ASSUME TypeOK, NEW n \in Nodes, NEW m \in Nodes, NEW k \in Nat
    PROVE  [att EXCEPT ![n][m] = k] \in [Nodes -> [Nodes -> Nat]]
  BY DEF TypeOK

(* Every step of the system keeps the types, and a call dials at most once.*)
LEMMA TypeStep == TypeOK /\ [Next]_vars => TypeOK'
<1> SUFFICES ASSUME TypeOK, [Next]_vars PROVE TypeOK'
  OBVIOUS
<1> USE ConnectionsAssumption
<1>1. ASSUME NEW j \in Calls, NEW n \in Nodes, NEW m \in Nodes, NotifyJoin(j, n, m) PROVE TypeOK'
  BY <1>1 DEF TypeOK, NotifyJoin, Enter, Call
<1>2. ASSUME NEW j \in Calls, DialOk(j) PROVE TypeOK'
  <2>1. call' \in [Calls -> Call] /\ call'[j].pc = "dialed"
    <3>1. call[j].pc # "idle" /\ call' = [call EXCEPT ![j].pc = "dialed"]
      BY <1>2 DEF DialOk
    <3>2. call[j].pc \in {"dial", "dialed", "retry", "done"} /\ DOMAIN call = Calls
      BY <3>1, CallHasNodes DEF TypeOK
    <3>3. [call EXCEPT ![j].pc = "dialed"] \in [Calls -> Call]
      BY <3>1, CallMoves
    <3>4. [call[j] EXCEPT !.pc = "dialed"].pc = "dialed"
      BY <3>1, CallHasNodes
    <3> QED BY <3>1, <3>2, <3>3, <3>4
  <2>2. \A i \in Calls : i # j => call'[i] = call[i] /\ handler'[i] = handler[i]
    BY <1>2 DEF TypeOK, DialOk
  <2>3. /\ handler' \in [Calls -> {"none", "new", "registered", "unregistered", "done"}]
        /\ up' = up \cup {j} /\ UNCHANGED <<conns, att>>
    BY <1>2 DEF TypeOK, DialOk
  <2>4. \A i \in Calls : i \in up' \/ handler'[i] # "none" => call'[i].pc \in {"dialed", "done"}
    BY <2>1, <2>2, <2>3 DEF TypeOK
  <2> QED BY <2>1, <2>3, <2>4 DEF TypeOK
<1>3. ASSUME NEW j \in Calls, DialFail(j) PROVE TypeOK'
  <2>1. call[j].at \in Nodes /\ call[j].peer \in Nodes /\ call[j].pc = "dial"
    BY <1>3, CallHasNodes DEF DialFail
  <2>2. att' \in [Nodes -> [Nodes -> Nat]]
    <3>1. att[call[j].at][call[j].peer] + 1 \in Nat
      BY <2>1 DEF TypeOK
    <3>2. att' = [att EXCEPT ![call[j].at][call[j].peer] = att[call[j].at][call[j].peer] + 1]
      BY <1>3 DEF DialFail
    <3> QED BY <2>1, <3>1, <3>2, AttWrite
  <2>3. call' \in [Calls -> Call]
    BY <1>3, <2>1, CallMoves DEF DialFail
  <2>4. handler[j] = "none" /\ j \notin up
    BY <2>1 DEF TypeOK
  <2>5. \A i \in Calls : i # j => call'[i] = call[i]
    BY <1>3 DEF TypeOK, DialFail
  <2> QED BY <1>3, <2>2, <2>3, <2>4, <2>5 DEF TypeOK, DialFail
<1>4. ASSUME NEW j \in Calls, Retry(j) PROVE TypeOK'
  <2>1. call[j].at \in Nodes /\ call[j].peer \in Nodes
    BY <1>4, CallHasNodes DEF Retry
  <2> QED BY <1>4, <2>1 DEF TypeOK, Retry, Enter, Call
<1>5. ASSUME NEW j \in Calls, Register(j) PROVE TypeOK'
  <2>1. call[j].at \in Nodes /\ call[j].peer \in Nodes
    BY <1>5, CallHasNodes DEF Register
  <2>2. call' \in [Calls -> Call]
    BY <1>5, CallMoves DEF Register
  <2>3. conns' \in [Nodes -> [Nodes -> Calls \cup {Nil}]]
    <3>1. conns' \in {conns, [conns EXCEPT ![call[j].at][call[j].peer] = j]}
      BY <1>5 DEF Register
    <3>2. [conns EXCEPT ![call[j].at][call[j].peer] = j] \in [Nodes -> [Nodes -> Calls \cup {Nil}]]
      BY <2>1, ConnsWrite
    <3> QED BY <3>1, <3>2 DEF TypeOK
  <2>4. att' \in [Nodes -> [Nodes -> Nat]]
    <3>1. att' \in {att, [att EXCEPT ![call[j].at][call[j].peer] = 0]}
      BY <1>5 DEF Register
    <3>2. [att EXCEPT ![call[j].at][call[j].peer] = 0] \in [Nodes -> [Nodes -> Nat]]
      BY <2>1, AttWrite
    <3> QED BY <3>1, <3>2 DEF TypeOK
  <2>5. \A i \in Calls : i # j => call'[i] = call[i]
    BY <1>5 DEF TypeOK, Register
  <2>6. call'[j].pc = "done"
    BY <1>5, CallHasNodes DEF TypeOK, Register
  <2>7. up' \subseteq up /\ handler' = handler
    BY <1>5 DEF Register
  <2> QED BY <2>2, <2>3, <2>4, <2>5, <2>6, <2>7 DEF TypeOK
<1>6. ASSUME NEW j \in Calls, HandleQuicConn(j) PROVE TypeOK'
  <2>1. call[j].at \in Nodes /\ call[j].peer \in Nodes
    BY <1>6, CallHasNodes DEF HandleQuicConn, TypeOK
  <2>2. conns' \in {conns, [conns EXCEPT ![call[j].peer][call[j].at] = j]}
    BY <1>6 DEF HandleQuicConn
  <2>3. conns' \in [Nodes -> [Nodes -> Calls \cup {Nil}]]
    <3>1. [conns EXCEPT ![call[j].peer][call[j].at] = j] \in [Nodes -> [Nodes -> Calls \cup {Nil}]]
      BY <2>1, ConnsWrite
    <3> QED BY <2>2, <3>1 DEF TypeOK
  <2> QED BY <1>6, <2>3 DEF TypeOK, HandleQuicConn
<1>7. ASSUME NEW j \in Calls, HandlerEnds(j) PROVE TypeOK'
  <2>1. call[j].at \in Nodes /\ call[j].peer \in Nodes
    BY <1>7, CallHasNodes DEF HandlerEnds, TypeOK
  <2> QED BY <1>7, <2>1 DEF TypeOK, HandlerEnds
<1>8. ASSUME NEW n \in Nodes, NEW m \in Nodes, NotifyLeave(n, m) PROVE TypeOK'
  BY <1>8 DEF TypeOK, NotifyLeave, CloseQuicConnection
<1>9. ASSUME NEW j \in Calls, NEW n \in Nodes, NEW m \in Nodes, NotifyUpdate(j, n, m) PROVE TypeOK'
  BY <1>9 DEF TypeOK, NotifyUpdate, CloseQuicConnection, Call
<1>10. ASSUME NEW j \in Calls, ConnLost(j) PROVE TypeOK'
  BY <1>10 DEF TypeOK, ConnLost
<1>11. CASE UNCHANGED vars
  BY <1>11 DEF TypeOK, vars
<1> QED
  BY <1>1, <1>2, <1>3, <1>4, <1>5, <1>6, <1>7, <1>8, <1>9, <1>10, <1>11
     DEF Next, CallStep, HandlerStep

(* The types hold in every state (the fields quicConns and delegate of     *)
(* Nodosum, and the goroutines of NotifyJoin and handleQuicConn).          *)
THEOREM ConnTypeCorrect == Spec => []TypeOK
<1>1. Init => TypeOK
  BY ConnectionsAssumption DEF Init, TypeOK, Call
<1> QED BY <1>1, TypeStep, PTL DEF Spec

-----------------------------------------------------------------------------
(* Every step leaves each open connection whose call has returned in the   *)
(* dialer's map.                                                           *)
LEMMA OrphanStep == IInv /\ [Next]_vars => NoOrphan'
<1> SUFFICES ASSUME TypeOK, NoOrphan, [Next]_vars,
                    NEW i \in up', call'[i].pc = "done"
             PROVE  conns'[call'[i].at][call'[i].peer] = i
  BY DEF IInv, NoOrphan
<1> USE ConnectionsAssumption
<1>0. TypeOK' /\ i \in Calls
  BY TypeStep DEF TypeOK
<1>a. ASSUME i \in up, call' = call PROVE conns[call[i].at][call[i].peer] = i
  BY <1>a DEF NoOrphan
<1>1. ASSUME NEW j \in Calls, NEW n \in Nodes, NEW m \in Nodes, NotifyJoin(j, n, m)
      PROVE  conns'[call'[i].at][call'[i].peer] = i
  BY <1>0, <1>1 DEF TypeOK, NotifyJoin, Enter, NoOrphan
<1>2. ASSUME NEW j \in Calls, DialOk(j)
      PROVE  conns'[call'[i].at][call'[i].peer] = i
  <2>1. i # j
    BY <1>0, <1>2, CallHasNodes DEF TypeOK, DialOk
  <2> QED BY <1>0, <1>2, <2>1 DEF TypeOK, DialOk, NoOrphan
<1>3. ASSUME NEW j \in Calls, DialFail(j)
      PROVE  conns'[call'[i].at][call'[i].peer] = i
  BY <1>0, <1>3 DEF TypeOK, DialFail, NoOrphan
<1>4. ASSUME NEW j \in Calls, Retry(j)
      PROVE  conns'[call'[i].at][call'[i].peer] = i
  BY <1>0, <1>4 DEF TypeOK, Retry, Enter, NoOrphan
<1>5. ASSUME NEW j \in Calls, Register(j)
      PROVE  conns'[call'[i].at][call'[i].peer] = i
  <2>1. /\ call[j].at \in Nodes /\ call[j].peer \in Nodes
        /\ call[i].pc # "idle" => call[i].at \in Nodes /\ call[i].peer \in Nodes
    BY <1>0, <1>5, CallHasNodes DEF Register
  <2>2. CASE i = j
    BY <1>0, <1>5, <2>1, <2>2, CallHasNodes DEF TypeOK, Register
  <2>3. CASE i # j
    <3>1. i \in up /\ call'[i] = call[i]
      BY <1>0, <1>5, <2>3 DEF TypeOK, Register
    <3>2. conns[call[i].at][call[i].peer] = i
      BY <3>1 DEF NoOrphan
    <3>3. \/ conns' = conns
          \/ conns[call[j].at][call[j].peer] = Nil
             /\ conns' = [conns EXCEPT ![call[j].at][call[j].peer] = j]
      BY <1>5 DEF Register
    <3>4. call[i].at \in Nodes /\ call[i].peer \in Nodes
      BY <1>0, <2>1, <3>1
    <3> DEFINE w == [conns EXCEPT ![call[j].at][call[j].peer] = j]
    <3>5. w[call[i].at][call[i].peer] = IF call[i].at = call[j].at /\ call[i].peer = call[j].peer
                                        THEN j ELSE conns[call[i].at][call[i].peer]
      BY <2>1, <3>4, ConnsWrite
    <3>6. conns' = conns \/ (conns' = w /\ conns[call[j].at][call[j].peer] = Nil)
      BY <3>3
    <3> HIDE DEF w
    <3> QED BY <1>0, <3>1, <3>2, <3>5, <3>6
  <2> QED BY <2>2, <2>3
<1>6. ASSUME NEW j \in Calls, HandleQuicConn(j)
      PROVE  conns'[call'[i].at][call'[i].peer] = i
  <2>1. conns[call[i].at][call[i].peer] = i /\ call' = call
    BY <1>6, <1>a DEF HandleQuicConn
  <2>2. /\ call[j].at \in Nodes /\ call[j].peer \in Nodes
        /\ call[i].at \in Nodes /\ call[i].peer \in Nodes
    BY <1>0, <1>6, <2>1, CallHasNodes DEF HandleQuicConn, TypeOK
  <2>3. \/ conns' = conns
        \/ conns[call[j].peer][call[j].at] = Nil
           /\ conns' = [conns EXCEPT ![call[j].peer][call[j].at] = j]
    BY <1>6 DEF HandleQuicConn
  <2> DEFINE w == [conns EXCEPT ![call[j].peer][call[j].at] = j]
  <2>4. w[call[i].at][call[i].peer] = IF call[i].at = call[j].peer /\ call[i].peer = call[j].at
                                      THEN j ELSE conns[call[i].at][call[i].peer]
    BY <2>2, ConnsWrite
  <2>5. conns' = conns \/ (conns' = w /\ conns[call[j].peer][call[j].at] = Nil)
    BY <2>3
  <2> HIDE DEF w
  <2> QED BY <1>0, <2>1, <2>4, <2>5
<1>7. ASSUME NEW j \in Calls, HandlerEnds(j)
      PROVE  conns'[call'[i].at][call'[i].peer] = i
  <2>1. conns[call[i].at][call[i].peer] = i /\ call' = call /\ i # j
    BY <1>7, <1>a DEF HandlerEnds
  <2>2. /\ call[j].at \in Nodes /\ call[j].peer \in Nodes
        /\ call[i].at \in Nodes /\ call[i].peer \in Nodes
    BY <1>0, <1>7, <2>1, CallHasNodes DEF HandlerEnds, TypeOK
  <2> QED BY <1>0, <1>7, <2>1, <2>2 DEF TypeOK, HandlerEnds
<1>8. ASSUME NEW n \in Nodes, NEW m \in Nodes, NotifyLeave(n, m)
      PROVE  conns'[call'[i].at][call'[i].peer] = i
  <2>1. i \in up /\ i # conns[n][m] /\ call' = call
    BY <1>8 DEF NotifyLeave, CloseQuicConnection
  <2>2. conns[call[i].at][call[i].peer] = i /\ call[i].at \in Nodes /\ call[i].peer \in Nodes
    BY <1>0, <1>a, <2>1, CallHasNodes
  <2> QED BY <1>0, <1>8, <2>1, <2>2 DEF TypeOK, NotifyLeave, CloseQuicConnection
<1>9. ASSUME NEW j \in Calls, NEW n \in Nodes, NEW m \in Nodes, NotifyUpdate(j, n, m)
      PROVE  conns'[call'[i].at][call'[i].peer] = i
  <2>1. i \in up /\ i # conns[n][m] /\ i # j /\ call'[i] = call[i]
    BY <1>0, <1>9 DEF NotifyUpdate, CloseQuicConnection, TypeOK
  <2>2. conns[call[i].at][call[i].peer] = i /\ call[i].at \in Nodes /\ call[i].peer \in Nodes
    BY <1>0, <2>1, CallHasNodes DEF NoOrphan
  <2> QED BY <1>0, <1>9, <2>1, <2>2 DEF TypeOK, NotifyUpdate, CloseQuicConnection
<1>10. ASSUME NEW j \in Calls, ConnLost(j)
      PROVE  conns'[call'[i].at][call'[i].peer] = i
  BY <1>0, <1>10, <1>a DEF ConnLost
<1>11. CASE UNCHANGED vars
  BY <1>0, <1>11, <1>a DEF vars
<1> QED
  BY <1>1, <1>2, <1>3, <1>4, <1>5, <1>6, <1>7, <1>8, <1>9, <1>10, <1>11
     DEF Next, CallStep, HandlerStep

(* The duplicate check of NotifyJoin leaks no connection: one that is open *)
(* after its call has returned is in the dialer's map, whatever is dialed, *)
(* accepted, lost and closed at the same time.                             *)
THEOREM NothingOrphaned == Spec => []NoOrphan
<1>1. Init => IInv
  BY ConnectionsAssumption DEF Init, IInv, TypeOK, NoOrphan, Call
<1>2. IInv /\ [Next]_vars => IInv'
  BY TypeStep, OrphanStep DEF IInv
<1>3. IInv => NoOrphan
  BY DEF IInv
<1> QED BY <1>1, <1>2, <1>3, PTL DEF Spec
=============================================================================
