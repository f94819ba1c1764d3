------------------------------ MODULE Streams ------------------------------
(***************************************************************************)
(* How a request travels between two connected nodes: Request              *)
(* (src/internal/nodosum/application.go), the stream map and the opening   *)
(* of streams (registry.go), the acceptance of streams, the read loops and *)
(* the closing of a connection (conn.go), with the two locks they use.     *)
(*                                                                         *)
(* One application and the stream name "request".  A stream has the name   *)
(* of the call that opened it.  A connection that is gone is not replaced  *)
(* (Connections models how connections come about).                        *)
(***************************************************************************)
EXTENDS Integers, Sequences

CONSTANTS
    Nodes, Calls, Nil,
    Dials,     \* the connections at the start: <<n, m>> dialed by n, accepted by m
    Requests,  \* <<n, m>>: n makes requests to m (a bound)
    Leavers,   \* the nodes whose memberlist reports that another has left (a bound)
    Faults,    \* the events below that happen in a behaviour
    Watched    \* the calls that are watched to the end (a bound): all are alike

AllFaults == {"lost", "join"}

ASSUME StreamsAssumption ==
    /\ Nil \notin Nodes /\ Nil \notin Calls
    /\ Dials \subseteq Nodes \X Nodes
    /\ \A n, m \in Nodes : <<n, m>> \in Dials => <<m, n>> \notin Dials
    /\ Requests \subseteq Nodes \X Nodes
    /\ Leavers \subseteq Nodes
    /\ Faults \subseteq AllFaults
    /\ Watched \subseteq Calls

VARIABLES
    up,           \* the connections that are open
    conns,        \* each node's quicConns: the nodes it has a connection for
    connsLock,    \* ... and its lock
    streams,      \* each node's quicApplicationStreams: its stream to a node
    streamsLock,  \* ... and its lock
    call,         \* the calls of Request
    loop,         \* the read loop of a node on a stream
    closed,       \* the ends of a stream that have closed their sending side
    queue,        \* the frames on a stream that a node has not read
    handled,      \* the calls whose request the handler has run
    leaving       \* each node's call of closeQuicConnection

locks == <<connsLock, streamsLock>>
ends == <<closed, queue, handled>>
vars == <<up, conns, locks, streams, call, loop, ends, leaving>>

Pc == {"idle", "lookup", "connLookup", "open", "enter", "write", "wait", "answered",
       "ok", "fail", "late"}

Sending == {"enter", "write", "wait", "answered"}

Frame == [type : {"request", "response"}, call : Calls]

Call == [pc : Pc, at : Nodes \cup {Nil}, to : Nodes \cup {Nil}, stream : Calls \cup {Nil}]

TypeOK ==
    /\ up \subseteq Dials
    /\ conns \in [Nodes -> SUBSET Nodes]
    /\ connsLock \in [Nodes -> {"free", "leaked", "shut"}]
    /\ streams \in [Nodes -> [Nodes -> Calls \cup {Nil}]]
    /\ streamsLock \in [Nodes -> {"free", "held"}]
    /\ call \in [Calls -> Call]
    /\ \A c \in Calls : /\ call[c].pc # "idle" => {call[c].at, call[c].to} \subseteq Nodes
                        /\ call[c].pc \in Sending => call[c].stream \in Calls
    /\ loop \in [Calls -> [Nodes -> {"none", "accepted", "reading", "exiting", "done"}]]
    /\ closed \in [Calls -> SUBSET Nodes]
    /\ queue \in [Calls -> [Nodes -> Seq(Frame)]]
    /\ handled \subseteq Calls
    /\ leaving \in [Nodes -> [pc : {"no", "streams", "conns", "done"}, peer : Nodes \cup {Nil}]]

Connected(n, m) == <<n, m>> \in Dials \/ <<m, n>> \in Dials
Up(n, m) == <<n, m>> \in up \/ <<m, n>> \in up

Init ==
    /\ up = Dials
    /\ conns = [n \in Nodes |-> {m \in Nodes : Connected(n, m)}]
    /\ connsLock = [n \in Nodes |-> "free"]
    /\ streams = [n \in Nodes |-> [m \in Nodes |-> Nil]]
    /\ streamsLock = [n \in Nodes |-> "free"]
    /\ call = [c \in Calls |-> [pc |-> "idle", at |-> Nil, to |-> Nil, stream |-> Nil]]
    /\ loop = [s \in Calls |-> [n \in Nodes |-> "none"]]
    /\ closed = [s \in Calls |-> {}]
    /\ queue = [s \in Calls |-> [n \in Nodes |-> <<>>]]
    /\ handled = {}
    /\ leaving = [n \in Nodes |-> [pc |-> "no", peer |-> Nil]]

(* The two ends of a stream.                                               *)
Opener(s) == call[s].at
Target(s) == call[s].to
Ends(s) == {Opener(s), Target(s)}
Other(s, n) == IF n = Opener(s) THEN Target(s) ELSE Opener(s)
Open(s) == Up(Opener(s), Target(s))

Goto(c, pc) == call' = [call EXCEPT ![c].pc = pc]

-----------------------------------------------------------------------------
(* Request: the pending entry is made, and lasts until the call returns.   *)
Request(c, n, m) ==
    /\ call[c].pc = "idle" /\ <<n, m>> \in Requests
    /\ call' = [call EXCEPT ![c] = [pc |-> "lookup", at |-> n, to |-> m, stream |-> Nil]]
    /\ UNCHANGED <<up, conns, locks, streams, loop, ends, leaving>>

(* Mutant of Lookup: a missing stream is not noticed.                      *)
LookupUnchecked(c) ==
    /\ call[c].pc = "lookup" /\ streamsLock[call[c].at] = "free"
    /\ call' = [call EXCEPT ![c].pc = "write", ![c].stream = streams[call[c].at][call[c].to]]
    /\ UNCHANGED <<up, conns, locks, streams, loop, ends, leaving>>

(* getOrOpenQuicStream: a stream in the map is used, ...                   *)
Lookup(c) ==
    LET s == streams[call[c].at][call[c].to]
    IN  /\ call[c].pc = "lookup" /\ streamsLock[call[c].at] = "free"
        /\ \/ s # Nil /\ call' = [call EXCEPT ![c].pc = "write", ![c].stream = s]
           \/ s = Nil /\ Goto(c, "connLookup")
        /\ UNCHANGED <<up, conns, locks, streams, loop, ends, leaving>>

(* ... else the connection is looked up under the read lock, which is not  *)
(* released when there is none.                                            *)
ConnLookup(c) ==
    LET n == call[c].at
    IN  /\ call[c].pc = "connLookup" /\ connsLock[n] # "shut"
        /\ \/ /\ call[c].to \in conns[n]
              /\ Goto(c, "open")
              /\ UNCHANGED connsLock
           \/ /\ call[c].to \notin conns[n]
              /\ Goto(c, "fail")
              /\ connsLock' = [connsLock EXCEPT ![n] = "leaked"]
        /\ UNCHANGED <<up, conns, streamsLock, streams, loop, ends, leaving>>

(* OpenStreamSync and the init frame.                                      *)
OpenStream(c) ==
    /\ call[c].pc = "open"
    /\ \/ Open(c) /\ call' = [call EXCEPT ![c].pc = "enter", ![c].stream = c]
       \/ ~Open(c) /\ Goto(c, "fail")
    /\ UNCHANGED <<up, conns, locks, streams, loop, ends, leaving>>

(* The new stream replaces one that another call has entered meanwhile.    *)
Enter(c) ==
    /\ call[c].pc = "enter" /\ streamsLock[call[c].at] = "free"
    /\ streams' = [streams EXCEPT ![call[c].at][call[c].to] = c]
    /\ loop' = [loop EXCEPT ![c][call[c].at] = "reading"]
    /\ Goto(c, "write")
    /\ UNCHANGED <<up, conns, locks, ends, leaving>>

(* A frame is written unless the connection or the sending side is closed. *)
CanSend(s, n) == Open(s) /\ n \notin closed[s]

Write(c) ==
    LET n == call[c].at
        s == call[c].stream
    IN  /\ call[c].pc = "write"
        /\ \/ /\ CanSend(s, n)
              /\ queue' = [queue EXCEPT ![s][Other(s, n)] =
                              Append(@, [type |-> "request", call |-> c])]
              /\ Goto(c, "wait")
           \/ /\ ~CanSend(s, n)
              /\ Goto(c, "fail")
              /\ UNCHANGED queue
        /\ UNCHANGED <<up, conns, locks, streams, loop, closed, handled, leaving>>

(* Mutant of Return: without an answer the call goes on waiting.           *)
ReturnAnswered(c) ==
    /\ call[c].pc = "answered" /\ Goto(c, "ok")
    /\ UNCHANGED <<up, conns, locks, streams, loop, ends, leaving>>

(* The answer, or the timer, ends the call.                                *)
Return(c) ==
    /\ \/ call[c].pc = "answered" /\ Goto(c, "ok")
       \/ call[c].pc \in {"wait", "answered"} /\ Goto(c, "late")
    /\ UNCHANGED <<up, conns, locks, streams, loop, ends, leaving>>

-----------------------------------------------------------------------------
(* The accept loop of handleQuicConn.  Only the node that accepted the     *)
(* connection runs one.                                                    *)
AcceptStream(s) ==
    /\ call[s].stream = s /\ loop[s][Target(s)] = "none"
    /\ <<Opener(s), Target(s)>> \in up
    /\ loop' = [loop EXCEPT ![s][Target(s)] = "accepted"]
    /\ UNCHANGED <<up, conns, locks, streams, call, ends, leaving>>

HandleStream(s) ==
    /\ call[s].stream = s /\ loop[s][Target(s)] = "accepted"
    /\ streamsLock[Target(s)] = "free"
    /\ streams' = [streams EXCEPT ![Target(s)][Opener(s)] = s]
    /\ loop' = [loop EXCEPT ![s][Target(s)] = "reading"]
    /\ UNCHANGED <<up, conns, locks, call, ends, leaving>>

(* readFrame gives node n the next whole frame of stream s (Framing).      *)
CanRead(s, n) == loop[s][n] = "reading" /\ Open(s) /\ queue[s][n] # <<>>
Dequeue(s, n) == [queue EXCEPT ![s][n] = Tail(@)]

(* Mutant of HandleRequest: the request of a call that has returned is     *)
(* dropped.                                                                *)
HandleRequestInTime(s, n) ==
    LET frame == Head(queue[s][n])
        reply == [type |-> "response", call |-> frame.call]
    IN  /\ CanRead(s, n) /\ frame.type = "request"
        /\ handled' = IF call[frame.call].pc = "wait" THEN handled \cup {frame.call} ELSE handled
        /\ queue' = IF CanSend(s, n)
                    THEN [Dequeue(s, n) EXCEPT ![s][Other(s, n)] = Append(@, reply)]
                    ELSE Dequeue(s, n)
        /\ UNCHANGED <<up, conns, locks, streams, call, loop, closed, leaving>>

(* The handler runs in the read loop, and the answer goes back on the same *)
(* stream.                                                                 *)
HandleRequest(s, n) ==
    LET frame == Head(queue[s][n])
        reply == [type |-> "response", call |-> frame.call]
    IN  /\ CanRead(s, n) /\ frame.type = "request"
        /\ handled' = handled \cup {frame.call}
        /\ queue' = IF CanSend(s, n)
                    THEN [Dequeue(s, n) EXCEPT ![s][Other(s, n)] = Append(@, reply)]
                    ELSE Dequeue(s, n)
        /\ UNCHANGED <<up, conns, locks, streams, call, loop, closed, leaving>>

(* The answer to a call that has returned is dropped.                      *)
HandleResponse(s, n) ==
    LET frame == Head(queue[s][n])
    IN  /\ CanRead(s, n) /\ frame.type = "response"
        /\ call' = IF call[frame.call].pc = "wait"
                   THEN [call EXCEPT ![frame.call].pc = "answered"] ELSE call
        /\ queue' = Dequeue(s, n)
        /\ UNCHANGED <<up, conns, locks, streams, loop, closed, handled, leaving>>

(* The loop ends with the connection, or at the end of what the other side *)
(* has sent.                                                               *)
ReadEnds(s, n) ==
    /\ loop[s][n] = "reading"
    /\ ~Open(s) \/ (Other(s, n) \in closed[s] /\ queue[s][n] = <<>>)
    /\ loop' = [loop EXCEPT ![s][n] = "exiting"]
    /\ closed' = [closed EXCEPT ![s] = @ \cup {n}]
    /\ UNCHANGED <<up, conns, locks, streams, call, queue, handled, leaving>>

(* Mutant of LoopDone: the entry stays in the map.                         *)
LoopDoneKeeps(s, n) ==
    /\ loop[s][n] = "exiting" /\ streamsLock[n] = "free"
    /\ streamsLock' = [streamsLock EXCEPT ![n] = "held"]
    /\ loop' = [loop EXCEPT ![s][n] = "done"]
    /\ UNCHANGED <<up, conns, connsLock, streams, call, ends, leaving>>

(* It removes the entry under its key, whichever stream that is now, and   *)
(* does not release the lock.                                              *)
LoopDone(s, n) ==
    /\ loop[s][n] = "exiting" /\ streamsLock[n] = "free"
    /\ streams' = [streams EXCEPT ![n][Other(s, n)] = Nil]
    /\ streamsLock' = [streamsLock EXCEPT ![n] = "held"]
    /\ loop' = [loop EXCEPT ![s][n] = "done"]
    /\ UNCHANGED <<up, conns, connsLock, call, ends, leaving>>

-----------------------------------------------------------------------------
(* closeQuicConnection, called when memberlist reports that m has left:    *)
(* first the streams, ...                                                  *)
NotifyLeave(n, m) ==
    /\ n \in Leavers /\ leaving[n].pc = "no" /\ n # m
    /\ leaving' = [leaving EXCEPT ![n] = [pc |-> "streams", peer |-> m]]
    /\ UNCHANGED <<up, conns, locks, streams, call, loop, ends>>

CloseStreams(n) ==
    LET m == leaving[n].peer
        s == streams[n][m]
    IN  /\ leaving[n].pc = "streams" /\ streamsLock[n] = "free"
        /\ closed' = IF s = Nil THEN closed ELSE [closed EXCEPT ![s] = @ \cup {n}]
        /\ streams' = [streams EXCEPT ![n][m] = Nil]
        /\ leaving' = [leaving EXCEPT ![n].pc = "conns"]
        /\ UNCHANGED <<up, conns, locks, call, loop, queue, handled>>

(* ... then the connection.                                                *)
CloseConn(n) ==
    LET m == leaving[n].peer
    IN  /\ leaving[n].pc = "conns" /\ connsLock[n] = "free"
        /\ up' = IF m \in conns[n] THEN up \ {<<n, m>>, <<m, n>>} ELSE up
        /\ conns' = [conns EXCEPT ![n] = @ \ {m}]
        /\ leaving' = [leaving EXCEPT ![n].pc = "done"]
        /\ UNCHANGED <<locks, streams, call, loop, ends>>

(* The handler of an accepted connection ends with it.                     *)
HandlerEnding(n, m) == <<m, n>> \in Dials \ up /\ m \in conns[n]

HandlerEnds(n, m) ==
    /\ HandlerEnding(n, m) /\ connsLock[n] = "free"
    /\ conns' = [conns EXCEPT ![n] = @ \ {m}]
    /\ UNCHANGED <<up, locks, streams, call, loop, ends, leaving>>

(* A writer of quicConns that comes while a read lock is leaked waits for  *)
(* ever, and every later reader behind it.                                 *)
WriterWaits(n) ==
    /\ connsLock[n] = "leaked"
    /\ \/ leaving[n].pc = "conns"
       \/ \E m \in Nodes : HandlerEnding(n, m)
       \/ "join" \in Faults
    /\ connsLock' = [connsLock EXCEPT ![n] = "shut"]
    /\ UNCHANGED <<up, conns, streamsLock, streams, call, loop, ends, leaving>>

(* A connection ends by itself (idle timeout, a broken path).              *)
ConnLost(d) ==
    /\ "lost" \in Faults /\ d \in up
    /\ up' = up \ {d}
    /\ UNCHANGED <<conns, locks, streams, call, loop, ends, leaving>>

-----------------------------------------------------------------------------
CallStep(c) ==
    Lookup(c) \/ ConnLookup(c) \/ OpenStream(c) \/ Enter(c) \/ Write(c) \/ Return(c)

LoopStep(s, n) ==
    HandleRequest(s, n) \/ HandleResponse(s, n) \/ ReadEnds(s, n) \/ LoopDone(s, n)

AcceptStep(s) == AcceptStream(s) \/ HandleStream(s)

CloseStep(n) ==
    CloseStreams(n) \/ CloseConn(n) \/ WriterWaits(n) \/ \E m \in Nodes : HandlerEnds(n, m)

Next ==
    \/ \E c \in Calls, n, m \in Nodes : Request(c, n, m)
    \/ \E c \in Calls : CallStep(c) \/ AcceptStep(c) \/ \E n \in Nodes : LoopStep(c, n)
    \/ \E n \in Nodes : CloseStep(n) \/ \E m \in Nodes : NotifyLeave(n, m)
    \/ \E d \in Dials : ConnLost(d)

Spec == Init /\ [][Next]_vars

(* Goroutines run and timers fire; a connection that stays open delivers.  *)
Fairness ==
    /\ \A c \in Calls : WF_vars(CallStep(c)) /\ WF_vars(AcceptStep(c))
    /\ \A s \in Calls, n \in Nodes : WF_vars(LoopStep(s, n))

FairSpec == Spec /\ Fairness

-----------------------------------------------------------------------------
Returned(c) == call[c].pc \in {"ok", "fail", "late"}

(* A stream that a node's map offers to its callers has a read loop that   *)
(* has not removed it yet, so an answer on it is read.                     *)
EntryIsRead ==
    \A n, m \in Nodes : streams[n][m] # Nil
        => /\ Ends(streams[n][m]) = {n, m}
           /\ loop[streams[n][m]][n] \in {"reading", "exiting"}

(* Whichever stream a frame travels on, a request reaches the node it was  *)
(* made to, and an answer, which only the handler of that node gives, the  *)
(* node that asked.                                                        *)
Addressed ==
    /\ \A s \in Calls, n \in Nodes : \A i \in DOMAIN queue[s][n] :
          LET frame == queue[s][n][i]
          IN  IF frame.type = "request" THEN call[frame.call].to = n
              ELSE call[frame.call].at = n /\ frame.call \in handled
    /\ \A c \in Calls : call[c].pc \in {"answered", "ok"} => c \in handled

(* A request returns, with an answer, an error or by its timer, unless one *)
(* of the two locks of its node was not released.                          *)
LockedAt(n) == streamsLock[n] = "held" \/ connsLock[n] = "shut"
EndsUnlessLocked ==
    \A c \in Watched : call[c].pc # "idle"
        ~> Returned(c) \/ \E n \in Nodes : call[c].at = n /\ LockedAt(n)

(* A request written on a stream that the dialing node opened is handled   *)
(* at the other end, also after its call has returned, unless the          *)
(* connection breaks or the lock of the stream map there is not released.  *)
OnDialed(c) == \E s \in Calls : call[c].stream = s /\ <<Opener(s), Target(s)>> \in Dials
Broken(c) ==
    \/ \E s \in Calls : call[c].stream = s /\ ~Open(s)
    \/ \E n \in Nodes : call[c].to = n /\ streamsLock[n] = "held"
Heard ==
    \A c \in Watched : call[c].pc = "wait" /\ OnDialed(c) ~> c \in handled \/ Broken(c)

(* Every request returns: "Error if no response received before timeout".  *)
RequestEnds == \A c \in Watched : call[c].pc # "idle" ~> Returned(c)
=============================================================================
