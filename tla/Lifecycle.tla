----------------------------- MODULE Lifecycle -----------------------------
(***************************************************************************)
(* One node from New to the end of Shutdown: the facade's Start, Ready and *)
(* Shutdown, the two layers below it, their contexts, ready channels and   *)
(* wait groups, the workers they run, and the lock of the bucket table     *)
(* that the workers share with CreateBucket. Start is called once (another *)
(* call would close the ready channels again, which panics).               *)
(*                                                                         *)
(* External, known from how src/ uses it: memberlist's Join and Leave end  *)
(* (both have timeouts); a worker of the worker library ends at some point *)
(* after its context is done, registers in its wait group in the goroutine *)
(* it is started in, and ends at once if its context is done by then (its  *)
(* ticker is new and its input channel empty).                             *)
(***************************************************************************)
EXTENDS Integers, FiniteSets

CONSTANTS
    Shutdowns, Creates,   \* the calls of Shutdown and CreateBucket
    StartupDelay,         \* is a startup delay configured?
    MaxExpired            \* most entries one eviction task finds expired

ASSUME LifecycleAssumption == StartupDelay \in BOOLEAN /\ MaxExpired \in Nat

Layers == {"nodosum", "mycel"}

(* The goroutines in each layer's wait group. The listener stands for two, *)
(* the accept loop and the one that closes it; so does the rebalancer, for *)
(* its worker and the one that passes triggers on. The tasks of receive    *)
(* and rebalancer only look buckets up under the lock for a moment and are *)
(* not told apart from a worker between tasks.                             *)
WorkersOf == [nodosum |-> {"listener", "receive"}, mycel |-> {"ttl", "rebalancer"}]
Workers == UNION {WorkersOf[l] : l \in Layers}
LayerOf(w) == CHOOSE l \in Layers : w \in WorkersOf[l]

VARIABLES
    start,      \* where the call of Start is
    up,         \* where the goroutine is that Start runs for a layer
    shutdown,   \* where each call of Shutdown is
    down,       \* where the goroutine is that a Shutdown runs for a layer
    create,     \* where each call of CreateBucket is
    wg,         \* the counter of the facade's wait group
    cancelled,  \* the contexts whose cancel function was called
    ready,      \* the ready channels that are closed
    worker,     \* where each worker is
    expired,    \* how much the eviction task has still to delete
    panicked,   \* has a goroutine panicked, and the process died?
    misused     \* history: how the calls of Shutdown were out of order

vars == <<start, up, shutdown, down, create, wg, cancelled, ready, worker, expired,
          panicked, misused>>

starting == <<start, up, ready>>
stopping == <<shutdown, down, misused>>
working  == <<worker, expired, create>>

DoneAlone(ctx) == ctx \in cancelled

(* A context is done when it or the one it is derived from is cancelled.   *)
Done(ctx) == "facade" \in cancelled \/ ctx \in cancelled

Init ==
    /\ start = "idle" /\ up = [l \in Layers |-> "none"]
    /\ shutdown = [d \in Shutdowns |-> "idle"]
    /\ down = [d \in Shutdowns |-> [l \in Layers |-> "none"]]
    /\ create = [c \in Creates |-> "idle"]
    /\ wg = 0 /\ cancelled = {} /\ ready = {}
    /\ worker = [w \in Workers |-> IF w = "receive" THEN "launched" ELSE "none"]
    /\ expired = 0 /\ panicked = FALSE /\ misused = {}

(* Ready returns nil only when the facade's channel is closed; it may also *)
(* run out of time, or see the end of the context.                         *)
ReadyMayReturnNil == "facade" \in ready

Cancel(ctxs) == cancelled' = cancelled \cup ctxs

WgDoneUnchecked(times) == wg' = wg - times /\ UNCHANGED panicked

(* WaitGroup.Done: the process dies when the counter gets negative.        *)
WgDone(times) == wg' = wg - times /\ panicked' = (wg < times)

-----------------------------------------------------------------------------
(* mycorrhizal.Start: a goroutine for each layer, one Add for each.        *)
StartNodosum ==
    /\ start = "idle"
    /\ start' = "add nodosum" /\ up' = [up EXCEPT !["nodosum"] = "start"]
    /\ UNCHANGED <<wg, cancelled, ready, panicked, stopping, working>>

StartMycel ==
    /\ start = "add nodosum"
    /\ start' = "add mycel" /\ up' = [up EXCEPT !["mycel"] = "start"]
    /\ wg' = wg + 1
    /\ UNCHANGED <<cancelled, ready, panicked, stopping, working>>

StartWaitsUncounted ==
    /\ start = "add mycel"
    /\ start' = "wait"
    /\ UNCHANGED <<up, wg, cancelled, ready, panicked, stopping, working>>

StartWaits ==
    /\ start = "add mycel"
    /\ start' = "wait" /\ wg' = wg + 1
    /\ UNCHANGED <<up, cancelled, ready, panicked, stopping, working>>

StartDelaysSoon ==
    /\ start = "wait" /\ \E l \in Layers : up[l] = "ended"
    /\ start' = IF StartupDelay THEN "delay" ELSE "close"
    /\ UNCHANGED <<up, wg, cancelled, ready, panicked, stopping, working>>

StartDelays ==
    /\ start = "wait" /\ \A l \in Layers : up[l] = "ended"
    /\ start' = IF StartupDelay THEN "delay" ELSE "close"
    /\ UNCHANGED <<up, wg, cancelled, ready, panicked, stopping, working>>

StartDelayed ==
    /\ start = "delay"
    /\ start' \in {"close"} \cup (IF Done("facade") THEN {"error"} ELSE {})
    /\ UNCHANGED <<up, wg, cancelled, ready, panicked, stopping, working>>

StartReturns ==
    /\ start = "close"
    /\ start' = "nil" /\ ready' = ready \cup {"facade"}
    /\ UNCHANGED <<up, wg, cancelled, panicked, stopping, working>>

(* nodosum.Start, then nodosum.Ready: the channel is closed by then, and   *)
(* select may take the end of the context all the same.                    *)
NodosumStarts ==
    /\ up["nodosum"] = "start"
    /\ up' = [up EXCEPT !["nodosum"] = "join"]
    /\ worker' = [worker EXCEPT !["listener"] = "loop"]
    /\ UNCHANGED <<start, wg, cancelled, ready, expired, create, panicked, stopping>>

NodosumJoined ==
    /\ up["nodosum"] = "join"
    /\ up' = [up EXCEPT !["nodosum"] = "ready"] /\ ready' = ready \cup {"nodosum"}
    /\ UNCHANGED <<start, wg, cancelled, panicked, stopping, working>>

LayerReady(l) ==
    /\ up[l] = "ready"
    /\ up' = [up EXCEPT ![l] = "ended"]
    /\ \/ l \in ready /\ UNCHANGED cancelled
       \/ Done(l) /\ Cancel({"facade"})
    /\ UNCHANGED <<start, wg, ready, panicked, stopping, working>>

(* mycel.Start gives up when nodosum is not ready in time or has ended.    *)
MycelFails ==
    /\ up["mycel"] = "start"
    /\ "nodosum" \notin ready \/ Done("nodosum")
    /\ up' = [up EXCEPT !["mycel"] = "ready"] /\ Cancel({"mycel", "facade"})
    /\ UNCHANGED <<start, wg, ready, panicked, stopping, working>>

MycelStarts ==
    /\ up["mycel"] = "start" /\ "nodosum" \in ready
    /\ up' = [up EXCEPT !["mycel"] = "ready"] /\ ready' = ready \cup {"mycel"}
    /\ worker' = [worker EXCEPT !["ttl"] = "launched", !["rebalancer"] = "loop"]
    /\ UNCHANGED <<start, wg, cancelled, expired, create, panicked, stopping>>

-----------------------------------------------------------------------------
(* mycorrhizal.Shutdown: each layer's goroutine calls Done once more than  *)
(* WaitGroup.Go does, for the Add of Start.                                *)
Shutdown(d) ==
    /\ shutdown[d] = "idle"
    /\ shutdown' = [shutdown EXCEPT ![d] = "cancel"]
    /\ down' = [down EXCEPT ![d] = [l \in Layers |-> "cancel"]]
    /\ wg' = wg + 2
    /\ misused' = misused \cup (IF \E c \in Shutdowns : shutdown[c] # "idle" THEN {"again"} ELSE {})
                          \cup (IF start \in {"idle", "add nodosum", "add mycel"} THEN {"before Start"} ELSE {})
                          \cup (IF start \notin {"nil", "error"} THEN {"during Start"} ELSE {})
    /\ UNCHANGED <<cancelled, panicked, starting, working>>

ShutdownCancels(d) ==
    /\ shutdown[d] = "cancel"
    /\ shutdown' = [shutdown EXCEPT ![d] = "wait"] /\ Cancel({"facade"})
    /\ UNCHANGED <<down, wg, misused, panicked, starting, working>>

ShutdownReturns(d) ==
    /\ shutdown[d] = "wait" /\ wg = 0
    /\ shutdown' = [shutdown EXCEPT ![d] = "nil"]
    /\ UNCHANGED <<down, wg, cancelled, misused, panicked, starting, working>>

(* A layer's Shutdown cancels its context (nodosum leaves the cluster      *)
(* first, which takes its time) and waits for its wait group.              *)
LayerCancels(d, l) ==
    /\ down[d][l] = "cancel"
    /\ down' = [down EXCEPT ![d][l] = "wait"] /\ Cancel({l})
    /\ UNCHANGED <<shutdown, wg, misused, panicked, starting, working>>

(* A worker counts in its wait group from its registration to its end.     *)
Registered(w) == worker[w] \notin {"none", "launched", "ended"}

LayerEndedAtOnce(d, l) ==
    /\ down[d][l] = "wait"
    /\ down' = [down EXCEPT ![d][l] = "ended"] /\ WgDone(2)
    /\ UNCHANGED <<shutdown, cancelled, misused, starting, working>>

LayerEndedOnce(d, l) ==
    /\ down[d][l] = "wait" /\ \A w \in WorkersOf[l] : ~Registered(w)
    /\ down' = [down EXCEPT ![d][l] = "ended"] /\ WgDone(1)
    /\ UNCHANGED <<shutdown, cancelled, misused, starting, working>>

(* The goroutine's own Done and that of WaitGroup.Go follow one another.   *)
LayerEnded(d, l) ==
    /\ down[d][l] = "wait" /\ \A w \in WorkersOf[l] : ~Registered(w)
    /\ down' = [down EXCEPT ![d][l] = "ended"] /\ WgDone(2)
    /\ UNCHANGED <<shutdown, cancelled, misused, starting, working>>

(* The application ends the context it configured.                         *)
AppCancels ==
    /\ "facade" \notin cancelled
    /\ Cancel({"facade"})
    /\ UNCHANGED <<wg, panicked, starting, stopping, working>>

-----------------------------------------------------------------------------
(* A step of a worker.                                                     *)
Work(w, from, to) ==
    /\ worker[w] = from
    /\ worker' = [worker EXCEPT ![w] = to]
    /\ UNCHANGED <<create, wg, cancelled, panicked, starting, stopping>>

Begin(w) == Work(w, "launched", IF Done(LayerOf(w)) THEN "ended" ELSE "loop") /\ UNCHANGED expired

End(w) == Done(LayerOf(w)) /\ Work(w, "loop", "ended") /\ UNCHANGED expired

(* A task that a tick starts after the end of the context, which select    *)
(* allows, is one that had started before and takes longer.                *)
TtlStarts == ~Done("mycel") /\ Work("ttl", "loop", "lock") /\ UNCHANGED expired

(* RLock waits behind a writer that waits, even if the lock is held for    *)
(* reading only.                                                           *)
WriterWaits == \E c \in Creates : create[c] = "lock"

(* The eviction task keeps the lock until it has deleted what it found; a  *)
(* deletion on this node takes the lock again, one on other nodes does not. *)
TtlLocks == ~WriterWaits /\ Work("ttl", "lock", "holds") /\ expired' \in 0..MaxExpired

TtlDeletes ==
    /\ expired > 0
    /\ Work("ttl", "holds", "locks again") /\ UNCHANGED expired

TtlDeleted == ~WriterWaits /\ Work("ttl", "locks again", "holds") /\ expired' = expired - 1

TtlDeletedElsewhere ==
    /\ expired > 0
    /\ Work("ttl", "holds", "holds") /\ expired' = expired - 1

TtlUnlocks == expired = 0 /\ Work("ttl", "holds", "loop") /\ UNCHANGED expired

TtlHolds == worker["ttl"] \in {"holds", "locks again"}

CreateBucket(c) ==
    /\ create[c] = "idle"
    /\ create' = [create EXCEPT ![c] = "lock"]
    /\ UNCHANGED <<wg, cancelled, worker, expired, panicked, starting, stopping>>

BucketCreated(c) ==
    /\ create[c] = "lock" /\ ~TtlHolds
    /\ create' = [create EXCEPT ![c] = "done"]
    /\ UNCHANGED <<wg, cancelled, worker, expired, panicked, starting, stopping>>

-----------------------------------------------------------------------------
StartStep == StartMycel \/ StartWaits \/ StartDelays \/ StartDelayed \/ StartReturns
UpStep(l) ==
    \/ LayerReady(l)
    \/ l = "nodosum" /\ (NodosumStarts \/ NodosumJoined)
    \/ l = "mycel" /\ (MycelFails \/ MycelStarts)
ShutdownStep(d) == ShutdownCancels(d) \/ ShutdownReturns(d)
DownStep(d, l) == LayerCancels(d, l) \/ LayerEnded(d, l)
TtlStep == TtlLocks \/ TtlDeletes \/ TtlDeleted \/ TtlDeletedElsewhere \/ TtlUnlocks

Next ==
    /\ ~panicked
    /\ \/ StartNodosum \/ StartStep \/ AppCancels \/ TtlStarts \/ TtlStep
       \/ \E l \in Layers : UpStep(l)
       \/ \E d \in Shutdowns : Shutdown(d) \/ ShutdownStep(d) \/ \E l \in Layers : DownStep(d, l)
       \/ \E w \in Workers : Begin(w) \/ End(w)
       \/ \E c \in Creates : CreateBucket(c) \/ BucketCreated(c)

Spec == Init /\ [][Next]_vars

(* Goroutines that can go on do so, Join, Leave and the timers end; nothing *)
(* obliges the application to call, or a tick to come.                     *)
Fairness ==
    /\ WF_vars(~panicked /\ StartStep)
    /\ \A l \in Layers : WF_vars(~panicked /\ UpStep(l))
    /\ \A d \in Shutdowns : /\ WF_vars(~panicked /\ ShutdownStep(d))
                            /\ \A l \in Layers : WF_vars(~panicked /\ DownStep(d, l))
    /\ \A w \in Workers : WF_vars(~panicked /\ Begin(w)) /\ WF_vars(~panicked /\ End(w))
    /\ WF_vars(~panicked /\ TtlStep)
    /\ \A c \in Creates : WF_vars(~panicked /\ BucketCreated(c))

FairSpec == Spec /\ Fairness

-----------------------------------------------------------------------------
TypeOK ==
    /\ start \in {"idle", "add nodosum", "add mycel", "wait", "delay", "close", "nil", "error"}
    /\ up \in [Layers -> {"none", "start", "join", "ready", "ended"}]
    /\ shutdown \in [Shutdowns -> {"idle", "cancel", "wait", "nil"}]
    /\ down \in [Shutdowns -> [Layers -> {"none", "cancel", "wait", "ended"}]]
    /\ create \in [Creates -> {"idle", "lock", "done"}]
    /\ wg \in Int /\ (wg < 0 => panicked)
    /\ cancelled \subseteq Layers \cup {"facade"} /\ ready \subseteq Layers \cup {"facade"}
    /\ worker \in [Workers -> {"none", "launched", "loop", "lock", "holds", "locks again", "ended"}]
    /\ expired \in 0..MaxExpired
    /\ panicked \in BOOLEAN
    /\ misused \subseteq {"again", "before Start", "during Start"}

(* The process panics only if it is shut down twice, or before Start has   *)
(* counted both layers.                                                    *)
NoPanicInOrder == panicked => misused \cap {"again", "before Start"} # {}

(* When a Shutdown that was called after Start had returned returns, no    *)
(* worker of the node runs any more and no task holds or awaits the lock.  *)
NothingRunsOn ==
    \A d \in Shutdowns : shutdown[d] = "nil" /\ misused = {} => \A w \in Workers : ~Registered(w)

(* Ready returns nil only if both layers have become ready, or if the      *)
(* start was given up and the context is cancelled.                        *)
ReadyMeans == ReadyMayReturnNil => (Layers \subseteq ready \/ "facade" \in cancelled)

(* The eviction task waits for the lock it holds itself, behind a          *)
(* CreateBucket that waits for the task.                                   *)
Wedged == worker["ttl"] = "locks again" /\ WriterWaits

(* Every Start, Shutdown and CreateBucket returns, unless the process has  *)
(* panicked or the eviction task and a CreateBucket block each other.      *)
CallsReturn ==
    /\ start # "idle" ~> (start \in {"nil", "error"} \/ panicked)
    /\ \A d \in Shutdowns : shutdown[d] # "idle" ~> (shutdown[d] = "nil" \/ Wedged \/ panicked)
    /\ \A c \in Creates : create[c] # "idle" ~> (create[c] = "done" \/ Wedged \/ panicked)

(* Once any context is cancelled, by Shutdown, by the application or by a  *)
(* start that failed, all workers end for good.                            *)
Stops == cancelled # {} ~> [](Wedged \/ panicked \/ \A w \in Workers : worker[w] \in {"none", "ended"})
=============================================================================
