-------------------------- MODULE LifecycleProofs --------------------------
(***************************************************************************)
(* For every set of calls of Shutdown and CreateBucket: the types, what    *)
(* Ready promises, when the process may panic, and that nothing runs on    *)
(* after a Shutdown that came after Start.                                 *)
(***************************************************************************)
EXTENDS Lifecycle, TLAPS

(* What Start has added to the wait group, and what a Shutdown still takes *)
(* from it.                                                                *)
Adds ==
    IF start \in {"idle", "add nodosum"} THEN 0 ELSE IF start = "add mycel" THEN 1 ELSE 2

Owed(d, l) == IF down[d][l] = "ended" THEN 0 ELSE 2

Orderly == "again" \notin misused /\ "before Start" \notin misused

(* A layer's goroutine in Start ends when the layer is ready or after it   *)
(* has cancelled the facade's context; Start waits for both.               *)
Joined ==
    /\ start \in {"delay", "close", "nil", "error"} => \A l \in Layers : up[l] = "ended"
    /\ "facade" \in ready => start = "nil"
    /\ \A l \in Layers : up[l] = "ended" => l \in ready \/ "facade" \in cancelled

(* As long as the calls are in order, the counter is what Start has added, *)
(* and then what the one Shutdown still owes.                              *)
Counted ==
    /\ \A d \in Shutdowns : \A l \in Layers : down[d][l] = "none" <=> shutdown[d] = "idle"
    /\ Orderly =>
        /\ ~panicked
        /\ (\A d \in Shutdowns : shutdown[d] = "idle") => wg = Adds
        /\ \A d \in Shutdowns : shutdown[d] # "idle" =>
               /\ Adds = 2 /\ wg = Owed(d, "nodosum") + Owed(d, "mycel")
               /\ \A e \in Shutdowns : shutdown[e] # "idle" => e = d

(* A layer that a Shutdown after Start has ended is cancelled, has no      *)
(* registered worker and gets none any more.                               *)
Settled ==
    /\ \A d \in Shutdowns : \A l \in Layers : down[d][l] \in {"wait", "ended"} => l \in cancelled
    /\ misused = {} => \A d \in Shutdowns :
        /\ shutdown[d] # "idle" => start \in {"nil", "error"}
        /\ \A l \in Layers : down[d][l] = "ended" => \A w \in WorkersOf[l] : ~Registered(w)
        /\ shutdown[d] = "nil" => \A l \in Layers : down[d][l] = "ended"

(* What the eviction task takes the lock again for is still to delete.     *)
Found == worker["ttl"] = "locks again" => expired > 0

IInv == TypeOK /\ Found /\ Joined /\ Counted /\ Settled

-----------------------------------------------------------------------------
(* The two layers share no worker.                                         *)
LEMMA LayerOfWorker ==
    ASSUME NEW l \in Layers, NEW w \in WorkersOf[l]
    PROVE  w \in Workers /\ LayerOf(w) = l
<1>1. \A k \in Layers : w \in WorkersOf[k] => k = l
    BY DEF Layers, WorkersOf
<1>2. LayerOf(w) \in Layers /\ w \in WorkersOf[LayerOf(w)]
    BY DEF LayerOf
<1> QED  BY <1>1, <1>2 DEF Workers

(* New leaves the invariant true.                                          *)
LEMMA Initially == Init => IInv
<1> SUFFICES ASSUME Init PROVE IInv  OBVIOUS
<1>1. TypeOK
    <2>1. /\ start = "idle" /\ wg = 0 /\ cancelled = {} /\ ready = {}
          /\ expired = 0 /\ panicked = FALSE /\ misused = {}
        BY DEF Init
    <2>2. up \in [Layers -> {"none", "start", "join", "ready", "ended"}]  BY DEF Init
    <2>3. /\ shutdown \in [Shutdowns -> {"idle", "cancel", "wait", "nil"}]
          /\ down \in [Shutdowns -> [Layers -> {"none", "cancel", "wait", "ended"}]]
          /\ create \in [Creates -> {"idle", "lock", "done"}]
        BY DEF Init
    <2>4. worker \in [Workers -> {"none", "launched", "loop", "lock", "holds", "locks again", "ended"}]
        BY DEF Init
    <2>5. wg \in Int /\ (wg < 0 => panicked) /\ expired \in 0..MaxExpired
        BY <2>1, LifecycleAssumption
    <2> QED  BY <2>1, <2>2, <2>3, <2>4, <2>5 DEF TypeOK
<1>2. Joined  BY DEF Init, Joined
<1>3. Counted  BY DEF Init, Counted, Adds
<1>4. Settled  BY DEF Init, Settled
<1>5. Found  BY DEF Init, Found, Workers, WorkersOf, Layers
<1> QED  BY <1>1, <1>2, <1>3, <1>4, <1>5 DEF IInv

(* A step of a worker keeps the types.                                     *)
LEMMA WorkTypes ==
    ASSUME TypeOK, NEW w \in Workers, NEW from,
           NEW to \in {"none", "launched", "loop", "lock", "holds", "locks again", "ended"},
           Work(w, from, to), expired' \in 0..MaxExpired
    PROVE  TypeOK'
BY DEF TypeOK, Work, starting, stopping

(* The types, step by step.                                                *)
LEMMA Types == TypeOK /\ Found /\ [Next]_vars => TypeOK'
<1> SUFFICES ASSUME TypeOK, Found, [Next]_vars PROVE TypeOK'  OBVIOUS
<1> USE LifecycleAssumption
<1>0. wg \in Int /\ expired \in 0..MaxExpired  BY Zenon DEF TypeOK
<1>1. ASSUME StartNodosum \/ StartStep PROVE TypeOK'
    <2>1. start' \in {"idle", "add nodosum", "add mycel", "wait", "delay", "close", "nil", "error"}
        BY <1>1 DEF StartNodosum, StartStep, StartMycel, StartWaits, StartDelays, StartDelayed, StartReturns
    <2>2. up' \in [Layers -> {"none", "start", "join", "ready", "ended"}]
        BY <1>1 DEF TypeOK, StartNodosum, StartStep, StartMycel, StartWaits, StartDelays,
                    StartDelayed, StartReturns
    <2>3. wg' \in {wg, wg + 1} /\ ready' \in {ready, ready \cup {"facade"}}
        BY <1>1 DEF StartNodosum, StartStep, StartMycel, StartWaits, StartDelays,
                    StartDelayed, StartReturns
    <2>4. UNCHANGED <<cancelled, panicked, stopping, working>>
        BY <1>1 DEF StartNodosum, StartStep, StartMycel, StartWaits, StartDelays, StartDelayed, StartReturns
    <2>5. UNCHANGED panicked /\ wg' \in Int /\ (wg' < 0 => wg < 0)  BY <1>0, <2>3, <2>4
    <2>6. ready' \subseteq Layers \cup {"facade"}  BY <2>3 DEF TypeOK
    <2>7. wg' < 0 => panicked'  BY <2>5, Zenon DEF TypeOK
    <2> QED  BY <2>1, <2>2, <2>4, <2>5, <2>6, <2>7 DEF TypeOK, stopping, working
<1>3. CASE AppCancels  BY <1>3 DEF TypeOK, AppCancels, Cancel, starting, stopping, working
<1>4. "ttl" \in Workers  BY DEF Workers, WorkersOf, Layers
<1>5. CASE TtlStarts  BY <1>4, <1>5, WorkTypes DEF TtlStarts, TypeOK
<1>6. CASE TtlStep
    <2>1. \/ expired' \in 0..MaxExpired \/ UNCHANGED expired
          \/ expired > 0 /\ expired' = expired - 1
        <3>1. CASE TtlDeleted  BY <3>1 DEF TtlDeleted, Work, Found
        <3> QED  BY <1>6, <3>1 DEF TtlStep, TtlLocks, TtlDeletes, TtlDeletedElsewhere, TtlUnlocks
    <2>3. expired' \in 0..MaxExpired  BY <1>0, <2>1
    <2>2. \/ Work("ttl", "lock", "holds") \/ Work("ttl", "holds", "locks again")
          \/ Work("ttl", "locks again", "holds") \/ Work("ttl", "holds", "holds")
          \/ Work("ttl", "holds", "loop")
        BY <1>6 DEF TtlStep, TtlLocks, TtlDeletes, TtlDeleted, TtlDeletedElsewhere, TtlUnlocks
    <2> QED  BY <1>4, <2>2, <2>3, WorkTypes
<1>7. ASSUME NEW l \in Layers, UpStep(l) PROVE TypeOK'
    <2>1. up' \in [Layers -> {"none", "start", "join", "ready", "ended"}]
        <3>1. up \in [Layers -> {"none", "start", "join", "ready", "ended"}]  BY DEF TypeOK
        <3>2. CASE LayerReady(l)  BY <3>1, <3>2 DEF LayerReady
        <3>3. CASE NodosumStarts \/ NodosumJoined  BY <3>1, <3>3 DEF NodosumStarts, NodosumJoined
        <3>4. CASE MycelFails \/ MycelStarts  BY <3>1, <3>4 DEF MycelFails, MycelStarts
        <3> QED  BY <1>7, <3>2, <3>3, <3>4 DEF UpStep
    <2>2. /\ cancelled' \subseteq Layers \cup {"facade"} /\ ready' \subseteq Layers \cup {"facade"}
        BY <1>7 DEF TypeOK, UpStep, LayerReady, NodosumStarts, NodosumJoined, MycelFails,
                    MycelStarts, Cancel, Layers, working
    <2>3. worker' \in [Workers -> {"none", "launched", "loop", "lock", "holds", "locks again", "ended"}]
        BY <1>7 DEF TypeOK, UpStep, LayerReady, NodosumStarts, NodosumJoined, MycelFails,
                    MycelStarts, working
    <2>4. UNCHANGED <<start, wg, expired, create, panicked, stopping>>
        BY <1>7 DEF UpStep, LayerReady, NodosumStarts, NodosumJoined, MycelFails, MycelStarts, working
    <2> QED  BY <2>1, <2>2, <2>3, <2>4 DEF TypeOK, stopping
<1>8. ASSUME NEW d \in Shutdowns, Shutdown(d) PROVE TypeOK'
    <2>1. shutdown' \in [Shutdowns -> {"idle", "cancel", "wait", "nil"}]
        BY <1>8 DEF TypeOK, Shutdown
    <2>2. [l \in Layers |-> "cancel"] \in [Layers -> {"none", "cancel", "wait", "ended"}]
        OBVIOUS
    <2>3. down' \in [Shutdowns -> [Layers -> {"none", "cancel", "wait", "ended"}]]
        BY <1>8, <2>2 DEF TypeOK, Shutdown
    <2>4. misused' \subseteq {"again", "before Start", "during Start"}
        BY <1>8 DEF TypeOK, Shutdown
    <2>5. UNCHANGED <<cancelled, panicked, starting, working>>  BY <1>8 DEF Shutdown
    <2>6. UNCHANGED panicked /\ wg' = wg + 2  BY <1>8 DEF Shutdown
    <2>7. wg' \in Int /\ (wg' < 0 => wg < 0)  BY <1>0, <2>6
    <2>8. wg' < 0 => panicked'  BY <2>6, <2>7, Zenon DEF TypeOK
    <2> QED  BY <2>1, <2>3, <2>4, <2>5, <2>7, <2>8 DEF TypeOK, starting, working
<1>9. ASSUME NEW d \in Shutdowns, ShutdownStep(d) PROVE TypeOK'
    BY <1>9 DEF TypeOK, ShutdownStep, ShutdownCancels, ShutdownReturns, Cancel, starting, working
<1>10. ASSUME NEW d \in Shutdowns, NEW l \in Layers, DownStep(d, l) PROVE TypeOK'
    <2>1. ASSUME NEW to \in {"none", "cancel", "wait", "ended"}, down' = [down EXCEPT ![d][l] = to]
          PROVE  down' \in [Shutdowns -> [Layers -> {"none", "cancel", "wait", "ended"}]]
        BY <2>1 DEF TypeOK
    <2>2. down' \in [Shutdowns -> [Layers -> {"none", "cancel", "wait", "ended"}]]
        BY <1>10, <2>1 DEF DownStep, LayerCancels, LayerEnded
    <2>4. cancelled' \subseteq Layers \cup {"facade"}
        BY <1>10 DEF TypeOK, DownStep, LayerCancels, LayerEnded, Cancel
    <2>5. UNCHANGED <<shutdown, misused, starting, working>>
        BY <1>10 DEF DownStep, LayerCancels, LayerEnded
    <2>3. CASE LayerCancels(d, l)
        <3>1. UNCHANGED <<wg, panicked>>  BY <2>3 DEF LayerCancels
        <3> QED  BY <3>1, <2>2, <2>4, <2>5 DEF TypeOK, starting, working
    <2>6. CASE LayerEnded(d, l)
        <3>1. wg' = wg - 2 /\ panicked' = (wg < 2)  BY <2>6 DEF LayerEnded, WgDone
        <3>2. wg' \in Int /\ (wg' < 0 => wg < 2)  BY <1>0, <3>1
        <3>3. panicked' \in BOOLEAN  BY <3>1
        <3>4. wg' < 0 => panicked'  BY <3>1, <3>2, Zenon
        <3> QED  BY <3>2, <3>3, <3>4, <2>2, <2>4, <2>5 DEF TypeOK, starting, working
    <2> QED  BY <1>10, <2>3, <2>6 DEF DownStep
<1>11. ASSUME NEW w \in Workers, Begin(w) \/ End(w) PROVE TypeOK'
    BY <1>11, WorkTypes DEF Begin, End, TypeOK
<1>12. ASSUME NEW c \in Creates, CreateBucket(c) \/ BucketCreated(c) PROVE TypeOK'
    BY <1>12 DEF TypeOK, CreateBucket, BucketCreated, starting, stopping
<1>13. CASE UNCHANGED vars  BY <1>13 DEF TypeOK, vars
<1> QED  BY <1>1, <1>3, <1>5, <1>6, <1>7, <1>8, <1>9, <1>10, <1>11, <1>12, <1>13 DEF Next

(* The rest of the invariant, part by part.                                *)
LEMMA FoundInStep == IInv /\ [Next]_vars => Found'
<1> SUFFICES ASSUME IInv, [Next]_vars PROVE Found'  OBVIOUS
<1>1. worker \in [Workers -> {"none", "launched", "loop", "lock", "holds", "locks again", "ended"}]
    BY Zenon DEF IInv, TypeOK
<1>0. Found /\ "ttl" \in Workers  BY DEF IInv, Workers, WorkersOf, Layers
<1>2. CASE TtlStarts \/ TtlStep
    <2>1. CASE TtlDeletes  BY <2>1 DEF TtlDeletes, Found
    <2>2. ASSUME NEW from, NEW to \in {"loop", "lock", "holds"}, Work("ttl", from, to)
          PROVE  Found'
        BY <1>0, <1>1, <2>2 DEF Work, Found
    <2> QED  BY <1>2, <2>1, <2>2 DEF TtlStarts, TtlStep, TtlLocks, TtlDeleted, TtlDeletedElsewhere,
                                     TtlUnlocks
<1>3. ASSUME NEW w \in Workers, Begin(w) \/ End(w) PROVE Found'
    <2>1. ASSUME NEW from, NEW to \in {"loop", "ended"}, Work(w, from, to)
          PROVE  worker'["ttl"] \in {worker["ttl"], to}
        BY <1>0, <1>1, <2>1 DEF Work
    <2>2. worker'["ttl"] \in {worker["ttl"], "loop", "ended"} /\ UNCHANGED expired
        BY <1>3, <2>1 DEF Begin, End
    <2> QED  BY <1>0, <2>2 DEF Found
<1>4. ASSUME NEW l \in Layers, UpStep(l) PROVE Found'
    <2>1. worker'["ttl"] \in {worker["ttl"], "launched"} /\ UNCHANGED expired
        BY <1>0, <1>1, <1>4 DEF UpStep, LayerReady, NodosumStarts, NodosumJoined, MycelFails,
                                MycelStarts, working
    <2> QED  BY <1>0, <2>1 DEF Found
<1>5. CASE UNCHANGED <<worker, expired>>  BY <1>5 DEF IInv, Found
<1>6. ASSUME \/ StartNodosum \/ StartStep \/ AppCancels \/ UNCHANGED vars
             \/ \E d \in Shutdowns : Shutdown(d) \/ ShutdownStep(d) \/ \E l \in Layers : DownStep(d, l)
             \/ \E c \in Creates : CreateBucket(c) \/ BucketCreated(c)
      PROVE  UNCHANGED <<worker, expired>>
    BY <1>6 DEF StartNodosum, StartStep, StartMycel, StartWaits, StartDelays, StartDelayed,
                StartReturns, AppCancels, Shutdown, ShutdownStep, ShutdownCancels, ShutdownReturns,
                DownStep, LayerCancels, LayerEnded, CreateBucket, BucketCreated, working, vars
<1> QED  BY <1>2, <1>3, <1>4, <1>5, <1>6 DEF Next

(* Start and the layers' goroutines.                                       *)
LEMMA JoinedInStep == IInv /\ [Next]_vars => Joined'
<1> SUFFICES ASSUME IInv, [Next]_vars PROVE Joined'  OBVIOUS
<1>1. up \in [Layers -> {"none", "start", "join", "ready", "ended"}] /\ Joined
    BY Zenon DEF IInv, TypeOK
<1>2. CASE StartNodosum \/ StartStep
    BY <1>1, <1>2 DEF Joined, StartNodosum, StartStep, StartMycel, StartWaits, StartDelays,
                      StartDelayed, StartReturns
<1>3. ASSUME NEW l \in Layers, UpStep(l) PROVE Joined'
    BY <1>1, <1>3 DEF Joined, UpStep, LayerReady, NodosumStarts, NodosumJoined, MycelFails,
                      MycelStarts, Cancel, Done, Layers
<1>4. ASSUME UNCHANGED starting, cancelled \subseteq cancelled' PROVE Joined'
    BY <1>1, <1>4 DEF Joined, starting
<1>5. ASSUME \/ AppCancels \/ TtlStarts \/ TtlStep \/ UNCHANGED vars
             \/ \E d \in Shutdowns : Shutdown(d) \/ ShutdownStep(d) \/ \E l \in Layers : DownStep(d, l)
             \/ \E w \in Workers : Begin(w) \/ End(w)
             \/ \E c \in Creates : CreateBucket(c) \/ BucketCreated(c)
      PROVE  UNCHANGED starting /\ cancelled \subseteq cancelled'
    BY <1>5 DEF AppCancels, Shutdown, ShutdownStep, ShutdownCancels, ShutdownReturns, DownStep,
                LayerCancels, LayerEnded, CreateBucket, BucketCreated, TtlStarts, TtlStep, TtlLocks,
                TtlDeletes, TtlDeleted, TtlDeletedElsewhere, TtlUnlocks, Begin, End, Work, Cancel,
                starting, vars
<1> QED  BY <1>2, <1>3, <1>4, <1>5 DEF Next

(* The wait group's counter.                                               *)
LEMMA CountedInStep == IInv /\ [Next]_vars => Counted'
<1> SUFFICES ASSUME IInv, [Next]_vars PROVE Counted'  OBVIOUS
<1>1. Counted /\ wg \in Int  BY Zenon DEF IInv, TypeOK
<1>0. wg \in Int  BY <1>1
<1>2. /\ shutdown \in [Shutdowns -> {"idle", "cancel", "wait", "nil"}]
      /\ down \in [Shutdowns -> [Layers -> {"none", "cancel", "wait", "ended"}]]
      /\ Layers = {"nodosum", "mycel"}
    BY Zenon DEF IInv, TypeOK, Layers
<1>3. ASSUME UNCHANGED <<shutdown, down, misused, panicked>>,
             \/ Adds' = Adds /\ wg' = wg
             \/ Adds < 2 /\ Adds' = Adds + 1 /\ wg' = wg + 1
      PROVE  Counted'
    <2>1. /\ Orderly' <=> Orderly
          /\ \A d \in Shutdowns : \A l \in Layers : Owed(d, l)' = Owed(d, l)
        BY <1>3 DEF Orderly, Owed
    <2>2. CASE Adds' = Adds /\ wg' = wg
        BY <1>1, <1>2, <1>3, <2>1, <2>2 DEF Counted
    <2>3. CASE Adds < 2 /\ Adds' = Adds + 1 /\ wg' = wg + 1
        <3>1. ASSUME Orderly PROVE \A d \in Shutdowns : shutdown[d] = "idle"
            BY <1>1, <2>3, <3>1 DEF Counted
        <3>2. ASSUME Orderly PROVE ~panicked' /\ wg' = Adds'
            BY <1>1, <1>3, <2>3, <3>1, <3>2 DEF Counted
        <3> QED  BY <1>1, <1>3, <2>1, <3>1, <3>2 DEF Counted
    <2> QED  BY <1>3, <2>2, <2>3
<1>4. CASE StartNodosum \/ StartStep
    <2>1. /\ UNCHANGED <<shutdown, down, misused, panicked>>
          /\ \/ Adds' = Adds /\ wg' = wg
             \/ Adds < 2 /\ Adds' = Adds + 1 /\ wg' = wg + 1
        <3>1. CASE StartNodosum  BY <3>1 DEF StartNodosum, stopping, Adds
        <3>2. CASE StartMycel
            <4>1. Adds = 0 /\ Adds' = 1  BY <3>2 DEF StartMycel, Adds
            <4>2. UNCHANGED <<shutdown, down, misused, panicked>> /\ wg' = wg + 1
                BY <3>2 DEF StartMycel, stopping
            <4>3. Adds < 2 /\ Adds' = Adds + 1  BY <4>1
            <4> QED  BY <4>2, <4>3, Zenon
        <3>3. CASE StartWaits
            <4>1. Adds = 1 /\ Adds' = 2  BY <3>3 DEF StartWaits, Adds
            <4>2. UNCHANGED <<shutdown, down, misused, panicked>> /\ wg' = wg + 1
                BY <3>3 DEF StartWaits, stopping
            <4>3. Adds < 2 /\ Adds' = Adds + 1  BY <4>1
            <4> QED  BY <4>2, <4>3, Zenon
        <3>4. CASE StartDelays  BY <3>4 DEF StartDelays, stopping, Adds
        <3>5. CASE StartDelayed  BY <3>5 DEF StartDelayed, stopping, Adds
        <3>6. CASE StartReturns  BY <3>6 DEF StartReturns, stopping, Adds
        <3> QED  BY <1>4, <3>1, <3>2, <3>3, <3>4, <3>5, <3>6 DEF StartStep
    <2> QED  BY <1>3, <2>1
<1>5. ASSUME NEW d \in Shutdowns, Shutdown(d) PROVE Counted'
    <2>1. /\ shutdown[d] = "idle" /\ shutdown' = [shutdown EXCEPT ![d] = "cancel"]
          /\ down' = [down EXCEPT ![d] = [l \in Layers |-> "cancel"]]
          /\ wg' = wg + 2 /\ UNCHANGED <<start, panicked>>
        BY <1>5 DEF Shutdown, starting
    <2>2. \A e \in Shutdowns : \A l \in Layers : (down[e][l] = "none")' <=> (shutdown[e] = "idle")'
        BY <1>1, <1>2, <2>1 DEF Counted
    <2>3. ASSUME Orderly'
          PROVE  /\ Orderly /\ \A e \in Shutdowns : shutdown[e] = "idle"
                 /\ start \notin {"idle", "add nodosum", "add mycel"}
        BY <1>5, <2>3 DEF Shutdown, Orderly
    <2>4. ASSUME Orderly' PROVE ~panicked' /\ wg' = 4 /\ Adds' = 2
        <3>1. Adds = 2 /\ Adds' = 2  BY <2>1, <2>3, <2>4 DEF Adds
        <3>2. ~panicked /\ wg = Adds  BY <1>1, <2>3, <2>4 DEF Counted
        <3>3. wg' = 4  BY <2>1, <3>1, <3>2
        <3> QED  BY <2>1, <3>1, <3>2, <3>3
    <2>5. (Owed(d, "nodosum") = 2)' /\ (Owed(d, "mycel") = 2)'
        BY <1>2, <2>1 DEF Owed
    <2>6. ASSUME Orderly' PROVE \A e \in Shutdowns : shutdown'[e] # "idle" <=> e = d
        BY <1>2, <2>1, <2>3, <2>6
    <2> QED  BY <2>2, <2>4, <2>5, <2>6 DEF Counted
<1>6. ASSUME NEW d \in Shutdowns, ShutdownStep(d) PROVE Counted'
    <2>1. \A e \in Shutdowns : (shutdown'[e] = "idle") <=> (shutdown[e] = "idle")
        BY <1>2, <1>6 DEF ShutdownStep, ShutdownCancels, ShutdownReturns
    <2>2. UNCHANGED <<start, down, misused, wg, panicked>>
        BY <1>6 DEF ShutdownStep, ShutdownCancels, ShutdownReturns, starting
    <2>3. /\ Adds' = Adds /\ (Orderly' <=> Orderly)
          /\ \A e \in Shutdowns : \A l \in Layers : Owed(e, l)' = Owed(e, l)
        BY <2>2 DEF Adds, Orderly, Owed
    <2> QED  BY <1>1, <1>2, <2>1, <2>2, <2>3 DEF Counted
<1>7. ASSUME NEW d \in Shutdowns, NEW l \in Layers, LayerCancels(d, l) PROVE Counted'
    <2>1. /\ down[d][l] = "cancel" /\ down' = [down EXCEPT ![d][l] = "wait"]
          /\ UNCHANGED <<start, shutdown, misused, wg, panicked>>
        BY <1>7 DEF LayerCancels, starting
    <2>2. \A e \in Shutdowns : \A k \in Layers :
              /\ (down'[e][k] = "none") <=> (down[e][k] = "none")
              /\ (down'[e][k] = "ended") <=> (down[e][k] = "ended")
        BY <1>2, <2>1
    <2>3. \A e \in Shutdowns : Owed(e, "nodosum")' = Owed(e, "nodosum") /\ Owed(e, "mycel")' = Owed(e, "mycel")
        BY <1>2, <2>2 DEF Owed
    <2>4. Adds' = Adds /\ (Orderly' <=> Orderly)  BY <2>1 DEF Adds, Orderly
    <2> QED  BY <1>1, <1>2, <2>1, <2>2, <2>3, <2>4 DEF Counted
<1>8. ASSUME NEW d \in Shutdowns, NEW l \in Layers, LayerEnded(d, l) PROVE Counted'
    <2>1. /\ down[d][l] = "wait" /\ down' = [down EXCEPT ![d][l] = "ended"]
          /\ wg' = wg - 2 /\ panicked' = (wg < 2)
          /\ UNCHANGED <<start, shutdown, misused>>
        BY <1>8 DEF LayerEnded, WgDone, starting
    <2>2. \A e \in Shutdowns : \A k \in Layers :
              (down'[e][k] = "none") <=> (down[e][k] = "none")
        BY <1>2, <2>1
    <2>3. Owed(d, "nodosum")' + Owed(d, "mycel")' = Owed(d, "nodosum") + Owed(d, "mycel") - 2
        BY <1>2, <2>1 DEF Owed
    <2>4. Owed(d, "nodosum") + Owed(d, "mycel") >= 2
        BY <1>2, <2>1 DEF Owed
    <2>5. shutdown[d] # "idle"  BY <1>1, <2>1 DEF Counted
    <2>6. ASSUME Orderly
          PROVE  /\ Adds = 2 /\ wg = Owed(d, "nodosum") + Owed(d, "mycel")
                 /\ \A e \in Shutdowns : shutdown[e] # "idle" => e = d
        BY <1>1, <2>5, <2>6 DEF Counted
    <2>7. ASSUME Orderly PROVE ~panicked' /\ wg' = Owed(d, "nodosum")' + Owed(d, "mycel")'
        <3>0. /\ Owed(d, "nodosum") \in Int /\ Owed(d, "mycel") \in Int
              /\ Owed(d, "nodosum")' \in Int /\ Owed(d, "mycel")' \in Int
            BY DEF Owed
        <3>1. wg = Owed(d, "nodosum") + Owed(d, "mycel") /\ wg >= 2  BY <1>1, <2>4, <2>6, <2>7
        <3>2. ~(wg < 2)  BY <1>1, <3>1
        <3>3. ~panicked'  BY <2>1, <3>2, Zenon
        <3>4. wg' = wg - 2  BY <2>1
        <3>5. wg' = Owed(d, "nodosum")' + Owed(d, "mycel")'  BY <1>0, <2>3, <3>0, <3>1, <3>4
        <3> QED  BY <3>3, <3>5
    <2>8. Adds' = Adds /\ (Orderly' <=> Orderly)  BY <2>1 DEF Adds, Orderly
    <2>9. \A e \in Shutdowns : Orderly /\ shutdown'[e] # "idle" => e = d
        BY <2>1, <2>6
    <2>10. \A e \in Shutdowns : \A k \in Layers : (down'[e][k] = "none") <=> (shutdown'[e] = "idle")
        BY <1>1, <2>1, <2>2 DEF Counted
    <2> QED  BY <2>1, <2>5, <2>6, <2>7, <2>8, <2>9, <2>10 DEF Counted
<1>9. ASSUME \/ AppCancels \/ TtlStarts \/ TtlStep \/ UNCHANGED vars
             \/ \E l \in Layers : UpStep(l)
             \/ \E w \in Workers : Begin(w) \/ End(w)
             \/ \E c \in Creates : CreateBucket(c) \/ BucketCreated(c)
      PROVE  UNCHANGED <<start, shutdown, down, misused, wg, panicked>>
    BY <1>9 DEF AppCancels, UpStep, LayerReady, NodosumStarts, NodosumJoined, MycelFails, MycelStarts,
                CreateBucket, BucketCreated, TtlStarts, TtlStep, TtlLocks, TtlDeletes, TtlDeleted,
                TtlDeletedElsewhere, TtlUnlocks, Begin, End, Work, starting, stopping, vars
<1>10. ASSUME UNCHANGED <<start, shutdown, down, misused, wg, panicked>> PROVE Counted'
    BY <1>1, <1>3, <1>10 DEF Adds
<1> QED  BY <1>4, <1>5, <1>6, <1>7, <1>8, <1>9, <1>10 DEF Next, DownStep

(* A worker becomes registered only when it was launched and its layer's   *)
(* context is not done, or when its layer starts.                          *)
LEMMA Registers ==
    ASSUME TypeOK, [Next]_vars, NEW l \in Layers, NEW w \in WorkersOf[l],
           ~Registered(w), Registered(w)'
    PROVE  ~Done(l) \/ up[l] = "start"
<1>1. worker \in [Workers -> {"none", "launched", "loop", "lock", "holds", "locks again", "ended"}]
    BY Zenon DEF TypeOK
<1>2. w \in Workers /\ LayerOf(w) = l  BY LayerOfWorker
<1>3. worker[w] # worker'[w]  BY DEF Registered
<1>4. ASSUME NEW v \in Workers, NEW from, NEW to, Work(v, from, to)
      PROVE  v = w /\ worker[w] = from /\ worker'[w] = to
    BY <1>1, <1>2, <1>3, <1>4 DEF Work
<1>5. ASSUME NEW v \in Workers, Begin(v) \/ End(v) PROVE ~Done(l)
    <2>1. CASE Begin(v)  BY <1>2, <1>4, <2>1 DEF Begin, Registered
    <2>2. CASE End(v)  BY <1>4, <2>2 DEF End, Registered
    <2> QED  BY <1>5, <2>1, <2>2
<1>6. "ttl" \in Workers  BY DEF Workers, WorkersOf, Layers
<1>7. ~(TtlStarts \/ TtlStep)
    <2>1. ASSUME NEW from \in {"loop", "lock", "holds", "locks again"}, NEW to PROVE ~Work("ttl", from, to)
        BY <1>4, <1>6, <2>1 DEF Registered
    <2> QED
        BY <2>1 DEF TtlStarts, TtlStep, TtlLocks, TtlDeletes, TtlDeleted, TtlDeletedElsewhere, TtlUnlocks
<1>8. ASSUME NEW k \in Layers, UpStep(k) PROVE up[l] = "start"
    <2>1. CASE k = "nodosum" /\ NodosumStarts
        <3>1. w = "listener"  BY <1>1, <1>2, <1>3, <2>1 DEF NodosumStarts
        <3>2. l = "nodosum"  BY <3>1 DEF WorkersOf, Layers
        <3> QED  BY <2>1, <3>2 DEF NodosumStarts
    <2>2. CASE k = "mycel" /\ MycelStarts
        <3>1. w \in {"ttl", "rebalancer"}  BY <1>1, <1>2, <1>3, <2>2 DEF MycelStarts
        <3>2. l = "mycel"  BY <3>1 DEF WorkersOf, Layers
        <3> QED  BY <2>2, <3>2 DEF MycelStarts
    <2>3. CASE UNCHANGED worker  BY <1>3, <2>3
    <2> QED
        BY <1>8, <2>1, <2>2, <2>3 DEF UpStep, LayerReady, NodosumJoined, MycelFails, working
<1>9. ASSUME UNCHANGED worker PROVE FALSE  BY <1>3, <1>9
<1>10. ASSUME \/ StartNodosum \/ StartStep \/ AppCancels \/ UNCHANGED vars
              \/ \E d \in Shutdowns : Shutdown(d) \/ ShutdownStep(d) \/ \E k \in Layers : DownStep(d, k)
              \/ \E c \in Creates : CreateBucket(c) \/ BucketCreated(c)
      PROVE  UNCHANGED worker
    BY <1>10 DEF StartNodosum, StartStep, StartMycel, StartWaits, StartDelays, StartDelayed,
                 StartReturns, AppCancels, Shutdown, ShutdownStep, ShutdownCancels, ShutdownReturns,
                 DownStep, LayerCancels, LayerEnded, CreateBucket, BucketCreated, working, vars
<1> QED  BY <1>5, <1>7, <1>8, <1>9, <1>10 DEF Next

(* Contexts stay cancelled, a Start that has returned stays so, and calls  *)
(* stay out of order.                                                      *)
LEMMA Monotone ==
    ASSUME TypeOK, [Next]_vars
    PROVE  /\ cancelled \subseteq cancelled' /\ misused \subseteq misused'
           /\ start \in {"nil", "error"} => start' = start
<1>1. CASE StartNodosum \/ StartStep
    BY <1>1 DEF StartNodosum, StartStep, StartMycel, StartWaits, StartDelays, StartDelayed,
                StartReturns, stopping
<1>2. ASSUME NEW l \in Layers, UpStep(l)
      PROVE  cancelled \subseteq cancelled' /\ UNCHANGED <<start, misused>>
    BY <1>2 DEF UpStep, LayerReady, NodosumStarts, NodosumJoined, MycelFails, MycelStarts, Cancel,
                stopping
<1>3. ASSUME NEW d \in Shutdowns, Shutdown(d) \/ ShutdownStep(d) \/ \E l \in Layers : DownStep(d, l)
      PROVE  cancelled \subseteq cancelled' /\ misused \subseteq misused' /\ UNCHANGED start
    BY <1>3 DEF Shutdown, ShutdownStep, ShutdownCancels, ShutdownReturns, DownStep, LayerCancels,
                LayerEnded, Cancel, starting
<1>4. ASSUME \/ AppCancels \/ TtlStarts \/ TtlStep \/ UNCHANGED vars
             \/ \E w \in Workers : Begin(w) \/ End(w)
             \/ \E c \in Creates : CreateBucket(c) \/ BucketCreated(c)
      PROVE  cancelled \subseteq cancelled' /\ UNCHANGED <<start, misused>>
    BY <1>4 DEF AppCancels, CreateBucket, BucketCreated, TtlStarts, TtlStep, TtlLocks, TtlDeletes,
                TtlDeleted, TtlDeletedElsewhere, TtlUnlocks, Begin, End, Work, Cancel, starting,
                stopping, vars
<1> QED  BY <1>1, <1>2, <1>3, <1>4 DEF Next

(* What a Shutdown has ended stays ended.                                  *)
LEMMA SettledInStep == IInv /\ Counted' /\ [Next]_vars => Settled'
<1> SUFFICES ASSUME IInv, Counted', [Next]_vars PROVE Settled'  OBVIOUS
<1>1. TypeOK /\ Settled /\ Joined /\ Counted  BY Zenon DEF IInv
<1>2. /\ shutdown \in [Shutdowns -> {"idle", "cancel", "wait", "nil"}]
      /\ down \in [Shutdowns -> [Layers -> {"none", "cancel", "wait", "ended"}]]
    BY Zenon DEF IInv, TypeOK
<1>3. /\ cancelled \subseteq cancelled' /\ misused \subseteq misused'
      /\ start \in {"nil", "error"} => start' = start
    BY <1>1, Monotone
<1>4. misused' = {} => misused = {}  BY <1>3
(* Whatever moves, a layer that was ended keeps without workers.           *)
<1>5. ASSUME misused' = {}, NEW d \in Shutdowns, NEW l \in Layers, down[d][l] = "ended",
             NEW w \in WorkersOf[l]
      PROVE  ~Registered(w)'
    <2>1. l \in cancelled /\ ~Registered(w)  BY <1>1, <1>4, <1>5 DEF Settled
    <2>2. shutdown[d] # "idle"  BY <1>1, <1>5 DEF Counted
    <2>3. start \in {"nil", "error"}  BY <1>1, <1>4, <1>5, <2>2 DEF Settled
    <2>4. up[l] # "start"  BY <1>1, <2>3 DEF Joined
    <2> QED  BY <1>1, <2>1, <2>4, Registers DEF Done
<1>6. CASE UNCHANGED <<shutdown, down>>
    <2>1. \A d \in Shutdowns : \A l \in Layers : down'[d][l] \in {"wait", "ended"} => l \in cancelled'
        BY <1>1, <1>3, <1>6 DEF Settled
    <2>2. ASSUME misused' = {}, NEW d \in Shutdowns
          PROVE  /\ shutdown'[d] # "idle" => start' \in {"nil", "error"}
                 /\ \A l \in Layers : down'[d][l] = "ended" => \A w \in WorkersOf[l] : ~Registered(w)'
                 /\ shutdown'[d] = "nil" => \A l \in Layers : down'[d][l] = "ended"
        BY <1>1, <1>3, <1>4, <1>5, <1>6, <2>2 DEF Settled
    <2> QED  BY <2>1, <2>2 DEF Settled
<1>7. ASSUME NEW d \in Shutdowns, Shutdown(d) PROVE Settled'
    <2>1. /\ shutdown[d] = "idle" /\ shutdown' = [shutdown EXCEPT ![d] = "cancel"]
          /\ down' = [down EXCEPT ![d] = [l \in Layers |-> "cancel"]]
          /\ UNCHANGED <<start, cancelled>>
        BY <1>7 DEF Shutdown, starting
    <2>2. misused' = {} => start \in {"nil", "error"}  BY <1>7 DEF Shutdown
    <2>3. \A e \in Shutdowns : \A l \in Layers :
              down'[e][l] \in {"wait", "ended"} => down'[e][l] = down[e][l]
        BY <1>2, <2>1
    <2>4. \A e \in Shutdowns : shutdown'[e] = "nil" => e # d /\ shutdown[e] = "nil"
        BY <1>2, <2>1
    <2>5. \A e \in Shutdowns : e # d => down'[e] = down[e] /\ shutdown'[e] = shutdown[e]
        BY <1>2, <2>1
    <2>6. \A e \in Shutdowns : \A l \in Layers : down'[e][l] \in {"wait", "ended"} => l \in cancelled'
        BY <1>1, <1>3, <2>3 DEF Settled
    <2>7. ASSUME misused' = {}, NEW e \in Shutdowns
          PROVE  /\ shutdown'[e] # "idle" => start' \in {"nil", "error"}
                 /\ \A l \in Layers : down'[e][l] = "ended" => \A w \in WorkersOf[l] : ~Registered(w)'
                 /\ shutdown'[e] = "nil" => \A l \in Layers : down'[e][l] = "ended"
        BY <1>1, <1>4, <1>5, <2>1, <2>2, <2>3, <2>4, <2>5, <2>7 DEF Settled
    <2> QED  BY <2>6, <2>7 DEF Settled
<1>8. ASSUME NEW d \in Shutdowns, ShutdownStep(d) PROVE Settled'
    <2>1. /\ shutdown[d] # "idle" /\ \E to \in {"wait", "nil"} : shutdown' = [shutdown EXCEPT ![d] = to]
          /\ UNCHANGED <<start, down, misused, wg>>
        BY <1>8 DEF ShutdownStep, ShutdownCancels, ShutdownReturns, starting
    <2>2. \A e \in Shutdowns : shutdown'[e] # "idle" => shutdown[e] # "idle"
        BY <1>2, <2>1
    <2>3. \A e \in Shutdowns : shutdown'[e] = "nil" => shutdown[e] = "nil" \/ (e = d /\ ShutdownReturns(d))
        <3>1. CASE ShutdownReturns(d)
            <4>1. \A e \in Shutdowns : e # d => shutdown'[e] = shutdown[e]
                BY <1>2, <3>1 DEF ShutdownReturns
            <4> QED  BY <3>1, <4>1
        <3>2. CASE ShutdownCancels(d)
            <4>1. \A e \in Shutdowns : shutdown'[e] = "nil" => shutdown[e] = "nil"
                BY <1>2, <3>2 DEF ShutdownCancels
            <4> QED  BY <4>1
        <3> QED  BY <1>8, <3>1, <3>2 DEF ShutdownStep
    <2>4. ASSUME misused = {}, ShutdownReturns(d) PROVE \A l \in Layers : down[d][l] = "ended"
        <3>1. wg = 0  BY <2>4 DEF ShutdownReturns
        <3>2. Owed(d, "nodosum") + Owed(d, "mycel") = 0
            BY <1>1, <2>1, <2>4, <3>1 DEF Counted, Orderly
        <3>3. Owed(d, "nodosum") = 0 /\ Owed(d, "mycel") = 0  BY <3>2 DEF Owed
        <3> QED  BY <3>3 DEF Owed, Layers
    <2>5. \A e \in Shutdowns : \A l \in Layers : down'[e][l] \in {"wait", "ended"} => l \in cancelled'
        BY <1>1, <1>3, <2>1 DEF Settled
    <2>6. ASSUME misused' = {}, NEW e \in Shutdowns
          PROVE  /\ shutdown'[e] # "idle" => start' \in {"nil", "error"}
                 /\ \A l \in Layers : down'[e][l] = "ended" => \A w \in WorkersOf[l] : ~Registered(w)'
                 /\ shutdown'[e] = "nil" => \A l \in Layers : down'[e][l] = "ended"
        BY <1>1, <1>5, <2>1, <2>2, <2>3, <2>4, <2>6 DEF Settled
    <2> QED  BY <2>5, <2>6 DEF Settled
<1>9. ASSUME NEW d \in Shutdowns, NEW l \in Layers, DownStep(d, l) PROVE Settled'
    <2>1. /\ \E to \in {"wait", "ended"} : down' = [down EXCEPT ![d][l] = to]
          /\ down[d][l] \in {"cancel", "wait"} /\ UNCHANGED <<start, shutdown, misused, worker>>
        BY <1>9 DEF DownStep, LayerCancels, LayerEnded, starting, working
    <2>2. l \in cancelled'
        BY <1>1, <1>9 DEF DownStep, LayerCancels, LayerEnded, Cancel, Settled
    <2>3. \A e \in Shutdowns : \A k \in Layers : down'[e][k] = down[e][k] \/ (e = d /\ k = l)
        BY <1>2, <2>1
    <2>4. down'[d][l] = "ended" => \A w \in WorkersOf[l] : ~Registered(w)'
        BY <1>2, <1>9, <2>1 DEF DownStep, LayerCancels, LayerEnded, Registered
    <2>5. \A e \in Shutdowns : \A k \in Layers : down'[e][k] \in {"wait", "ended"} => k \in cancelled'
        BY <1>1, <1>3, <2>2, <2>3 DEF Settled
    <2>6. ASSUME misused = {} PROVE shutdown[d] # "nil"
        BY <1>1, <2>1, <2>6 DEF Settled
    <2>7. ASSUME misused' = {}, NEW e \in Shutdowns
          PROVE  /\ shutdown'[e] # "idle" => start' \in {"nil", "error"}
                 /\ \A k \in Layers : down'[e][k] = "ended" => \A w \in WorkersOf[k] : ~Registered(w)'
                 /\ shutdown'[e] = "nil" => \A k \in Layers : down'[e][k] = "ended"
        BY <1>1, <1>5, <2>1, <2>3, <2>4, <2>6, <2>7 DEF Settled
    <2> QED  BY <2>5, <2>7 DEF Settled
<1>10. ASSUME \/ StartNodosum \/ StartStep \/ AppCancels \/ TtlStarts \/ TtlStep \/ UNCHANGED vars
              \/ \E l \in Layers : UpStep(l)
              \/ \E w \in Workers : Begin(w) \/ End(w)
              \/ \E c \in Creates : CreateBucket(c) \/ BucketCreated(c)
       PROVE  UNCHANGED <<shutdown, down>>
    BY <1>10 DEF StartNodosum, StartStep, StartMycel, StartWaits, StartDelays, StartDelayed,
                 StartReturns, AppCancels, UpStep, LayerReady, NodosumStarts, NodosumJoined,
                 MycelFails, MycelStarts, CreateBucket, BucketCreated, TtlStarts, TtlStep, TtlLocks,
                 TtlDeletes, TtlDeleted, TtlDeletedElsewhere, TtlUnlocks, Begin, End, Work, stopping, vars
<1> QED  BY <1>6, <1>7, <1>8, <1>9, <1>10 DEF Next

(* The invariant that the theorems below follow from.                      *)
THEOREM Invariance == Spec => []IInv
<1>1. IInv /\ [Next]_vars => IInv'
    BY Types, FoundInStep, JoinedInStep, CountedInStep, SettledInStep DEF IInv
<1> QED  BY Initially, <1>1, PTL DEF Spec

(* Every call, worker, counter, context and ready channel of a node stays  *)
(* in its range, and the counter is negative only in a process that died.  *)
THEOREM TypeCorrect == Spec => []TypeOK
<1>1. IInv => TypeOK  BY DEF IInv
<1> QED  BY Invariance, <1>1, PTL

(* Ready returns nil only for a node whose layers are both ready, or whose *)
(* start was given up and its context cancelled.                           *)
THEOREM ReadyAfterLayers == Spec => []ReadyMeans
<1>1. IInv => ReadyMeans  BY DEF IInv, Joined, ReadyMeans, ReadyMayReturnNil
<1> QED  BY Invariance, <1>1, PTL

(* Shutdown's wait group becomes negative only if Shutdown is called twice *)
(* or before Start has counted its layers, however the calls interleave.   *)
THEOREM PanicsOnlyOutOfOrder == Spec => []NoPanicInOrder
<1>1. IInv => NoPanicInOrder  BY DEF IInv, Counted, Orderly, NoPanicInOrder
<1> QED  BY Invariance, <1>1, PTL

(* A Shutdown that was called after Start returned leaves no worker behind *)
(* when it returns, even one launched late or in a task.                   *)
THEOREM ShutdownJoins == Spec => []NothingRunsOn
<1>1. ASSUME IInv PROVE NothingRunsOn
    <2>1. \A w \in Workers : \E l \in Layers : w \in WorkersOf[l]  BY DEF Workers
    <2>2. Settled  BY <1>1 DEF IInv
    <2> QED  BY <2>1, <2>2 DEF Settled, NothingRunsOn
<1> QED  BY Invariance, <1>1, PTL
=============================================================================
