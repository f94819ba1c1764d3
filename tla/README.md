# Mycorrhizal in TLA+

Mycorrhizal is a Go library that joins processes into a cluster and gives them
a distributed cache. This directory holds its formal models: TLA+ modules
translated from the code under `src/`, model-checked with TLC, and theorems
about them checked with TLAPS. `PROJECT.json` lists the runs, the mutants, the
source lines behind every definition, the hazards of the code and the theorems.

## 1. The system

Paths are relative to `src/internal/` unless they start with `src/`.

| Component | State | Operations | What has to be right |
|---|---|---|---|
| Local cache (`mycel/local.go`, `ds.go`) | key map, one doubly linked LRU list per bucket, node objects | Get, Set, Delete, SetTtl, CreateBucket, eviction at the end of Set | the list stays well formed under every interleaving; what the map gives is live; a bucket never holds more than `maxLen` |
| TTL evictor (`mycel/task.go`) | a list of expired nodes collected under a lock | sweep, then one Delete per collected key | everything that has expired goes, nothing else does |
| Placement (`mycel/ds.go`, `cache.go`) | none (rendezvous hash of key and node) | replica set, primary, quorum | few keys move on a join or leave; quorums meet |
| Replicated operations (`mycel/cache.go`, `remote.go`) | per call: one goroutine per replica; the cache of primaries | Set, Delete, SetTtl on all replicas with a majority; Get from the local node or the primary | an acknowledgement means a majority took part; every call returns; stale primaries go |
| Request handler (`mycel/task.go`) | none | GET, SET, DELETE, SETTTL from other nodes | the answer tells what happened |
| Rebalancer (`mycel/rebalancer.go`) | snapshot of the local entries | drop what the node is no replica of, send the rest to the other replicas | nothing is lost; keys come to rest on their replicas |
| Geo cache (`mycel/geo*.go`) | per bucket: user locations, an index of them per geohash precision; the entries also in an LRU bucket | SetLocation, DeleteLocation (local, then broadcast), box and radius queries | index and locations agree at every precision; queries are exact; the nodes agree |
| Connections (`nodosum/memberlist.go`, `conn.go`) | connection map, dial attempts | NotifyJoin/Leave/Update, retries, accepting, cleaning up | one connection per pair in both maps; none open and unused, none closed and kept |
| Streams and read loops (`nodosum/registry.go`, `conn.go`) | stream map with its lock, one read loop per stream end | open, accept, read frames, close | what the map offers works; the locks are released |
| Requests (`nodosum/application.go`) | pending requests by correlation id | Request, the answer, the timer | every request returns, at the latest by its timer |
| Messages (`nodosum/application.go`) | receive queue of 100 | Send, routeToApplication, the receive worker | messages arrive one at a time or are dropped |
| Frame codec (`nodosum/quic.go`) | none | write, read and decode four frame types | what is written is read back whole and in order; a torn frame is not handed on |
| Lifecycle (`nodosum/nodosum.go`, `mycel/mycel.go`, `src/mycorrhizal.go`) | contexts, ready channels, wait groups, the workers, the lock of the bucket table | New, Start, Ready, Shutdown, CreateBucket | Ready means ready, every call returns, Shutdown ends everything, no counter goes negative |
| Metrics, gob encoding, certificates, flush worker, `src/cmd/pulse.go` | none that is read back | | |

How they interact. Memberlist calls the delegate, which dials QUIC
connections; the listener of the other node accepts them. Both sides enter them
in their connection map, and that map *is* a node's view of the cluster
(`getConnectedNodes`). A call of the cache computes the replica set from this
view, runs the local operation or a Request for each replica, and counts
successes. A Request opens or reuses a stream; at the other end a read loop runs
the handler, which runs the same local operations as the clients of that node.
A topology change on the dialing side runs a hook that empties the routing cache
and wakes the rebalancer. The rebalancer and the TTL worker use the same local
lists and the same Requests. Geo calls use the local LRU bucket and the
broadcast of messages.

What is hard. Every operation of the local cache is several critical sections,
so goroutines interleave inside it. Replicas answer late, fail, or carry out a
request after its caller gave up; views differ between nodes during a join; the
rebalancer acts on snapshots. Both sides of a connection register it without
agreement. Read loops, callers and closers share two maps with locks that some
paths do not release. Length fields are two bytes wide and written by
truncation. Start, Shutdown and the workers meet in wait groups, and the
eviction task locks the bucket table twice. `PROJECT.json` lists 39 such hazards
with their lines.

## 2. The modules

| Module | Models | Composes or refines |
|---|---|---|
| `LruList` | the bodies of the critical sections on a bucket's list, as functions from list to list | |
| `LruBucket` | the state goroutines share of a bucket, and what must hold of it | extends `LruList` |
| `LocalCache` | one node's store: clients, TTL worker, list, map, eviction | extends `LruBucket` |
| `MoveToFront` | abstract: an LRU list is a sequence of distinct entries, newest first | |
| `MCLocalCache` | the refinement mapping from the linked list to the sequence | `LocalCache` implements `MoveToFront` |
| `Rendezvous` | replica sets, primary, quorum over abstract scores | |
| `ReplicatedCache` | cluster: calls, legs, request handler, routing cache, topology, rebalancers, crashes | extends `Rendezvous` |
| `Connections` | dialing, accepting and closing connections on all nodes | |
| `Streams` | requests over streams, the read loops, the locks of the two maps | |
| `Framing` | the frame codec as operators on sequences of numbers | |
| `Geo` | the geo cache on all nodes | |
| `GeoQuery` | covering cells, the box around a circle, radius queries | extends `Geo` |
| `Lifecycle` | Start, Ready and Shutdown of the facade and both layers, the workers, CreateBucket | |
| `MCReplicatedCache`, `MCGeo` | values for TLC | |
| `MCStreams` | values for TLC, the frames that are checked | extends `Streams` and `Framing` |
| `MCLifecycle` | a node's lifecycle and its cache, under the eviction worker or beyond its capacity, side by side | extends `Lifecycle` and `LruBucket`, two instances of `LocalCache` |
| `LruListProofs`, `LocalCacheProofs`, `RendezvousProofs`, `ReplicatedCacheProofs`, `ConnectionsProofs`, `StreamsProofs`, `GeoProofs`, `LifecycleProofs` | theorems | extend their module and TLAPS (`LocalCacheProofs` extends `MCLocalCache`, `StreamsProofs` `MCStreams` with `Streams` and `Framing`, `GeoProofs` `GeoQuery` with `Geo`) |

Definitions that start with the name of another and are called *mutant* in
their comment are plausible mistakes in the code they model. No specification
uses them; putting one in the place of its original makes the property named in
`PROJECT.json` fail, which shows that the property depends on the code.

### LruList, LruBucket and LocalCache

A node object is a member of `Cells`, a nil pointer is `Nil`, a list is a record
of the bucket's `head`, `tail`, `len` and every node's `next` and `prev`.
`Push`, `Unlink` (`lruBucket.Delete`) and `CutTail` (the eviction) are the
pointer assignments of the code, in a form that gives all fields at once. A walk
of the code (`for n := head; n != nil; n = n.next`) is the least set that holds
the head and is closed under `next`, so `Walk` is defined for lists that are
broken too.

In `LocalCache` a goroutine has a program counter and the local variables that
survive a lock: the key, the node it looked up or made, the data it is to store.
Every action is one critical section. `getLocal` is `GetLookup`, `GetPush`,
`GetRead`; `setLocal` is `SetLookup`, then `SetWrite`, `SetPush` for an existing
node or `NewMap`, `NewPush`, `NewCheck`, `Evict` for a new one; `deleteLocal` is
`DeleteList`, `DelMap`; `setTtlLocal` is `TtlLookup`, `TtlWrite`; the TTL worker
is `Sweep`, then `SweepDelete` per key, which enters the same `DeleteList`.
`Expire` is time passing a node's deadline. A node object is allocated when
nothing refers to it, as a garbage collector would allow, and then has no
neighbours (`Allocated`). One bucket is
modelled and the node is the only replica of its keys (the TTL worker's
replicated Delete is then the local one).

`MCLocalCache` maps the linked list to the sequence of `MoveToFront`: `Order` is
*the* function from the places 1 to n to the n linked nodes that begins with the
head and goes on as `next` leads. It exists as long as the list is well formed;
a step that broke the list would leave it undefined and fail the refinement.

### Rendezvous and ReplicatedCache

Scores are an arbitrary table without ties. `ReplicaNodes(view, k)` are the
`Replicas` nodes of the view with the highest scores; a view is the node's
connection map and itself.

A call is a record in `op`; `wait[i][r]` is the goroutine of call `i` for
replica `r`, `wire[i][r]` its message in flight. `StartReplicated` chooses the
replicas, `LocalLeg`, `SendLeg`, `HandleLeg`, `AnswerLeg` and `TimeoutLeg` are
one leg, `Finish` counts. A request that timed out stays in flight and may be
carried out later; it may as well stay there for ever, so for safety a message
that stays in flight also stands for a lost one. Sets, Deletes and TTL changes
at one node are atomic here (`LocalCache` opens them up). `Get` is `StartGet`,
and if the primary is not in the routing cache `StorePrimary` enters it in a
later critical section. Topology events change a node's view: `NotifyJoin` with
the hook, `AcceptConn` without, `NotifyLeave` with it. `Crash` loses a node's
store. The rebalancer is `RebStart` (snapshot), `RebDrop`, `RebKeep`, `RebPush`.

`opened` and `Served` hold a property of the transport that matters above it:
only the node that accepted a connection runs an accept loop for streams, so
what it sends is read only on the stream that the dialing node opened. Until the
dialer has made a request of its own, a request in the other direction is
written to a stream nobody accepts, and times out.

### Connections

Every call of NotifyJoin dials at most once, so a call and the connection it
dials share a name. `NotifyJoin`/`Retry` enter the function, `DialOk` makes the
connection (both ends), `Register` is the check under the write lock;
`HandleQuicConn` registers at the acceptor, `HandlerEnds` removes;
`NotifyLeave` and `NotifyUpdate` close. NotifyAlive and NotifyMerge are left out
because `New` registers the delegate as `Events` and `Delegate` only
(`nodosum/nodosum.go:170-171`): memberlist never calls them.

### Streams

A stream is named by the call that opened it. `Lookup`, `ConnLookup`,
`OpenStream`, `Enter` are `getOrOpenQuicStream`; `Write` and `Return` the rest
of Request; `AcceptStream`, `HandleStream` the acceptor; `HandleRequest`,
`HandleResponse`, `ReadEnds`, `LoopDone` a read loop; `CloseStreams`,
`CloseConn` `closeQuicConnection`. Locks appear only where the code fails to
release them: `streamsLock` is held for ever after `LoopDone` (a read loop locks
the stream map in its deferred function and does not unlock it,
`nodosum/conn.go:293`), and a read lock of `connsLock` leaks in `ConnLookup`
when there is no connection (`registry.go:36`). `WriterWaits` is Go's RWMutex:
once a writer waits, later readers wait behind it.

### Geo

`points`, `index` and `lru` are a node's three copies of a location.
`SetLocation` is `CallSet`, `GeoSet` (under the store's lock), `LruSet`, and on
a missing bucket `Undo`; then `Broadcast`. `DeleteLocation` is `CallDelete`,
`GeoDelete`, `LruDelete`, `Broadcast`. `Receive` is the receive worker, which
handles one message at a time and then takes the same steps. `TtlDelete`,
`RebDrop` and `RebCopy` are what the TTL worker and the rebalancer, which treat
the bucket as any other, do to `lru`. A position stands for its coordinates,
`Cell` for the geohash. In `Geo` a box is any set of positions, and its covering
cells are those of its positions. The deadline of an entry is that of the call
that set it.

`GeoQuery` gives positions coordinates and computes what `Geo` takes as given.
`CoveringCells` is the flood fill over the grid of cells: it begins with the cell
in the `Middle` of the box, each round adds the neighbours of the enqueued cells
that meet the box (`Spread`), and no more rounds are needed than the grid has
rows and columns together (`Enqueued`). `BoxAround` is `boundingBoxFromRadius` and
`RadiusQuery` the two filters. `Rows`, `Columns`, `CellAt`, `Bounds` and
`Neighbors` stand for the geohash library; `CosPercent` and `Distance` are
tables of the cosine and of `haversineKm`, in the unit of the coordinates. The
assumption on them says that the cells of a precision tile the globe, that a
position is indexed in the cell it lies in, and that no distance is less than
the difference of the latitudes. The BoundingBox query looks into the same
covering cells.

### Framing

A byte is a number, a length field one number with a limit (`ShortLimit` for the
two-byte fields, `LongLimit` for the four-byte ones): `Field` writes the length
modulo the limit, as the conversions to `uint16` and `uint32` do, and then the
whole text. `Encode...Frame` are the encoders, `ReadFrame` is `readFrame` (it
finds out how long a frame is by reading its fields), `Decode...Frame` are what
the handlers do again with the body, `StreamReadLoop` is the loop over a stream
that ends, `Accepted` is `handleStream`. In the code a length is two or four
bytes; a field of one number is torn or whole where those are, except for a
stream that ends inside a length, which readFrame's `io.ReadFull` treats as it
treats one that ends before it.

### Lifecycle

`start` is where the one call of `mycorrhizal.Start` is, `up` the goroutine it
runs per layer; `shutdown` and `down` are the same for each call of Shutdown.
`wg` is the facade's wait group, `cancelled` the contexts whose cancel function
was called (`Done` follows the derivation of contexts), `ready` the closed
channels. The layers' wait groups are the set of workers that are `Registered`.
The eviction worker's task is `TtlLocks` (it takes the read lock of the bucket
table), `TtlDeletes` (its Delete takes it again), `TtlDeleted`,
`TtlDeletedElsewhere`, `TtlUnlocks`; `CreateBucket` waits for the write lock.
`misused` records how the calls of Shutdown were out of order: `again`, `before
Start` has counted both layers, `during Start`.

External, as `src/` uses them: memberlist's Join and Leave end (both are called
with timeouts), and a worker of the worker library registers in the wait group
it was given, in the goroutine it is started in, and ends some time after its
context is done.

## 3. The runs

Twelve runs, five of which expect a violation; numbers are distinct states.

| Run | Question | Bounds | Result |
|---|---|---|---|
| `LocalRace` | does the list survive interleaved Get, Set, Delete and sweeps? | 2 keys, 2 clients and the worker, 3 node objects, no eviction (`MaxLen` 3) | 340 000 states. `TypeOK`, `ListOK`, `MappedHasData`, `ImplementsMoveToFront` hold |
| `Lifecycle` | what do Ready and the end of Shutdown mean, which calls return, do the workers end, does everything that has expired leave the list, and does one client's stream of Sets and Gets survive evictions? | 1 Start, 1 Shutdown at any time, 1 CreateBucket, a startup delay, 1 expired entry per task; for the cache under the worker 1 key, 1 client with all operations; for the cache beyond its capacity 3 keys, `MaxLen` 2, 5 node objects, 1 client | 135 000. `TypeOK`, `NoPanicInOrder`, `NothingRunsOn`, `ReadyMeans`, `CallsReturn`, `Stops`, `ExpiredGone`, `NoCrash`, `MappedHasData`, `WalkEnds`, `LenBounded` hold |
| `ReplJoin` | is a write acknowledged, kept, placed and ended rightly while a node joins? | 3 nodes, 2 replicas, 1 call of any kind of write from one of 2 callers, all rebalancers | 99 000. `TypeOK`, `AckedOnQuorum`, `NotLost`, `Converges`, `CallsEnd` hold |
| `ReplCrash` | do acknowledgements survive a crash? | 3 nodes, all replicas, 2 calls (Get, Set, Delete) one after the other, 1 rebalancer, 1 crash | 1.94 million. `AckedOnQuorum`, `NotLost` hold |
| `ConnFaults` | do the maps follow the connections under faults? | 2 nodes that both dial, 3 calls, 3 attempts, leave, update, loss, failed dials | 258 000. `TypeOK`, `NoOrphan`, `AcceptedForgotten` hold |
| `Streams` | do requests return and get handled while the connection ends, and are their frames read as written? | 2 nodes, 2 requests in either direction, loss, a leave at one node; texts of 0 to 4 elements, limits 3 and 4 | 299 000. `TypeOK`, `EntryIsRead`, `Addressed`, `EndsUnlessLocked`, `Heard`, `FramesInStep`, `FramesNotTorn`, `FramesInOrder` hold |
| `Geo` | do index, queries and nodes agree? | 3 nodes, one of them without the bucket, 2 users, 3 positions, 2 precisions, 2 calls, `MaxLen` 1, loss, expiry of what one call set, one node's rebalancer, 6 radius queries | 316 000. `TypeOK`, `IndexMatches`, `QueryExact`, `NothingLeft`, `Agree`, `RadiusExact` hold |
| `V_Bounded` | | 1 client that calls Set and Delete, 3 keys, `MaxLen` 2 | `Bounded` is violated |
| `V_NotLost` | | 4 nodes of which 2 join, 2 replicas, 1 Set | `NotLost` is violated |
| `V_Connects` | | 2 nodes that dial each other, no faults | `Connects` is violated |
| `V_RequestEnds` | | 2 nodes, 2 requests, one to a node without a connection | `RequestEnds` is violated |
| `V_Radius` | | as `Geo` | `RadiusFindsAll` is violated |

### What the passing runs show

*Local cache.* As long as nothing is evicted, the list is right: it behaves as a
move-to-front sequence under every interleaving (`ImplementsMoveToFront`), and
once all goroutines rest the map leads to nodes that have their data.
`LocalRace` leaves SetTtl out, because its write enters the node in the map
again without a new lookup, so it can map a node deleted meanwhile. With
evictions a single client's Sets and Gets keep the weaker properties: no nil
dereference, no endless walk, the counter within its bound. `Lifecycle` checks
them in the behaviours of `MCLifecycle` that move the cache beyond its capacity
(`Full`). Five node objects are two in the list, one that is entering it and a
chain of two evicted ones that stale pointers still reach; section 4 has the
proof for any number of keys and nodes and any capacity. Deletes are not in it:
with them `NoCrash` fails too, by seven calls of one client on a
bucket of two (Set `a`, `b`, `c`, Delete `b`, Set `a`, Set `b` twice), see
`V_Bounded` below. `MappedHasData` survives all of this and is a theorem.

*Cluster.* `AckedOnQuorum` looks at where a call took effect (the history
variable `applied`), not at what its goroutines were told. `NotLost` holds for
one join (two replicas) and for one crash (three replicas, where all nodes are
replicas and the rebalancer never drops). `ReplCrash` has `Sequential` calls:
overlapping ones are in `ReplJoin`'s late messages only.

*Connections.* `NoOrphan`: after its call returned, an open connection is the one
in the dialer's map. Three calls are enough for two concurrent dials of one node
with a third by the other, and for a dial, an update and a retry.

*Streams.* `Addressed` follows a frame through the queues: whichever of the two
streams between two nodes it takes, and however late it is read, a request waits
only at the node it was made to and an answer only at the node that asked, after
the other has handled it. `EndsUnlessLocked` and `Heard` tell that the two unreleased locks and
the end of a connection are the *only* ways in which a request hangs or is not
handled. Two calls suffice for the race of two openers for one map entry; the two
liveness properties watch one of them (`Watched`), and the calls differ only in
name.

*Frames.* The codec has no state, so its three properties are evaluated in the
first state of `Streams` only. `FramesInStep` says that the stream stays in step
exactly when the lengths fit: a response whose error text has 65536 bytes or more
shifts what follows. Limits 3 and 4 put texts below, at and beyond the boundary,
of elements that can be taken for a length or a frame type.

*Lifecycle.* A node may be started, fail to start, be shut down in any order and
have its context cancelled by the application. `ReadyMeans`: Ready returns nil
when both layers are ready, or when the start failed and the context is
cancelled; Start returns nil in that case too (`src/mycorrhizal.go:229`).
`NoPanicInOrder`: the wait group's counter goes negative only if Shutdown is
called again or before Start has counted both layers. The run has one Shutdown
(two exceed what TLC can finish); the theorems of section 4 cover any number. `NothingRunsOn`: after a
Shutdown that came after Start, no worker runs. If it comes during Start, it may
return while the listener has still to end; `Stops` says that it ends.
`CallsReturn` and `Stops` have one exception, `Wedged`: the eviction task holds
the read lock of the bucket table while its Delete takes it again
(`mycel/task.go:12`, `ds.go:223`); a CreateBucket that waits for the write lock
in between blocks both for ever, and Shutdown with them. `ExpiredGone` is a
property of `LocalCache`, the four about evictions are `LruBucket`'s. The two modules
share no variable, and the two caches have variables of their own, so `MCSpec`
starts in the initial states of all three and every behaviour moves one part,
under that one's fairness: the node, the cache under the eviction worker, or the
cache beyond its capacity. This adds the three state graphs instead of
multiplying them.

*Geo.* `IndexMatches` and `QueryExact` hold in every state in which the store's
lock is free, with evictions, expiry, undo and overlapping calls. Positions `a`
and `b` share all cells, `c` shares only the coarse one, so moves within a cell,
across fine cells and to other users' cells all happen. `Agree` is the promise
that remains for calls that do not overlap and are not disturbed; the history
variable `clean` tells which those are. `RadiusExact` compares what a radius
query finds, at each precision and in each state, with the users within the
radius: it finds nobody else, and all of them but for two exceptions. The
queries are centred at a user, between users and cells, in a neighbouring cell,
beyond the 180th meridian, at the pole and near it, so that the flood fill has
to leave its first cell and the clamp is used. The exceptions are users that a
query *may* miss; code that finds them too has the property as well. `FarSide`:
the box ends at the 180th meridian. `PastWidth`: the box is as wide as the
circle on the parallel of its centre, but nearer to a pole the circle spans more
degrees of longitude. That the code does miss such users, although
`mycel/geo.go:44` promises all of them, is `V_Radius`'s violation.

### What the violated runs show

- `V_Bounded`: `setLocal`'s eviction (`mycel/local.go:67`) leaves the new
  tail's `next` on the evicted node. A Delete of the evicted key walks on to that
  node, which has no neighbours any more, takes it for the only one and sets head
  and tail to nil. The other keys stay in the map, uncounted and unlinked, and
  after one more Set it holds more than `maxLen` of them: three Sets, a Delete of
  the first key and its Set again, in a bucket of two. `Push` has the same
  trouble: a used tail with such a pointer counts as a middle node, and the
  bucket's tail stays behind.
- `V_NotLost`: two nodes join; both old holders learn of both before either has
  pushed the key, neither is a replica any more, and both drop it
  (`mycel/rebalancer.go:161`).
- `V_Connects`: both nodes dial, both listeners register the accepted
  connection before either dialer registers, and each dialer then closes its own
  connection as a duplicate (`nodosum/memberlist.go:93`). Both connections are
  gone and nobody dials again.
- `V_RequestEnds`: a Request to a node without a connection leaks the read lock
  of the connection map (`nodosum/registry.go:36`); the next join waits for the
  write lock, and every later Request that has to look up a connection waits
  behind it without a timer.
- `V_Radius`: `RadiusQuery` "returns all user locations within radiusKm of the
  given point" (`mycel/geo.go:44`). `boundingBoxFromRadius`
  (`mycel/geo_local.go:298`) does not wrap at the 180th meridian, so a query just
  west of it misses a user just east of it (`Beyond`); and a query that reaches
  over the pole (`Over`) has all three positions within its radius and one in its
  box. One SetLocation is enough.

### Behaviours in the models that no run is about

The actions contain these too; they are listed in `PROJECT.json` as hazards.
A replica's not-found comes back as text, so a Delete of a key that the replicas
no longer have fails its quorum (`mycel/cache.go:254`). A Get asks the primary
only (`remote.go:19`). The rebalancer may overwrite a newer value with the one
of its snapshot (`rebalancer.go:187`). The TTL worker deletes by key and may hit
an entry set anew (`task.go:37`). A dialer that never sends cannot be reached by
its acceptor's requests. A connection that is lost stays in the dialer's map. A
DeleteLocation whose entry the LRU bucket no longer has returns before it
broadcasts (`geo_remote.go:96`), although its comment says it still broadcasts.

### Bounds

`Cells`, `Keys`, `Clients`, `MaxLen`, `Ops`, `Calls`, `Callers`, `Members`,
`Rebalancers`, `MaxCrashes`, `MaxAttempts` (3 instead of 5), `Dialers`,
`Requests`, `Leavers`, `Faults`, `Watched` (the calls a liveness property
follows), `Lossy` (whether messages get lost), `Expiring` (the calls whose entry
may expire), `Shutdowns`, `Creates`, `MaxExpired` (the
entries one task finds expired), `Queries`, `FewKeys`, `FewCells` and `SetGet` (of the caches in `MCLifecycle`), `ShortLimit` and `LongLimit` are the
named bounds, all constants. A Start is made once per node: a second one would
close a closed channel. Nothing
else is bounded: `len` and the dial attempts are finite because their
contexts are. Values are one per run, because the properties checked compare who
holds a key, not which value. Deadlock checking is on for `LocalRace` and
`V_Bounded`, where the system never stops; in the other runs it may, when all calls
have been made (in `Lifecycle`, those of the node).

### Fairness

Weak fairness is put on what the Go scheduler and the runtime's timers run:
goroutines that are in the middle of an operation, workers with an interval,
timers, and the delivery on connections that stay open (QUIC retransmits). In
`Lifecycle` the goroutines of Start, Shutdown and CreateBucket and the workers
are fair once they run, but no tick of a worker has to come and nobody has to
call Start or Shutdown. Clients never have to call, faults never have to happen.
`ExpiredGone` asks in addition that clients stop calling, since a client that
deletes and sets for ever can have a new expired entry at any time. `Converges`
assumes that the rebalancers run again and again and that connections, once
made, stay. `CallsEnd` is about one call without lost connections: there no lock
is leaked, and the timer of a leg is fair. `EndsUnlessLocked` and `Heard` name
the leaked locks instead of assuming them away.

## 4. The proofs

`tlapm` proves the following for every value of the constants.

**The list** (`LruListProofs`). `PushWellFormed` and `UnlinkWellFormed`: on a
well-formed list with finitely many linked nodes, pushing any node and deleting
any linked node gives a well-formed list with that node as its head, or without
it. `WalkIsLinked`: in a well-formed list a walk from the head meets exactly the
linked nodes. `WellFormed` has three parts: `Stitched` (`next` and `prev` are
inverse, the tail is the one linked node without a successor), `Grounded` (no
set of nodes is closed under `prev`, so there is no cycle; this is what makes
the walk complete) and `Counted` (`len` is their number).

**The local cache** (`LocalCacheProofs`). `TypeCorrect` is `Spec => []TypeOK`,
with evictions. Part of `TypeOK` is what each step holds: a goroutine at
`getPush` has a node, one at `delMap` a key. `ListStaysWellFormed` is
`Spec => []ListOK` when the node objects in use number at most `MaxLen`. Its
invariant is `WellFormed(list)` together with "no goroutine is at `evict`",
which is inductive because a well-formed list's counter is the number of linked
nodes. The assumption is needed: with an eviction the list is not well formed,
as `V_Bounded` shows.

`MappedKeysHaveData` is `Spec => []MappedHasData` with evictions, for every
capacity, as long as nobody calls SetTtl. The list may be broken, so its
invariant `MapInv` does not speak of its shape. `EntryInv`: a map entry leads to
a node of its key, and if that node is without data, some goroutine is about to
delete the entry (at `delMap` of that key). `FreshInv`: a node that a goroutine
has created and not yet entered has its data and is pointed to by nothing else,
so no eviction or Delete can empty it. `WriteInv`: who is to
store has something to store. The lemmas of `LruListProofs` on `Pointed` (which
cells a list refers to after Push, Unlink and CutTail, well formed or not) carry
`FreshInv`. SetTtl is excluded because it enters a node it looked up earlier,
which may have been emptied meanwhile (`mycel/local.go:108`).

`ListMovesToFront` is the refinement, `Spec => ImplementsMoveToFront`, for any
number of keys and clients with all operations, again when the node objects
number at most `MaxLen`. What is inductive beside `ListOK`'s invariant is that
the list has an order (`InOrder(list, Order)`). `OrderIs` says that it is the
only one, so it is enough to exhibit the order after a step: `UnlinkOrder` takes
the node's place out of the sequence, `PushOrder` puts the node in front of what
is left (a node that is in the list is first cut out of it, `CutOrder`).
`ListMoves` says that each step of the goroutines leaves the list alone or is
one of these two, and `OrderStep` maps it to a stutter, `Use` or `Drop`.
`WalksEnd` (`Spec => []WalkEnds`, same hypothesis) counts back from the tail,
which leads to nil, place by place: no set of nodes keeps a walk for ever.

With evictions, `EvictionFindsTail` (`NoCrash`), `EvictionBounds` (`LenBounded`)
and `EvictionKeepsWalks` (`WalkEnds`) hold for every capacity and any number of
keys and node objects under `SetsAndGets`: one client, Sets without a TTL and
Gets, `MaxLen > 0`. A bucket that evicts has a list that is not well formed: the
new tail keeps a pointer to the evicted node, so the next Push of it takes it for
a node in the middle; it becomes the head and stays the tail, and what was before
it hangs behind it. The invariant `Loose` says what is left. Among the nodes in
use (`InUse`) `Trailing` is a part that holds head and tail and is doubly linked
from one to the other, so an eviction finds a tail and a new one before it.
`Laced`: only the head has no predecessor and only the tail may have no
successor, so Push never counts a node twice and never moves the tail to a wrong
place. `Onward`: no path along `next`, or back along the `prev` of nodes in use,
returns to where it was. The second half of `Onward` is what makes it inductive:
a node that was evicted can be linked in again by a Push of the node whose `prev`
still points at it. `PushInUse`, `PushFresh` and `CutTailLoose` are the three
steps of the list, `Underway` is what a goroutine knows between its locks. Every
hypothesis is needed: TLC finds an endless walk with two clients, a counter that
stays too high when entries expire, the crash of section 3 with Deletes, and with
`MaxLen` 0 the second Set dereferences nil.

**Placement** (`RendezvousProofs`). `LeaveKeepsReplicas`,
`JoinPromotesNoOther`, `JoinDisplacesAtMostOne`, `JoinLeavesAHolder`: what a
single change of a view does to a replica set. Together they say that after one
join at least one old replica still is one if there are two or more, which is
why `ReplJoin`'s `NotLost` holds for one join; `V_NotLost` needs two.
`QuorumsMeet`: two quorums of one replica set share a node. `PrimaryIsReplica`:
on a finite view with a node in it the primary exists, is in the view and is a
replica. `ReplicaCount`: a replica set has `Replicas` nodes, or the whole view if
that has fewer. `QuorumHasLastingReplica` is about views that differ: take a set
`F` of nodes (those that may crash or are to join) smaller than a quorum of a
key's replicas in the whole cluster. Whatever view lacks only nodes of `F`, every
quorum of its replicas has a node outside `F` that is a replica for the whole
cluster, and so for every view it is in.

**The cluster** (`ReplicatedCacheProofs`), for any number of nodes, keys,
replicas and overlapping calls, with losses, timeouts, joins, crashes and
rebalancers. `TypeCorrect` is `Spec => []TypeOK`; it needs `Called` (what waits
or is in flight belongs to a call with a node and a key) and `AtKey` (a
rebalancer with replicas left to send to has a value for its key, so that no
missing value travels). `AckedByQuorum` is `Spec => []AckedOnQuorum`. Inductive
is `Honest` (where a leg or an answer in flight says success, the operation has
taken effect at that replica) with `Returned` (a write that has returned waits
for no leg, so a late answer cannot change what was counted). `applied` only
grows, so neither a crash nor a late request disturbs it.

`AckedSetSurvives` is `Spec => []NotLost` under `FewChanges`: calls are made at
members, and the nodes that may join and those that may crash are together fewer
than a quorum of a key's replicas. Both passing runs are instances (no join and
one crash with a quorum of two, one join and no crash with a quorum of two), and
`V_NotLost` shows that the bound is tight (two joins, a quorum of two). The
invariant `Lasting` has four parts. `Connected`: running members know each other,
so a view lacks only crashed nodes and those to join (`Gone`). `Sent`: a write
went to the replicas of a view that lacked no others. `Kept`: a node where a Set
took effect, and which is a replica for the whole cluster, has the key while it
runs and nobody deletes it; no rebalancer drops it there, because fewer nodes in
a view make nobody less of a replica. `Written` ties the parts to the calls.
`LastingHolder` then finds a node by `QuorumHasLastingReplica` in the quorum
that `AckedByQuorum` guarantees.

**Connections** (`ConnectionsProofs`). `ConnTypeCorrect` (`Spec => []TypeOK`,
whose last conjunct says that a call dials at most once) and `NothingOrphaned`
(`Spec => []NoOrphan`) for any number of nodes, calls and faults. `NoOrphan` is
inductive together with `TypeOK`: `DialOk` of a call cannot reopen a connection
because the call is then in another step.

**Streams** (`StreamsProofs`), for any number of nodes and calls, with every
loss, leave and leaked lock. `StreamsTypeCorrect` is `Spec => []TypeOK`.
`StreamsInvariant` is the inductive invariant: a call that was not made has no
node (`NotMade`), a call enters the stream it has opened and writes on one
between its own two nodes (`OwnStream`), every frame belongs where it waits
(`Carried`), an answered call was handled (`AnsweredHandled`), together with
`EntryIsRead`. `StreamsEntryIsRead` and `FramesAddressed` (`Addressed`) follow.
`OwnStream` is what makes `Carried` inductive: a frame is only ever put on a
stream whose ends are the caller and the target.

**Frames** (`StreamsProofs`), for every width of the length fields and every
text. `FrameInStep`: `InStep` of every frame before everything that may follow
it, so the stream stays in step if *and only if* the lengths fit.
`AcceptedAsOpened`: a stream is registered under the names it was opened with.
The loop over a stream is a recursive function of the stream's length;
`LoopTakesFrame` says what one turn does for the whole result (the first frame,
then what the loop hands on of the rest), `NothingTorn` that a frame cut anywhere
yields nothing, `FramesArriveInOrder` that an accepted stream hands on its
frames in order. Their inductions are over sets of numbers (`NatSetInduction`,
from the library's well-founded induction on `Nat`), which needs no operator as
a parameter. `StreamsFramesInStep`, `StreamsFramesNotTorn` and
`StreamsFramesInOrder` are the properties of the run.

**The lifecycle** (`LifecycleProofs`), for any number of calls of Shutdown and
CreateBucket: `TypeCorrect`, `ReadyAfterLayers` (`ReadyMeans`),
`PanicsOnlyOutOfOrder` (`NoPanicInOrder`), `ShutdownJoins` (`NothingRunsOn`).
The invariant has four parts besides the types: `Found` (the eviction task locks
again only with something left to delete), `Joined` (Start passes its Wait only
when both layers' goroutines have ended, each with its layer ready or the
context cancelled), `Counted` (while the calls are in order, the counter is what
Start has added or what the one Shutdown still owes) and `Settled` (a layer that
a Shutdown has ended is cancelled and gets no worker any more).

**Geo** (`GeoProofs`), for any number of nodes, users, positions, precisions and
calls, with every loss, expiry and rebalancing:

- `GeoTypeCorrect`, with the strengthening that a call that was made has a node
  and a user (`OpOK`).
- `GeoIndexMatches`: `IndexMatches` is inductive with the types.
  `GeoSetMatches` is the step that matters: it is enough to compare the cells of
  the highest precision, because the assumption on `Cell` says that the lower
  precisions are prefixes of it.
- `GeoQueryExact`: follows from the two above without an induction.
- `GeoNothingLeft`: inductive is `TakenBack` (a location on a node without the
  LRU bucket belongs to a SetLocation in its `"lru"` or `"undo"` step) together
  with `SentWhenDone` (a call has reached no other node before its own node is
  done with it), without which a broadcast could overwrite such a step.
- `GeoAgree` (`Spec => []Agree`): two invariants. `Course` holds always and says
  how a call travels: which steps it may be in at which node (`Steps`), that its
  own node is through when another has started (`SentWhenDone`), that once it is
  sent it is sent to all (`SentToAll`). `Together` holds while `clean`: at most
  one call is under way (`OneRuns`), two nodes that are both before or both
  behind its step have the same locations (`Alike`), a node behind it has what
  the call asks for (`OnTarget`), every location has its entry in the LRU bucket
  or a SetLocation about to make it (`HasEntry`), and so a DeleteLocation of a
  user whom anyone knows finds an entry and is broadcast (`WillSend`). When no
  call is under way `Alike` is `Agree`.
- `GeoRadiusExact` (`Spec => []RadiusExact`), for every grid whose cells tile the
  globe, every table of cosines and every table of distances that are not less
  than the difference of latitudes. `EnqueuedRounds`: the recursive function of
  the flood fill exists and makes its rounds. `FillReaches`: the fill finds every
  cell that meets the box. Its proof follows the path that goes toward that cell
  a row and a column at a time (`TowardMoves`); every cell on it meets the box,
  because the first and the last do (`BetweenMeets`), so each round enqueues the
  next (`NextIsNeighbor`). `BoxOfQuery`: the box holds exactly the places in the
  circle's belt of latitudes that are no exception. `QueryCovers`: the cell of a
  place in the box is looked at. The rest is the type invariant and `IndexMatches`.
  Where the model divides (by the cosine, for the middle of a box, for the cell
  of a coordinate) it divides whole numbers; `Division` and `Bound` say what is
  used of that.

Assumptions are the named `ASSUME`s of the modules, which TLC evaluates in the
runs: `Nil` is no other value, scores have no ties, faults are known ones, and
the like.

Every safety property of a passing run is stated by a theorem, some under the
hypotheses given above. Only model-checked are `AcceptedForgotten` and the other
liveness properties (`CallsEnd`, `Converges`, `ExpiredGone`, `EndsUnlessLocked`,
`Heard`, `CallsReturn`, `Stops`): fairness and `ENABLED` are beyond the prover.

## 5. Not modelled

- Metrics, logging, gob encoding, certificates and TLS, the flush worker and
  `src/cmd/pulse.go`: no state that the properties tell apart.
- The configuration: the checks of New, the debug HTTP server, the sockets New
  opens and its errors, the recovery from a panic in Start, a second Start.
- Expiry in the cluster's entries (`ReplicatedCache`), several buckets and the
  aliasing of `bucket+key` in the key map.
- The replica-locality cache, which only labels metrics, and the deletions from
  the routing cache by `bucket+key`, which never match its keys.
- The end of a context in the middle of a Request or a read loop, and read errors
  after which a read loop goes on. `Lifecycle` has the contexts, with workers
  whose tasks are not opened up, the eviction task excepted.
- Reconnection of streams after a lost connection (`Streams` ends there;
  `Connections` models the connections alone).
- The floating-point arithmetic of geo queries: cosines and distances are tables.
- A geo bucket's default TTL.
- That a Get finds what a backup holds, and that a routing cache is fresh: the
  code does neither, the steps are in `ReplicatedCache`.

## 6. Plan

The order was: the local store first, since everything else runs on it, then the
cluster, then the connections the cluster's views come from, then streams, frames
and geo, last the lifecycle around them all. Done: all modules of section 2, the
runs of section 3, the proofs of section 4. What would add most from here:

1. Two buckets in `LocalCache`, for the aliasing of `bucket+key` in the key map.
2. A history of topology changes in `ReplicatedCache`, to say which stale
   primaries a Get may still use.
