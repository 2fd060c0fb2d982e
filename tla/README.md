# A verification project for RobinHood

TLA+ modules, model-checking runs and machine-checked proofs for the RobinHood
testbed (`README.md` of the repository): an application server that queries
backends through caches, a controller that moves cache memory between the
backends, and the generator, monitor and statistics server around them.

Paths below are relative to the repository, that is to `src/` here.

## 1. The system

| part | source | state | operations |
|---|---|---|---|
| request tracking | `nuapp/src/subquery/subquery.go:779` `ParseRequest` | layers, `doneDeps` (a channel of 100), the map `waiting`, the status and the slowest dependency so far | skip a layer, dispatch a layer, receive a result, time out, report |
| subqueries | `subquery.go:565` `ExecuteSubquery` | `realSize`, `cacheHits`, `backQueries`, `fulfilled`, `hasError`; shared: `CacheSema`, `BackSema`, memcached | look up in parallel chunks, ask the backend, store, report |
| semaphores | `subquery.go:34-48` | tokens in a buffered channel | `Acquire` with a timeout of ten seconds, `Release` |
| handlers | `nuapp/src/appserver/app.go` | none of their own | `/json` starts `ParseRequest`, `/flush` empties all caches, `/id` |
| measurements | `subquery.go:234-308`, `:352-412`, `:754-774` | `latencyMeasurements`, `querySequence`, `reqCount` | tails, requests and pings send; `reportLatency` and `processQueries` receive |
| startup, backends | `subquery.go:124-228`, `:440-560` | the channel of rpc clients of an fb subsystem, the `sql.DB` of a mysql subsystem | dial, ping and try again; request, ping |
| simulated caches | `nuapp/src/shadowcache/lru.go`, `subquery.go:302-350` | per subsystem two LRU lists with size, capacity and counts | play a query, set a capacity, read and reset the hit ratio |
| controller | `nuapp/src/controller.py` | `total_cache_bytes`, the limits kept by the memcached servers, the stage of `bubble_wrap` or `offline_opt` | connect, plan a round, a thread per cache that sets a limit and evicts, change to the limits of a stage, post the limits |
| statistics server | `go/src/statserver/statserver.go` | ring of latencies, heap of the slowest requests, limits per controller, hit statistics, the last computed statistics | put and get handlers, `StoreStats`, `CsvStats`, `RecomputeStats`, `StoreHitRatios` |
| request generator | `go/src/requestor/requestor.go` | pool of http clients, `schedCount`, `sentCount` | generate, send, replace a client |
| backends | `go/src/fback/server.go`, MySQL | none (random sizes), a table | answer a list of ids |
| monitor | `monitor/src/monitor/main.go` | previous counters | read docker statistics, post them |

How they interact: the generator posts a request to `/json`; `ParseRequest`
starts a goroutine per subquery of a layer and hears of them through
`doneDeps`; subqueries share the caches, the backends and the semaphores with
each other and with `/flush`; their tails fill two channels.  `reportLatency`
posts batches to the statistics server and receives the limits of the
memcached servers in the answer, with which it sets the capacities of the
simulated caches, while `processQueries` plays queries on them and
`reportHitratio` reads them.  The controller gets the weights of its
rounds from the statistics server; it changes the limits of the memcached
servers, and a thread of its own posts them to the statistics server every five
seconds, which closes the loop.

What is hard here:

- *interleaving without locks*: the semaphores are the only order between
  subqueries; the simulated caches have three writers and no lock; the length of
  a channel is looked at and then used;
- *sharing behind a lock*: the statistics server copies under a lock what it
  encodes without one, and a panic does not unlock;
- *resources*: clients and connections that are taken, given back, leaked,
  broken, or held while waiting for another;
- *time*: every wait has a timer of its own, and answers come after it;
- *partial failure*: some keys of an answer, some chunks of a lookup, some
  threads of a round;
- *rounding*: megabytes are handed out in fractions.

`PROJECT.json` lists under `hazards` each of these at its line, with the
properties that would notice it going wrong.

## 2. What makes each part correct

- A request is always reported; its layers run in order; no result is lost or
  counted for a layer it does not belong to; its outcome is the worst status and
  the slowest dependency; no subquery hangs on a request that has given up.
- A subquery gives back exactly what it took of the semaphores; the status it
  reports is what happened; it hangs only if a call of its own never ends.
- Nobody who serves a request blocks on a channel that only measures it, except
  while `latencyMeasurements` is full, and then not for ever.
- The simulated caches do not corrupt their lists, and the smaller one is
  contained in the larger one: the assumption behind the reported gain.
- The application server starts once its backends are there; no client of a
  pool is lost, and requests do not wait for each other's connections.
- What the statistics server publishes is true of the measurements it was
  sent; no post is lost or left unanswered; the limits in its answers are whole
  and those that the controllers last reported, so that the capacities of the
  simulated caches follow the caches.
- The controller conserves the memory it distributes, repairs what a failed
  thread left behind, never shrinks a cache below the minimum, and ends its rounds.

## 3. Modules

    RequestPromise        what ParseRequest promises
    ParseRequest          one call of ParseRequest; implements RequestPromise
    Subquery              ExecuteSubquery and FlushHandler on one subsystem
    Subquery_proofs       its theorems
    Measurements          the measurement channels of an application server
    Backends              starting and using the connections to the backends
    Backends_proofs       its theorems
    ShadowPair            the two simulated caches of a subsystem
    Reporting_proofs      the theorems about Measurements and ShadowPair
    Controller            the controller with its memcached servers
    Controller_proofs     its theorems
    StatServer            the measurements in the statistics server
    StatServer_proofs     its theorems
    ControlLoop           the limits: controllers, statistics server, application
                          servers
    ControlLoop_proofs    its theorems
    Requestor             the request generator and its pool of http clients
    Requests_proofs       the theorems about ParseRequest and Requestor
    SumTheorems           lemmas about sums of functions, for the proofs about
                          Controller, Backends, ShadowPair and ControlLoop
    MC*                   the small instances that TLC checks

Each operator is mapped in `PROJECT.json` to the lines it stands for.  An
operator introduced by the comment "Faulty variant" is not part of a
specification: it is the operator below it with a plausible bug, and shows that
some property notices that bug.

`Requests_proofs` extends both ParseRequest and Requestor, `Reporting_proofs`
both Measurements and ShadowPair.  Names of one of each pair therefore
say whose they are: `LoadInit`, `LoadNext`, `LoadSpec`, `LoadTypeOK` in
Requestor, `ChannelInit`, `ChannelNext`, `ChannelSpec`, `ChannelTypeOK` in
Measurements.

### ParseRequest

One call, because calls share nothing but the subsystems.  A subquery is here
only a member of `running` that may at any time put a result into `doneDeps`,
or never.  `Dispatch` is lines 792-812, `Receive` one pass through the first
case of the select, `TimeoutFires` the second, `Finish` lines 846-857.  `timer`
counts from the last time the select was entered, because `time.After` is
evaluated each time; `age` counts from `startTime`.  Time passes only while the
request waits with an empty channel; as soon as `timer = Timeout` both cases of
the select may be ready and either may be taken, as in Go.  `Results` allows
every latency a subquery can report, also the ten seconds an error is stamped
with and the negative one that a bypassed subquery without ids computes from a zero time.

`RequestPromise` knows neither channel nor timer: it records answers, and ends
in `Complete` or `GiveUp`.  `Implements` maps `got` to `answers`.  A latency is
any integer there, and the slowest dependency is one of the slowest.

### Subquery

The subqueries (`Workers`) and flushes (`Flushers`) that meet on one subsystem.
`pc` follows the code: `getWait`, `getting`, `backWait`, `backend`, `store`,
`setWait`, `setting`, `stored`, `report`.  A value is `Unknown`, `Empty` or
`Full`: the code tells apart no more.  The order in which the map of backend
values is walked is free (`Record` takes any key).  Errors of memcached
(`ChunkFailed`, `SetFailed`), errors and partial answers of the backend,
evictions (`Evict`), and both timeouts are actions.  `Acquire` times out only
while the semaphore is full: a waiting send is handed the slot that is freed.
A chunk that fails is never counted: the worker stays in `getting`, which the
code does (`subquery.go:629-638`).  `stolen` counts the tokens that flushes took
without having one: `FlushHandler` ignores what `Acquire` returned, so a flush
that timed out releases a token of a subquery, and from then on one more than
`MaxConcurrentReqs` may run.  `SemaBalance` and the theorem `LoadBounded` say by
how many; that the limit itself does not hold is plain from `FlushTimeout`.

`Calls`, `Slice` and `Chunkings` are the cutting of `cacheQueries` (lines
589-612): the map of keys is walked in any order, each call gets `ChunkSize`
keys, the last one the rest, and a call without keys is made when there are none.
`KeysAskedOnce` says that this cuts well.

A backend returns keys it was asked for.  (MySQL returns the ids as they are
stored; were one stored in another case, `realSize` would grow by a key that
nobody asked for.)

### Measurements

The tails, the requests and `PingTest` as senders, `reportLatency` and
`processQueries` as receivers.  Only the lengths of the channels are modelled.
A member of `Workers` is the place of one subquery at a time: after its tail
another may begin there, so that there is no bound on how many there are in all.
`crowd` is a history: how many tails were between the look at `querySequence`
and the push when it last was below the threshold.  The room above the
threshold is for `QueryCap - QueryThreshold + 1` of them (10 001 in the code).
Nothing in the code keeps more from meeting there, and then a push does block;
`StaleLengthsSuffice` says that it happens only then, `TailsEnd` that
these tails go on, too.
`reportLatency` goes through `len`, `take`, `post`, `load`, `store`, `sum` as in
the code; a failed post goes back to `len` directly (`continue`, line 254), so
the requests are not counted in that round.  The backend pings of `PingTest`
send only below 1 000 000 and are weaker than the cache ping that is modelled.

### Backends

`Dial`, `PingBackend`, `SetCache` and `Retry` are a pass of either loop of
`InitSubSystems`; the write to the cache is made even if the ping failed, and
changes nothing then.  After the start `Begin` takes a slot of `BackSema`
(`PingTest` takes none).  A request of an fb subsystem is `TakeClient`, `Call`,
`PutClient`; of a mysql subsystem `TakeConn`, `Query`, then `NextRow` with or
without `BeginExec` and `EndExec`, and `CloseRows`.  Each of the calls of an fb
ping is one round of the same steps.  The idle connections of the `sql.DB` are
not modelled, only those in use.  `net/rpc` does not dial again: a client whose connection
broke is `"broken"` for ever, and goes back to the channel as any other.  So
after a restart of an fb backend its subsystem never recovers; and a ping with
fewer calls than clients may pass over broken ones.  No property promises otherwise.
`leaked` counts the connections of attempts given up: fb clients are not closed,
nor is the `sql.DB` with the connection its ping opened.  `MaxFiles` bounds them.

That queries do not wait for each other's connections rests on
`SlotsAssumption`, fewer slots of the semaphore than connections: the example
configuration has 15 and 20.

### ShadowPair

`Request` is `ShadowCache.Request` with its eviction loop; `Kept` says where the
loop stops.  `PlayFirst` and `PlaySecond` are the two lines of
`processQueries`, `SetFirst` and `SetSecond` the two loops of `reportLatency`
as they touch one subsystem, `ReadFirst`, `ReadSecond` and `Compare` the report.
A method is one step: the interleavings between the methods are modelled, those
inside of them are not.  A query comes with any size, as the backends may change
a size from one answer to the next, and with -1 when the subquery has got none.

### Controller

Sizes are in MB.  `Reallocate` is a round up to the start of its threads,
`SetLimit`, `FreePage`, `FreeFails` and `EvictionEnds` are the thread of a
cache, `ThreadFails` the exception that ends one, `Join` the end of the round.
Weights are exact fractions, and every outcome of the statistics is possible:
counts up to `MaxCount` for the strategies whose weights are shares of counts
(`crit_path` and its windows, `crit_smooth`, `req_rate`), positive and negative
ones for `crit_path_w_delta`, every latency and hit ratio up to `Levels` for
`latency` and `hit_ratio`, every order of the latencies for `robinhood`.  A
cache with `malloc_ratio` over 1.3 counts nothing, which is one of the
outcomes.  Exact arithmetic leaves out the rounding of floats, whose size is far
below the megabyte that shares are rounded to, but which may move a share that
is exactly whole by one; the rest of the round then gives back what it took.
The megabyte left over by the rounding goes to `deltas.keys()[0]`, any fixed key
(`fk`).  A round that does nothing because there are no statistics is
`NoReallocation`.  One that fails to read the limits starts over by calling
itself from the handler of the exception (`ReadFails`), and `MaxDepth` calls
inside each other end the main loop.  An exception in a thread ends the
thread only.

`OfflineStage` to `OfflineFails` are `offline_opt`: the main loop changes one
cache after the other itself.  An exception there calls a function that does
not exist, or is not caught at all, and ends the main loop either way.

The properties say what they except, and these are facts of the code:

- A stage that lowers the total by more than a round can steal makes what
  there is to give negative, and such a round is given up as OVERALLOCATED unless
  the first cache takes all of it: the lower total need never be enforced.
  `short` remembers such a stage, and `Repairable` and `NeverAborted` except it.
- Negative weights (`hr_delta` of a simulated cache that was smaller for a
  moment than the one it should exceed) may give a cache more than was stolen,
  so that the limits exceed the total while other threads fail, or the
  round is given up.  Both properties except `crit_path_w_delta`.
- Robinhood counts only the caches it can take from, but pays every slow one
  (`controller.py:149-164`): beside a slow cache of `MinSize` or less the shares
  may add up to more than what was stolen, and the round is given up.
  `NeverAborted` excepts `robinhood` while there is such a cache.
- A failed try to connect has counted caches already (line 542), and the total
  stays too large for good.  `Conserved` takes the total as it was counted.
- The main loop may die in two ways, and does: by the exception in
  `offline_opt`, and by the depth of recursion.  No property denies it;
  `StagesKept` says what limits the first leaves behind.

### StatServer

`Post`, `SendStats`, `SendCsv` and `Answered` are `PutStatsHandler`, one post at
a time for each application server, as `reportLatency` posts.  `log`
is the history of what `StoreStats` stored; the ring holds places in it.
`BeginWrite` and `EndWrite` make the write of a slot two steps, and `CopySlot`,
which does not lock, may find each field of that slot old or new.  The fields
themselves are read whole: strings whose two words are torn apart are left out.
The heap is an ascending sequence, which is what `sort.Sort` makes of it, is
itself a heap, and has the same root; `Kept` is the pair of pop and push.  The answers
of `gettail` and `getstats` change nothing but the order in the heap and are
functions of the state (`TailAnswer`, `Stats`), about which `TailRight` and
`StatsRight` speak.  `GetTailPanics` is the one case that does change something:
the index one past the end, with the lock held.

`TypesAssumption` says that no measurement has the empty type, which an unused
slot of the ring has: subsystems have names, and a request is "req".

The split of the latencies by status, the rates of requests and queries, and
what is written to the file are left out; the statistics of a type are those of status 2.

### ControlLoop

Composes the controllers, the table of the statistics server and the
application servers, for one backend.  A limit is the number of its changes.  A controller's
entry of the table is an array with room for `Cap` limits: decoding a single
number into a slice leaves room for four, and `CopyMemStat` appends to it.
`SliceOf` is a slice that shares an array of the table, `Slice` one that nobody
writes to any more; `Encode` reads an answer item by item without the lock while
`PutMem`, `PutStats` and `CopyAside` (the other callers of `CopyMemStat`) write.
`Entries` is what an answer walks: the controllers that have limits, in their
order.  It holds together because the order of the controllers only grows and a new
limit comes in a new array; `RegisterLast` shows what another order would do.
`PutMemCut` is a post whose body is cut off: the error of decoding is
overwritten (line 401), the controller registered without limits, the answer is
ok.  Such a controller may later come before the others, and an answer that is
under way count one of them twice: `AnswerWhole` excepts it.  `Restart` forgets
the table.  A controller that came back under another address would be a
new one, whose old limits stayed in the averages: the set of controllers is fixed here.

### Requestor

`OpenClient` is one try of `InitHttp` that a server answers (the tries that fail
change nothing), `Schedule` one pass of the main loop, `SkipEmpty`, `TakeClient`,
`PostSucceeds`, `PostFails` and `ReturnClient` the goroutine of a line,
`BalancerTakes`, `BalancerDials` and `BalancerPuts` one pass of `LoadBalance`.
A request may be due at any time.  `lost` is a history.  That `sentCount` is
added to before the error is looked at, and the client put back after it, is
the order of lines 143-154, and makes the difference between the closed loop,
which survives a failed post, and the pool, which does not.

## 4. Runs

| run | instance | shows |
|---|---|---|
| `ParseRequest` | two subsystems, an unknown name, five plans of up to three layers, a channel of two, a timeout of two ticks | all promises of a request, the refinement, and that it is always reported |
| `Subquery` | two subqueries, one flush, three ids for two keys, one slot each, chunks of one | tokens balance, the status is honest, a subquery gets on whatever the others do, and the calls to the cache ask for each key once, also for other numbers of keys and sizes of chunks, up to nine (`MaxCut`) |
| `SubqueryCacheWait` | without flushes, one key | *violated*: "timeout waiting" (line 613); one failed lookup and the loop never ends |
| `Measurements` | two tails at a time of up to two keys, two requests, `latencyMeasurements` of two, `querySequence` of one, which has room for one of the tails above the threshold | pushes and receives that rely on an earlier look at the length block only when more tails meet than there is room for; no double count, every tail ends |
| `Controller` | three caches of 3, 2 and 1, minimum 1, the small one first, steps of a half, all strategies, failed connects, rounds that cannot read limits, threads that fail, stages that raise the total to 8 and lower it to 6, rounds that plan limits of at most 4 | conservation, repair, the minimum, no round given up but for the known reasons, the limits that stages leave, every round ends |
| `Backends` | a mysql subsystem with two connections and one slot, an fb subsystem with two clients and two slots, two subqueries and `PingTest`, backends that go down and come up at any time | the start ends, each client is in one place, requests end |
| `ShadowPair` | three ids of size 2 or -1, capacities of up to 3 and 4 | lists and sizes agree; inclusion |
| `StatServer` | two application servers, three posts, a ring of two slots, a heap of two, a warm-up of one request, two tails, one copy after the other | tails, copies and statistics are right, every post is stored unless a panic kept the lock |
| `StatServerTail` | without warm-up, two posts each | *violated*: "aggregates measurements" (`README.md:45`); after the panic of an early `gettail` posts are not answered |
| `ControlLoop` | three controllers, one application server, arrays with room for three, a change, a cut-off post, a restart | answers are whole, capacities follow the limits |
| `Requestor` | two clients, two servers, tried at most twice, traces of up to four lines, at most two requests ahead | each client in one place, the counters of the closed loop, and that the generator ends unless it cannot |
| `RequestorWait` | the same | *violated*: "Wait for completion" (line 233); the clients of failed posts are lost, and without any the wait never ends |

Why these bounds are enough to be interesting.  In `ParseRequest` every kind of
layer occurs (empty, unknown, mixed, the same dependency twice), a result can
race each of two timers, and `doneDeps` is just as large as the assumption asks
for, so that it does get full.  In `Subquery` both semaphores are contended by
any two parties, so that all timeouts happen; two keys give lookups of two
chunks, one of which may fail, hit or be empty, and backend answers that are
complete, partial or none.  `KeysAskedOnce` also looks at the
cutting alone, with up to nine keys in chunks of up to nine: no keys, fewer than a
chunk, a chunk and a rest, several chunks with and without a rest.  In
`Measurements` the channels are so small that
every sender and receiver gets to its limit, and two tails do find
`querySequence` full.  In `Controller` the steps are so
coarse that rounding matters in each round and sizes reach the minimum; there
may be any number of rounds.  The third cache starts at the minimum: it gives
nothing, Robinhood may pay it without having counted it, and such a round is
really given up; once it has grown it is a cache like the others.  All this
needs three caches, as two that are above the minimum stay there.  Limits of at most 4
are half of the largest total; larger ones are left out for TLC's time, and not
in the proofs.  In `Backends` all descriptors can be used up by attempts, and both subqueries may meet
`PingTest` at one pool.  In `ShadowPair` the two lists hold up to three
items, so that the order matters, and capacities shrink, grow and cross.  In
`StatServer` the ring is written more than once around, also while it is
copied, the heap overflows, and both channels are full at times.  In
`ControlLoop` the first array has room for all three limits, so that each copy
appends; a second application server would only do what `CopyAside` does.  In
`Requestor` the balancer may hold one client while the other is with a request
or lost, both may be lost, and three empty lines close the loop with a line left.

The bounds themselves: `Timeout` (ticks in ten seconds), `MaxKeys`, `MaxCount`
and `Levels` (what the statistics may be), `MaxLimit` (the
limits that a round plans), `MaxTotal` (the total that failed connects may add up to),
`MaxOver` (pages beyond the limit that are told apart), `MaxCut`, `MaxReqs` (requests between two
resets), `MaxPosts`, `MaxChanges`, `MaxCuts`, `MaxRestarts`, `MaxRows`.  Smaller
than in the code are `Attempts` (30), `MaxDepth` (1000, Python's limit),
`Ahead` (1000), `MaxTries` (100), `NuApps` (10), `StatCap` (100), `CsvCap`
(1000), `RingLen` (10 000 000), `Warmup` (5 000 000), `HeapCap` (2 000 000),
`MinTail` (10), `Cap` (4), `Clients` (500), `Pings` (100).  `age` and `started`
are histories that are bounded by the plan and the number of requests.

`Subquery`, `ParseRequest` and `Requestor` stop when all is done, and the main loop of
`Controller` may die; deadlock is checked in the other modules.

## 5. Fairness

- `ParseRequest`: the goroutine runs and its timer expires.  Nothing is assumed
  of subqueries.
- `Subquery`: the goroutines run, their timers expire, and a call to memcached
  ends (its client has a timeout of a second, line 470 and 527).  Nothing is
  assumed of the backend: an rpc call has no deadline.
- `Measurements`: the goroutines run.  The sends of a tail to both channels are
  strongly fair because Go queues the senders that wait on a channel, first
  come first served.  Nothing is assumed of requests and `PingTest`.  That a post ends, somehow, is an assumption: its client has
  no timeout, and a statistics server that accepts and never answers, as in
  `StatServerTail`, stops `reportLatency` for good.
- `Controller`: threads run and calls to memcached end (timeout of 3 seconds).
  Nothing is assumed of `ThreadFails`, nor that a busy memcached ever frees a page.
- `Requestor`: the goroutines run.  Taking a client is strongly fair, because a
  channel serves those that wait for it first come, first served; the balancer
  need not get one.  That a post ends, well or not, and that some server at some
  time answers the balancer are assumptions: the http client has no timeout.
- `Backends`: the goroutines run and every call ends: an fb call because the
  backend answers or its connection breaks, a query because of the
  timeouts of its data source name (line 453).  Taking a client or a connection
  is strongly fair: both a channel and the `sql.DB` queue those that wait.
  Nothing is assumed of backends and caches, except in the premise of `Started`.
- `StatServer`: the goroutines run; a send is strongly fair, as above.
- `ControlLoop`: the five-second loops of the controllers and the posts of the
  application servers go on (`PingTest` sees to it that there is always
  something to post), and not every post fails: encoding is strongly fair.
- `ShadowPair` has no liveness property.

## 6. Proofs

Seven modules hold the theorems about the nine components, and `SumTheorems`
holds lemmas.  For each component an inductive invariant is proved (`IInv`; in
Requestor and Measurements `LoadInv` and `ChannelInv`), with type correctness
as a conjunct, and the rest follows from it.

`ParseRequest` (in `Requests_proofs`), for any subsystems, plans, capacity and timeout.  The
invariant joins `ResultsAccounted` (what is waited for is running or, once, in
the channel) with `Answered` (received and waited for together are just the
known dependencies of the layers so far), `Verdict` (the status and the
slowest dependency are those of the received results) and `Paced` (each
receive paid for the time of a timer).  `SendNeverBlocks` is a counting
argument: a running subquery is not in the channel, so the channel holds less
than `Cardinality(Subs) <= DoneCap` results.  That assumption is about the configuration: a hundred subsystems.
`Answered` gives the layer order and that what a timeout blames is still open;
with `Verdict` each step is one of `RequestPromise` or a stutter.

`Subquery_proofs`, for any subqueries, flushes, ids, slots and chunk size.
`SemaBalance` alone is nearly inductive; what it lacks is that a worker in
`store` or `setWait` still has values (`Job`).  `FulfilledCounts` needs that the
values still to record are of keys that have no size yet; `HonestStatus` needs
where `backQueries` and `hits` come from.  `KeysAskedOnce` is arithmetic, for any
number of keys: `Calls` is a quotient (`CallsOfKeys`), so that each place is in the
slice of just one call (`SlicesCover`, `SlicesApart`), and the order in which the keys
are walked is a bijection (`ChunksOfKeys`).  `LoadBounded` is what an operator
asks: a backend never sees more than `BackSlots` requests, and a cache
exceeds its limit only by the stolen tokens.

`Measurements` (in `Reporting_proofs`), for any tails, requests and limits.
`PushHasRoom` rests on `Room`: once the queue is at the threshold, its length and
those who are about to push are together less than `QueryThreshold + crowd`,
because whoever looks from then on goes away.  Nothing is assumed of how many tails there
are.  `TakeNeverBlocks` rests on the only receiver being the one that
looked.  `StaleLengthsSuffice` is both.

`Requestor` (in `Requests_proofs`), for any number of clients, any servers and any traces.
`ClientsAccounted` and `BacklogCounted` count sets of lines, and are inductive
once it is known that the lines not yet read have no goroutine and that only
requests get a client (`Started`), and that the balancer waits for `InitHttp`
(`InOrder`).  `PutNeverBlocks` follows: whoever puts a client back is counted
beside the pool.  So does `PostsBounded`, that no more posts are under way than
`HttpMaxConcurrentReqs`.

`SumTheorems`: the sum of a function over a finite set changes by what one
value changes by, is monotone, and splits.  The sums of the community modules
are recursive functions over the subsets of a set; the provers take no induction
rule with an operator for a parameter, so `SetInduction` takes a set of subsets
instead, and follows from the well-foundedness of the strict subset ordering.

`Controller_proofs`, for any caches, limits, steps, stages and statistics.  What
the properties say of the end of a round is known at its start: `Balanced`, that
the limits that were planned, set or not, add up to the total.  `Covered` is why
threads may fail: what the next round cannot steal again, of each limit what one
step leaves of it and of a limit still to be set all of it, is within the total.
It gives `Repairable`, and `NeverAborted` with the sum of the shares, which is
at most what there is to give when no weight is negative and their sum is at
most one.  That is so for shares of counts, of latencies and of misses, and for
Robinhood as long as it has counted each cache it pays, that is, each has more
than `MinSize`.  Planning a round is the hard step: the running sums of `Stolen`,
`Share` and `Remaining` over the caches are shown to be sums over sets.
`SafeDeltas` carries the minimum (`NeverBelowMin`) from the plan to the thread
that sets the limit.  `StagesKept` is inductive together with `Staged`, which
says that a cache that `offline_opt` has come to has its limit of the stage or is about to get it.

`Backends_proofs`, for any subsystems, pools, callers and descriptors.
`Starting` says what is in the channel of the subsystem that is being started
(fewer clients than `Clients` while it still dials, just `Clients` afterwards),
`Holding` that only users of fb subsystems hold clients, and with `Quiet`, that
nobody does before the start is over, `ClientsAccounted` is inductive.
`PutNeverBlocks` follows by counting.  `Budget` is what bounds `leaked`, for
which `TypeOK` has `MaxFiles`: each connection that was given up had been opened
when there was a descriptor for it.  `Dead` says that no client of a backend
that is down works, wherever it is.

`StatServer_proofs`, for any application servers, measurements, ring, heap,
warm-up and tails, about `Safety`, the specification without its fairness.  All
invariants of the run are proved.  `CopyRecent` rests on `RingRight`: the index
goes around with the length of `log`, so that a slot holds the last measurement
that belongs there; that two measurements less than a ring apart never share a
slot is arithmetic with remainders (`Around`, `SameLap`).  `TailRight` rests on
`Ranked`: the m-th of the heap from the top is above `v` just if at least m requests are,
which each pair of push and pop preserves, and on `WarmedUp`, what the
counter of the warm-up has to do with the log.  `StatsRight` is about the
copy that was sorted: a finite set can be sorted by a value, its members and the
places of the order are in bijection, so that the place `Part` rounds to has as
many below it as it should.  `Typed` and `CountsRight`
give that the totals by type are those of the log.

`ShadowPair` (in `Reporting_proofs`), for any ids, sizes, capacities and bound
on the requests, about `Safety`.  A list is cut in two and an item taken out of it,
so `SizeOf`, a sum of a function over positions, is first shown to add up over
concatenation (`SizeOfConcat`, from `SumTheorems`).  `SizeIsSum` then says that
`EnforceCapacity` keeps the longest first part of the list that fits
(`KeptFits`); sizes of -1 make "longest" matter, as a longer part may fit
where a shorter one does not.  `Inclusion` is not inductive, because between the
two lines of `processQueries` only one of the lists has met the query.  `Ahead`
is what holds then: Shadow1 is a first part of what Shadow2 will be, with the
query in front, and after a miss it also fits the capacity that Shadow1
had (`capFirst`).  Unless Shadow2's capacity is lower (`crossed`), its longest
first part that fits is no shorter.  With another size for the same id
(`resized`) `Ahead` fails, which is why `Inclusion` excepts it.

`ControlLoop`, for any controllers, application servers, changes, cut-off posts and
restarts and any `Cap`, about the safety part of the specification.  `AnswerWhole`
speaks of an answer that is encoded without the lock; the invariant says why the
array it reads may be written to meanwhile.  `AnswersSound`: an answer shares
an array with the controller it came from, and only its first `len` items,
which are set, are read.  `InOrder`: the k-th item of the array of the first controller is,
if anything, an earlier limit of the k-th controller.  It stays so because
controllers are only added at the end of the order and limits only grow
(`NotAhead`), so that `CopyMemStat` writes over an item only a newer limit of the same
controller.  `Promised`: what an answer is to have it still has, encoded or not.  The
items that are walked (`Entries`) are defined by their rank, and are all
controllers of the order as long as no post was cut off (`EntriesAre`).  Both
parts need `cuts = 0`, the exception of `AnswerWhole`: a controller without
limits is passed over, and those behind it move in the array.

`SendNeverBlocks`, `LayerOrder`, `FulfilledCounts`, `PushHasRoom`,
`TakeNeverBlocks`, both `PutNeverBlocks` and `LoadBounded` are proved and not
among the properties of the runs: each is a consequence or a part of one that is.

Only model-checked is what needs fairness, which is beyond TLAPS: `Reported`,
`Progress`, `TailsEnd`, `RoundEnds`, `Completes`, `Started`, `RequestsEnd`,
`PutsStoredUnlessLost` and `CapacitiesFollow`.  That the properties
of the runs that expect a violation fail is of course shown by TLC alone.

## 7. Not modelled

- Hit statistics (`StoreHitRatios`, a moving average of floats per application
  server) and utilization (a table of last values): both are kept under one
  lock and only read whole; `Controller` allows any weight they could give.
- In the measurements: the split by status, the rates of requests and queries,
  the lines of the file.
- The panic of an application server on an answer of the statistics
  server that breaks off (`subquery.go:261`), and its restart.
- The distribution of the times at which requests are due (`NextRequestTime`).
- Word-level races: `hits` and `reqs` of a simulated cache,
  `measCountSinceHReport`, strings torn apart in the ring, the generator of
  random numbers that the requests of a mysql subsystem share.
- `JsonHandler`'s panic on a malformed body, which ends its handler only.
- The counters that `fback` prints, and the inside of MySQL and memcached.
- The monitor, configuration, trace and deployment scripts: sequential input
  and output.

## 8. Plan

Done, in this order, the most important behaviour first: `RequestPromise`,
`ParseRequest`, `Subquery`, `Measurements`, `Controller`, `ShadowPair`,
`Requestor`, all strategies of the controller, `StatServer`, `ControlLoop` and
`Backends`; the proofs about all of them, so that every invariant a run
checks is also a theorem.

What would come next:

1. Hit statistics and utilization of the statistics server, once a property
   is found that is more than arithmetic of floats.
2. The methods of the simulated caches in smaller steps, for the counts of hits and
   requests that are read without a lock.
3. Controllers that come back under another address, in `ControlLoop`.
