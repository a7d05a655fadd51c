# GMA: a TLA+ model of the engine and its market connector

GMA is a C++ engine for live analytics. A *feed* pushes market events into the
process; clients connect over WebSocket and *subscribe* with a small pipeline
description; the engine builds a chain of nodes for each subscription, runs it
on a thread pool whenever a tick arrives, and sends the results back to the
client. This directory models the concurrent core of that program in TLA+,
checks it with TLC on small instances and proves part of it with TLAPS.

Paths below are relative to the repository; the engine is in `src/` and
`include/gma/`, the market connector in `connectors/market/`. In
`PROJECT.json` the repository itself is called `src/`, so the engine's files
appear there as `src/src/...`.

## 1. Inventory

### Threads

| thread | runs |
|---|---|
| io thread | `io_context::run()`: accept loop, every `ClientSession` handler, every feed session and feed client |
| pool workers | closures posted to `gma::gThreadPool`: every listener delivery and every downstream call |
| timer threads | one per `Interval`, `TumblingWindow` and `BucketTime` node |
| main | start-up, and after a signal the steps of `ShutdownCoordinator` |

### Components

| component | state | operations | what makes it correct | module |
|---|---|---|---|---|
| `rt/ThreadPool` | `q_`, `stopping_`, `inFlight_`, two condition variables | `post`, `drain`, `shutdown`, destructor, `workerLoop` | each closure runs exactly once; `drain` waits for what was accepted before it; nothing is stranded at stop; waits end | `ThreadPool`, `ThreadPoolProofs` |
| `AtomicStore` | two-level map of values, two caps | `set`, `setBatch`, `get` | caps hold, values written are the ones read | `AtomicStore` |
| `MarketTickComputer` (`MarketTA.cpp`) | price history per symbol | `compute`, `computeAllAtomicValues` | announces only what `onTick` does not announce | `MarketTick` |
| `Dispatcher` | listener table, raw histories | `registerListener`, `unregisterListener`, `onTick`, `notifyListeners`, `computeAndStoreAtomics` | table exact; a value at most once per tick; store at least as new as the wake-up | `Dispatcher` |
| `nodes/Listener` | `stopping_`, `downstream_` | `Create`/`start`, `onValue`, `shutdown` | silent after shutdown; what is posted arrives | `Dispatcher`, `Chain` |
| `TreeBuilder` | none: it builds a chain | `buildForRequest` and one builder per node type | a failed build leaves nothing that speaks | `Chain` |
| `nodes/Worker`, `Aggregate`, `GroupSplit`, `VectorReducer`, `AtomicAccessor`, `Responder` | per-symbol accumulators, buffers, children | `onValue` | no value lost or doubled; one child per symbol | `Chain` |
| `nodes/Interval`, `BucketTime`, `TumblingWindow` | a timer thread, buckets | `start`, `onValue`, timer loop | windows partition the values; every value leaves its window | `Chain` |
| `server/ClientSession` | `open_`, `outbox_`, `writing_`, `active_`, `chains_` | accept, read, subscribe, cancel, `sendText`, `startWrite`, `close` | one write at a time from a stable buffer, in order; acknowledgement first; nothing left behind; the outbox drains | `ClientSession` |
| `server/WebSocketServer` | `accepting_`, `sessions_`, acceptor | accept, register, unregister, `stopAccept`, `closeAll` | stop reaches every registered session | `WebSocketServer` |
| `server/FeedServer` | `accepting_`, `sessions_`, per session `pending_` and an idle timer | accept, read, one handler per kind of line, close, `stop` | registry exact and within its cap; every line routed once and in order | `FeedServer` |
| `ShutdownCoordinator`, `main` | `steps_`, `stopping_` | `registerStep`, `stop`; boot, `ioc.run()`, signal | steps complete and in order; a signal ends the program unless a thread waits for good | `Shutdown`, `IoContext` |
| `ws/WsFeedClient` | `stopping_`, streams, back-off timer | resolve, connect, handshakes, read, reconnect, stop | one operation at a time; a loss is retried; stop is final, once its close() returns | `WsFeedClient` |
| `feed/ItchAdapter` | `orders_`, `locateToSymbol_` | one route per message type | the venue's orders reach the book, those the manager takes | `ItchAdapter`, `ItchFeed` |
| `book/OrderBook` | ladders, index, aggregated ladders, synthetic-id counters | `applyAdd`, `applyUpdate`, `applyDelete`, `applyTrade`, `applyPriority`, summaries, snapshots | ladder, totals and index agree; price-time priority; ids never collide | `OrderBook`, `OrderBookSpec`, `AbstractBook` |
| `book/OrderBookManager` | books, feed state, delta sequence, handlers | `on*`, `buildSnapshot`, `mutateWithDelta_` | gaps are not hidden; snapshot + deltas = book | `OrderBookManager`; tick sizes and refusals in `ItchAdapter` |
| `ob/ObKey`, `ObMaterializer`, `ObProvider` | none | format, parse, evaluate, serve | a key names what it reads | `ObKey`, `ObMaterializer`, `ObQueries` |
| `RequestRegistry`, `JsonValidator`, `ws/*` (older WebSocket path), `FunctionMap`, `ConnectorsClient`, `Config`, `Logger`, `Metrics`, `SPSCQueue` | maps and counters | look-ups, parsing, output | | see section 7 |

### How they interact

    feed thread --> FeedServer/WsFeedClient --> MarketIngress --> Dispatcher::onTick
                                         \--> OrderBookManager --> OrderBook
    Dispatcher::onTick --> MarketTickComputer --> AtomicStore
                       \-> ThreadPool::post --> Listener::onValue --> ThreadPool::post
                                                     --> chain ... --> Responder --> ClientSession::sendText
    client --> ClientSession --> TreeBuilder --> Listener --> Dispatcher table

The engine's difficulty is in the edges of this picture: a subscription is
built, replaced and cancelled on the io thread while its values travel through
two passages of the pool's queue; the outbox is filled from the pool and emptied
by the io thread; a depth snapshot is read on the pool while the feed changes the
book; a feed connection breaks while its messages are being applied; and a signal
stops all of it, from the outside, in the middle of any of these. `PROJECT.json` lists the hazards, each at
its line, with the properties that would catch it going wrong.

## 2. Modules

### ThreadPool

One action per critical section of `ThreadPool.cpp`. `drain()` is cut into
*lock*, *check* and *block*: its predicate reads `inFlight_`, an atomic that the
workers change without `mx_`, so a worker can act between the evaluation of the
predicate and the wait, although `drain()` holds the mutex. `post()` is cut at the
unlock, because `notify_one` comes after it. A condition variable may wake a
waiter for no reason (`Spurious`, bounded by `MaxSpurious`). Tasks may post
tasks, as `Listener::onValue` does. A `post()` to a stopping pool is dropped and
changes nothing, so it needs no action. A closure that throws ends like one
that returns. `accepted`, `done` and `before` are history variables.

### AtomicStore, MarketTick, Dispatcher

`AtomicStore` and `MarketTick` are functions of a state value, because their
members run under one lock or on the feed thread only; `Dispatcher` owns the
state and calls them. `onTick` is cut at every lock: computers, one
`notifyListeners` per announced key, the collection of `toNotify`, then for each
pair the push to the history and the fan-out of `computeAndStoreAtomics`. A
listener's `shutdown()` has three steps (flag, unregister, reset) that fall
anywhere between these. A delivery is a closure in the pool's queue; the queue
and the workers' slots stand for the thread pool, whose own promises
(`EachTaskOnce`, `TasksFinish`) are what justifies this abstraction: FIFO
removal, each closure once, completions in any order. What an indicator
evaluates to is abstracted to the ordinal of the tick it was computed on, which
is what the properties tell apart; arithmetic on prices is left out.

The lookups in the table that one `computeAndStoreAtomics` call makes for its
builtins are one step with the posts that follow. A listener that registers or
unregisters between two lookups of the same tick would see the same as one that
does so just before or just after it, for each builtin separately.

### OrderBook, OrderBookSpec, AbstractBook

`OrderBook` gives each public member of the class as a function from a book to a
book (each runs under `m_`): the two ladders of FIFO lists with running totals,
the index, the aggregated ladders and the synthetic-id counters. A locator's
list iterator is represented by the key it points at. `OrderBookSpec` drives one
book with every member. `AbstractBook` is what a book promises: per side and
price a queue of orders in time priority, without totals, index or erased levels.
Its steps are a key sent to the back of a queue, a resize in place, a cancel, an
execution that fills from the front, and a new listing of every queue; the loops among them
are recursive functions. `ImplementsQueues` is the refinement (`INSTANCE AbstractBook WITH
queue <- Queues(book), OrderKeys <- GivenKeys, ...`), `GivenKeys` being the keys an order
can get: its id's, a synthetic one, or one that a snapshot brings.

### OrderBookManager

One symbol of the manager, driving the `book` of `OrderBookSpec`. The feed thread is the only writer (all feeds run on
the io thread); a mutation and the publication of its delta are two steps, and a
pool thread in `buildSnapshot()` takes one lock per field it copies. `log`,
`have` and `silent` are histories: published deltas, venue messages accepted
since the baseline, and whether one of the two kinds of call that leave levels
out of their delta has happened since the reader began (a snapshot; an add whose
id already rests at another level).

### ObKey, ObMaterializer, ObQueries

Pure functions. `ObKey` formats and parses the names of the order-book metrics;
a name is the sequence of its dot-separated tokens, so the conversion keeps what
a reader of the string would see. A price is printed with six digits (`PxTokens`):
one of seven digits comes out as `1.23457e+06`, whose `.` is a separator, and the
key then has a token too many and is read as none, as would be the key of a fractional
or negative price. `ObMaterializer` has the depth copy made by
`MarketConnector`'s snapshot source, every metric computed on it, and the
Provider, which has a parser and loops of its own. `Capture` takes the two sides
from two states of the book, because the source reads each under its own lock; the
properties are about copies whose two states are one. A value is a fraction, and
`None` is NaN. `ObQueries` extends `OrderBookSpec`: in every state of a book
every key is evaluated and compared with a reference that is computed from the
set of resting orders, without ladders, indices or totals.

### ClientSession

The members of the session are the record `s`. Everything on `strand_` is
serial: a dispatch made on the strand runs inline (`SendText`, `Close` are
functions applied inside an action), one made by a pool thread or by `closeAll`
joins `strandq`. The subscribe handler is cut at `Build` and `Install`, because
from the moment `buildForRequest()` returns, pool threads can bring values of
the chain. Of a chain the session needs to know: its key, whether its head is in
the Dispatcher's table, and whether it has a timer thread. `Carry`, `Respond`
and `PostUpdate` are the pool threads' part: the value in flight, the first test
of `open_`, and the dispatch. The WebSocket stream is external: a read may fail
at any time, a write completes or fails, `async_close` completes, and reads may
still complete while the stream closes. The rate limiter depends on wall-clock
time, so any message may be refused.

### Chain

The inside of one chain, which `ClientSession` treats as opaque. `BuildStage`
builds the stages from the last to the first, as `buildForRequest` does, and
starts a timed stage's thread or registers an Aggregate's input listeners at that
moment; `BuildThrows` is any builder's exception, `CreateHead` the head. A worker
of the pool is a stack of `onValue` calls: one step handles the call on top, with
the node's lock section inside, and puts the calls it makes downstream in its
place. GroupSplit has two lock sections and therefore two steps. A timer thread
posts ticks (`IntervalTick`, `BucketTick`) or swaps a window's buckets and then
posts them (`FlushWindow`, `PostWindow`).

Who owns whom decides what lives on after a release. A Listener's link to its
downstream is weak, every other link is owning: `Reaches(i)` holds while the
builder or the session holds the chain, or a queued call, a worker's task or a
timer thread entered at or before stage `i`. A value is reduced to the data it
carries and the data it was computed from; what a function computes is left out,
whether it throws is a choice, bounded by `MaxThrows`. The `shutdown()` members of
the inner nodes are not modelled, because no production path calls them.

### WsFeedClient, ItchAdapter, ItchFeed

`WsFeedClient` is the connection's state machine: each handler runs on the
strand and is one action; `pending` is the set of asynchronous operations that
have not completed. `stop()` is cut into the flag, set on the caller's thread,
and the posted closure. Whether an operation succeeds is the network's choice
while the peer is up; an outage makes the ones that need the peer fail. The end of
`stop()`'s closure is a synchronous `close()` without a deadline: while it waits for
the peer (`stream = "closing"`) the io thread runs no other handler (`IoFree`), and
nobody owes its end (`CloseReturns` is not fair).

`ItchAdapter` has `translate()` as functions from the adapter's order table and a
message to the new table and a list of events, and `dispatchEvent()` as the
function that hands the events to the `OrderBookManager` and adds up the
ticks. Between an event and the book (module `OrderBook`) stand the manager's
refusals: `gate_`, for a symbol that is stale (`BookAfter`), and `validatePrice_`
and `validateSize_`, for a price that is not positive or lies between two ticks
(`Applied`), while the adapter tracks the order all the same. The tick size is the
default until a stock directory message sets the symbol's; resting orders keep the
tick numbers they have. `ItchFeed` composes the two with a venue: a set of live orders that are
added, executed, cancelled, deleted and replaced under fresh references, at prices
of which some are off the directory's tick, and with a directory that may be sent
again at any time. The manager is shared with the FeedServer, one of whose control
lines resets a symbol (`Reset`). A
message is heard in the step in which the venue sends it if the client is
reading, and is lost otherwise. The adapter's table survives a reconnection, as
in the code.

### IoContext, FeedServer, WebSocketServer, Shutdown

`IoContext` is the one thread that runs both servers' handlers, and the position
inside a handler that takes several steps. `onAccept` of each server is cut at its
test of `accepting_`, its test of the cap and its insertion, because a signal's
`stop()` can run in between on another thread. In `FeedServer` a producer's
stream is a sequence of lines with their lengths; a read delivers any part of it
and the framing loop extracts what is complete. A session that is closed while the
handler of a completed read is queued still runs that handler (`queued`). `Shutdown` composes the servers
with `main`: boot registers steps and starts servers line by line, `registerStep`
is two steps (the test, and the push under the lock), and a signal runs `stop()`
either on the main thread, which is suspended meanwhile, or on another one. The
steps that stop the servers are cut at each effect. Steps of other parts only
run, and a step that throws ends like one that returns. Neither thread is sure to
come back from what it calls: `stop()` may sleep in `drain()` (finding 1), or, called
by a signal handler, for a lock the interrupted main thread holds (`StopSleeps`); a
handler may wait for its session's own lock (finding 2) or for the feed client's peer
(`HandlerWaits`), and only the peer may end its wait (`WaitEnds`). `ioc.run()` ends when it
is stopped or out of work, or by the exception of a handler (`RunThrows`), and
`main` then calls `stop()` itself.

## 3. Runs

| run | configuration | shows |
|---|---|---|
| `pool` | 2 workers, 2 clients, 2 tasks, 2 drain/shutdown/destructor calls, 1 spurious wake-up | `TypeOK`, `EachTaskOnce`, `InFlightExact`, `DrainWaitsForEarlierTasks`, `NothingStranded`; under fairness `TasksFinish`, `StopCompletes` |
| `pool_drain` | 1 worker, 1 client, 1 task, 1 call | **violation** of `DrainReturns` |
| `dispatcher` | 5 listeners (one comes and goes), 2 ticks of 3 kinds on 2 symbols, 2 workers, every cap small enough to be hit, indicators on | `TableExact`, `AtMostOncePerTick`, `StoreNotOlderThanDelivery`, `WithinCaps`, `StoppedStaysSilent`; under fairness `PostedIsDelivered` |
| `order_book` | 2 ids, 2 prices, 2 sizes, synthetic ids, at most 2 orders added one by one (3 by snapshot); keys for 3 levels and 3 prices, one of seven digits | `LadderAndIndexAgree`, `QueriesMatchOrders`, `ProviderServesOrders`, `SyntheticIsFresh`, refinement `ImplementsQueues` |
| `order_book_profile` | the same | **violation** of `ProfileServed` |
| `manager` | 3 feed calls of every kind, 1 reader, sequence numbers to 3 | `NoHiddenGap`, `SnapshotPlusDeltas` |
| `session` | 2 keys, limit 1, outbox 2, 3 client messages, 2 updates | `WriteBufferStable`, `FifoDelivery`, `AckBeforeUpdate`, `TableMatchesActive`; under fairness `OutboxDrains` |
| `session_full` | outbox 1, 3 messages | **violation** of `CloseCompletes` |
| `feed_client` | with and without TLS, 3 faults, production back-off limit | `OneChain`; under fairness `LossIsRetried`, `StopQuiets` |
| `itch` | 1 symbol, 2 references, 2 prices, one of them off the directory's tick, 1 fault, 1 lost message, 1 trade message, resets | `TrackingExact`, `BookWithinTracking`, `ShortByVolumeAtMost` |
| `chain` | 8 pipelines, 2 workers, 3 values, 1 exception | `ExactlyOnce`, `OneChildPerSymbol`, `SilentOnceDropped`; under fairness `EveryValueSettles` |
| `shutdown` | 2 producers, 1 client, both caps 1, a signal | `RegistryExact`, `FramingExact`, `StepsComplete`, `StopReachesAll`; under fairness `SignalEnds` |

Each property of a passing run has a mutant in `PROJECT.json`: a definition of
the model replaced by one with a plausible defect (`\* Defect:` in the modules)
that makes TLC violate the property. The defective operators are used nowhere
else. Every module also has a type invariant (`TypeOK`, `FeedTypeOK`,
`WsTypeOK`, `BookTypeOK`), the base of the proofs; the pool's is part of its run.

### Bounds, and why they are enough

* *Pool.* Two workers are needed for two closures in flight; two clients for a
  drain that races a post or a shutdown; two tasks for order and for a task that
  posts another. More of each repeats these roles. The proofs do not depend on
  these sizes.
* *Dispatcher.* Two ticks are the least for "twice", "newer" and for an
  indicator, which needs a second price. Listeners are bound to a name that both
  the computer and the raw path know (`lastPrice`, two of them, so that a tick
  pushes it to the history twice and `MaxHistory = 2` is reached), to a
  FunctionMap builtin (`mean`), to an indicator (`sma`) and to a plain member
  (`qty`), which competes with `lastPrice` for the one field a symbol may have.
  The three kinds of tick are: all members numeric, `lastPrice` not a number,
  and a second symbol that the caps (`MaxSymbols`, `MaxStreamKeys`, both 1) can
  turn away. Six fields meet `MaxFieldsPerStreamKey = 5`.
* *Order book.* Three orders on a level appear through the snapshots, so fills
  that stop in the middle of a queue occur; quantities of 0, 2 and 3 give
  nothing, exact, partial and too much. Level numbers and prices go one beyond
  what a ladder of two prices has, and the Provider's default depth is 1, so that
  keys fall within and beyond it. The third price has seven digits and is one that
  no key can carry.
* *Manager.* A reader copies in four steps; three feed calls fall before,
  between and after them in every way. `MaxListed = 2` orders are enough for both
  sides or two levels of a side. `onUpdate` with a new size of 0 is left to
  `order_book`.
* *Session.* `MaxOutbox = 2` is the smallest with a message in flight and one
  waiting; the production values (`MAX_OUTBOX_SIZE`, `MAX_SUBSCRIPTIONS`) only
  move the limit. Three messages allow subscribe, replace or overflow, cancel.
* *Feed client.* Three faults allow a loss, a loss of the new connection, and a
  failed attempt after it. The state is otherwise finite as it is.
* *ITCH.* Two references and two prices give two orders on one level, which a
  trade can take from in place of the executed one, and a replacement. The default
  tick is 1 and the directory's 2, so that price 1 is taken before the directory is
  heard and refused after it, and an order added at price 2 before it rests at tick 2,
  one added after it at tick 1. One lost
  message is enough to make the adapter's table and the venue differ in either
  direction.
* *Chain.* The pipelines cover every kind of node, each with its cap reached, an
  Aggregate of arity 1 and 2 before a GroupSplit, a window after a head and
  after an Aggregate, and both sources. Three values and two workers make a
  full batch meet a second one, and two workers meet in GroupSplit.
* *Shutdown.* Two producers for one place make the cap refuse; one stream has a
  line longer than `MAX_PENDING`, and reads of up to two units cut lines and
  join them; the other sends nothing, and has a place in the registry to take.
  One client is enough: the clients do not interact but for the cap,
  which one registered client fills.

Runs say `CHECK_DEADLOCK FALSE` where the system may legitimately stop (a
destroyed pool, a closed session, a returned main, an exhausted bound).
`order_book` never stops and checks deadlock.

### Fairness

Weak fairness, and only for what the code drives itself:

* a worker or a client inside a pool call keeps running when it can, and every
  closure ends; nobody has to call anything, and `Spurious` is never fair;
* the Dispatcher's workers take closures and end them. `PostedIsDelivered` is about
  what was posted, so `onTick` itself need not go on;
* the io thread serves its strand and finishes a handler; an outstanding
  write ends and a begun close ends, because `run()` sets handshake and idle
  timeouts of 30 s, which end a silent stream's operations. Clients owe nothing;
* the feed client's strand runs what was posted and what has completed; a
  resolve ends, and connecting and the TLS handshake have deadlines of 30 s. Its
  WebSocket handshake and its `close()` have none (`expires_never`), so they are not
  fair: `StopQuiets` excepts the handshake, and a time in which the io thread is in
  `close()`;
* a chain's workers run on, and so do the timer threads of its windows: nothing
  ends them. Sources and listeners need not produce anything;
* the main thread and the thread that runs `stop()` are scheduled and go on unless
  they wait: `StopSleeps`, `HandlerWaits` and `WaitEnds` are not fair. Peers and
  signals owe nothing. `SignalEnds` therefore says that `main` returns or that it
  hangs for good.

## 4. What the runs found

Findings in `PROJECT.json`, each with the quoted line:

1. **A lost wake-up in `ThreadPool::drain()`** (`pool_drain`). The worker lowers
   `inFlight_` and calls `idleCv_.notify_all()` without `mx_`; both can fall
   between `drain()`'s test and its wait. `drain()` then sleeps although the
   pool is idle, and with it `shutdown()` and the drain step of `main`. It is
   woken only if another closure happens to end later.
2. **A self-deadlock of the io thread** (`session_full`). "max subscriptions
   reached" is sent with `reqMu_` held; with a full outbox `sendText()` closes
   the session inline and `close()` locks `reqMu_` again.
3. **Documented `ob.*` keys that read as NaN** (`order_book_profile`).
   `docs/atomic-keys.md:189-203` and `ObKeysCatalog.hpp:9-17` list best, mid, vwap and
   meta keys, and line 27 of the former says they are always present once the book has
   any state; the Provider knows four forms of key and answers NaN to these.
   `ProviderServesOrders` shows that the forms it does know are served rightly.

Observations made while modelling. The models contain these behaviours, and the
properties are stated so as to be true of them:

* *Two deliveries per tick with indicators off.* With `taEnabled = false` the
  computer announces `lastPrice` and `volume`, taking itself for the only source
  (`MarketTA.cpp:389-391`), but `onTick` delivers the same members.
  `AtMostOncePerTick` is checked with indicators on.
* *A depth snapshot is not of one moment* (`DepthTypes.hpp:25`): bids and asks
  are copied under two locks. `SnapshotPlusDeltas` shows that a client that
  applies the later deltas still converges.
* *`BookDelta::bid/ask` is not "present iff changed"* (`DepthTypes.hpp:21`): a
  side that becomes empty is not reported, a snapshot's delta reports a top that
  did not change.
* *Timers outlive their request.* Cancel and close reach the head listener only;
  an `Interval`, `BucketTime` or `TumblingWindow` thread holds its node and with it
  the rest of the chain (`docs/ARCHITECTURE.md:271` says the chain is
  terminated). The same holds for the timers of a build that failed half-way.
  `SilentOnceDropped` is therefore about chains without a timer.
* *Requests are installed in a closed session.* The loop of `handleSubscribe`
  does not test `open_`; requests after one whose acknowledgement overflowed the
  outbox leave listeners in the Dispatcher's table. `TableMatchesActive` is
  stated for open sessions.
* *The listeners of an Aggregate's inputs are never unregistered.* They are
  harmless, as `SilentOnceDropped` shows, but they stay in the table.
* *Reconnection ends at the first failed attempt.* `WsFeedClient.hpp:34` says
  "Auto-reconnects with exponential backoff on disconnection"; a loss under the
  read loop is retried, but a resolve, connect or handshake that fails ends in
  `fail()`, which schedules nothing. `LossIsRetried` promises one attempt.
* *Executed shares leave the book twice,* once by the reduction of the order and
  once by the trade, which may take them from another order of the level.
  `ShortByVolumeAtMost` bounds the damage.
* *Metrics with gaps.* Range keys with min, max or count are parsed, but evaluate to
  the sum or to 0 (they are left out of `ObKeys`); the Provider's imbalance goes only
  as deep as the shorter side; a price that is not printed in full cannot be named.
* *Tracked, but not in the book.* An order whose price is off the tick size in force, or
  whose symbol is stale, is refused by the manager and stays in the adapter's table.
  `BookWithinTracking` and `ShortByVolumeAtMost` are about symbols that are not stale
  and, where they promise that an order rests, about prices no tick size refuses. An
  order that rested before the directory changed the tick size keeps its tick number,
  and a trade at its price is then looked for at another level.
* *A signal during boot,* before the `asio-stop` step is registered, runs the steps
  there are, and `main` then enters an `io_context` that nobody stops; `SignalEnds` starts
  where that step exists. A signal on another thread does not hold `main` back:
  it may return while `stop()` is still running its last steps.
* *`main` may hang.* If `stop()` runs on the main thread, finding 1 or a lock taken
  before the signal can keep it from returning; on whichever thread it runs, an io thread
  that waits in a handler (finding 2, or the feed client's `close()` to a silent peer)
  does. These are all the cases `SignalEnds` allows. That `drain()` sleeps on another thread does not:
  `asio-stop` comes before it.

## 5. Proofs

TLAPS checks the theorems below for every value of the constants that meets the
named assumptions; TLC evaluates those assumptions in the run of the module. The
proof modules are `ThreadPoolProofs`, `DispatcherProofs`, `ClientSessionProofs`,
`ShutdownProofs`, `ItchFeedProofs`, `OrderBookProofs`, `ChainProofs`, and
`InductionLemmas`, which they share. The bounds of the runs (ticks, messages,
faults, calls) are constants like the others, so no theorem depends on their size.

| theorem | states | assumes | inductive invariant |
|---|---|---|---|
| `PoolTypeOK`, `PoolEachTaskOnce`, `PoolInFlightExact`, `PoolDrainWaits`, `PoolNothingStranded` | `[]` of the pool's five invariants | `PoolAssumption`: finitely many workers, at least one; workers and clients apart | `Inv` |
| `DispatcherTypeTheorem`, `TableExactTheorem`, `SilentTheorem` | `[]TypeOK`, `[]TableExact`, `StoppedStaysSilent` | `DispatcherAssumption`: finitely many listeners, names listed once, a member of an event is numeric or not | `TypeInv`, `TableInv` |
| `AtMostOnceTheorem` | `[]AtMostOncePerTick` | the same and `SkipCovers` | `OnceInv` |
| `CapsTheorem` | `[]WithinCaps` | the same, `StoreCaps` and `HistoryCaps`: limits are numbers, those of the histories at least 1 | `CapInv` |
| `StoreFreshTheorem` | `[]StoreNotOlderThanDelivery` | the same and `PriceIsResult` | `PriceInv` |
| `WriteBufferTheorem`, `FifoTheorem`, `TableTheorem`, `AckTheorem`, `TypeTheorem` | `[]WriteBufferStable`, `[]FifoDelivery`, `[]TableMatchesActive`, `[]AckBeforeUpdate`, `[]TypeOK` | `SessionAssumption`: limits of at least 1, well-formed messages | `QueueInv`, `TableInv`, `AckInv` |
| `StopTheorem`, `RegistryTheorem`, `StopReachesAllTheorem` | `[]StepsComplete`, `[]RegistryExact`, `[]StopReachesAll` | `FeedServerAssumption`, `WsAssumption`: caps of at least 1 | `CoInv`, `FeedInv`, `WsInv` |
| `FramingTheorem` | `[]FramingExact` | `FeedServerAssumption`: lines are not empty (the newline counts), `MAX_PENDING >= MAX_LINE_SIZE +` one read | `Framed` |
| `ChainTheorem`, `FeedChainTheorem` | `[]OneChain`, of the client alone and in `ItchFeed` | `ClientAssumption` | `PostedOnce`, `AtMostOne` and the shapes |
| `TrackingTheorem` | `[]TrackingExact` | `FeedAssumption`: references are not 0 | `Mirrored`, `VenueShapes` |
| `BookWithinTheorem`, `ShortByVolumeTheorem` | `[]BookWithinTracking`, `[]ShortByVolumeAtMost` | `FeedAssumption`, `BookAssumption`, `AdapterAssumption`: the feed's scope is one of the book's, tick sizes are positive, and a price that is taken is one of the book's in ticks | `TrackInv`, the second with `TrackingExact` |
| `LadderTheorem`, `BookTypeTheorem`, `ManagedLadderTheorem` | `[]LadderAndIndexAgree` and `[]BookTypeOK` of a book alone, the first also under the manager | `BookAssumption`, `SnapshotAssumption` | `BookOK` |
| `FreshTheorem` | `SyntheticIsFresh` | the same and `VenueSnapshots` | `BookOK` with `SynthBelow` |
| `ImplementsQueuesTheorem` | `BookSpec => ImplementsQueues`, the refinement | `BookAssumption`, `SnapshotAssumption` | `BookOK` with `KeysGiven` |
| `NoHiddenGapTheorem` | `[]NoHiddenGap` | `ManagerBounds` | `Accepted` |
| `SnapshotPlusDeltasTheorem` | `[]SnapshotPlusDeltas` | the book's and `WholeDepth`: integer prices, finitely many, and a copy of at least as many levels | `BookOK` with `Replays` |
| `OneChildTheorem`, `SilentTheorem` (`ChainProofs`) | `[]OneChildPerSymbol`, `SilentOnceDropped` | none | `ChildrenKept`, `IdleHoldsNothing` |
| `ChainTypeTheorem`, `ExactlyOnceTheorem` | `[]TypeOK` of a chain, `[]ExactlyOnce` | `ChainAssumption`: pipelines are lists of stages with an arity and a cap of at least 1 | `Shape`, `Tracked` |

### Why the invariants are what they are

*Pool.* `Inv` is the five properties with four more facts. `LockHeld`: a client
holds `mx_` exactly while it is between *lock* and *block*; without it a worker
could pop between `drain()`'s test and its return. `RunHoldsTask`: a running
worker holds a real task, so `fn` is injective on the busy workers.
`ExitedMeansEmpty`: a worker exits only after `stopping_` with an empty queue,
and from then on `post()` refuses; with it `NothingStranded` follows.
`BeforeAccepted`: what a drain has to wait for was accepted. When the predicate
holds the queue is empty and `inFlight = 0`, so by `InFlightExact` nobody is
busy, by `EachTaskOnce` `accepted = done`, hence `before \subseteq done`.

*Dispatcher.* `TableInv` adds to the types where a listener can be (`Registered`):
it is in the table once, under its own key, while `lstate` is live or stopping. Silence
needs no more than that `stopping_` is never reset and that only a closure past
the test delivers. "At most once" is about everything on the way: what `onTick`
still holds in `notifyKeys` and `todo` (`InHand`), what it has not yet reached
(`NotYet`), and that over queue, slots and `received` a listener and a tick occur
once (`OnceEverywhere`). It is true only if no name is announced by both paths,
which is the hypothesis `SkipCovers`: indicators are on and every indicator that an
event also carries as a member is in `_skipFields`. The `dispatcher` run's
constants meet it; with indicators off the code violates it (section 4).
`CapInv` gives the store and the histories their shape, functions of finitely many
keys within the caps, since a recursive loop over a batch can be reasoned about only
inside a set. `StoreNotOlderThanDelivery` looks at what was received; `PriceInv`
looks at everything on the way, as `OnceInv` does. What travels is `Covered`:
`lastPrice` holds that tick or a later one, or there is no room for the name, and
since nothing is ever evicted (`Later`) there will be none. The hypothesis
`PriceIsResult` says that `lastPrice` is computed from the first tick on, as both paths of
`MarketTickComputer` do, and that no builtin bears the name of a price field: a
listener on such a name would be woken by a builtin of a tick without a price.

*Session.* Three layers, each resting on the one before: `QueueInv` (one write, its
buffer in front; `accepted = sent \o outbox` until a close drops the outbox),
`TableInv` (a registered head is active or in the hands of the subscribe
handler), `AckInv` (a chain whose updates can be queued was acknowledged, because the
strand is held from `Build` to `Install`). Every handler that sends goes through
`SendText`, so each layer has one lemma about it and the handlers supply its
hypotheses.

*Shutdown.* `CoInv`: `plan` is the sorted copy of what was registered and `ran` its
beginning, and where `main` is bounds what it can hold. That `std::stable_sort`
yields an ascending list with nothing missing is `SortedSteps`: the places of the
steps are an injection of a finite set into itself, hence onto it. `FeedInv` and
`WsInv` say who is being accepted at each position of the io thread, what the
registries hold meanwhile, and who can still be inserted after the stop. A queued
read belongs to a closed session (`QueuedClosed`), so that its handler changes no
registry.

*Framing.* `Framed` is `FramingExact` with its types. `EndOfFacts` derives the
positions at which lines end from their recursive definition, `WithinCount` that
the number of lines within `n` units is the one `m` with `end[m] <= n < end[m+1]`.
Then a read extracts exactly the lines between two such numbers, and `pending_`
exceeds `MAX_PENDING` only behind the start of a line longer than `MAX_LINE_SIZE`,
because one read adds at most `BufSize`.

*Feed client and adapter.* That nothing is pending when the closure of `start()`
runs needs that closure to be posted once, ahead of any other (`PostedOnce`).
`TrackingExact` needs the adapter's directory to be the venue's (`Mirrored`), since
an order without a symbol is tracked only if its locate is known, and sizes that
are whole shares (`VenueShapes`), since both sides tell a full from a partial
reduction by comparing them.

*Books within tracking.* `BookWithinTracking` must hold whatever was lost, so it
cannot lean on `Mirrored`. `TrackInv` says of the table and the books alone: each
book is `BookOK`, and unless its symbol is stale each order in it is what is left of
the order tracked under its id (`Within`) and the shares it is short of, of the orders at
prices no tick size refuses, are at most its symbol's volume (`Lack`); and
the references still unused are in neither, for the order of a reference that came twice would replace
another's. The books are looked at as sets of resting orders (`Held`), on
which a delete, an add, a resize and a trade are set operations, derived from the
list lemmas of `OrderBookProofs` (`GoneAt`, `JoinedAt`, `ResizedAt`, `Cuts`), which
`ItchFeedProofs` extends. Then one lemma per router (`HeardAdd`, `HeardDelete`,
`HeardCancel`, `HeardExecuted`, `HeardReplace`, `HeardTrade`): the events a message
turns into, applied in order (`EventsInOrder`), take the book of its symbol where the
table went, and leave the others. A refused add is in the table only
(`RefusedTracks`), and the prices it can have are in neither sum; a stale book stays as
it is, and nothing is claimed of it.

*Short by volume.* `Owed` is what each tracked order has more than the book, `Lack`
their sum over the orders of a symbol at prices no tick size refuses. A delete, an add, a replacement and a resize
compare `Owed` order by order, before and after (`LackLess`). A trade takes from each
order of one level what the loop fills, in all at most the trade's quantity
(`FillTakes`, `TradeTakes`), which is what its tick adds to the volume. So
`Lack <= volume` is inductive whatever was lost, and both invariants follow: with
volume 0 a sum of naturals is 0 only if each of them is, so the book is complete; and
the shares tracked at these prices are the shares resting plus `Lack` (`SharesAre`), so without
loss, where `TrackingExact` puts the venue's orders for the tracked ones, the
difference is between 0 and the volume.

*Book.* `BookOK` is a book whose parts have their types (`IsBook`), whose levels
are not empty, have distinct keys, natural sizes and exact totals (`LaddersOK`) and
whose index is, per level, the set of its keys (`Indexed`). With natural sizes
and exact totals the guarded subtractions of the code never reach their guard. Each public
member takes a `BookOK` book to one, from lemmas on appending to, replacing in
and erasing from a level, on `SizeSum`, and, for snapshots, an induction over the
list of orders. A synthetic id is new because the counter of its scope is ahead of
every synthetic id in the index (`SynthBelow`). A snapshot could break that by
bringing a synthetic key of its own; only `nextSyntheticId`'s callers mark a key
so, hence the hypothesis `VenueSnapshots`, which the `order_book` run's snapshots
meet. `NoHiddenGap` alone leaves open what was accepted before the
first number; `Accepted` says nothing was.

*Order book refinement.* Member by member: what it does to each list (`ListAt`),
then to the queues the lists stand for. A delete, an add, a priority change and a
change of price all come down to "gone from where it was, appended where it goes"
(`JoinedAt`), a resize to one entry replaced (`ResizedAt`). A trade takes the most:
`Cuts` says that the orders it fills are the first `m` of the list and that at most the
next one is reduced, which holds because the sums of sizes grow along the list
(`SumsGrow`). A snapshot is an induction over its orders. The keys of the index
must be ones `AbstractBook` knows (`KeysGiven`).

*Depth copies.* `SnapshotPlusDeltas` speaks of a reader that is done, with no delta
pending. `Replays` follows the reader from the moment it has its number: each level
is about to be published with its present size, or the last delta to mention it says
its present size, or none mentions it and the copy has it or will have it (`Tells`).
A mutator keeps that because it changes the sizes of the levels it probes and of no
other (`DeleteSizes`, `AddSizes`, `UpdateSizes`, `PrioritySizes`, `TradeSizes`); a copy
supplies it because every level has a rank of its own (`RankOnto`), so that the first
`TopN` entries are the whole ladder. Without `WholeDepth` it is false: a level
below the last one copied is in no delta until it changes.

*Chain.* `ChildrenKept`: a child that was made is still in `mem`, because no step
removes a symbol. `IdleHoldsNothing`: a worker without calls entered by no node, so
that once the calls have drained the only thing that reaches a stage is a timer.
`Shape` has the types and that a call goes to a stage of the kind its port belongs to, so that
each handler meets the memory it expects. `Tracked` is what makes `ExactlyOnce`
inductive: the places are six families (the queue, the stacks, what waits in buffers and
buckets, what a window has taken and not posted, what was sent, what was refused); a value
produced is once in one family and absent from the others, a value not yet produced is absent
from all. Every step moves ids between two families, and lemmas say what
appending, concatenating, flattening and taking away do to "once" and "absent".

*Induction.* The library's induction theorems take an operator, which the provers
cannot instantiate. `InductionLemmas` states induction for a *set* of naturals
(`NatInduct`, `UpTo`), from the well-foundedness of `<`, and the existence of a
recursive function for a *function* as its step (`Recursion`). They give what
`FlattenSeq`, `SizeSum`, `EndOf`, a batch written to the store, the snapshot's
loop and a replay of deltas compute. Over the subsets of a finite set the same
(`SetInduct`, `SumsOverSets`) gives what `SumFunctionOnSet` computes: any member may be
taken first (`SumTakes`), sums are compared member by member along an injection
(`SumCovered`) and added (`SumPlus`).

To be proved about, a few operators are written with functions and folds of the
community modules in place of recursion: the stable sort is `Sorted`, each step
at its `Place`; the loops of the Dispatcher that skip entries are `Without`, a
`FlattenSeq`; `SizeSum`, `EndOf`, `PutFields`, `StoreBuiltins`, `HandleMessage` and the snapshot are
recursive functions, and the shares of `ItchFeed` are a `SumFunctionOnSet`.

### Only model-checked

* All liveness properties (`TasksFinish`, `StopCompletes`, `PostedIsDelivered`,
  `OutboxDrains`, `LossIsRetried`, `StopQuiets`, `EveryValueSettles`,
  `SignalEnds`): liveness under fairness is out of the prover's reach.
* `QueriesMatchOrders` and `ProviderServesOrders`: they compare every query of the
  book, and every key of the Provider, with a reference that adds up over sets of
  orders. `LadderTheorem` gives the ladder and the running totals they are read from;
  the sums over ranges of levels, and the selection of levels by rank, are left to TLC.
* The type invariants of `WsFeedClient` (its back-off is `2^k`, which the provers
  do not know), `OrderBookManager`, `ItchFeed` and of both servers; what
  the proofs need of them is part of their invariants.

## 6. Plan

Every module of the plan is written, and the refinement and every safety invariant
but two are proved. Those two compare the queries with their reference (see above).

## 7. What is not modelled, and why

* Numerical results of the indicators and of `BuiltinFunctions`: floating point
  over unbounded histories. Which keys are produced, stored and announced is
  modelled; their values are not. Prices become ticks of a size that a directory message
  may change in `ItchAdapter`; in the other book modules a price is a tick number.
  A price whose tick number exceeds 64 bits, which the code turns into 0, is left out.
* The `dispatcher` run has the indicators on; with them off (`TaEnabled = FALSE`) the
  modules say what happens, and only the theorems that do not assume `SkipCovers` cover it.
* Depth copies whose two sides are of different moments, as far as the metrics go: a
  spread or an imbalance read across a change belongs to no state of the book.
* Two feeds that name the same symbols, but for a reset: every feed uses the one
  `FeedScope{}`, so they would share order ids in the shared book.
* Texts: JSON parsing and formatting (`JsonValidator`, the adapters' field
  look-ups), logging, metrics, configuration parsing. A request is valid, invalid
  or unbuildable; a feed line has a kind and is well-formed or not.
* `shutdown()` of the nodes inside a chain, which only tests and the older
  WebSocket path call. (By reading: those of the timed nodes set `stopping_` and
  notify without the mutex, so the notification can be lost and the join then
  lasts until the timer's period is over.)
* Boost.Asio, Beast and TLS: external, present as completions that may succeed
  or fail. `ShutdownCoordinator::stop()` runs inside a signal handler and may meet a
  mutex its own thread holds: that is `StopSleeps`, but otherwise the handler's steps
  interleave with the interrupted thread only between the model's actions.
* Orders of delivery: two ticks of one listener may be delivered in either order
  by a pool with several workers. The models contain these behaviours; the code
  promises no order, so no property is stated.
* `OrderBookManager`'s venue-key resolver and subscriber map, which no production
  path uses, and `RequestRegistry`, `SPSCQueue`, `ClientConnection`,
  `WSResponder` and `WsBridge`, which `main` does not start.
* `ConnectorsClient` (an HTTP request at start-up) and the synthetic connector.
